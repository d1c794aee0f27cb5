------------------------- MODULE RoleRegistryProofs -------------------------
(***************************************************************************)
(* What the registry of roles keeps for any number of requests, names and  *)
(* restarts, and what a search of it finds for any texts.                  *)
(***************************************************************************)
EXTENDS RoleSearch, Integers, SequenceTheorems, WellFoundedInduction, TLAPS

\* The UNIQUE of the schema.
Distinct == \A id, other \in DOMAIN roles : roles[id] = roles[other] => id = other

\* Where the rows that open inserts come from.
LEMMA OpenedRows ==
  ASSUME TypeOK, Open
  PROVE  /\ seq' \in Nat
         /\ DOMAIN roles' \subseteq 1..seq'
         /\ roles' \in [DOMAIN roles' -> Names]
         /\ \A id \in DOMAIN roles : id \in DOMAIN roles' /\ roles'[id] = roles[id]
         /\ \A id \in DOMAIN roles' \ DOMAIN roles : id > seq
         /\ Taken' = Taken \cup Range(Seeds)
         /\ Distinct => Distinct'
<1> DEFINE n == Len(Seeds)
           missing == {i \in 1..n : Seeds[i] \notin Taken}
           drawn == {seq + i : i \in missing}
<1>1. Seeds \in [1..n -> Names] /\ n \in Nat /\ DOMAIN Seeds = 1..n
  BY RegistryAssumption
<1>2. seq \in Nat /\ DOMAIN roles \subseteq 1..seq /\ roles \in [DOMAIN roles -> Names]
  BY DEF TypeOK
<1>3. \A i \in missing : seq + i \in Nat /\ seq + i > seq /\ seq + i <= seq + n
  BY <1>1, <1>2
<1>4. seq' = seq + n /\ seq' \in Nat
  BY <1>1, <1>2 DEF Open
<1>5. roles' = [id \in DOMAIN roles \cup drawn |->
                  IF id \in DOMAIN roles THEN roles[id] ELSE Seeds[id - seq]]
  BY <1>1 DEF Open
<1>6. DOMAIN roles' = DOMAIN roles \cup drawn
  BY <1>5
<1>7. \A id \in DOMAIN roles : roles'[id] = roles[id]
  BY <1>5
<1>8. \A i \in missing : /\ seq + i \notin DOMAIN roles
                         /\ seq + i \in DOMAIN roles'
                         /\ roles'[seq + i] = Seeds[i]
  <2> SUFFICES ASSUME NEW i \in missing
               PROVE  /\ seq + i \notin DOMAIN roles
                      /\ seq + i \in DOMAIN roles'
                      /\ roles'[seq + i] = Seeds[i]
    OBVIOUS
  <2>1. seq + i \notin DOMAIN roles
    BY <1>2, <1>3
  <2>2. seq + i \in drawn
    OBVIOUS
  <2>3. (seq + i) - seq = i
    BY <1>1, <1>2
  <2>4. QED
    BY <1>5, <1>6, <2>1, <2>2, <2>3
<1>9. \A id \in DOMAIN roles' \ DOMAIN roles : \E i \in missing : id = seq + i
  BY <1>6
<1>10. DOMAIN roles' \subseteq 1..seq'
  BY <1>1, <1>2, <1>3, <1>4, <1>6
<1>11. \A id \in DOMAIN roles' : roles'[id] \in Names
  BY <1>1, <1>2, <1>7, <1>8, <1>9
<1>12. Taken' = Taken \cup Range(Seeds)
  <2>1. \A name \in Taken : name \in Taken'
    BY <1>6, <1>7 DEF Taken, Range
  <2>2. \A i \in 1..n : Seeds[i] \in Taken'
    BY <1>8, <2>1 DEF Taken, Range
  <2>3. \A id \in DOMAIN roles' : roles'[id] \in Taken \cup Range(Seeds)
    BY <1>1, <1>7, <1>8, <1>9 DEF Taken, Range
  <2>4. QED
    BY <1>1, <2>1, <2>2, <2>3 DEF Taken, Range
<1>13. roles' \in [DOMAIN roles' -> Names]
  BY <1>5, <1>6, <1>11
<1>14. \A id \in DOMAIN roles' \ DOMAIN roles : id > seq
  BY <1>3, <1>9
<1>15. ASSUME Distinct PROVE Distinct'
  <2>1. \A i \in missing : Seeds[i] \notin {roles[id] : id \in DOMAIN roles}
    BY DEF Taken, Range
  <2>2. \A i, j \in 1..n : Seeds[i] = Seeds[j] => i = j
    BY <1>1, RegistryAssumption DEF IsInjective
  <2>3. ASSUME NEW i \in missing, NEW j \in missing, Seeds[i] = Seeds[j] PROVE seq + i = seq + j
    BY <2>2, <2>3
  <2>4. SUFFICES ASSUME NEW id \in DOMAIN roles', NEW other \in DOMAIN roles',
                        roles'[id] = roles'[other]
                 PROVE  id = other
    BY DEF Distinct
  <2>5. CASE id \in DOMAIN roles /\ other \in DOMAIN roles
    BY <1>7, <1>15, <2>4, <2>5 DEF Distinct
  <2>6. CASE id \in DOMAIN roles /\ other \notin DOMAIN roles
    BY <1>7, <1>8, <1>9, <2>1, <2>4, <2>6
  <2>7. CASE id \notin DOMAIN roles /\ other \in DOMAIN roles
    BY <1>7, <1>8, <1>9, <2>1, <2>4, <2>7
  <2>8. CASE id \notin DOMAIN roles /\ other \notin DOMAIN roles
    BY <1>8, <1>9, <2>3, <2>4, <2>8
  <2>9. QED
    BY <2>5, <2>6, <2>7, <2>8
<1>16. QED
  BY <1>4, <1>6, <1>7, <1>10, <1>12, <1>13, <1>14, <1>15

\* What an INSERT does to the table.
LEMMA InsertedRow ==
  ASSUME TypeOK, NEW name \in Names, Insert(name)
  PROVE  /\ name \notin Taken
         /\ seq' = seq + 1
         /\ DOMAIN roles' = DOMAIN roles \cup {seq + 1}
         /\ \A id \in DOMAIN roles : roles'[id] = roles[id]
         /\ roles' \in [DOMAIN roles' -> Names]
         /\ Taken' = Taken \cup {name}
         /\ Distinct => Distinct'
<1> USE DEF TypeOK
<1>1. /\ name \notin Taken
      /\ seq' = seq + 1
      /\ roles' = [id \in DOMAIN roles \cup {seq + 1} |-> IF id = seq + 1 THEN name ELSE roles[id]]
  BY DEF Insert
<1>2. seq + 1 \notin DOMAIN roles
  OBVIOUS
<1>3. Taken' = Taken \cup {name}
  BY <1>1, <1>2 DEF Taken, Range
<1>4. Distinct => Distinct'
  BY <1>1, <1>2 DEF Distinct, Taken, Range
<1>5. QED
  BY <1>1, <1>2, <1>3, <1>4

\* What the rest of the port does to the names.
LEMMA RenamedRow ==
  ASSUME TypeOK, Distinct, NEW id \in DOMAIN roles, NEW n \in Names, Rename(id, n)
  PROVE  Distinct' /\ Taken' = (Taken \ {roles[id]}) \cup {n}
<1>1. /\ n \notin {roles[other] : other \in DOMAIN roles}
      /\ roles' = [roles EXCEPT ![id] = n]
      /\ roles \in [DOMAIN roles -> Names]
  BY DEF Rename, TypeOK, Taken, Range
<1>2. /\ DOMAIN roles' = DOMAIN roles /\ roles'[id] = n
      /\ \A other \in DOMAIN roles \ {id} : roles'[other] = roles[other]
  BY <1>1
<1>3. Distinct'
  BY <1>1, <1>2 DEF Distinct
<1>4. \A other \in DOMAIN roles \ {id} : roles[other] # roles[id]
  BY DEF Distinct
<1>5. QED
  BY <1>1, <1>2, <1>3, <1>4 DEF Taken, Range

LEMMA DeletedRow ==
  ASSUME TypeOK, Distinct, NEW id \in DOMAIN roles, Delete(id)
  PROVE  Distinct' /\ Taken' = Taken \ {roles[id]}
<1>1. /\ DOMAIN roles' = DOMAIN roles \ {id}
      /\ \A other \in DOMAIN roles \ {id} : roles'[other] = roles[other]
  BY DEF Delete
<1>2. \A other \in DOMAIN roles \ {id} : roles[other] # roles[id]
  BY DEF Distinct
<1>3. QED
  BY <1>1, <1>2 DEF Distinct, Taken, Range

LEMMA ValidatedNames ==
  \A input \in Inputs : ValidateRoleName(input) => Trimmed[input] \in Names
BY RegistryAssumption DEF ValidateRoleName

LEMMA RegistryTyped == TypeOK /\ [Next]_vars => TypeOK'
<1> SUFFICES ASSUME TypeOK, [Next]_vars PROVE TypeOK'
  OBVIOUS
<1> USE DEF TypeOK
<1>1. CASE Open
  BY <1>1, OpenedRows DEF Open
<1>2. CASE Crash
  BY <1>2 DEF Crash, table
<1>3. ASSUME NEW c \in Clients, NEW input \in Inputs, Request(c, input) PROVE TypeOK'
  <2>1. ValidateRoleName(input) => Trimmed[input] \in Names
    BY ValidatedNames
  <2>2. QED
    BY <1>3, <2>1 DEF Request, Go, table, Answers
<1>4. ASSUME NEW c \in Clients, Exists(c) PROVE TypeOK'
  BY <1>4 DEF Exists, Go, table, Answers
<1>5. ASSUME NEW c \in Clients, Save(c) PROVE TypeOK'
  <2>1. /\ at' \in [Clients -> {"idle", "exists", "save"} \cup Answers]
        /\ up' \in BOOLEAN /\ wanted' \in [Clients -> Names] /\ grants' \in [Names -> Nat]
    BY <1>5 DEF Save, Go, Answers
  <2>2. CASE Insert(wanted[c])
    BY <2>1, <2>2, InsertedRow
  <2>3. CASE UNCHANGED table
    BY <2>1, <2>3 DEF table
  <2>4. QED
    BY <1>5, <2>2, <2>3 DEF Save, table
<1>6. ASSUME NEW id \in DOMAIN roles, Delete(id) PROVE TypeOK'
  BY <1>6 DEF Delete
<1>7. ASSUME NEW id \in DOMAIN roles, NEW n \in Names, Rename(id, n) PROVE TypeOK'
  BY <1>7 DEF Rename
<1>8. CASE UNCHANGED vars
  BY <1>8 DEF vars
<1>9. QED
  BY <1>1, <1>2, <1>3, <1>4, <1>5, <1>6, <1>7, <1>8 DEF Next

\* The table, its sequence and the requests stay well formed; in particular
\* every id in the table is one the sequence has passed.
THEOREM RegistryTypeCorrect == Spec => []TypeOK
<1>1. Init => TypeOK
  <2> SUFFICES ASSUME Init PROVE TypeOK
    OBVIOUS
  <2>1. DOMAIN roles = {} /\ roles \in [{} -> Names]
    BY DEF Init
  <2>2. QED
    BY <2>1 DEF Init, TypeOK
<1>2. QED
  BY <1>1, RegistryTyped, PTL DEF Spec

---------------------------------------------------------------------------

\* No id is handed out twice, whatever is deleted, renamed or restarted.
THEOREM IdsAlwaysNew == Spec => IdsNeverReused
<1>1. TypeOK /\ [Next]_vars => \A id \in DOMAIN roles' \ DOMAIN roles : id > seq
  <2> SUFFICES ASSUME TypeOK, [Next]_vars, NEW new \in DOMAIN roles' \ DOMAIN roles
               PROVE  new > seq
    OBVIOUS
  <2>1. CASE Open
    BY <2>1, OpenedRows
  <2>2. ASSUME NEW c \in Clients, Save(c) PROVE new > seq
    <3>1. CASE Insert(wanted[c])
      BY <3>1, InsertedRow DEF TypeOK
    <3>2. CASE UNCHANGED table
      BY <3>2 DEF table
    <3>3. QED
      BY <2>2, <3>1, <3>2 DEF Save, table
  <2>3. CASE Crash \/ UNCHANGED vars
    BY <2>3 DEF Crash, table, vars
  <2>4. ASSUME NEW c \in Clients, Exists(c) \/ \E input \in Inputs : Request(c, input)
        PROVE  new > seq
    BY <2>4 DEF Exists, Request, table
  <2>5. ASSUME NEW id \in DOMAIN roles,
               Delete(id) \/ \E n \in Names : Rename(id, n)
        PROVE  new > seq
    BY <2>5 DEF Delete, Rename
  <2>6. QED
    BY <2>1, <2>2, <2>3, <2>4, <2>5 DEF Next
<1>2. QED
  BY <1>1, RegistryTypeCorrect, PTL DEF Spec, IdsNeverReused

---------------------------------------------------------------------------

\* The inductive invariant behind CreatedOnce and CreatedStays: a name was
\* granted at most once, only names in the table were, and no two roles have
\* one name.
Granted ==
  /\ \A n \in Names : grants[n] <= 1 /\ (grants[n] > 0 => n \in Taken)
  /\ Distinct

LEMMA GrantedInvariant == Spec => []Granted
<1>1. Init => Granted
  BY DEF Init, Granted, Distinct
<1>2. TypeOK /\ Granted /\ [Next]_vars => Granted'
  <2> SUFFICES ASSUME TypeOK, Granted, [Next]_vars PROVE Granted'
    OBVIOUS
  <2>1. CASE Open
    BY <2>1, OpenedRows DEF Open, Granted
  <2>2. ASSUME NEW c \in Clients, Save(c) PROVE Granted'
    <3>1. wanted[c] \in Names
      BY DEF TypeOK
    <3>2. CASE Insert(wanted[c])
      <4>1. Taken' = Taken \cup {wanted[c]} /\ Distinct'
        BY <3>1, <3>2, InsertedRow DEF Granted
      <4>2. grants[wanted[c]] = 0
        BY <3>1, <3>2, InsertedRow DEF Granted, TypeOK
      <4>3. grants' = grants \/ grants' = [grants EXCEPT ![wanted[c]] = @ + 1]
        BY <2>2 DEF Save
      <4>4. ASSUME NEW n \in Names
            PROVE  grants'[n] <= 1 /\ (grants'[n] > 0 => n \in Taken')
        <5>1. CASE n = wanted[c]
          BY <4>1, <4>2, <4>3, <5>1 DEF TypeOK
        <5>2. CASE n # wanted[c]
          BY <4>1, <4>3, <5>2 DEF TypeOK, Granted
        <5>3. QED
          BY <5>1, <5>2
      <4>5. QED
        BY <4>1, <4>4 DEF Granted
    <3>3. CASE UNCHANGED <<table, grants>>
      BY <3>3 DEF table, Granted, Taken, Distinct
    <3>4. QED
      BY <2>2, <3>2, <3>3 DEF Save
  <2>3. CASE Crash \/ UNCHANGED vars
    BY <2>3 DEF Crash, table, vars, Granted, Taken, Distinct
  <2>4. ASSUME NEW c \in Clients, Exists(c) \/ \E input \in Inputs : Request(c, input)
        PROVE  Granted'
    BY <2>4 DEF Exists, Request, table, Granted, Taken, Distinct
  <2>5. ASSUME NEW id \in DOMAIN roles, NEW n \in Names, Rename(id, n) PROVE Granted'
    <3>1. roles[id] \in Names /\ grants' = [grants EXCEPT ![roles[id]] = 0]
      BY <2>5 DEF Rename, TypeOK
    <3>2. Distinct' /\ Taken' = (Taken \ {roles[id]}) \cup {n}
      BY <2>5, RenamedRow DEF Granted
    <3>3. QED
      BY <3>1, <3>2 DEF Granted, TypeOK
  <2>6. ASSUME NEW id \in DOMAIN roles, Delete(id) PROVE Granted'
    <3>1. roles[id] \in Names /\ grants' = [grants EXCEPT ![roles[id]] = 0]
      BY <2>6 DEF Delete, TypeOK
    <3>2. Distinct' /\ Taken' = Taken \ {roles[id]}
      BY <2>6, DeletedRow DEF Granted
    <3>3. QED
      BY <3>1, <3>2 DEF Granted, TypeOK
  <2>7. QED
    BY <2>1, <2>2, <2>3, <2>4, <2>5, <2>6 DEF Next
<1>3. QED
  BY <1>1, <1>2, RegistryTypeCorrect, PTL DEF Spec

\* Of any number of requests for one name, in any spelling, overlapping in any
\* way and across any restarts, at most one is answered created until the name
\* is given up.
THEOREM RolesCreatedOnce == Spec => []CreatedOnce
<1>1. Granted => CreatedOnce
  BY DEF Granted, CreatedOnce
<1>2. QED
  BY <1>1, GrantedInvariant, PTL

\* A role that was answered created survives every crash, every start and every
\* later request, until it is renamed or deleted.
THEOREM CreatedRolesStay == Spec => []CreatedStays
<1>1. Granted => CreatedStays
  BY DEF Granted, CreatedStays
<1>2. QED
  BY <1>1, GrantedInvariant, PTL

---------------------------------------------------------------------------

\* What the points of a request look like in the directory.
LEMMA ReplyValues ==
  /\ ReplyOf("exists") = "pending" /\ ReplyOf("save") = "pending"
  /\ ReplyOf("created") = "created" /\ ReplyOf("duplicate") = "refused"
  /\ ReplyOf("internal") = "failed" /\ ReplyOf("bad_request") = "failed"
BY DEF ReplyOf

\* The abstract view changes with the point a request has reached.
LEMMA ReplyMoves ==
  ASSUME TypeOK, NEW c \in Clients, NEW from, NEW to, Go(c, from, to)
  PROVE  /\ up /\ ReplyOf(at[c]) = ReplyOf(from)
         /\ [d \in Clients |-> ReplyOf(at[d])]'
              = [[d \in Clients |-> ReplyOf(at[d])] EXCEPT ![c] = ReplyOf(to)]
BY DEF Go, TypeOK

\* Every step of the registry is a step of the directory or leaves its view as
\* it is.
LEMMA RegistryStepRefines ==
  ASSUME TypeOK, Distinct, [Next]_vars
  PROVE  [Directory!Next]_(Directory!vars)
<1> USE DEF Directory!vars
<1>1. CASE Open
  <2>1. Directory!Start
    BY <1>1, OpenedRows DEF Open, Directory!Start
  <2>2. QED
    BY <2>1 DEF Directory!Next
<1>2. CASE Crash
  <2>1. Directory!Stop
    BY <1>2 DEF Crash, table, Taken, ReplyOf, Directory!Stop
  <2>2. QED
    BY <2>1 DEF Directory!Next
<1>3. ASSUME NEW c \in Clients, NEW input \in Inputs, Request(c, input)
      PROVE  Directory!Next
  <2>1. PICK from \in {"idle"} \cup Answers :
          Go(c, from, IF ValidateRoleName(input) THEN "exists" ELSE "bad_request")
    BY <1>3 DEF Request
  <2>2. ReplyOf(from) \in Directory!Settled
    BY DEF Answers, ReplyOf, Directory!Settled
  <2>3. UNCHANGED <<Taken, up>>
    BY <1>3 DEF Request, table, Taken
  <2>4. CASE ~ValidateRoleName(input)
    <3>1. Directory!Become(c, Directory!Settled, "failed")
      BY <2>1, <2>2, <2>4, ReplyMoves, ReplyValues DEF Directory!Become
    <3>2. Directory!Reject(c)
      BY <1>3, <2>3, <2>4, <3>1 DEF Request, Directory!Reject
    <3>3. QED
      BY <3>2 DEF Directory!Next
  <2>5. CASE ValidateRoleName(input)
    <3>1. Directory!Become(c, Directory!Settled, "pending")
      BY <2>1, <2>2, <2>5, ReplyMoves, ReplyValues DEF Directory!Become
    <3>2. Trimmed[input] \in Names
      BY <2>5, ValidatedNames
    <3>3. Directory!Ask(c, Trimmed[input])
      BY <1>3, <2>3, <2>5, <3>1 DEF Request, Directory!Ask
    <3>4. QED
      BY <3>2, <3>3 DEF Directory!Next
  <2>6. QED
    BY <2>4, <2>5
<1>4. ASSUME NEW c \in Clients, Exists(c)
      PROVE  Directory!Next \/ UNCHANGED Directory!vars
  <2>1. UNCHANGED <<Taken, up, wanted>>
    BY <1>4 DEF Exists, table, Taken
  <2>2. CASE Go(c, "exists", "duplicate") /\ wanted[c] \in Taken
    <3>1. Directory!Become(c, {"pending"}, "refused")
      BY <2>2, ReplyMoves, ReplyValues DEF Directory!Become
    <3>2. QED
      BY <2>1, <2>2, <3>1 DEF Directory!Refuse, Directory!Next
  <2>3. CASE Go(c, "exists", "internal")
    <3>1. Directory!Become(c, {"pending"}, "failed")
      BY <2>3, ReplyMoves, ReplyValues DEF Directory!Become
    <3>2. QED
      BY <2>1, <3>1 DEF Directory!Fail, Directory!Next
  <2>4. CASE Go(c, "exists", "save")
    <3>1. \A d \in Clients : ReplyOf(at'[d]) = ReplyOf(at[d])
      BY <2>4, ReplyValues DEF Go, TypeOK
    <3>2. UNCHANGED [d \in Clients |-> ReplyOf(at[d])]
      BY <3>1
    <3>3. QED
      BY <2>1, <3>2
  <2>5. QED
    BY <1>4, <2>2, <2>3, <2>4 DEF Exists
<1>5. ASSUME NEW c \in Clients, Save(c) PROVE Directory!Next
  <2>1. wanted[c] \in Names /\ UNCHANGED <<up, wanted>>
    BY <1>5 DEF Save, TypeOK
  <2>2. Insert(wanted[c]) => wanted[c] \notin Taken /\ Taken' = Taken \cup {wanted[c]}
    BY <2>1, InsertedRow
  <2>3. CASE Insert(wanted[c]) /\ Go(c, "save", "created")
    <3>1. Directory!Become(c, {"pending"}, "created")
      BY <2>3, ReplyMoves, ReplyValues DEF Directory!Become
    <3>2. Directory!Create(c)
      BY <2>1, <2>2, <2>3, <3>1 DEF Directory!Create
    <3>3. QED
      BY <3>2 DEF Directory!Next
  <2>4. CASE (Insert(wanted[c]) \/ UNCHANGED table) /\ Go(c, "save", "internal")
    <3>1. Directory!Become(c, {"pending"}, "failed")
      BY <2>4, ReplyMoves, ReplyValues DEF Directory!Become
    <3>2. Taken' \in {Taken, Taken \cup {wanted[c]}}
      BY <2>2, <2>4 DEF table, Taken
    <3>3. Directory!Fail(c)
      BY <2>1, <3>1, <3>2 DEF Directory!Fail
    <3>4. QED
      BY <3>3 DEF Directory!Next
  <2>5. QED
    BY <1>5, <2>3, <2>4 DEF Save
<1>6. ASSUME NEW id \in DOMAIN roles, NEW n \in Names, Rename(id, n) PROVE Directory!Next
  <2>1. roles[id] \in Names /\ roles[id] \in Taken
    BY DEF TypeOK, Taken, Range
  <2>2. Taken' = (Taken \ {roles[id]}) \cup {n}
    BY <1>6, RenamedRow
  <2>3. Directory!Rename(roles[id], n)
    BY <1>6, <2>1, <2>2 DEF Rename, Directory!Rename
  <2>4. QED
    BY <2>1, <2>3 DEF Directory!Next
<1>7. ASSUME NEW id \in DOMAIN roles, Delete(id) PROVE Directory!Next
  <2>1. roles[id] \in Names /\ roles[id] \in Taken
    BY DEF TypeOK, Taken, Range
  <2>2. Taken' = Taken \ {roles[id]}
    BY <1>7, DeletedRow
  <2>3. Directory!Delete(roles[id])
    BY <1>7, <2>1, <2>2 DEF Delete, Directory!Delete
  <2>4. QED
    BY <2>1, <2>3 DEF Directory!Next
<1>8. CASE UNCHANGED vars
  BY <1>8 DEF vars, Taken
<1>9. QED
  BY <1>1, <1>2, <1>3, <1>4, <1>5, <1>6, <1>7, <1>8 DEF Next

\* create_role implements RoleDirectory for any number of clients and names:
\* checking and saving in two steps costs the loser of a race its 409, and
\* nothing else.  Only an internal error, such as that of the SELECT behind a
\* committed INSERT, leaves open whether the role was created.
THEOREM RegistryImplementsDirectory == Spec => ImplementsDirectory
<1>1. Init => Directory!Init
  <2> SUFFICES ASSUME Init PROVE Directory!Init
    OBVIOUS
  <2>1. Taken = {}
    BY DEF Init, Taken, Range
  <2>2. QED
    BY <2>1 DEF Init, Directory!Init, ReplyOf
<1>2. Granted => Distinct
  BY DEF Granted
<1>3. TypeOK /\ Distinct /\ [Next]_vars => [Directory!Next]_(Directory!vars)
  BY RegistryStepRefines
<1>4. QED
  BY <1>1, <1>2, <1>3, RegistryTypeCorrect, GrantedInvariant, PTL
     DEF Spec, ImplementsDirectory, Directory!Spec

---------------------------------------------------------------------------
(* Induction, and what is read from left to right.  RoleSearch's After is a *)
(* recursive function, so what it reaches is proved from the well-founded   *)
(* order of the numbers, over any alphabet A.                               *)

\* A set of numbers with 0 in it and closed under + 1 is all of them.
LEMMA NatSetInduction ==
  ASSUME NEW S, S \subseteq Nat, 0 \in S, \A n \in S : n + 1 \in S
  PROVE  S = Nat
<1> DEFINE T == Nat \ S
<1> SUFFICES ASSUME T # {} PROVE FALSE
  OBVIOUS
<1>1. PICK Less : IsWellFoundedOn(Less, Nat) /\ \A x, y \in Nat : x < y => <<x, y>> \in Less
  <2> WITNESS {ss \in Nat \X Nat : ss[1] < ss[2]}
  <2>1. IsWellFoundedOn({ss \in Nat \X Nat : ss[1] < ss[2]}, Nat)
    BY NatLessThanWellFounded DEF OpToRel
  <2>2. QED
    BY <2>1
<1>2. PICK n \in T : \A m \in T : <<m, n>> \notin Less
  BY <1>1, WFMin
<1>3. n # 0 /\ n - 1 \in Nat /\ (n - 1) + 1 = n /\ n - 1 < n
  OBVIOUS
<1>4. n - 1 \in S
  BY <1>1, <1>2, <1>3
<1>5. QED
  BY <1>3, <1>4

\* f holds what is reached from z behind every part of s, one step of F each.
Reads(f, F, z, s) ==
  /\ DOMAIN f = 0..Len(s)
  /\ f[0] = z
  /\ \A i \in 1..Len(s) : f[i] = F[<<f[i - 1], s[i]>>]

\* Every text can be read ...
LEMMA ReadsExists ==
  ASSUME NEW A, NEW V, NEW z \in V, NEW F \in [V \X A -> V], NEW s \in Seq(A)
  PROVE  \E f \in [0..Len(s) -> V] : Reads(f, F, z, s)
<1> DEFINE upTo(n, f) == f[0] = z /\ \A i \in 1..n : f[i] = F[<<f[i - 1], s[i]>>]
           S == {n \in Nat : n <= Len(s) => \E f \in [0..n -> V] : upTo(n, f)}
<1>1. 0 \in S
  <2>1. [i \in 0..0 |-> z] \in [0..0 -> V] /\ upTo(0, [i \in 0..0 |-> z])
    OBVIOUS
  <2>2. QED
    BY <2>1
<1>2. ASSUME NEW n \in S PROVE n + 1 \in S
  <2> SUFFICES ASSUME n + 1 <= Len(s) PROVE \E f \in [0..n + 1 -> V] : upTo(n + 1, f)
    OBVIOUS
  <2>1. PICK f \in [0..n -> V] : upTo(n, f)
    OBVIOUS
  <2> DEFINE g == [i \in 0..n + 1 |-> IF i = n + 1 THEN F[<<f[n], s[n + 1]>>] ELSE f[i]]
  <2>2. n \in Nat /\ s[n + 1] \in A /\ f[n] \in V
    BY ElementOfSeq
  <2>3. g \in [0..n + 1 -> V]
    BY <2>2
  <2>4. g[0] = z
    BY <2>1, <2>2
  <2>5. ASSUME NEW i \in 1..n + 1 PROVE g[i] = F[<<g[i - 1], s[i]>>]
    <3>1. i - 1 \in 0..n /\ g[i - 1] = f[i - 1]
      BY <2>2
    <3>2. CASE i = n + 1
      <4>1. i - 1 = n /\ g[i] = F[<<f[n], s[n + 1]>>]
        BY <3>2, <2>2
      <4>2. QED
        BY <3>1, <3>2, <4>1
    <3>3. CASE i # n + 1
      <4>1. i \in 1..n /\ g[i] = f[i]
        BY <3>3, <2>2
      <4>2. QED
        BY <3>1, <4>1, <2>1
    <3>4. QED
      BY <3>2, <3>3
  <2>6. QED
    BY <2>3, <2>4, <2>5
<1>3. S = Nat
  <2> HIDE DEF S
  <2> QED BY <1>1, <1>2, NatSetInduction DEF S
<1>4. Len(s) \in Nat
  BY LenProperties
<1>5. PICK f \in [0..Len(s) -> V] : upTo(Len(s), f)
  BY <1>3, <1>4
<1>6. QED
  BY <1>5 DEF Reads

\* ... in one way, which the characters that follow do not change.
LEMMA ReadsAgree ==
  ASSUME NEW A, NEW F, NEW z, NEW s \in Seq(A), NEW t \in Seq(A), NEW f, NEW g,
         Reads(f, F, z, s), Reads(g, F, z, t), Len(s) <= Len(t), \A i \in 1..Len(s) : s[i] = t[i]
  PROVE  \A i \in 0..Len(s) : f[i] = g[i]
<1> DEFINE S == {n \in Nat : n <= Len(s) => f[n] = g[n]}
<1>1. Len(s) \in Nat /\ Len(t) \in Nat
  BY LenProperties
<1>2. 0 \in S
  BY DEF Reads
<1>3. ASSUME NEW n \in S PROVE n + 1 \in S
  <2> SUFFICES ASSUME n + 1 <= Len(s) PROVE f[n + 1] = g[n + 1]
    OBVIOUS
  <2>1. f[n] = g[n] /\ n + 1 \in 1..Len(s) /\ n + 1 \in 1..Len(t) /\ (n + 1) - 1 = n
    BY <1>1
  <2>2. f[n + 1] = F[<<f[(n + 1) - 1], s[n + 1]>>] /\ g[n + 1] = F[<<g[(n + 1) - 1], t[n + 1]>>]
    BY <2>1 DEF Reads
  <2>3. QED
    BY <2>1, <2>2
<1>4. S = Nat
  <2> HIDE DEF S
  <2> QED BY <1>2, <1>3, NatSetInduction DEF S
<1>5. QED
  BY <1>1, <1>4

\* A text with one character more.
More(s, c) == s \o <<c>>

LEMMA MoreProperties ==
  ASSUME NEW A, NEW s \in Seq(A), NEW c \in A
  PROVE  /\ More(s, c) \in Seq(A)
         /\ Len(s) \in Nat /\ Len(More(s, c)) = Len(s) + 1
         /\ More(s, c)[Len(s) + 1] = c
         /\ \A i \in 1..Len(s) : More(s, c)[i] = s[i]
BY LenProperties, AppendProperties, AppendIsConcat DEF More

\* One character more is one step more.
LEMMA ReadsOneMore ==
  ASSUME NEW A, NEW F, NEW z, NEW s \in Seq(A), NEW c \in A, NEW f, NEW g,
         Reads(f, F, z, s), Reads(g, F, z, More(s, c))
  PROVE  g[Len(More(s, c))] = F[<<f[Len(s)], c>>]
<1> DEFINE t == More(s, c)
           n == Len(s)
<1>1. /\ t \in Seq(A) /\ Len(t) = n + 1 /\ n \in Nat
      /\ t[n + 1] = c /\ \A i \in 1..n : s[i] = t[i]
  BY MoreProperties
<1> HIDE DEF t
<1>2. g[n + 1] = F[<<g[n], t[n + 1]>>]
  BY <1>1 DEF Reads, t
<1>3. f[n] = g[n]
  <2>1. Reads(g, F, z, t) /\ n <= Len(t) /\ n \in 0..n
    BY <1>1 DEF t
  <2>2. \A i \in 0..n : f[i] = g[i]
    BY <1>1, <2>1, ReadsAgree
  <2>3. QED
    BY <2>1, <2>2
<1>4. QED
  BY <1>1, <1>2, <1>3 DEF t

---------------------------------------------------------------------------
(* Replace and Escape, one character at a time *)

\* The step of Replace.
Replacing(A, ch, by) ==
  [p \in Seq(A) \X A |-> p[1] \o IF p[2] = ch THEN by ELSE <<p[2]>>]

\* What Replace returns is what is reached behind the last character.
LEMMA ReplaceReads ==
  ASSUME NEW A, NEW s \in Seq(A), NEW ch, NEW by \in Seq(A)
  PROVE  \E f \in [0..Len(s) -> Seq(A)] :
           Reads(f, Replacing(A, ch, by), <<>>, s) /\ Replace(s, ch, by) = f[Len(s)]
<1>1. Replacing(A, ch, by) \in [Seq(A) \X A -> Seq(A)]
  BY ConcatProperties DEF Replacing
<1>2. PICK f \in [0..Len(s) -> Seq(A)] : Reads(f, Replacing(A, ch, by), <<>>, s)
  BY <1>1, EmptySeq, ReadsExists
<1>3. ASSUME NEW i \in 1..Len(s) PROVE f[i] = f[i - 1] \o IF s[i] = ch THEN by ELSE <<s[i]>>
  <2>1. f[i - 1] \in Seq(A) /\ s[i] \in A
    BY ElementOfSeq, LenProperties
  <2>2. f[i] = Replacing(A, ch, by)[<<f[i - 1], s[i]>>]
    BY <1>2 DEF Reads
  <2>3. QED
    BY <2>1, <2>2 DEF Replacing
<1>4. f = [i \in 0..Len(s) |->
             IF i = 0 THEN <<>> ELSE f[i - 1] \o IF s[i] = ch THEN by ELSE <<s[i]>>]
  <2>1. f[0] = <<>> /\ Len(s) \in Nat
    BY <1>2, LenProperties DEF Reads
  <2> DEFINE piece(i) == f[i - 1] \o IF s[i] = ch THEN by ELSE <<s[i]>>
  <2>2. \A i \in 1..Len(s) : f[i] = piece(i)
    BY <1>3
  <2> HIDE DEF piece
  <2>3. \A i \in 0..Len(s) : f[i] = IF i = 0 THEN <<>> ELSE piece(i)
    BY <2>1, <2>2
  <2>4. f = [i \in 0..Len(s) |-> IF i = 0 THEN <<>> ELSE piece(i)]
    BY <1>2, <2>3
  <2>5. QED
    BY <2>4 DEF piece
<1> DEFINE after ==
      CHOOSE g : g = [i \in 0..Len(s) |->
                        IF i = 0 THEN <<>> ELSE g[i - 1] \o IF s[i] = ch THEN by ELSE <<s[i]>>]
<1>5. after = [i \in 0..Len(s) |->
                 IF i = 0 THEN <<>> ELSE after[i - 1] \o IF s[i] = ch THEN by ELSE <<s[i]>>]
  BY <1>4
<1>6. Replace(s, ch, by) = after[Len(s)]
  BY DEF Replace, After
<1> HIDE DEF after
<1>7. \A n \in Nat : n <= Len(s) => after[n] = f[n]
  <2> DEFINE S == {n \in Nat : n <= Len(s) => after[n] = f[n]}
  <2>1. 0 \in S
    BY <1>4, <1>5, LenProperties
  <2>2. ASSUME NEW n \in S PROVE n + 1 \in S
    <3> SUFFICES ASSUME n + 1 <= Len(s) PROVE after[n + 1] = f[n + 1]
      OBVIOUS
    <3>1. n + 1 \in 0..Len(s) /\ n + 1 # 0 /\ (n + 1) - 1 = n /\ after[n] = f[n]
      BY LenProperties
    <3>2. after[n + 1] = after[n] \o IF s[n + 1] = ch THEN by ELSE <<s[n + 1]>>
      BY <1>5, <3>1
    <3>3. f[n + 1] = f[n] \o IF s[n + 1] = ch THEN by ELSE <<s[n + 1]>>
      BY <1>4, <3>1
    <3>4. QED
      BY <3>1, <3>2, <3>3
  <2>3. S = Nat
    <3> HIDE DEF S
    <3> QED BY <2>1, <2>2, NatSetInduction DEF S
  <2>4. QED
    BY <2>3
<1>8. QED
  BY <1>2, <1>6, <1>7, LenProperties

LEMMA ReplaceEmpty ==
  ASSUME NEW A, NEW ch, NEW by \in Seq(A)
  PROVE  Replace(<<>>, ch, by) = <<>>
<1>1. PICK f : Reads(f, Replacing(A, ch, by), <<>>, <<>>) /\ Replace(<<>>, ch, by) = f[Len(<<>>)]
  <2>1. <<>> \in Seq(A)
    OBVIOUS
  <2>2. QED
    BY <2>1, ReplaceReads
<1>2. Len(<<>>) = 0
  OBVIOUS
<1>3. QED
  BY <1>1, <1>2 DEF Reads

LEMMA ReplaceTyped ==
  ASSUME NEW A, NEW s \in Seq(A), NEW ch, NEW by \in Seq(A)
  PROVE  Replace(s, ch, by) \in Seq(A)
<1>1. PICK f \in [0..Len(s) -> Seq(A)] : Replace(s, ch, by) = f[Len(s)]
  BY ReplaceReads
<1>2. QED
  BY <1>1, LenProperties

\* A character is replaced where it stands, and nothing else changes.
LEMMA ReplaceMore ==
  ASSUME NEW A, NEW s \in Seq(A), NEW c \in A, NEW ch, NEW by \in Seq(A)
  PROVE  /\ c = ch => Replace(More(s, c), ch, by) = Replace(s, ch, by) \o by
         /\ c # ch => Replace(More(s, c), ch, by) = More(Replace(s, ch, by), c)
<1> DEFINE F == Replacing(A, ch, by)
           t == More(s, c)
<1>1. t \in Seq(A)
  BY MoreProperties
<1> HIDE DEF t
<1>2. PICK f : /\ Reads(f, F, <<>>, s) /\ Replace(s, ch, by) = f[Len(s)]
               /\ f \in [0..Len(s) -> Seq(A)]
  BY ReplaceReads
<1>3. PICK g : Reads(g, F, <<>>, t) /\ Replace(t, ch, by) = g[Len(t)]
  BY <1>1, ReplaceReads
<1>4. g[Len(t)] = F[<<f[Len(s)], c>>]
  <2> DEFINE z == <<>>
  <2>1. Reads(f, F, z, s) /\ Reads(g, F, z, More(s, c))
    BY <1>2, <1>3 DEF t
  <2> HIDE DEF F, z
  <2>2. g[Len(More(s, c))] = F[<<f[Len(s)], c>>]
    BY <2>1, ReadsOneMore
  <2>3. QED
    BY <2>2 DEF t
<1>5. f[Len(s)] \in Seq(A)
  BY <1>2, LenProperties
<1>6. QED
  BY <1>2, <1>3, <1>4, <1>5 DEF Replacing, More, t

LEMMA TwoCharacters ==
  ASSUME NEW A, NEW s \in Seq(A), NEW c \in A, NEW d \in A
  PROVE  /\ <<c>> \in Seq(A) /\ <<c, d>> \in Seq(A) /\ s \o <<c>> \in Seq(A)
         /\ <<>> \o <<c>> = <<c>>
         /\ s \o <<c, d>> = (s \o <<c>>) \o <<d>>
<1>1. <<c>> \in Seq(A) /\ <<d>> \in Seq(A) /\ <<c, d>> \in Seq(A)
  OBVIOUS
<1>2. <<c, d>> = <<c>> \o <<d>>
  <2>1. Append(<<c>>, d) = <<c>> \o <<d>>
    BY <1>1, AppendIsConcat
  <2>2. Append(<<c>>, d) = <<c, d>>
    <3>1. /\ Append(<<c>>, d) \in Seq(A) /\ Len(Append(<<c>>, d)) = 2
          /\ Append(<<c>>, d)[1] = c /\ Append(<<c>>, d)[2] = d
      BY <1>1, AppendProperties
    <3>2. Len(<<c, d>>) = 2 /\ <<c, d>>[1] = c /\ <<c, d>>[2] = d
      OBVIOUS
    <3>3. \A i \in 1..2 : Append(<<c>>, d)[i] = <<c, d>>[i]
      BY <3>1, <3>2
    <3>4. QED
      BY <1>1, <3>1, <3>2, <3>3, SeqEqual
  <2>3. QED
    BY <2>1, <2>2
<1>3. s \o (<<c>> \o <<d>>) = (s \o <<c>>) \o <<d>>
  BY <1>1, ConcatAssociative
<1>4. <<>> \o <<c>> = <<c>> /\ s \o <<c>> \in Seq(A)
  BY <1>1, ConcatEmptySeq, ConcatProperties
<1>5. QED
  BY <1>1, <1>2, <1>3, <1>4

\* The two characters that stand for one, added one after the other.
LEMMA ReplaceIt ==
  ASSUME NEW A, NEW s \in Seq(A), NEW c \in A, NEW d \in A, NEW e \in A
  PROVE  Replace(More(s, c), c, <<d, e>>) = More(More(Replace(s, c, <<d, e>>), d), e)
<1> DEFINE by == <<d, e>>
           r == Replace(s, c, by)
<1>1. by \in Seq(A)
  OBVIOUS
<1> HIDE DEF by
<1>2. Replace(More(s, c), c, by) = r \o by
  BY <1>1, ReplaceMore
<1>3. r \in Seq(A)
  BY <1>1, ReplaceTyped
<1> HIDE DEF r
<1>4. r \o by = (r \o <<d>>) \o <<e>>
  BY <1>3, TwoCharacters DEF by
<1>5. QED
  BY <1>2, <1>4 DEF More, by, r

\* The character that is escaped, and any other one.
LEMMA EscapeIt ==
  ASSUME NEW A, EscapeChar \in A, NEW s \in Seq(A), NEW c \in A
  PROVE  /\ Escape(s, c) \in Seq(A) /\ Escape(<<>>, c) = <<>>
         /\ Escape(More(s, c), c) = More(More(Escape(s, c), EscapeChar), c)
<1>1. <<EscapeChar, c>> \in Seq(A)
  OBVIOUS
<1>2. Escape(s, c) \in Seq(A)
  BY <1>1, ReplaceTyped DEF Escape
<1>3. Escape(<<>>, c) = <<>>
  BY <1>1, ReplaceEmpty DEF Escape
<1>4. Escape(More(s, c), c) = More(More(Escape(s, c), EscapeChar), c)
  BY ReplaceIt DEF Escape
<1>5. QED
  BY <1>2, <1>3, <1>4

LEMMA EscapeOther ==
  ASSUME NEW A, EscapeChar \in A, NEW s \in Seq(A), NEW c \in A, NEW ch \in A, c # ch
  PROVE  Escape(More(s, c), ch) = More(Escape(s, ch), c)
<1> DEFINE by == <<EscapeChar, ch>>
<1>1. by \in Seq(A)
  OBVIOUS
<1> HIDE DEF by
<1>2. Replace(More(s, c), ch, by) = More(Replace(s, ch, by), c)
  BY <1>1, ReplaceMore
<1>3. QED
  BY <1>2 DEF Escape, by

\* The characters with a meaning of their own in a pattern.
Special == {EscapeChar, AnyText, AnyChar}

LEMMA SpecialCharacters ==
  EscapeChar # AnyText /\ EscapeChar # AnyChar /\ AnyText # AnyChar
BY DEF EscapeChar, AnyText, AnyChar

\* search_by_name's three replacements, in their order.
Escaped(name) == Escape(Escape(Escape(name, EscapeChar), AnyText), AnyChar)

LEMMA EscapedTyped ==
  ASSUME NEW A, Special \subseteq A
  PROVE  /\ Escaped(<<>>) = <<>>
         /\ \A s \in Seq(A) : Escaped(s) \in Seq(A)
<1>1. EscapeChar \in A /\ AnyText \in A /\ AnyChar \in A /\ <<>> \in Seq(A)
  BY DEF Special
<1>2. \A c \in A, s \in Seq(A) : Escape(<<>>, c) = <<>> /\ Escape(s, c) \in Seq(A)
  BY <1>1, EscapeIt
<1>3. QED
  BY <1>1, <1>2 DEF Escaped

\* The three replacements together escape every special character once: the
\* escapes that the first one put in are not escaped by the others.
LEMMA EscapedMore ==
  ASSUME NEW A, Special \subseteq A, NEW s \in Seq(A), NEW c \in A
  PROVE  Escaped(More(s, c)) =
           IF c \in Special THEN More(More(Escaped(s), EscapeChar), c) ELSE More(Escaped(s), c)
<1>1. EscapeChar \in A /\ AnyText \in A /\ AnyChar \in A
  BY DEF Special
<1>2. \A x \in Seq(A), d \in A : More(x, d) \in Seq(A) /\ Escape(x, d) \in Seq(A)
  BY <1>1, MoreProperties, EscapeIt
<1>3. \A x \in Seq(A), d \in A : Escape(More(x, d), d) = More(More(Escape(x, d), EscapeChar), d)
  BY <1>1, EscapeIt
<1>4. \A x \in Seq(A), d \in A, ch \in A : d # ch => Escape(More(x, d), ch) = More(Escape(x, ch), d)
  BY <1>1, EscapeOther
<1>5. ASSUME NEW x \in Seq(A), NEW ch \in A, ch # EscapeChar, ch # c
      PROVE  Escape(More(More(x, EscapeChar), c), ch) = More(More(Escape(x, ch), EscapeChar), c)
  <2>1. Escape(More(More(x, EscapeChar), c), ch) = Escape(More(x, EscapeChar), ch) \o <<c>>
    BY <1>1, <1>2, <1>4, <1>5 DEF More
  <2>2. QED
    BY <1>1, <1>4, <1>5, <2>1 DEF More
<1> DEFINE one(x) == Escape(x, EscapeChar)
           two(x) == Escape(one(x), AnyText)
<1>6. /\ one(s) \in Seq(A) /\ two(s) \in Seq(A)
      /\ two(More(s, c)) = Escape(one(More(s, c)), AnyText) /\ two(s) = Escape(one(s), AnyText)
      /\ Escaped(s) = Escape(two(s), AnyChar)
      /\ Escaped(More(s, c)) = Escape(two(More(s, c)), AnyChar)
  BY <1>1, <1>2 DEF Escaped
<1>7. CASE c = EscapeChar
  <2>1. one(More(s, c)) = More(More(one(s), EscapeChar), c)
    BY <1>3, <1>7, <1>1
  <2> HIDE DEF one, two
  <2>2. two(More(s, c)) = More(More(two(s), EscapeChar), c)
    BY <1>1, <1>5, <1>6, <1>7, <2>1, SpecialCharacters
  <2>3. Escaped(More(s, c)) = More(More(Escaped(s), EscapeChar), c)
    BY <1>1, <1>5, <1>6, <1>7, <2>2, SpecialCharacters
  <2>4. QED
    BY <1>7, <2>3 DEF Special
<1>8. CASE c = AnyText
  <2>1. one(More(s, c)) = More(one(s), c)
    BY <1>4, <1>8, <1>1, SpecialCharacters
  <2> HIDE DEF one, two
  <2>2. two(More(s, c)) = More(More(two(s), EscapeChar), c)
    BY <1>1, <1>3, <1>6, <1>8, <2>1
  <2>3. Escaped(More(s, c)) = More(More(Escaped(s), EscapeChar), c)
    BY <1>1, <1>5, <1>6, <1>8, <2>2, SpecialCharacters
  <2>4. QED
    BY <1>8, <2>3 DEF Special
<1>9. CASE c = AnyChar
  <2>1. one(More(s, c)) = More(one(s), c)
    BY <1>4, <1>9, <1>1, SpecialCharacters
  <2> HIDE DEF one, two
  <2>2. c \in A /\ AnyText \in A /\ c # AnyText
    BY <1>1, <1>9, SpecialCharacters
  <2>3. two(More(s, c)) = More(two(s), c)
    BY <1>4, <1>6, <2>1, <2>2
  <2>4. Escaped(More(s, c)) = More(More(Escaped(s), EscapeChar), c)
    BY <1>1, <1>3, <1>6, <1>9, <2>3
  <2>5. QED
    BY <1>9, <2>4 DEF Special
<1>10. CASE c \notin Special
  <2>1. c # EscapeChar /\ c # AnyText /\ c # AnyChar
    BY <1>10 DEF Special
  <2>2. one(More(s, c)) = More(one(s), c)
    BY <1>1, <1>4, <2>1
  <2> HIDE DEF one, two
  <2>3. two(More(s, c)) = More(two(s), c)
    BY <1>1, <1>4, <1>6, <2>1, <2>2
  <2>4. Escaped(More(s, c)) = More(Escaped(s), c)
    BY <1>1, <1>4, <1>6, <2>1, <2>3
  <2>5. QED
    BY <1>10, <2>4
<1>11. QED
  BY <1>7, <1>8, <1>9, <1>10 DEF Special

\* What can be known of a pattern read in part, and at its start.
States(text) == [ends : SUBSET (0..Len(text)), escaped : BOOLEAN]
Start == [ends |-> {0}, escaped |-> FALSE]

\* A pattern stays readable, one character at a time.
LEMMA LikeStepTyped ==
  ASSUME NEW A, NEW text \in Seq(A), NEW read \in States(text), NEW ch
  PROVE  LikeStep(text, read, ch) \in States(text)
<1>1. Len(text) \in Nat
  BY LenProperties
<1>2. ASSUME NEW fits PROVE Further(text, read.ends, fits) \in SUBSET (0..Len(text))
  BY <1>1 DEF Further
<1>3. {j \in 0..Len(text) : \E i \in read.ends : i <= j} \in SUBSET (0..Len(text))
  OBVIOUS
<1>4. CASE read.escaped \/ ch \notin Special
  BY <1>2, <1>4 DEF LikeStep, Special, States
<1>5. CASE ~read.escaped /\ ch = EscapeChar
  BY <1>5, SpecialCharacters DEF LikeStep, States
<1>6. CASE ~read.escaped /\ ch = AnyText
  BY <1>3, <1>6, SpecialCharacters DEF LikeStep, States
<1>7. CASE ~read.escaped /\ ch = AnyChar
  BY <1>2, <1>7, SpecialCharacters DEF LikeStep, States
<1>8. QED
  BY <1>4, <1>5, <1>6, <1>7 DEF Special

\* The step of LikeRead.
Stepping(A, text) == [p \in States(text) \X A |-> LikeStep(text, p[1], p[2])]

LEMMA LikeReads ==
  ASSUME NEW A, NEW text \in Seq(A), NEW s \in Seq(A)
  PROVE  \E f : /\ Reads(f, Stepping(A, text), Start, s) /\ LikeRead(text, s) = f[Len(s)]
                /\ f \in [0..Len(s) -> States(text)]
<1>1. Stepping(A, text) \in [States(text) \X A -> States(text)]
  BY LikeStepTyped DEF Stepping
<1>2. Start \in States(text)
  BY LenProperties DEF Start, States
<1>3. PICK f \in [0..Len(s) -> States(text)] : Reads(f, Stepping(A, text), Start, s)
  BY <1>1, <1>2, ReadsExists
<1>4. ASSUME NEW i \in 1..Len(s) PROVE f[i] = LikeStep(text, f[i - 1], s[i])
  <2>1. f[i - 1] \in States(text) /\ s[i] \in A
    BY ElementOfSeq, LenProperties
  <2>2. f[i] = Stepping(A, text)[<<f[i - 1], s[i]>>]
    BY <1>3 DEF Reads
  <2>3. QED
    BY <2>1, <2>2 DEF Stepping
<1>5. f = [i \in 0..Len(s) |-> IF i = 0 THEN Start ELSE LikeStep(text, f[i - 1], s[i])]
  <2>1. f[0] = Start /\ Len(s) \in Nat
    BY <1>3, LenProperties DEF Reads
  <2>2. \A i \in 0..Len(s) : f[i] = IF i = 0 THEN Start ELSE LikeStep(text, f[i - 1], s[i])
    BY <1>4, <2>1
  <2>3. QED
    BY <2>2
<1> DEFINE after ==
      CHOOSE g : g = [i \in 0..Len(s) |->
                        IF i = 0 THEN Start ELSE LikeStep(text, g[i - 1], s[i])]
<1>6. after = [i \in 0..Len(s) |-> IF i = 0 THEN Start ELSE LikeStep(text, after[i - 1], s[i])]
  BY <1>5
<1>7. LikeRead(text, s) = after[Len(s)]
  BY DEF LikeRead, After, Start
<1> HIDE DEF after
<1>8. \A n \in Nat : n <= Len(s) => after[n] = f[n]
  <2> DEFINE S == {n \in Nat : n <= Len(s) => after[n] = f[n]}
  <2>1. 0 \in S
    BY <1>5, <1>6, LenProperties
  <2>2. ASSUME NEW n \in S PROVE n + 1 \in S
    <3> SUFFICES ASSUME n + 1 <= Len(s) PROVE after[n + 1] = f[n + 1]
      OBVIOUS
    <3>1. n + 1 \in 0..Len(s) /\ n + 1 # 0 /\ (n + 1) - 1 = n /\ after[n] = f[n]
      BY LenProperties
    <3>2. after[n + 1] = LikeStep(text, after[n], s[n + 1])
      BY <1>6, <3>1
    <3>3. f[n + 1] = LikeStep(text, f[n], s[n + 1])
      BY <1>5, <3>1
    <3>4. QED
      BY <3>1, <3>2, <3>3
  <2>3. S = Nat
    <3> HIDE DEF S
    <3> QED BY <2>1, <2>2, NatSetInduction DEF S
  <2>4. QED
    BY <2>3
<1>9. QED
  BY <1>3, <1>7, <1>8, LenProperties

LEMMA LikeReadStart ==
  ASSUME NEW A, NEW text \in Seq(A)
  PROVE  LikeRead(text, <<>>) = Start
<1> DEFINE s == <<>>
<1>1. s \in Seq(A) /\ Len(s) = 0
  OBVIOUS
<1> HIDE DEF s
<1>2. PICK f : Reads(f, Stepping(A, text), Start, s) /\ LikeRead(text, s) = f[Len(s)]
  BY <1>1, LikeReads
<1>3. QED
  BY <1>1, <1>2 DEF Reads, s

LEMMA LikeReadMore ==
  ASSUME NEW A, NEW text \in Seq(A), NEW s \in Seq(A), NEW c \in A
  PROVE  /\ LikeRead(text, s) \in States(text)
         /\ LikeRead(text, More(s, c)) = LikeStep(text, LikeRead(text, s), c)
<1> DEFINE F == Stepping(A, text)
           t == More(s, c)
<1>1. t \in Seq(A)
  BY MoreProperties
<1> HIDE DEF t
<1>2. PICK f : /\ Reads(f, F, Start, s) /\ LikeRead(text, s) = f[Len(s)]
               /\ f \in [0..Len(s) -> States(text)]
  BY LikeReads
<1>3. PICK g : Reads(g, F, Start, t) /\ LikeRead(text, t) = g[Len(t)]
  BY <1>1, LikeReads
<1>4. g[Len(t)] = F[<<f[Len(s)], c>>]
  <2> HIDE DEF F
  <2>1. Reads(f, F, Start, s) /\ Reads(g, F, Start, More(s, c))
    BY <1>2, <1>3 DEF t
  <2>2. g[Len(More(s, c))] = F[<<f[Len(s)], c>>]
    BY <2>1, ReadsOneMore
  <2>3. QED
    BY <2>2 DEF t
<1>5. f[Len(s)] \in States(text)
  BY <1>2, LenProperties
<1>6. QED
  BY <1>2, <1>3, <1>4, <1>5 DEF Stepping, t

\* The text's lengths behind which it holds the first k characters of name.
EndsOf(text, name, k) ==
  {j \in 0..Len(text) : k <= j /\ \A i \in 1..k : Fold(name[i]) = Fold(text[(j - k) + i])}

\* <<AnyText>> \o s, as a text that grows with s.
LEMMA AnyTextMore ==
  ASSUME NEW A, AnyText \in A, NEW s \in Seq(A), NEW c \in A
  PROVE  /\ <<AnyText>> \o s \in Seq(A)
         /\ <<AnyText>> \o More(s, c) = More(<<AnyText>> \o s, c)
         /\ <<AnyText>> \o <<>> = More(<<>>, AnyText)
<1>1. <<AnyText>> \in Seq(A) /\ <<c>> \in Seq(A)
  OBVIOUS
<1>2. <<AnyText>> \o <<>> = <<AnyText>> /\ <<>> \o <<AnyText>> = <<AnyText>>
  BY <1>1, ConcatEmptySeq
<1>3. <<AnyText>> \o (s \o <<c>>) = (<<AnyText>> \o s) \o <<c>>
  BY <1>1, ConcatAssociative
<1>4. <<AnyText>> \o s \in Seq(A)
  BY <1>1, ConcatProperties
<1>5. QED
  BY <1>2, <1>3, <1>4 DEF More

LEMMA EndsOfOneMore ==
  ASSUME NEW A, NEW text \in Seq(A), NEW name \in Seq(A), NEW k \in Nat, k + 1 <= Len(name)
  PROVE  Further(text, EndsOf(text, name, k), Alike(text, name[k + 1])) = EndsOf(text, name, k + 1)
<1> DEFINE fits == Alike(text, name[k + 1])
           before == EndsOf(text, name, k)
           after == EndsOf(text, name, k + 1)
<1>1. Len(text) \in Nat /\ Len(name) \in Nat
  BY LenProperties
<1>2. ASSUME NEW j \in 1..Len(text)
      PROVE  text[j] \in fits <=> Fold(text[j]) = Fold(name[k + 1])
  BY <1>1, LenProperties DEF Alike, Range
<1>3. ASSUME NEW j \in 1..Len(text)
      PROVE  j \in after <=> j - 1 \in before /\ Fold(text[j]) = Fold(name[k + 1])
  <2>1. (j - (k + 1)) + (k + 1) = j /\ \A i \in 1..k : ((j - 1) - k) + i = (j - (k + 1)) + i
    BY <1>1
  <2>2. (k + 1 <= j) <=> (k <= j - 1)
    BY <1>1
  <2> DEFINE same(i) == Fold(name[i]) = Fold(text[(j - (k + 1)) + i])
  <2>3. (\A i \in 1..(k + 1) : same(i))
          <=> /\ \A i \in 1..k : Fold(name[i]) = Fold(text[((j - 1) - k) + i])
              /\ Fold(name[k + 1]) = Fold(text[j])
    <3>1. same(k + 1) <=> Fold(name[k + 1]) = Fold(text[j])
      BY <2>1
    <3>2. (\A i \in 1..k : same(i))
            <=> \A i \in 1..k : Fold(name[i]) = Fold(text[((j - 1) - k) + i])
      BY <2>1
    <3> HIDE DEF same
    <3>3. (\A i \in 1..(k + 1) : same(i)) <=> (\A i \in 1..k : same(i)) /\ same(k + 1)
      OBVIOUS
    <3>4. QED
      BY <3>1, <3>2, <3>3
  <2>4. j - 1 \in 0..Len(text) /\ j \in 0..Len(text)
    BY <1>1
  <2>5. QED
    BY <2>2, <2>3, <2>4 DEF EndsOf
<1>4. after \subseteq 1..Len(text)
  BY <1>1 DEF EndsOf
<1> HIDE DEF fits, before, after
<1>5. Further(text, before, fits) = after
  BY <1>2, <1>3, <1>4 DEF Further
<1>6. QED
  BY <1>5 DEF fits, before, after

\* The pattern without its last character.
Prefix(name) == <<AnyText>> \o Escaped(name)

LEMMA PrefixTyped ==
  ASSUME NEW A, Special \subseteq A
  PROVE  /\ Prefix(<<>>) = More(<<>>, AnyText)
         /\ \A s \in Seq(A) : Prefix(s) \in Seq(A) /\ Pattern(s) = More(Prefix(s), AnyText)
<1>1. AnyText \in A
  BY DEF Special
<1>2. Escaped(<<>>) = <<>> /\ <<>> \in Seq(A) /\ \A s \in Seq(A) : Escaped(s) \in Seq(A)
  BY EscapedTyped
<1>3. <<AnyText>> \o <<>> = More(<<>>, AnyText)
  BY <1>1, <1>2, AnyTextMore
<1>4. Prefix(<<>>) = More(<<>>, AnyText)
  BY <1>2, <1>3 DEF Prefix
<1>5. ASSUME NEW s \in Seq(A) PROVE Prefix(s) \in Seq(A) /\ Pattern(s) = More(Prefix(s), AnyText)
  <2>1. Prefix(s) \in Seq(A)
    BY <1>1, <1>2, AnyTextMore DEF Prefix
  <2>2. Pattern(s) = (<<AnyText>> \o Escaped(s)) \o <<AnyText>>
    <3> DEFINE x == Escaped(s)
    <3>1. <<AnyText>> \in Seq(A) /\ x \in Seq(A)
      BY <1>1, <1>2
    <3>2. Pattern(s) = <<AnyText>> \o x \o <<AnyText>>
      BY DEF Pattern, Escaped
    <3> QED
      BY <3>2
  <2>3. QED
    BY <2>1, <2>2 DEF Prefix, More
<1>6. QED
  BY <1>4, <1>5

\* A character of the name adds one or two to the pattern ...
LEMMA PrefixMore ==
  ASSUME NEW A, Special \subseteq A, NEW s \in Seq(A), NEW c \in A
  PROVE  /\ c \in Special => Prefix(More(s, c)) = More(More(Prefix(s), EscapeChar), c)
         /\ c \notin Special => Prefix(More(s, c)) = More(Prefix(s), c)
<1> DEFINE x == Escaped(s)
<1>1. EscapeChar \in A /\ AnyText \in A
  BY DEF Special
<1>2. x \in Seq(A)
  BY EscapedTyped
<1>3. /\ c \in Special => Escaped(More(s, c)) = More(More(x, EscapeChar), c)
      /\ c \notin Special => Escaped(More(s, c)) = More(x, c)
  BY EscapedMore
<1> HIDE DEF x
<1>4. \A d \in A : <<AnyText>> \o More(x, d) = More(<<AnyText>> \o x, d) /\ More(x, d) \in Seq(A)
  BY <1>1, <1>2, AnyTextMore, MoreProperties
<1> DEFINE y == More(x, EscapeChar)
<1>5. y \in Seq(A) /\ <<AnyText>> \o y = More(<<AnyText>> \o x, EscapeChar)
  BY <1>1, <1>4
<1> HIDE DEF y
<1>6. <<AnyText>> \o More(y, c) = More(<<AnyText>> \o y, c)
  BY <1>1, <1>5, AnyTextMore
<1>7. CASE c \in Special
  <2>1. Prefix(More(s, c)) = <<AnyText>> \o More(y, c)
    BY <1>3, <1>7 DEF Prefix, y
  <2>2. QED
    BY <1>5, <1>6, <1>7, <2>1 DEF Prefix, x
<1>8. CASE c \notin Special
  <2>1. Prefix(More(s, c)) = <<AnyText>> \o More(x, c)
    BY <1>3, <1>8 DEF Prefix
  <2>2. QED
    BY <1>4, <1>8, <2>1 DEF Prefix, x
<1>9. QED
  BY <1>7, <1>8

\* ... which match that character in either case, and nothing else.
LEMMA PrefixReadMore ==
  ASSUME NEW A, Special \subseteq A, NEW text \in Seq(A), NEW s \in Seq(A), NEW c \in A, NEW ends,
         LikeRead(text, Prefix(s)) = [ends |-> ends, escaped |-> FALSE]
  PROVE  LikeRead(text, Prefix(More(s, c)))
           = [ends |-> Further(text, ends, Alike(text, c)), escaped |-> FALSE]
<1> DEFINE p == Prefix(s)
           next == [ends |-> Further(text, ends, Alike(text, c)), escaped |-> FALSE]
<1>1. EscapeChar \in A
  BY DEF Special
<1>2. p \in Seq(A)
  BY PrefixTyped
<1>3. LikeRead(text, p) = [ends |-> ends, escaped |-> FALSE]
  OBVIOUS
<1>4. /\ c \in Special => Prefix(More(s, c)) = More(More(p, EscapeChar), c)
      /\ c \notin Special => Prefix(More(s, c)) = More(p, c)
  BY PrefixMore
<1> HIDE DEF p
<1>5. CASE c \in Special
  <2> DEFINE q == More(p, EscapeChar)
  <2>1. q \in Seq(A)
    BY <1>1, <1>2, MoreProperties
  <2>2. LikeRead(text, q) = LikeStep(text, LikeRead(text, p), EscapeChar)
    BY <1>1, <1>2, LikeReadMore
  <2>3. LikeStep(text, [ends |-> ends, escaped |-> FALSE], EscapeChar)
          = [ends |-> ends, escaped |-> TRUE]
    BY SpecialCharacters DEF LikeStep
  <2> HIDE DEF q
  <2>4. LikeRead(text, More(q, c)) = LikeStep(text, LikeRead(text, q), c)
    BY <2>1, LikeReadMore
  <2>5. LikeStep(text, [ends |-> ends, escaped |-> TRUE], c) = next
    BY DEF LikeStep
  <2>6. QED
    BY <1>3, <1>4, <1>5, <2>2, <2>3, <2>4, <2>5 DEF q
<1>6. CASE c \notin Special
  <2>1. LikeRead(text, More(p, c)) = LikeStep(text, LikeRead(text, p), c)
    BY <1>2, LikeReadMore
  <2>2. LikeStep(text, [ends |-> ends, escaped |-> FALSE], c) = next
    BY <1>6 DEF LikeStep, Special
  <2>3. QED
    BY <1>3, <1>4, <1>6, <2>1, <2>2
<1>7. QED
  BY <1>5, <1>6

LEMMA PrefixReadStart ==
  ASSUME NEW A, Special \subseteq A, NEW text \in Seq(A), NEW name
  PROVE  LikeRead(text, Prefix(<<>>)) = [ends |-> EndsOf(text, name, 0), escaped |-> FALSE]
<1> DEFINE none == <<>>
<1>1. AnyText \in A /\ Len(text) \in Nat /\ none \in Seq(A)
  BY LenProperties DEF Special
<1>2. LikeRead(text, none) = Start
  BY LikeReadStart
<1>3. Prefix(none) = More(none, AnyText)
  BY PrefixTyped
<1> HIDE DEF none
<1>4. LikeRead(text, More(none, AnyText)) = LikeStep(text, Start, AnyText)
  BY <1>1, <1>2, LikeReadMore
<1>5. LikeStep(text, Start, AnyText) =
        [ends |-> {j \in 0..Len(text) : \E i \in {0} : i <= j}, escaped |-> FALSE]
  BY SpecialCharacters DEF LikeStep, Start
<1>6. {j \in 0..Len(text) : \E i \in {0} : i <= j} = EndsOf(text, name, 0)
  BY <1>1 DEF EndsOf
<1>7. QED
  BY <1>3, <1>4, <1>5, <1>6 DEF none

\* The invariant of reading a pattern: behind the first k characters of the name,
\* LIKE is where the text holds these characters.
LEMMA PrefixRead ==
  ASSUME NEW A, Special \subseteq A, NEW text \in Seq(A), NEW name \in Seq(A)
  PROVE  LikeRead(text, Prefix(name)) = [ends |-> EndsOf(text, name, Len(name)), escaped |-> FALSE]
<1> DEFINE part(k) == SubSeq(name, 1, k)
           read(k) == [ends |-> EndsOf(text, name, k), escaped |-> FALSE]
           S == {k \in Nat : k <= Len(name) => LikeRead(text, Prefix(part(k))) = read(k)}
<1>1. Len(text) \in Nat /\ Len(name) \in Nat
  BY LenProperties
<1>2. ASSUME NEW k \in Nat, k <= Len(name) PROVE part(k) \in Seq(A)
  BY <1>2, ElementOfSeq, LenProperties, SubSeqProperties
<1>3. 0 \in S
  <2>1. part(0) = <<>>
    BY SubSeqEmpty
  <2>2. QED
    BY <2>1, PrefixReadStart
<1>4. ASSUME NEW k \in S PROVE k + 1 \in S
  <2> SUFFICES ASSUME k + 1 <= Len(name) PROVE LikeRead(text, Prefix(part(k + 1))) = read(k + 1)
    OBVIOUS
  <2> DEFINE s == part(k)
             c == name[k + 1]
  <2>1. k \in Nat /\ k <= Len(name) /\ k + 1 \in 1..Len(name)
    BY <1>1
  <2>2. s \in Seq(A) /\ c \in A /\ LikeRead(text, Prefix(s)) = read(k)
    BY <1>2, <2>1, ElementOfSeq
  <2>3. part(k + 1) = More(s, c)
    <3>1. SubSeq(name, 1, k + 1) = SubSeq(name, 1, (k + 1) - 1) \o <<name[k + 1]>>
      BY <1>1, <2>1, SubSeqRecursiveSecond
    <3>2. QED
      BY <2>1, <3>1 DEF More
  <2>4. Further(text, EndsOf(text, name, k), Alike(text, c)) = EndsOf(text, name, k + 1)
    BY <2>1, EndsOfOneMore
  <2> HIDE DEF s, c, part
  <2>5. LikeRead(text, Prefix(More(s, c)))
          = [ends |-> Further(text, EndsOf(text, name, k), Alike(text, c)), escaped |-> FALSE]
    BY <2>2, PrefixReadMore
  <2>6. QED
    BY <2>3, <2>4, <2>5
<1>5. S = Nat
  <2> HIDE DEF S
  <2> QED BY <1>3, <1>4, NatSetInduction DEF S
<1>6. LikeRead(text, Prefix(part(Len(name)))) = read(Len(name))
  <2>1. Len(name) \in S
    BY <1>1, <1>5
  <2>2. QED
    BY <1>1, <2>1
<1>7. part(Len(name)) = name
  BY SubSeqFull
<1>8. QED
  BY <1>6, <1>7

---------------------------------------------------------------------------
(* What LIKE finds *)

LEMMA UppercaseTyped ==
  ASSUME NEW A, NEW s \in Seq(A)
  PROVE  /\ Uppercase(s) \in Seq({Fold(ch) : ch \in A})
         /\ Len(s) \in Nat /\ Len(Uppercase(s)) = Len(s)
         /\ \A i \in 1..Len(s) : Uppercase(s)[i] = Fold(s[i])
<1>1. Len(s) \in Nat /\ \A i \in 1..Len(s) : s[i] \in A
  BY LenProperties, ElementOfSeq
<1>2. Uppercase(s) \in Seq({Fold(ch) : ch \in A})
  BY <1>1 DEF Uppercase
<1>3. Len(Uppercase(s)) = Len(s)
  BY <1>1, <1>2, LenProperties DEF Uppercase
<1>4. QED
  BY <1>1, <1>2, <1>3 DEF Uppercase

\* The text holds the name behind some length where it occurs in it.
LEMMA EndsOccur ==
  ASSUME NEW A, NEW text \in Seq(A), NEW name \in Seq(A)
  PROVE  EndsOf(text, name, Len(name)) # {} <=> Occurs(Uppercase(name), Uppercase(text))
<1> DEFINE u == Uppercase(text)
           v == Uppercase(name)
           n == Len(name)
           B == {Fold(ch) : ch \in A}
<1>1. /\ u \in Seq(B) /\ Len(u) = Len(text) /\ Len(text) \in Nat
      /\ v \in Seq(B) /\ Len(v) = n /\ n \in Nat
  BY UppercaseTyped
<1>2. (\A i \in 1..Len(text) : u[i] = Fold(text[i])) /\ \A i \in 1..n : v[i] = Fold(name[i])
  BY UppercaseTyped
<1>3. ASSUME NEW i \in 0..Len(text), i + n <= Len(text)
      PROVE  SubSeq(u, i + 1, i + n) = v <=> i + n \in EndsOf(text, name, n)
  <2>1. /\ SubSeq(u, i + 1, i + n) \in Seq(B)
        /\ Len(SubSeq(u, i + 1, i + n)) = n
        /\ \A k \in 1..n : SubSeq(u, i + 1, i + n)[k] = u[i + k]
    <3>1. /\ i + 1 \in Int /\ i + n \in Int /\ \A k \in (i + 1)..(i + n) : k \in 1..Len(u)
          /\ \A k \in (i + 1)..(i + n) : u[k] \in B
      BY <1>1, <1>3, ElementOfSeq
    <3> HIDE DEF u, B
    <3>2. /\ SubSeq(u, i + 1, i + n) \in Seq(B)
          /\ Len(SubSeq(u, i + 1, i + n)) = IF i + 1 <= i + n THEN (i + n) - (i + 1) + 1 ELSE 0
          /\ \A k \in 1..((i + n) - (i + 1) + 1) : SubSeq(u, i + 1, i + n)[k] = u[(i + 1) + k - 1]
      BY <1>1, <3>1, SubSeqProperties
    <3>3. (i + n) - (i + 1) + 1 = n /\ \A k \in 1..n : (i + 1) + k - 1 = i + k
      BY <1>1
    <3>4. QED
      BY <1>1, <3>2, <3>3
  <2> HIDE DEF u, v, n, B
  <2>2. SubSeq(u, i + 1, i + n) = v <=> \A k \in 1..n : u[i + k] = v[k]
    BY <1>1, <2>1, SeqEqual
  <2>3. \A k \in 1..n : u[i + k] = Fold(text[i + k]) /\ v[k] = Fold(name[k])
    <3>1. \A k \in 1..n : i + k \in 1..Len(text)
      BY <1>1, <1>3
    <3>2. QED
      BY <1>2, <3>1
  <2>4. i + n \in 0..Len(text) /\ n <= i + n /\ (i + n) - n = i
    BY <1>1, <1>3
  <2>5. i + n \in EndsOf(text, name, n) <=> \A k \in 1..n : Fold(name[k]) = Fold(text[i + k])
    BY <2>4 DEF EndsOf
  <2>6. QED
    BY <2>2, <2>3, <2>5
<1>4. ASSUME NEW j \in EndsOf(text, name, n)
      PROVE  j - n \in 0..Len(text) /\ (j - n) + n = j /\ j <= Len(text)
  BY <1>1 DEF EndsOf
<1>5. Occurs(v, u) <=> \E i \in 0..Len(text) : i + n <= Len(text) /\ SubSeq(u, i + 1, i + n) = v
  BY <1>1 DEF Occurs
<1> HIDE DEF u, v, n, B
<1>6. ASSUME Occurs(v, u) PROVE EndsOf(text, name, n) # {}
  BY <1>3, <1>5, <1>6
<1>7. ASSUME EndsOf(text, name, n) # {} PROVE Occurs(v, u)
  <2>1. PICK j \in EndsOf(text, name, n) : TRUE
    BY <1>7
  <2>2. SubSeq(u, (j - n) + 1, (j - n) + n) = v
    BY <1>3, <1>4
  <2>3. QED
    BY <1>4, <1>5, <2>2
<1>8. QED
  BY <1>6, <1>7 DEF u, v, n

LEMMA NulIsNotSpecial == Nul \notin Special
BY DEF Nul, Special, EscapeChar, AnyText, AnyChar

\* A text without Nul is read to its end.
LEMMA NoNulToStopAt ==
  ASSUME NEW A, Nul \notin A, NEW s \in Seq(A)
  PROVE  BeforeNul(s) = s
<1>1. \A i \in 1..Len(s) : s[i] # Nul
  BY ElementOfSeq
<1>2. QED
  BY <1>1 DEF BeforeNul

\* LIKE with search_by_name's pattern is containment in either case, for every
\* text and every name without Nul, whichever of %, _ and \ they hold.
LEMMA LikeIsOccurs ==
  ASSUME NEW A, Special \subseteq A, Nul \notin A, NEW text \in Seq(A), NEW name \in Seq(A)
  PROVE  Like(text, Pattern(name)) <=> Occurs(Uppercase(name), Uppercase(text))
<1> DEFINE p == Prefix(name)
           ends == EndsOf(text, name, Len(name))
<1>1. AnyText \in A /\ Len(text) \in Nat
  BY LenProperties DEF Special
<1>2. p \in Seq(A) /\ Pattern(name) = More(p, AnyText)
  BY PrefixTyped
<1>3. LikeRead(text, p) = [ends |-> ends, escaped |-> FALSE]
  BY PrefixRead
<1>4. \A j \in ends : j \in Nat /\ j <= Len(text)
  BY <1>1 DEF EndsOf
<1>5. ends # {} <=> Occurs(Uppercase(name), Uppercase(text))
  BY EndsOccur
<1> HIDE DEF p, ends
<1>6. LikeRead(text, More(p, AnyText)) = LikeStep(text, LikeRead(text, p), AnyText)
  BY <1>1, <1>2, LikeReadMore
<1>7. LikeStep(text, [ends |-> ends, escaped |-> FALSE], AnyText)
        = [ends |-> {j \in 0..Len(text) : \E i \in ends : i <= j}, escaped |-> FALSE]
  BY SpecialCharacters DEF LikeStep
<1>8. LikeRead(text, Pattern(name))
        = [ends |-> {j \in 0..Len(text) : \E i \in ends : i <= j}, escaped |-> FALSE]
  BY <1>2, <1>3, <1>6, <1>7
<1>9. Like(text, Pattern(name)) <=> Len(text) \in {j \in 0..Len(text) : \E i \in ends : i <= j}
  <2>1. Pattern(name) \in Seq(A)
    BY <1>1, <1>2, MoreProperties
  <2>2. BeforeNul(Pattern(name)) = Pattern(name)
    BY <2>1, NoNulToStopAt
  <2>3. QED
    BY <1>8, <2>2 DEF Like
<1>10. Len(text) \in {j \in 0..Len(text) : \E i \in ends : i <= j} <=> ends # {}
  BY <1>1, <1>4
<1>11. QED
  BY <1>5, <1>9, <1>10

\* What Trim chooses exists.
LEMMA LeastAndGreatest ==
  ASSUME NEW n \in Nat, NEW S, S \subseteq 1..n, S # {}
  PROVE  (\E i \in S : \A j \in S : i <= j) /\ (\E i \in S : \A j \in S : j <= i)
<1>1. \E i \in S : \A j \in S : i <= j
  <2> SUFFICES ASSUME \A i \in S : \E j \in S : j < i PROVE FALSE
    OBVIOUS
  <2> DEFINE T == {k \in Nat : \A i \in S : k <= i}
  <2>1. 0 \in T
    OBVIOUS
  <2>2. \A k \in T : k + 1 \in T
    OBVIOUS
  <2>3. T = Nat
    <3> HIDE DEF T
    <3> QED BY <2>1, <2>2, NatSetInduction DEF T
  <2>4. PICK i \in S : TRUE
    OBVIOUS
  <2>5. i + 1 \in T
    BY <2>3
  <2>6. QED
    BY <2>5
<1>2. \E i \in S : \A j \in S : j <= i
  <2>0. SUFFICES ASSUME \A i \in S : \E j \in S : i < j PROVE FALSE
    OBVIOUS
  <2> DEFINE T == {k \in Nat : \E i \in S : k <= i}
  <2>1. 0 \in T
    <3>1. PICK i \in S : i \in 1..n
      OBVIOUS
    <3>2. i \in Nat /\ 0 <= i
      BY <3>1
    <3>3. QED
      BY <3>2
  <2>2. ASSUME NEW k \in T PROVE k + 1 \in T
    <3>1. PICK i \in S : k <= i
      OBVIOUS
    <3>2. PICK j \in S : i < j
      BY <2>0, <3>1
    <3>3. k \in Nat /\ i \in Nat /\ j \in Nat /\ k + 1 <= j
      BY <3>1, <3>2
    <3>4. QED
      BY <3>3
  <2>3. T = Nat
    <3> HIDE DEF T
    <3> QED BY <2>1, <2>2, NatSetInduction DEF T
  <2>4. n + 1 \in T
    BY <2>3
  <2>5. QED
    BY <2>4
<1>3. QED
  BY <1>1, <1>2

LEMMA TrimTyped ==
  ASSUME NEW A, NEW s \in Seq(A)
  PROVE  Trim(s) \in Seq(A)
<1> DEFINE solid == {i \in 1..Len(s) : s[i] \notin Blank}
           first == CHOOSE i \in solid : \A j \in solid : i <= j
           last == CHOOSE i \in solid : \A j \in solid : j <= i
<1>1. Len(s) \in Nat /\ solid \subseteq 1..Len(s) /\ <<>> \in Seq(A)
  BY LenProperties
<1>2. Trim(s) = IF solid = {} THEN <<>> ELSE SubSeq(s, first, last)
  BY DEF Trim
<1>3. ASSUME solid # {} PROVE first \in solid /\ last \in solid
  <2> HIDE DEF solid
  <2>1. (\E i \in solid : \A j \in solid : i <= j) /\ (\E i \in solid : \A j \in solid : j <= i)
    BY <1>1, <1>3, LeastAndGreatest
  <2>2. QED
    BY <2>1
<1> HIDE DEF solid, first, last
<1>4. ASSUME solid # {} PROVE SubSeq(s, first, last) \in Seq(A)
  <2>1. first \in 1..Len(s) /\ last \in 1..Len(s)
    BY <1>1, <1>3, <1>4
  <2>2. \A k \in first..last : s[k] \in A
    BY <1>1, <2>1, ElementOfSeq
  <2>3. QED
    BY <1>1, <2>1, <2>2, SubSeqProperties
<1>5. QED
  BY <1>1, <1>2, <1>4

\* A trimmed text is empty or has no blanks at its ends ...
LEMMA TrimEnds ==
  ASSUME NEW A, NEW s \in Seq(A), Trim(s) # <<>>
  PROVE  /\ Len(Trim(s)) \in Nat /\ Len(Trim(s)) >= 1
         /\ Trim(s)[1] \notin Blank /\ Trim(s)[Len(Trim(s))] \notin Blank
<1> DEFINE solid == {i \in 1..Len(s) : s[i] \notin Blank}
           first == CHOOSE i \in solid : \A j \in solid : i <= j
           last == CHOOSE i \in solid : \A j \in solid : j <= i
           t == SubSeq(s, first, last)
<1>1. Len(s) \in Nat /\ solid \subseteq 1..Len(s)
  BY LenProperties
<1>2. solid # {} /\ Trim(s) = t
  BY DEF Trim
<1>3. first \in solid /\ last \in solid /\ first <= last
  <2> HIDE DEF solid
  <2>1. (\E i \in solid : \A j \in solid : i <= j) /\ (\E i \in solid : \A j \in solid : j <= i)
    BY <1>1, <1>2, LeastAndGreatest
  <2>2. first \in solid /\ last \in solid /\ \A j \in solid : first <= j
    BY <2>1
  <2>3. QED
    BY <2>2
<1>4. s[first] \notin Blank /\ s[last] \notin Blank
  BY <1>3
<1>5. first \in 1..Len(s) /\ last \in 1..Len(s)
  BY <1>3
<1> HIDE DEF solid, first, last
<1>6. \A k \in first..last : s[k] \in A
  <2>1. \A k \in first..last : k \in 1..Len(s)
    BY <1>1, <1>5
  <2>2. QED
    BY <2>1, ElementOfSeq
<1>7. /\ Len(t) = last - first + 1
      /\ \A i \in 1..(last - first + 1) : t[i] = s[first + i - 1]
  BY <1>1, <1>3, <1>5, <1>6, SubSeqProperties
<1> HIDE DEF t
<1>8. t[1] = s[first] /\ t[last - first + 1] = s[last]
  <2>1. /\ 1 \in 1..(last - first + 1) /\ first + 1 - 1 = first
        /\ last - first + 1 \in 1..(last - first + 1) /\ first + (last - first + 1) - 1 = last
    BY <1>1, <1>3, <1>5
  <2>2. QED
    BY <1>7, <2>1
<1>9. QED
  BY <1>1, <1>2, <1>3, <1>4, <1>5, <1>7, <1>8

\* ... and such a text is trimmed.
LEMMA TrimOfTrimmed ==
  ASSUME NEW A, NEW s \in Seq(A), Len(s) >= 1, s[1] \notin Blank, s[Len(s)] \notin Blank
  PROVE  Trim(s) = s
<1> DEFINE solid == {i \in 1..Len(s) : s[i] \notin Blank}
           first == CHOOSE i \in solid : \A j \in solid : i <= j
           last == CHOOSE i \in solid : \A j \in solid : j <= i
<1>1. /\ Len(s) \in Nat /\ 1 \in solid /\ Len(s) \in solid
      /\ \A i \in solid : i \in Nat /\ 1 <= i /\ i <= Len(s)
  BY LenProperties
<1>2. Trim(s) = SubSeq(s, first, last)
  BY <1>1 DEF Trim
<1> HIDE DEF solid
<1>3. first \in solid /\ first <= 1 /\ last \in solid /\ Len(s) <= last
  <2>1. first \in solid /\ \A j \in solid : first <= j
    BY <1>1
  <2>2. last \in solid /\ \A j \in solid : j <= last
    BY <1>1
  <2>3. QED
    BY <1>1, <2>1, <2>2
<1> HIDE DEF first, last
<1>4. first = 1 /\ last = Len(s)
  BY <1>1, <1>3
<1>5. QED
  BY <1>2, <1>4, SubSeqFull

\* What create_role stores is a name that it would take again, and store as it is:
\* validate_role_name's trimming loses nothing that its rules looked at.
\* SearchAssumption asks no more of the names in the table.
THEOREM ValidationStable ==
  ASSUME NEW A, NEW input \in Seq(A)
  PROVE  /\ Trim(Trim(input)) = Trim(input)
         /\ Valid(input) => Valid(Trim(input))
<1> DEFINE t == Trim(input)
<1>1. t \in Seq(A)
  BY TrimTyped
<1>2. Trim(t) = t
  <2>1. CASE t = <<>>
    <3> DEFINE none == <<>>
    <3>1. Len(none) = 0
      OBVIOUS
    <3>2. {i \in 1..Len(none) : none[i] \notin Blank} = {}
      BY <3>1
    <3> HIDE DEF none, t
    <3>3. Trim(none) = <<>>
      BY <3>2 DEF Trim
    <3>4. QED
      BY <2>1, <3>3 DEF none
  <2>2. CASE t # <<>>
    <3>1. Len(t) >= 1 /\ t[1] \notin Blank /\ t[Len(t)] \notin Blank
      BY <2>2, TrimEnds
    <3> HIDE DEF t
    <3>2. QED
      BY <1>1, <3>1, TrimOfTrimmed
  <2>3. QED
    BY <2>1, <2>2
<1>3. Valid(input) => Valid(t)
  BY <1>2 DEF Valid
<1>4. QED
  BY <1>2, <1>3

---------------------------------------------------------------------------
(* The search *)

\* validate_role_name lets no Nul into the table.
LEMMA NamesHoldNoNul == \A name \in Names : Nul \notin Range(name)
<1>1. Nul \notin Letters
  BY DEF Nul, Letters, Upper, Range
<1>2. Nul \notin Letters \cup Digits \cup Blank \cup {"_", "-"}
  BY <1>1 DEF Nul, Digits, Blank
<1>3. ASSUME NEW name \in Names
      PROVE  Range(name) \subseteq Letters \cup Digits \cup Blank \cup {"_", "-"}
  <2>1. Trim(name) = name /\ Valid(name)
    BY SearchAssumption
  <2>2. QED
    BY <2>1 DEF Valid
<1>4. QED
  BY <1>2, <1>3

\* The search's matches are those of the definition by containment.
LEMMA MatchesContains ==
  ASSUME NEW query \in Asked, Nul \notin Range(query), NEW name \in Names
  PROVE  <<query, name>> \in Matches <=> <<query, name>> \in Contains
<1> DEFINE A == (STRING \ {Nul}) \cup Special
<1>1. ASSUME NEW s \in Seq(STRING), Nul \notin Range(s) PROVE s \in Seq(A)
  <2>1. /\ Len(s) \in Nat /\ s = [i \in 1..Len(s) |-> s[i]]
        /\ \A i \in 1..Len(s) : s[i] \in STRING /\ s[i] # Nul
    BY <1>1, LenProperties, ElementOfSeq DEF Range
  <2>2. \A i \in 1..Len(s) : s[i] \in A
    BY <2>1
  <2> HIDE DEF A
  <2>3. QED
    BY <2>1, <2>2, SeqDef
<1>2. Like(name, Pattern(Trim(query))) <=> Occurs(Uppercase(Trim(query)), Uppercase(name))
  <2>0. Nul \notin Range(name)
    BY NamesHoldNoNul
  <2>1. query \in Seq(A) /\ name \in Seq(A)
    BY <1>1, <2>0, SearchAssumption DEF Asked
  <2>2. Special \subseteq A /\ Nul \notin A
    BY NulIsNotSpecial
  <2> HIDE DEF A
  <2>3. Trim(query) \in Seq(A)
    BY <2>1, TrimTyped
  <2> DEFINE asked == Trim(query)
  <2> HIDE DEF asked
  <2>4. asked \in Seq(A)
    BY <2>3 DEF asked
  <2>5. Like(name, Pattern(asked)) <=> Occurs(Uppercase(asked), Uppercase(name))
    BY <2>1, <2>2, <2>4, LikeIsOccurs
  <2>6. QED
    BY <2>5 DEF asked
<1>3. QED
  BY <1>2 DEF Matches, Contains

\* A search finds the roles whose name contains what was asked for in either case,
\* and no other, whatever the alphabet, the names and the requests without Nul are.
THEOREM SearchAlwaysExact == Spec => []SearchExact
<1>1. TypeOK => SearchExact
  <2> SUFFICES ASSUME TypeOK, NEW query \in Asked, Nul \notin Range(query)
               PROVE  Found(query) = {id \in DOMAIN roles : <<query, roles[id]>> \in Contains}
    BY DEF SearchExact
  <2>1. \A id \in DOMAIN roles : roles[id] \in Names
    BY DEF TypeOK
  <2>2. QED
    BY <2>1, MatchesContains DEF Found
<1>2. QED
  BY <1>1, RegistryTypeCorrect, PTL

=============================================================================
