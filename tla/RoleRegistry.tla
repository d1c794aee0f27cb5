---------------------------- MODULE RoleRegistry ----------------------------
(***************************************************************************)
(* Creation of roles: Graph::create_role over the SQLite repository        *)
(* (src/src/graph.rs, src/src/infrastructure/role.rs).  A method of the    *)
(* repository holds the connection's mutex and is one step; create_role    *)
(* calls two of them.  The table and its AUTOINCREMENT sequence survive a  *)
(* crash of the process, the requests under way do not.                    *)
(***************************************************************************)
EXTENDS Naturals, Sequences, Functions

CONSTANTS
  Clients,     \* requests that can be under way at once
  Names,       \* role names as stored
  Inputs,      \* role names as they come in a request
  Trimmed,     \* the names that the inputs stand for: str::trim
  Rejected,    \* those that are too short or too long, have other characters than
               \* the permitted ones, hold a reserved word or begin with a system prefix
  Seeds,       \* the names SCHEMA inserts, in its order
  MaxSeq       \* bound on the identifiers of a run

ASSUME RegistryAssumption ==
  /\ Trimmed \in [Inputs -> Names \cup Rejected]
  /\ Seeds \in Seq(Names)
  /\ IsInjective(Seeds)
  /\ MaxSeq \in Nat

VARIABLES
  roles,   \* the table: names by id
  seq,     \* the largest id handed out (sqlite_sequence)
  up,      \* whether the process runs
  at,      \* at[c]: what the request of c does next, or how it was answered
  wanted,  \* wanted[c]: the name c asked for
  grants   \* grants[n]: how many requests were answered that they created n,
           \* since the name was last given up (history)

vars == <<roles, seq, up, at, wanted, grants>>
table == <<roles, seq>>

Answers == {"created", "duplicate", "bad_request", "internal"}
Taken == Range(roles)

TypeOK ==
  /\ seq \in Nat
  /\ DOMAIN roles \subseteq 1..seq
  /\ roles \in [DOMAIN roles -> Names]
  /\ up \in BOOLEAN
  /\ at \in [Clients -> {"idle", "exists", "save"} \cup Answers]
  /\ wanted \in [Clients -> Names]
  /\ grants \in [Names -> Nat]

Init ==
  /\ roles = <<>>
  /\ seq = 0
  /\ up = FALSE
  /\ at = [c \in Clients |-> "idle"]
  /\ wanted \in [Clients -> Names]
  /\ grants = [n \in Names |-> 0]

Go(c, from, to) == up /\ at[c] = from /\ at' = [at EXCEPT ![c] = to]

---------------------------------------------------------------------------
(* SqliteRoleRepository::open *)

\* A variant of Open that creates the table anew.
OpenEmpty ==
  /\ ~up
  /\ roles' = Seeds
  /\ seq' = Len(Seeds)
  /\ up' = TRUE
  /\ UNCHANGED <<at, wanted, grants>>

\* INSERT OR IGNORE draws an id for every seed, the ignored ones included.
Open ==
  /\ ~up
  /\ LET missing == {i \in DOMAIN Seeds : Seeds[i] \notin Taken}
     IN  roles' = [id \in DOMAIN roles \cup {seq + i : i \in missing} |->
                     IF id \in DOMAIN roles THEN roles[id] ELSE Seeds[id - seq]]
  /\ seq' = seq + Len(Seeds)
  /\ up' = TRUE
  /\ UNCHANGED <<at, wanted, grants>>

Crash ==
  /\ up
  /\ seq + Len(Seeds) <= MaxSeq
  /\ up' = FALSE
  /\ at' = [c \in Clients |-> "idle"]
  /\ UNCHANGED <<table, wanted, grants>>

---------------------------------------------------------------------------
(* Graph::create_role *)

\* Whether it returns a name, which is the trimmed input.
ValidateRoleName(input) == Trimmed[input] \notin Rejected

\* A new request; its name is validated first.
Request(c, input) ==
  /\ \E from \in {"idle"} \cup Answers :
       Go(c, from, IF ValidateRoleName(input) THEN "exists" ELSE "bad_request")
  /\ wanted' = IF ValidateRoleName(input) THEN [wanted EXCEPT ![c] = Trimmed[input]] ELSE wanted
  /\ UNCHANGED <<table, up, grants>>

\* exists_by_name, which may fail.
Exists(c) ==
  /\ \/ Go(c, "exists", IF wanted[c] \in Taken THEN "duplicate" ELSE "save")
     \/ Go(c, "exists", "internal")
  /\ UNCHANGED <<table, up, wanted, grants>>

\* A variant of Insert on a table whose names are not UNIQUE.
InsertNotUnique(name) ==
  /\ seq < MaxSeq
  /\ seq' = seq + 1
  /\ roles' = [id \in DOMAIN roles \cup {seq + 1} |-> IF id = seq + 1 THEN name ELSE roles[id]]

\* A variant of Insert with INSERT OR REPLACE.
InsertReplaces(name) ==
  /\ seq < MaxSeq
  /\ seq' = seq + 1
  /\ roles' = [id \in {old \in DOMAIN roles : roles[old] # name} \cup {seq + 1} |->
                  IF id = seq + 1 THEN name ELSE roles[id]]

\* A variant of Insert on a key without AUTOINCREMENT: the least id that is free.
InsertReusesIds(name) ==
  /\ name \notin Taken
  /\ \E free \in 1..MaxSeq \ DOMAIN roles :
       /\ 1..(free - 1) \subseteq DOMAIN roles
       /\ roles' = [id \in DOMAIN roles \cup {free} |-> IF id = free THEN name ELSE roles[id]]
       /\ seq' = IF free > seq THEN free ELSE seq

Insert(name) ==
  /\ name \notin Taken
  /\ seq < MaxSeq
  /\ seq' = seq + 1
  /\ roles' = [id \in DOMAIN roles \cup {seq + 1} |-> IF id = seq + 1 THEN name ELSE roles[id]]

\* The INSERT of save fails on a name that is taken by now, or on the disk; the
\* SELECT behind it may fail as well, and the row stays all the same.
Save(c) ==
  /\ \/ /\ Insert(wanted[c])
        /\ Go(c, "save", "created")
        /\ grants' = [grants EXCEPT ![wanted[c]] = @ + 1]
     \/ Insert(wanted[c]) /\ Go(c, "save", "internal") /\ UNCHANGED grants
     \/ Go(c, "save", "internal") /\ UNCHANGED <<table, grants>>
  /\ UNCHANGED <<up, wanted>>

---------------------------------------------------------------------------
(* The rest of the port, which no route calls yet *)

\* save of a role that has an id: an UPDATE, refused by UNIQUE.
Rename(id, n) ==
  /\ up
  /\ n \notin Taken
  /\ roles' = [roles EXCEPT ![id] = n]
  /\ grants' = [grants EXCEPT ![roles[id]] = 0]
  /\ UNCHANGED <<seq, up, at, wanted>>

\* A variant of Delete that keeps the row and blanks its name.
DeleteKeepsKey(id) ==
  /\ up
  /\ roles' = [roles EXCEPT ![id] = <<>>]
  /\ grants' = [grants EXCEPT ![roles[id]] = 0]
  /\ UNCHANGED <<seq, up, at, wanted>>

\* delete_by_id
Delete(id) ==
  /\ up
  /\ roles' = [other \in DOMAIN roles \ {id} |-> roles[other]]
  /\ grants' = [grants EXCEPT ![roles[id]] = 0]
  /\ UNCHANGED <<seq, up, at, wanted>>

---------------------------------------------------------------------------

Next ==
  \/ Open \/ Crash
  \/ \E c \in Clients : (\E input \in Inputs : Request(c, input)) \/ Exists(c) \/ Save(c)
  \/ \E id \in DOMAIN roles : Delete(id) \/ \E n \in Names : Rename(id, n)

Spec == Init /\ [][Next]_vars

---------------------------------------------------------------------------

\* Of the requests for one name at most one is answered 201 until the name is
\* given up, whatever their spelling, their overlap between exists_by_name and
\* save, and the restarts.
CreatedOnce == \A n \in Names : grants[n] <= 1

\* A role whose creation was answered stays in the table, through crashes and
\* through the schema that every start applies, until it is renamed or deleted.
CreatedStays == \A n \in Names : grants[n] > 0 => n \in Taken

\* An id is never handed out twice, not after its role was deleted and not
\* after a restart: a client that kept an id never reads another role with it.
IdsNeverReused ==
  [][\A id \in DOMAIN roles' \ DOMAIN roles : id > seq]_vars

\* create_role implements RoleDirectory: the answer is decided by the one
\* method that settles it, exists_by_name or save, although the name may be
\* taken between the two; only an internal error leaves it open whether the
\* role is there.
ReplyOf(point) ==
  CASE point = "idle" -> "none"
    [] point \in {"exists", "save"} -> "pending"
    [] point = "created" -> "created"
    [] point = "duplicate" -> "refused"
    [] point \in {"bad_request", "internal"} -> "failed"

Directory == INSTANCE RoleDirectory WITH
  Seeded <- Range(Seeds),
  directory <- Taken,
  open <- up,
  asks <- wanted,
  reply <- [c \in Clients |-> ReplyOf(at[c])]

ImplementsDirectory == Directory!Spec

---------------------------------------------------------------------------
(* What the documentation says and concurrent requests break *)

\* "Role name already exists ... HTTP 409": a request that finds out while saving
\* that another one created the role is not answered as an internal error.
LosersGet409 ==
  [][\A c \in Clients :
       at[c] = "save" /\ at'[c] = "internal" => grants[wanted[c]] = 0]_vars

=============================================================================
