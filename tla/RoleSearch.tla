------------------------------ MODULE RoleSearch ------------------------------
(***************************************************************************)
(* Names of roles, over the table of RoleRegistry: the rules of            *)
(* validate_role_name, the pattern search_by_name builds for LIKE, and     *)
(* what SQLite matches with it (src/src/domain/mod.rs, src/src/graph.rs,   *)
(* src/src/infrastructure/role.rs).  A search reads the table in one       *)
(* section of the connection's mutex and is a function of the state.       *)
(***************************************************************************)
EXTENDS RoleRegistry

CONSTANT Queries  \* what clients search by, besides the names they ask for

---------------------------------------------------------------------------
(* Texts: sequences of characters, which are strings of length 1 *)

Upper == [a |-> "A", b |-> "B", c |-> "C", d |-> "D", e |-> "E", f |-> "F", g |-> "G", h |-> "H",
          i |-> "I", j |-> "J", k |-> "K", l |-> "L", m |-> "M", n |-> "N", o |-> "O", p |-> "P",
          q |-> "Q", r |-> "R", s |-> "S", t |-> "T", u |-> "U", v |-> "V", w |-> "W", x |-> "X",
          y |-> "Y", z |-> "Z"]
Letters == DOMAIN Upper \cup Range(Upper)
Digits == {"0", "1", "2", "3", "4", "5", "6", "7", "8", "9"}

Fold(ch) == IF ch \in DOMAIN Upper THEN Upper[ch] ELSE ch
Uppercase(s) == [i \in 1..Len(s) |-> Fold(s[i])]

\* What is reached from start when s is read from left to right.
After(step(_, _), start, s) ==
  LET after[i \in 0..Len(s)] == IF i = 0 THEN start ELSE step(after[i - 1], s[i])
  IN after[Len(s)]

\* s with by in the place of every ch.
Replace(s, ch, by) ==
  After(LAMBDA out, read : out \o IF read = ch THEN by ELSE <<read>>, <<>>, s)

Occurs(part, s) ==
  \E i \in 0..Len(s) : i + Len(part) <= Len(s) /\ SubSeq(s, i + 1, i + Len(part)) = part
StartsWith(s, part) == Len(part) <= Len(s) /\ SubSeq(s, 1, Len(part)) = part

Blank == {" ", "\t"}
Trim(s) ==
  LET solid == {i \in 1..Len(s) : s[i] \notin Blank}
      first == CHOOSE i \in solid : \A j \in solid : i <= j
      last == CHOOSE i \in solid : \A j \in solid : j <= i
  IN IF solid = {} THEN <<>> ELSE SubSeq(s, first, last)

---------------------------------------------------------------------------
(* Domain and repository *)

Reserved ==
  {<<"S", "Y", "S", "T", "E", "M">>, <<"R", "O", "O", "T">>, <<"N", "U", "L", "L">>,
   <<"U", "N", "D", "E", "F", "I", "N", "E", "D">>}
SystemPrefixes ==
  {<<"S", "Y", "S", "_">>, <<"I", "N", "T", "E", "R", "N", "A", "L", "_">>}

\* validate_role_name; the name that is stored is the trimmed one.
Valid(input) ==
  LET name == Trim(input)
      upper == Uppercase(name)
  IN  /\ Len(name) \in 2..50
      /\ Range(name) \subseteq Letters \cup Digits \cup Blank \cup {"_", "-"}
      /\ \A word \in Reserved : ~Occurs(word, upper)
      /\ \A prefix \in SystemPrefixes : ~StartsWith(upper, prefix)

\* The characters that LIKE treats in a way of their own.
EscapeChar == "\\"
AnyText == "%"
AnyChar == "_"

\* The text with EscapeChar before every ch.
Escape(s, ch) == Replace(s, ch, <<EscapeChar, ch>>)

\* A variant of Pattern that escapes the escape character last.
PatternEscapedLast(name) ==
  <<AnyText>> \o Escape(Escape(Escape(name, AnyText), AnyChar), EscapeChar) \o <<AnyText>>

Pattern(name) ==
  <<AnyText>> \o Escape(Escape(Escape(name, EscapeChar), AnyText), AnyChar) \o <<AnyText>>

\* The text's lengths one behind ends, where the character read last is in fits.
Further(text, ends, fits) == {j \in 1..Len(text) : j - 1 \in ends /\ text[j] \in fits}
Alike(text, ch) == {other \in Range(text) : Fold(other) = Fold(ch)}

\* One character of a pattern: read.ends are the lengths of the parts of the text
\* that what was read of the pattern matches.
LikeStep(text, read, ch) ==
  CASE read.escaped \/ ch \notin {EscapeChar, AnyText, AnyChar} ->
         [ends |-> Further(text, read.ends, Alike(text, ch)), escaped |-> FALSE]
    [] ~read.escaped /\ ch = EscapeChar -> [ends |-> read.ends, escaped |-> TRUE]
    [] ~read.escaped /\ ch = AnyText ->
         [ends |-> {j \in 0..Len(text) : \E i \in read.ends : i <= j}, escaped |-> FALSE]
    [] ~read.escaped /\ ch = AnyChar ->
         [ends |-> Further(text, read.ends, Range(text)), escaped |-> FALSE]

LikeRead(text, pattern) ==
  After(LAMBDA read, ch : LikeStep(text, read, ch), [ends |-> {0}, escaped |-> FALSE], pattern)

\* The character of code 0, by a name that is none of the others.
Nul == "NUL"

\* SQLite takes a pattern for a C string, which ends before its first Nul.
BeforeNul(s) ==
  IF \A i \in 1..Len(s) : s[i] # Nul THEN s
  ELSE SubSeq(s, 1, (CHOOSE i \in 1..Len(s) : s[i] = Nul /\ \A j \in 1..(i - 1) : s[j] # Nul) - 1)

\* SQLite's LIKE with ESCAPE '\': letters match in either case.
Like(text, pattern) ==
  LET read == LikeRead(text, BeforeNul(pattern)) IN ~read.escaped /\ Len(text) \in read.ends

---------------------------------------------------------------------------
(* The registry's parameters, for names that are texts *)

\* Roles are renamed to names that create_role would have stored as they are.
ASSUME SearchAssumption ==
  /\ Inputs \cup Queries \cup Names \subseteq Seq(STRING)
  /\ \A input \in Inputs : Trimmed[input] = Trim(input) /\ (Trim(input) \in Rejected <=> ~Valid(input))
  /\ \A name \in Names : Trim(name) = name /\ Valid(name)

---------------------------------------------------------------------------
(* GET /api/v1/roles/search?name= *)

Asked == {query \in Queries \cup Inputs : Trim(query) # <<>>}

\* A variant of Matches that does not trim what is searched by.
MatchesUntrimmed == {pair \in Asked \X Names : Like(pair[2], Pattern(pair[1]))}

\* What is asked for, and a name that LIKE matches then; no state matters.
Matches == {pair \in Asked \X Names : Like(pair[2], Pattern(Trim(pair[1])))}

Found(query) == {id \in DOMAIN roles : <<query, roles[id]>> \in Matches}

---------------------------------------------------------------------------

Contains == {pair \in Asked \X Names : Occurs(Uppercase(Trim(pair[1])), Uppercase(pair[2]))}

\* A search finds the roles whose name contains what was asked for, in either
\* case, and no other: of the pattern's own characters none is left special,
\* whichever of %, _ and \ the request holds ("case-insensitive substring").  A
\* Nul cuts the pattern short, its last % included: a name has to end there.
SearchExact ==
  \A query \in Asked :
    Nul \notin Range(query) =>
      Found(query) = {id \in DOMAIN roles : <<query, roles[id]>> \in Contains}

=============================================================================
