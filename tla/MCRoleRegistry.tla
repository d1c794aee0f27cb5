--------------------------- MODULE MCRoleRegistry ---------------------------
(***************************************************************************)
(* Instances of RoleRegistry and RoleSearch for TLC: one new name in two   *)
(* spellings, one seeded name, and names that are refused.  The new name   *)
(* is one that a wildcard would take for the seeded one.                   *)
(***************************************************************************)
EXTENDS RoleSearch, TLC

CONSTANTS c1, c2, c3

Symmetry == Permutations(Clients)

\* The text of a string, and the texts of some.
Text(s) == [i \in 1..Len(s) |-> SubSeq(s, i, i)]
Texts(strings) == {Text(s) : s \in strings}

SomeNames == Texts({"ADMIN", "USER", "Ad_in"})
SomeInputs == Texts({"ADMIN", "Ad_in", " Ad_in ", "my root", "a", "Sys_1"})
SomeSeeds == <<Text("ADMIN"), Text("USER")>>

SomeRejected == Texts({"my root", "a", "Sys_1"})
SomeTrimmed ==
  [input \in SomeInputs |-> IF input = Text(" Ad_in ") THEN Text("Ad_in") ELSE input]

\* Parts of names in either case, blanks, every wildcard and escape, and a Nul.
SomeQueries ==
  Texts({"admin", "d_", "D_I", "%", "_", "\\", "\\_", "N%", "s E", "n\t", " "})
  \cup {<<"d", Nul, "x">>}

=============================================================================
