----------------------------- MODULE MCSheetPath -----------------------------
(***************************************************************************)
(* Instances of SheetPath for TLC.                                         *)
(***************************************************************************)
EXTENDS SheetPath

CONSTANT c1

InMemory == [redis |-> FALSE, cache |-> {"up"}, ttl |-> 1, nested |-> {}, writers |-> Callers,
             xdb |-> {"up"}, versions |-> 2]
Redis == [InMemory EXCEPT !.redis = TRUE]

\* The in-memory cache over an XDB that may answer ok: false, and over one that
\* may be down; a Redis that may err and recover, with callers that only read;
\* and a sound Redis with a ttl of 0, where one caller comes in over gRPC and
\* goes out over gRPC.
SomeSettings == {[InMemory EXCEPT !.xdb = {"up", "faulty"}],
                 [InMemory EXCEPT !.xdb = {"up", "down"}],
                 [Redis EXCEPT !.cache = {"up", "erring"}, !.writers = {}, !.versions = 1],
                 [Redis EXCEPT !.ttl = 0, !.nested = {c1}, !.writers = Callers \ {c1}]}

=============================================================================
