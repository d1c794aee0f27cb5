----------------------------- MODULE MCEndpoints -----------------------------
(***************************************************************************)
(* Instances of Endpoints for TLC.                                         *)
(***************************************************************************)
EXTENDS Endpoints

CONSTANTS r1, r2

Plain(door) == [door |-> door, token |-> TRUE, good |-> TRUE, calls |-> 1]

\* One door of each kind; a batch and an empty one; no token; a body that can
\* not be read.
SomeAsks ==
  {Plain(door) : door \in {"health", "sheet", "grpc", "create", "find"}} \cup
  {[Plain("graphql") EXCEPT !.calls = 2],
   [Plain("graphql") EXCEPT !.calls = 0],
   [Plain("create") EXCEPT !.token = FALSE],
   [Plain("email") EXCEPT !.good = FALSE]}

Everything == [jwt |-> TRUE, routes |-> Doors, wired |-> Ports, client |-> "http"]

\* All features, over either client; the default features, without adapters.
SomeSettings ==
  {Everything, [Everything EXCEPT !.client = "grpc", !.routes = Doors \ {"grpc"}],
   [Everything EXCEPT !.jwt = FALSE, !.routes = {"sheet", "health", "email"}, !.wired = {}]}

=============================================================================
