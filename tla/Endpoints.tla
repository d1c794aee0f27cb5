------------------------------ MODULE Endpoints ------------------------------
(***************************************************************************)
(* The ways into the process: the routes of main.rs, GraphQL behind one of *)
(* them, and the gRPC server.  All of them ask one Graph, whose port to    *)
(* XDB has one circuit breaker (here without the cache, see SheetPath).    *)
(* What XDB fails to answer the HTTP client gives up after 10 s, the gRPC  *)
(* client never.  Scripts are in ScriptService, names in RoleSearch.       *)
(***************************************************************************)
EXTENDS Naturals, FiniteSets

CONSTANTS
  Requests,          \* requests that can be under way at once
  Asks,              \* what may be asked
  Settings,          \* what a start may find
  FailureThreshold, HalfOpenMax, WordMax

\* A door, by the Graph method behind it, and the port that method needs.
PortOf ==
  [sheet |-> "abc", graphql |-> "abc", grpc |-> "abc", items |-> "store", email |-> "email",
   create |-> "roles", list |-> "roles", search |-> "roles", find |-> "roles",
   health |-> "none"]
Doors == DOMAIN PortOf
Ports == {"abc", "store", "email", "roles"}

\* token: a valid one was sent; good: the body, query or id can be read; calls:
\* how often the Graph is asked, which only abcSheets does more than once.
Ask == [door: Doors, token: BOOLEAN, good: BOOLEAN, calls: Nat]

\* jwt: JWT_SECRET is set; routes: the doors the features build; wired: the
\* ports from_env found; client: HEX_XDB_GRPC_ENABLED.
Setting ==
  [jwt: BOOLEAN, routes: SUBSET Doors, wired: SUBSET Ports, client: {"http", "grpc"}]

ASSUME EndpointsAssumption ==
  /\ {FailureThreshold, HalfOpenMax} \subseteq Nat /\ WordMax \in Nat \ {0}
  /\ Asks \subseteq Ask
  /\ \A a \in Asks : a.calls # 1 => a.door = "graphql"
  /\ Settings \subseteq Setting
  /\ \A s \in Settings :
       /\ {"sheet", "health"} \subseteq s.routes
       /\ s.client = "grpc" => "grpc" \notin s.routes  \* SheetPath has both

VARIABLES
  setting,
  circuit,  \* the breaker around XDB
  xdb,      \* whether XDB is up, down, or hung
  ask,      \* ask[r], one of Asks
  at,       \* at[r]: where the handler of r is
  left,     \* left[r]: calls still to make
  took,     \* took[r]: calls that took effect or gave what was asked (history)
  answer    \* answer[r]: the HTTP or gRPC status and the error it stands for

vars == <<setting, circuit, xdb, ask, at, left, took, answer>>
world == <<setting, xdb>>

XdbCircuit == INSTANCE Breaker

DomainStatus ==
  [InvalidRequest |-> 400, Duplicate |-> 409, Unavailable |-> 503, Internal |-> 500]

\* gRPC: 0 is OK, 13 INTERNAL.
Status(door, error) ==
  CASE door = "graphql" -> 200
    [] door = "grpc" -> IF error = "none" THEN 0 ELSE 13
    [] OTHER ->
         IF error # "none" THEN DomainStatus[error] ELSE IF door = "create" THEN 201 ELSE 200

Open == {"middleware", "route", "call", "inside"}
Answers ==
  [status: {0, 13, 200, 201, 400, 401, 404, 409, 500, 503},
   error: {"none", "refused"} \cup DOMAIN DomainStatus]

TypeOK ==
  /\ setting \in Settings
  /\ circuit \in XdbCircuit!Breakers
  /\ xdb \in {"up", "down", "hung"}
  /\ ask \in [Requests -> Asks]
  /\ at \in [Requests -> {"answered"} \cup Open]
  /\ left \in [Requests -> Nat]
  /\ took \in [Requests -> Nat]
  /\ answer \in [Requests -> Answers]

Pending == [status |-> 200, error |-> "none"]

\* Nothing has been asked yet: as after a call of /health.
Init ==
  /\ setting \in Settings
  /\ circuit = XdbCircuit!NewBreaker
  /\ xdb = "up"
  /\ ask \in [Requests -> {a \in Asks : a.door = "health"}]
  /\ at = [r \in Requests |-> "answered"]
  /\ left = [r \in Requests |-> 0]
  /\ took = [r \in Requests |-> 1]
  /\ answer = [r \in Requests |-> Pending]

Go(r, from, to) == at[r] = from /\ at' = [at EXCEPT ![r] = to]
Answer(r, status, error) ==
  /\ at' = [at EXCEPT ![r] = "answered"]
  /\ answer' = [answer EXCEPT ![r] = [status |-> status, error |-> error]]
Say(r, error) == Answer(r, Status(ask[r].door, error), error)

---------------------------------------------------------------------------
(* The server *)

\* The gRPC server has neither the middleware nor anything to parse.
Arrive(r, a) ==
  /\ a.door \in setting.routes \/ a.door # "grpc"
  /\ Go(r, "answered", IF a.door = "grpc" THEN "call" ELSE "middleware")
  /\ ask' = [ask EXCEPT ![r] = a]
  /\ left' = [left EXCEPT ![r] = a.calls]
  /\ took' = [took EXCEPT ![r] = 0]
  /\ answer' = [answer EXCEPT ![r] = Pending]
  /\ UNCHANGED <<circuit, world>>

\* auth_middleware, registered before any route: /health needs no token.
Authenticate(r) ==
  /\ at[r] = "middleware"
  /\ IF setting.jwt /\ ask[r].door # "health" /\ ~ask[r].token
       THEN Answer(r, 401, "refused")
       ELSE Go(r, "middleware", "route") /\ UNCHANGED answer
  /\ UNCHANGED <<circuit, world, ask, left, took>>

\* The closure of the route, up to its call of the Graph.
Route(r) ==
  /\ at[r] = "route"
  /\ CASE ask[r].door \notin setting.routes -> Answer(r, 404, "refused") /\ UNCHANGED took
       [] ask[r].door = "health" -> Say(r, "none") /\ took' = [took EXCEPT ![r] = 1]
       [] ~ask[r].good -> Answer(r, 400, "InvalidRequest") /\ UNCHANGED took
       [] OTHER -> Go(r, "route", "call") /\ UNCHANGED <<answer, took>>
  /\ UNCHANGED <<circuit, world, ask, left>>

---------------------------------------------------------------------------
(* The Graph and its ports *)

\* Into the port, if the Graph has one and its circuit admits the call.
Call(r) ==
  LET port == PortOf[ask[r].door]
  IN  /\ at[r] = "call" /\ left[r] > 0
      /\ CASE port \notin setting.wired -> Say(r, "Internal") /\ UNCHANGED circuit
           [] port = "abc" /\ ~XdbCircuit!Admits(circuit) ->
                Say(r, "Unavailable") /\ UNCHANGED circuit
           [] OTHER ->
                /\ Go(r, "call", "inside") /\ UNCHANGED answer
                /\ circuit' = IF port = "abc" THEN XdbCircuit!Admitted(circuit) ELSE circuit
      /\ UNCHANGED <<world, ask, left, took>>

\* One of the calls succeeds; abcSheets goes on to the next.
Succeed(r) ==
  /\ Go(r, "inside", "call")
  /\ left' = [left EXCEPT ![r] = @ - 1]
  /\ took' = [took EXCEPT ![r] = @ + 1]
  /\ UNCHANGED answer

\* A variant of Fail for which abcSheets skips what it could not read.
FailSkips(r, error) ==
  IF left[r] > 1
    THEN /\ Go(r, "inside", "call")
         /\ left' = [left EXCEPT ![r] = @ - 1]
         /\ UNCHANGED answer
    ELSE at[r] = "inside" /\ Say(r, error) /\ UNCHANGED left

\* A variant of Fail that leaves the error to the status alone.
FailUntyped(r, error) ==
  at[r] = "inside" /\ Answer(r, Status(ask[r].door, error), "") /\ UNCHANGED left

\* The ? of the resolvers and the Err arms of the routes: the first failure is
\* the answer.
Fail(r, error) == at[r] = "inside" /\ Say(r, error) /\ UNCHANGED left

Done(r) ==
  /\ at[r] = "call" /\ left[r] = 0
  /\ Say(r, "none")
  /\ UNCHANGED <<circuit, world, ask, left, took>>

\* A variant of Sheet without the client's timeout.
SheetWaits(r) ==
  /\ PortOf[ask[r].door] = "abc"
  /\ \/ xdb = "up" /\ Succeed(r) /\ circuit' = XdbCircuit!Succeeded(circuit)
     \/ /\ xdb = "down"
        /\ Fail(r, "Internal") /\ UNCHANGED took
        /\ circuit' = XdbCircuit!Failed(circuit)
  /\ UNCHANGED <<world, ask>>

\* A variant of Sheet that tells the breaker nothing of a timeout.
SheetTimeoutUncounted(r) ==
  /\ PortOf[ask[r].door] = "abc"
  /\ \/ xdb = "up" /\ Succeed(r) /\ circuit' = XdbCircuit!Succeeded(circuit)
     \/ /\ xdb = "down" \/ setting.client = "http"
        /\ Fail(r, "Internal") /\ UNCHANGED took
        /\ circuit' = IF xdb = "hung" THEN circuit ELSE XdbCircuit!Failed(circuit)
  /\ UNCHANGED <<world, ask>>

\* An answer of XDB, an error, or the timeout the HTTP client has.
Sheet(r) ==
  /\ PortOf[ask[r].door] = "abc"
  /\ \/ xdb = "up" /\ Succeed(r) /\ circuit' = XdbCircuit!Succeeded(circuit)
     \/ /\ xdb = "down" \/ setting.client = "http"
        /\ Fail(r, "Internal") /\ UNCHANGED took
        /\ circuit' = XdbCircuit!Failed(circuit)
  /\ UNCHANGED <<world, ask>>

\* What else the Graph's methods return, besides ok and errors of the adapter,
\* after which an email or a role may be there all the same.
Other(r) ==
  /\ PortOf[ask[r].door] # "abc"
  /\ \/ Succeed(r)
     \/ /\ Fail(r, "Internal")
        /\ \E b \in {0, 1} : took' = [took EXCEPT ![r] = b]
     \/ /\ ask[r].door = "create"
        /\ \E error \in {"InvalidRequest", "Duplicate"} : Fail(r, error)
        /\ UNCHANGED took
     \/ /\ ask[r].door = "find"
        /\ at[r] = "inside" /\ Answer(r, 404, "none") /\ UNCHANGED <<left, took>>
  /\ UNCHANGED <<circuit, world, ask>>

Handler(r) ==
  \/ Authenticate(r) \/ Route(r) \/ Call(r) \/ Sheet(r) \/ Other(r) \/ Done(r)

\* reset_timeout
Elapse ==
  /\ circuit.openedAt = "fresh"
  /\ circuit' = XdbCircuit!Ripe(circuit)
  /\ UNCHANGED <<world, ask, at, left, took, answer>>

XdbChanges ==
  /\ xdb' \in {"up", "down", "hung"} \ {xdb}
  /\ UNCHANGED <<setting, circuit, ask, at, left, took, answer>>

Next ==
  \/ \E r \in Requests : Handler(r) \/ \E a \in Asks : Arrive(r, a)
  \/ Elapse \/ XdbChanges

Spec == Init /\ [][Next]_vars

\* Handlers are scheduled, time passes, ports other than XDB's return.
FairSpec == Spec /\ WF_vars(Elapse) /\ \A r \in Requests : WF_vars(Handler(r))

---------------------------------------------------------------------------

\* The answer tells what was done.  If it reports no error, all was: a batch of
\* sheets is answered as a whole or not at all.  A 4xx, by whichever check it
\* came and of whichever door, says that nothing was.
AnswerTellsOutcome ==
  \A r \in Requests : at[r] = "answered" =>
    LET a == answer[r]
    IN  /\ a.error = "none" /\ a.status # 404 => took[r] = ask[r].calls
        /\ a.status \in 400..499 => took[r] = 0

\* An XDB that hangs does not keep the requests for it, if the client has a
\* timeout: each is answered, though the answer may be an error.
EveryRequestAnswered ==
  setting.client = "http" => \A r \in Requests : at[r] \in Open ~> at[r] = "answered"

\* A hanging XDB is a failing one to the breaker: over a client with a timeout
\* its callers, by whatever doors they come, end up with the circuit open or
\* probing.
HungXdbTrips ==
  /\ setting.client = "http" /\ <>[](xdb = "hung")
  /\ []<>(\E r \in Requests : at[r] = "inside" /\ PortOf[ask[r].door] = "abc")
  => <>[](circuit.state # "closed")

=============================================================================
