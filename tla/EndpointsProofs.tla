--------------------------- MODULE EndpointsProofs ---------------------------
(***************************************************************************)
(* What an answer tells of the request, for every number of requests,      *)
(* every setting and every length of a batch.                              *)
(***************************************************************************)
EXTENDS Endpoints, TLAPS

\* What a handler still has to do and what it has done add up to what was
\* asked; nothing is done before the Graph is called.
Progress(r) ==
  /\ at[r] \in Open => took[r] + left[r] = ask[r].calls
  /\ at[r] \in {"middleware", "route"} => took[r] = 0
  /\ at[r] = "inside" => left[r] > 0
  /\ at[r] \in {"call", "inside"} => ask[r].door # "health"

EndpointsInv == TypeOK /\ (\A r \in Requests : Progress(r)) /\ AnswerTellsOutcome

\* The methods of the breaker keep to the machine word.
LEMMA CircuitTyped ==
  ASSUME NEW cb \in XdbCircuit!Breakers
  PROVE  /\ XdbCircuit!Admitted(cb) \in XdbCircuit!Breakers
         /\ XdbCircuit!Succeeded(cb) \in XdbCircuit!Breakers
         /\ XdbCircuit!Failed(cb) \in XdbCircuit!Breakers
         /\ XdbCircuit!Ripe(cb) \in XdbCircuit!Breakers
<1> USE EndpointsAssumption DEF XdbCircuit!Breakers
<1>1. \A n \in 0..WordMax :
        (n + 1) % (WordMax + 1) \in 0..WordMax /\ (n + WordMax) % (WordMax + 1) \in 0..WordMax
  OBVIOUS
<1>2. XdbCircuit!Left(cb) \in XdbCircuit!Breakers
  BY <1>1 DEF XdbCircuit!Left
<1>3. XdbCircuit!Admitted(cb) \in XdbCircuit!Breakers
  BY <1>1 DEF XdbCircuit!Admitted
<1>4. XdbCircuit!Succeeded(cb) \in XdbCircuit!Breakers
  BY <1>2 DEF XdbCircuit!Succeeded
<1>5. XdbCircuit!Failed(cb) \in XdbCircuit!Breakers
  <2>1. \A b \in XdbCircuit!Breakers : XdbCircuit!Opened(b) \in XdbCircuit!Breakers
    BY DEF XdbCircuit!Opened
  <2>2. QED
    BY <1>2, <2>1 DEF XdbCircuit!Failed
<1>6. XdbCircuit!Ripe(cb) \in XdbCircuit!Breakers
  BY DEF XdbCircuit!Ripe
<1>7. QED
  BY <1>3, <1>4, <1>5, <1>6

\* The doors' statuses: only what create refuses is a 4xx, and no success is.
LEMMA Statuses ==
  ASSUME NEW door \in Doors
  PROVE  /\ \A error \in {"none"} \cup DOMAIN DomainStatus :
              [status |-> Status(door, error), error |-> error] \in Answers
         /\ \A error \in {"none", "Internal", "Unavailable"} :
              Status(door, error) \notin 400..499
BY DEF Doors, PortOf, Status, DomainStatus, Answers

\* What AnswerTellsOutcome says of one request.
Tells(r) ==
  at[r] = "answered" =>
    /\ answer[r].error = "none" /\ answer[r].status # 404 => took[r] = ask[r].calls
    /\ answer[r].status \in 400..499 => took[r] = 0

LEMMA TellsOutcome ==
  /\ AnswerTellsOutcome <=> \A r \in Requests : Tells(r)
  /\ AnswerTellsOutcome' <=> \A r \in Requests : Tells(r)'
BY DEF AnswerTellsOutcome, Tells

\* Each step of a handler keeps the types, and what its own request is told.
LEMMA HandlerSound ==
  ASSUME TypeOK, NEW r \in Requests, Progress(r), Tells(r), Handler(r)
  PROVE  TypeOK' /\ Progress(r)' /\ Tells(r)'
<1> USE EndpointsAssumption DEF TypeOK, Progress, Tells, Open, world
<1>1. ask[r] \in Asks /\ ask[r].door \in Doors /\ ask[r].calls \in Nat
  BY DEF Ask
<1>2. ask[r].door # "graphql" => ask[r].calls = 1
  BY <1>1
<1>3. CASE Authenticate(r)
  <2>1. CASE Answer(r, 401, "refused")
    BY <1>3, <2>1, <1>1 DEF Authenticate, Answer, Answers
  <2>2. CASE Go(r, "middleware", "route") /\ UNCHANGED answer
    BY <1>3, <2>2, <1>1 DEF Authenticate, Go
  <2>3. QED
    BY <1>3, <2>1, <2>2 DEF Authenticate
<1>4. CASE Route(r)
  <2>1. CASE ask[r].door \notin setting.routes /\ Answer(r, 404, "refused") /\ UNCHANGED took
    BY <1>4, <2>1, <1>1 DEF Route, Answer, Answers
  <2>2. CASE ask[r].door = "health" /\ Say(r, "none") /\ took' = [took EXCEPT ![r] = 1]
    BY <1>4, <2>2, <1>1, <1>2, Statuses DEF Route, Say, Answer
  <2>3. CASE Answer(r, 400, "InvalidRequest") /\ UNCHANGED took
    BY <1>4, <2>3, <1>1 DEF Route, Answer, Answers, DomainStatus
  <2>4. CASE ask[r].door # "health" /\ Go(r, "route", "call") /\ UNCHANGED <<answer, took>>
    BY <1>4, <2>4, <1>1 DEF Route, Go
  <2>5. QED
    BY <1>4, <2>1, <2>2, <2>3, <2>4 DEF Route
<1>5. CASE Call(r)
  <2>1. \A error \in {"Internal", "Unavailable"} :
          Say(r, error) /\ UNCHANGED <<circuit, world, ask, left, took>>
            => TypeOK' /\ Progress(r)' /\ Tells(r)'
    <3> SUFFICES ASSUME NEW error \in {"Internal", "Unavailable"}, Say(r, error),
                        UNCHANGED <<circuit, world, ask, left, took>>
                 PROVE  TypeOK' /\ Progress(r)' /\ Tells(r)'
      OBVIOUS
    <3>1. [status |-> Status(ask[r].door, error), error |-> error] \in Answers
      BY <1>1, Statuses DEF DomainStatus
    <3>2. QED
      BY <1>1, <3>1, Statuses DEF Say, Answer
  <2>2. CASE Go(r, "call", "inside") /\ UNCHANGED answer
    BY <1>5, <2>2, <1>1, CircuitTyped DEF Call, Go
  <2>3. QED
    BY <1>5, <2>1, <2>2 DEF Call
<1>6. CASE Sheet(r)
  <2>1. CASE Succeed(r) /\ circuit' = XdbCircuit!Succeeded(circuit)
    BY <1>6, <2>1, <1>1, CircuitTyped DEF Sheet, Succeed, Go, PortOf
  <2>2. CASE Fail(r, "Internal") /\ UNCHANGED took /\ circuit' = XdbCircuit!Failed(circuit)
    BY <1>6, <2>2, <1>1, CircuitTyped, Statuses DEF Sheet, Fail, Say, Answer, DomainStatus
  <2>3. QED
    BY <1>6, <2>1, <2>2 DEF Sheet
<1>7. CASE Other(r)
  <2>1. ask[r].door # "graphql"
    BY <1>7 DEF Other, PortOf
  <2>2. CASE Succeed(r)
    BY <1>7, <2>2, <1>1 DEF Other, Succeed, Go
  <2>3. CASE Fail(r, "Internal") /\ \E b \in {0, 1} : took' = [took EXCEPT ![r] = b]
    BY <1>7, <2>3, <1>1, Statuses DEF Other, Fail, Say, Answer, DomainStatus
  <2>4. CASE (\E error \in {"InvalidRequest", "Duplicate"} : Fail(r, error)) /\ UNCHANGED took
    BY <1>7, <2>4, <2>1, <1>1, <1>2, Statuses DEF Other, Fail, Say, Answer, DomainStatus
  <2>5. CASE at[r] = "inside" /\ Answer(r, 404, "none") /\ UNCHANGED <<left, took>>
    BY <1>7, <2>5, <2>1, <1>1, <1>2, SMTT(30) DEF Other, Answer, Answers
  <2>6. QED
    BY <1>7, <2>2, <2>3, <2>4, <2>5 DEF Other
<1>8. CASE Done(r)
  BY <1>8, <1>1, Statuses DEF Done, Say, Answer
<1>9. QED
  BY <1>3, <1>4, <1>5, <1>6, <1>7, <1>8 DEF Handler

LEMMA HandlerLeavesOthers ==
  ASSUME TypeOK, NEW r \in Requests, Handler(r), NEW q \in Requests \ {r}
  PROVE  /\ at'[q] = at[q] /\ left'[q] = left[q] /\ took'[q] = took[q]
         /\ ask'[q] = ask[q] /\ answer'[q] = answer[q]
<1> USE DEF TypeOK, Answer, Go, Say
<1>1. CASE Authenticate(r) \/ Route(r) \/ Call(r)
  BY <1>1 DEF Authenticate, Route, Call
<1>2. CASE Sheet(r) \/ Other(r) \/ Done(r)
  BY <1>2 DEF Sheet, Other, Done, Succeed, Fail
<1>3. QED
  BY <1>1, <1>2 DEF Handler

LEMMA EndpointsInvariant == Spec => []EndpointsInv
<1> USE DEF EndpointsInv
<1>1. Init => EndpointsInv
  <2> SUFFICES ASSUME Init PROVE EndpointsInv
    OBVIOUS
  <2>1. TypeOK
    BY EndpointsAssumption
       DEF Init, TypeOK, Answers, Pending, XdbCircuit!NewBreaker, XdbCircuit!Breakers
  <2>2. \A r \in Requests : ask[r] \in Asks /\ ask[r].calls = 1
    BY EndpointsAssumption DEF Init
  <2>3. \A r \in Requests : Progress(r) /\ Tells(r)
    BY <2>2 DEF Init, Progress, Tells, Open, Pending
  <2>4. QED
    BY <2>1, <2>3, TellsOutcome
<1>2. EndpointsInv /\ [Next]_vars => EndpointsInv'
  <2> SUFFICES ASSUME EndpointsInv, [Next]_vars PROVE EndpointsInv'
    OBVIOUS
  <2>1. \A r \in Requests : Tells(r)
    BY TellsOutcome
  <2>2. TypeOK' /\ (\A r \in Requests : Progress(r)' /\ Tells(r)') => EndpointsInv'
    BY TellsOutcome
  <2>3. ASSUME NEW r \in Requests, Handler(r) PROVE EndpointsInv'
    <3>1. TypeOK' /\ Progress(r)' /\ Tells(r)'
      BY <2>1, <2>3, HandlerSound
    <3>2. \A q \in Requests \ {r} : Progress(q)' /\ Tells(q)'
      BY <2>1, <2>3, HandlerLeavesOthers DEF Progress, Tells
    <3>3. QED
      BY <3>1, <3>2, <2>2
  <2>4. ASSUME NEW r \in Requests, NEW a \in Asks, Arrive(r, a) PROVE EndpointsInv'
    <3> USE DEF TypeOK, Progress, Tells, Arrive, Go, world, Open
    <3>1. a.door \in Doors /\ a.calls \in Nat
      BY EndpointsAssumption DEF Ask
    <3>2. TypeOK'
      BY <2>4, <3>1 DEF Answers, Pending
    <3>3. Progress(r)' /\ Tells(r)'
      BY <2>4, <3>1
    <3>4. \A q \in Requests \ {r} : Progress(q)' /\ Tells(q)'
      BY <2>1, <2>4
    <3>5. QED
      BY <2>2, <3>2, <3>3, <3>4
  <2>5. CASE Elapse
    BY <2>1, <2>2, <2>5, CircuitTyped DEF Elapse, TypeOK, Progress, Tells, world
  <2>6. CASE XdbChanges
    BY <2>1, <2>2, <2>6 DEF XdbChanges, TypeOK, Progress, Tells
  <2>7. CASE UNCHANGED vars
    BY <2>1, <2>2, <2>7 DEF vars, TypeOK, Progress, Tells
  <2>8. QED
    BY <2>3, <2>4, <2>5, <2>6, <2>7 DEF Next
<1>3. QED
  BY <1>1, <1>2, PTL DEF Spec

\* Every handler, whatever it is asked and however its ports answer, stays
\* within its types: no batch makes more calls than it has sheets.
THEOREM EndpointsTypeCorrect == Spec => []TypeOK
BY EndpointsInvariant, PTL DEF EndpointsInv

\* An answer without an error means that all that was asked took effect, a 4xx
\* that nothing did, for every door and every length of a batch.
THEOREM AnswersTellOutcome == Spec => []AnswerTellsOutcome
BY EndpointsInvariant, PTL DEF EndpointsInv

=============================================================================
