-------------------------- MODULE BreakerOperations --------------------------
(***************************************************************************)
(* The circuit breaker as a value and its atomic operations as operators   *)
(* on it, for the modules that put a breaker around a port that several    *)
(* threads use.  The operations are those of CircuitBreaker: one leads to  *)
(* the next, or to an outcome of the method.                               *)
(***************************************************************************)
EXTENDS Naturals

CONSTANTS
  FailureThreshold,  \* CbConfig.failure_threshold
  HalfOpenMax,       \* CbConfig.half_open_max
  WordMax            \* usize::MAX, a small number in the runs

Breakers == [state: {"closed", "open", "half_open"},
             failures: Nat,
             openedAt: {"none", "fresh", "elapsed"},
             inflight: 0..WordMax]

NewBreaker == [state |-> "closed", failures |-> 0, openedAt |-> "none", inflight |-> 0]

\* The operations of try_acquire, which starts with "acquire"; those of
\* record_success and record_failure, which start with "succeeded" and "failed".
Acquiring == {"acquire", "gauge", "join", "clock", "probe"}
Recording == {"succeeded", "leave", "close", "zero", "clear", "reset",
              "failed", "count", "retreat", "stamp", "rezero", "trip"}
Outcomes == {"admitted", "rejected", "recorded"}

\* What try_acquire, record_success and record_failure do about the state they load.
Admission(state) ==
  CASE state = "closed" -> "admitted"
    [] state = "half_open" -> "gauge"
    [] state = "open" -> "clock"

\* A variant of AfterSuccess that leaves a half-open circuit as it is.
AfterSuccessIgnoresTrial(state) == IF state = "closed" THEN "reset" ELSE "recorded"

\* A variant of AfterSuccess that keeps the count of failures.
AfterSuccessKeepsCount(state) == IF state = "half_open" THEN "leave" ELSE "recorded"

AfterSuccess(state) ==
  CASE state = "closed" -> "reset"
    [] state = "half_open" -> "leave"
    [] state = "open" -> "recorded"

AfterFailure(state) ==
  CASE state = "closed" -> "count"
    [] state = "half_open" -> "retreat"
    [] state = "open" -> "recorded"

\* What follows an operation; a load decides by what it finds.
Following(cb, op) ==
  CASE op = "acquire" -> Admission(cb.state)
    [] op = "gauge" -> IF cb.inflight >= HalfOpenMax THEN "rejected" ELSE "join"
    [] op = "clock" -> IF cb.openedAt = "elapsed" THEN "probe" ELSE "rejected"
    [] op \in {"join", "probe"} -> "admitted"
    [] op = "succeeded" -> AfterSuccess(cb.state)
    [] op = "leave" -> "close"
    [] op = "close" -> "zero"
    [] op = "zero" -> "clear"
    [] op = "failed" -> AfterFailure(cb.state)
    [] op = "count" -> IF cb.failures + 1 >= FailureThreshold THEN "stamp" ELSE "recorded"
    [] op = "retreat" -> "stamp"
    [] op = "stamp" -> "rezero"
    [] op = "rezero" -> "trip"
    [] op \in {"clear", "reset", "trip"} -> "recorded"

\* A variant of Decremented with a counter that goes below zero.
DecrementedSigned(n) == n - 1

\* fetch_add and fetch_sub of half_open_inflight wrap around.
Incremented(n) == IF n = WordMax THEN 0 ELSE n + 1
Decremented(n) == IF n = 0 THEN WordMax ELSE n - 1

\* What an operation stores.
Stored(cb, op) ==
  CASE op = "probe" -> [cb EXCEPT !.state = "half_open"]
    [] op = "close" -> [cb EXCEPT !.state = "closed"]
    [] op = "trip" -> [cb EXCEPT !.state = "open"]
    [] op = "count" -> [cb EXCEPT !.failures = @ + 1]
    [] op \in {"zero", "reset", "rezero"} -> [cb EXCEPT !.failures = 0]
    [] op = "join" -> [cb EXCEPT !.inflight = Incremented(@)]
    [] op \in {"leave", "retreat"} -> [cb EXCEPT !.inflight = Decremented(@)]
    [] op = "stamp" -> [cb EXCEPT !.openedAt = "fresh"]
    [] op = "clear" -> [cb EXCEPT !.openedAt = "none"]
    [] op \in {"acquire", "gauge", "clock", "succeeded", "failed"} -> cb

\* reset_timeout passes since the last stamp.
Ripe(cb) == [cb EXCEPT !.openedAt = "elapsed"]

=============================================================================
