------------------------------- MODULE Breaker -------------------------------
(***************************************************************************)
(* The circuit breaker as a value, its methods as operators on it, for the *)
(* modules that put a breaker around a port.  A method is one step here;   *)
(* CircuitBreaker has the interleavings inside the methods.                *)
(***************************************************************************)
EXTENDS Naturals

CONSTANTS
  FailureThreshold,  \* CbConfig.failure_threshold
  HalfOpenMax,       \* CbConfig.half_open_max
  WordMax            \* usize::MAX, a small number in the runs

Breakers == [state: {"closed", "open", "half_open"},
             failures: Nat,
             openedAt: {"none", "fresh", "elapsed"},
             inflight: 0..WordMax]

NewBreaker == [state |-> "closed", failures |-> 0, openedAt |-> "none", inflight |-> 0]

\* try_acquire: whether a call is admitted, and the breaker it leaves behind.
Admits(cb) ==
  \/ cb.state = "closed"
  \/ cb.state = "half_open" /\ cb.inflight < HalfOpenMax
  \/ cb.state = "open" /\ cb.openedAt = "elapsed"

Admitted(cb) ==
  CASE cb.state = "closed" -> cb
    [] cb.state = "half_open" -> [cb EXCEPT !.inflight = (@ + 1) % (WordMax + 1)]
    [] cb.state = "open" -> [cb EXCEPT !.state = "half_open"]

\* fetch_sub wraps around.
Left(cb) == [cb EXCEPT !.inflight = (@ + WordMax) % (WordMax + 1)]

Opened(cb) == [cb EXCEPT !.state = "open", !.failures = 0, !.openedAt = "fresh"]

\* record_success
Succeeded(cb) ==
  CASE cb.state = "closed" -> [cb EXCEPT !.failures = 0]
    [] cb.state = "half_open" ->
         [Left(cb) EXCEPT !.state = "closed", !.failures = 0, !.openedAt = "none"]
    [] cb.state = "open" -> cb

\* record_failure
Failed(cb) ==
  CASE cb.state = "closed" ->
         IF cb.failures + 1 >= FailureThreshold
           THEN Opened(cb)
           ELSE [cb EXCEPT !.failures = @ + 1]
    [] cb.state = "half_open" -> Opened(Left(cb))
    [] cb.state = "open" -> cb

\* reset_timeout passes since the circuit opened.
Ripe(cb) == [cb EXCEPT !.openedAt = "elapsed"]

=============================================================================
