-------------------------- MODULE SequentialBreaker --------------------------
(***************************************************************************)
(* A breaker with a single caller implements BreakerContract.  The step at *)
(* which a call takes effect: the load of a closed state, the store of     *)
(* HALF_OPEN, the reset of the counter, the store of CLOSED or of OPEN.    *)
(***************************************************************************)
EXTENDS CircuitBreaker

\* Points of a call that is admitted and not yet recorded.
Pending == {"calling", "trying", "succeeded", "failed", "leave", "close",
            "reset", "count", "retreat", "stamp", "rezero", "trip"}

Opening == {"stamp", "rezero", "trip"}

\* The contract's view of a caller; a pending call was admitted as a trial
\* exactly when the circuit is half-open.
CallOf(t) ==
  CASE pc[t] \notin Pending -> "none"
    [] pc[t] \in Pending /\ state = "half_open" -> "trial"
    [] pc[t] \in Pending /\ state # "half_open" -> "normal"

\* The last failure of a streak takes effect when the circuit shows as open.
StreakOf ==
  IF state = "closed" /\ \E t \in Threads : pc[t] \in Opening
    THEN IF FailureThreshold = 0 THEN 0 ELSE FailureThreshold - 1
    ELSE failures

Contract == INSTANCE BreakerContract WITH
  Callers <- Threads,
  circuit <- state,
  streak <- StreakOf,
  ripe <- (state = "open" /\ openedAt = "elapsed"),
  call <- [t \in Threads |-> CallOf(t)]

\* Used by one caller at a time, the breaker does what its documentation says,
\* although the first trial is never counted in half_open_inflight.
MeetsContract == Contract!Spec

---------------------------------------------------------------------------
(* The methods in one step each *)

\* Points at which record_success, or record_failure, has taken effect: in a
\* half-open circuit with the fetch_sub, in a closed one with the counter.
Closing == {"close", "zero", "clear"}

\* What the breaker is once the method under way is done.
BreakerAfter(points) ==
  [state |-> IF points \cap Opening # {} THEN "open"
             ELSE IF points \cap Closing # {} THEN "closed" ELSE state,
   failures |-> IF points \cap (Opening \cup Closing) # {} THEN 0 ELSE failures,
   openedAt |-> IF points \cap Closing # {} THEN "none"
                ELSE IF "stamp" \in points THEN "fresh" ELSE openedAt,
   inflight |-> inflight]

MethodOf(t) ==
  CASE pc[t] \in {"calling", "trying"} -> "under_way"
    [] pc[t] \in {"succeeded", "leave", "reset"} -> "ok"
    [] pc[t] \in {"failed", "count", "retreat"} -> "error"
    [] OTHER -> "none"

Methods == INSTANCE BreakerMethods WITH
  Callers <- Threads,
  breaker <- BreakerAfter({pc[t] : t \in Threads}),
  call <- [t \in Threads |-> MethodOf(t)]

\* Used by one caller at a time, whether its calls return or panic, the breaker's
\* operations add up to its methods as Breaker has them, each in one step.
MethodsInOneStep == Methods!Spec

=============================================================================
