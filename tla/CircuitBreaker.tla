--------------------------- MODULE CircuitBreaker ---------------------------
(***************************************************************************)
(* The circuit breaker every services.* call goes through                  *)
(* (src/src/infrastructure/circuit_breaker.rs), at the granularity of its  *)
(* atomic operations: a caller is a thread inside run(), and each load,    *)
(* store, fetch_add, fetch_sub or mutex section is one step.  pc[t] names  *)
(* the operation thread t executes next.                                   *)
(***************************************************************************)
EXTENDS Naturals, FiniteSets

CONSTANTS
  Threads,           \* callers of run(): HTTP coroutines, gRPC workers, script threads
  FailureThreshold,  \* CbConfig.failure_threshold
  HalfOpenMax,       \* CbConfig.half_open_max
  WordMax,           \* usize::MAX, a small number in the runs
  Panics             \* whether the wrapped call f may unwind: the cases a run looks at

ASSUME BreakerAssumption ==
  /\ FailureThreshold \in Nat
  /\ HalfOpenMax \in Nat
  /\ WordMax \in Nat \ {0}
  /\ Panics \subseteq BOOLEAN

VARIABLES
  state,     \* AtomicU8: closed, open or half_open
  failures,  \* consecutive_failures
  openedAt,  \* opened_at: none, or stamped fresh or more than reset_timeout ago
  inflight,  \* half_open_inflight
  unwinds,   \* one of Panics, chosen at the start
  pc

cells == <<state, failures, openedAt, inflight, unwinds>>
vars == <<state, failures, openedAt, inflight, unwinds, pc>>

Labels == {"idle", "gauge", "join", "clock", "probe", "calling", "trying",
           "succeeded", "failed", "leave", "close", "zero", "clear", "reset",
           "count", "retreat", "stamp", "rezero", "trip"}

TypeOK ==
  /\ state \in {"closed", "open", "half_open"}
  /\ failures \in Nat
  /\ openedAt \in {"none", "fresh", "elapsed"}
  /\ inflight \in 0..WordMax
  /\ unwinds \in Panics
  /\ pc \in [Threads -> Labels]

Init ==
  /\ state = "closed"
  /\ failures = 0
  /\ openedAt = "none"
  /\ inflight = 0
  /\ unwinds \in Panics
  /\ pc = [t \in Threads |-> "idle"]

Step(t, from, to) == pc[t] = from /\ pc' = [pc EXCEPT ![t] = to]

\* AtomicUsize arithmetic wraps around.
WrapInc(n) == IF n = WordMax THEN 0 ELSE n + 1
\* A variant of WrapDec with a counter that goes below zero.
WrapDecSigned(n) == n - 1

WrapDec(n) == IF n = 0 THEN WordMax ELSE n - 1

---------------------------------------------------------------------------
(* try_acquire *)

TryAcquire(t) ==
  /\ \/ state = "closed" /\ Step(t, "idle", "calling")
     \/ state = "half_open" /\ Step(t, "idle", "gauge")
     \/ state = "open" /\ Step(t, "idle", "clock")
  /\ UNCHANGED cells

Gauge(t) ==
  /\ Step(t, "gauge", IF inflight >= HalfOpenMax THEN "idle" ELSE "join")
  /\ UNCHANGED cells

Join(t) ==
  /\ Step(t, "join", "trying")
  /\ inflight' = WrapInc(inflight)
  /\ UNCHANGED <<state, failures, openedAt, unwinds>>

\* A variant of Clock in which a missing stamp counts as elapsed.
ClockNoneElapsed(t) ==
  /\ Step(t, "clock", IF openedAt = "fresh" THEN "idle" ELSE "probe")
  /\ UNCHANGED cells

\* A variant of Clock that compares with reset_timeout the wrong way round.
ClockInverted(t) ==
  /\ Step(t, "clock", IF openedAt = "fresh" THEN "probe" ELSE "idle")
  /\ UNCHANGED cells

Clock(t) ==
  /\ Step(t, "clock", IF openedAt = "elapsed" THEN "probe" ELSE "idle")
  /\ UNCHANGED cells

\* The caller that finds the timeout elapsed does not count itself in inflight.
Probe(t) ==
  /\ Step(t, "probe", "trying")
  /\ state' = "half_open"
  /\ UNCHANGED <<failures, openedAt, inflight, unwinds>>

---------------------------------------------------------------------------
(* The wrapped call f: it answers Ok or Err, or unwinds past both records. *)

Return(t) ==
  /\ \E from \in {"calling", "trying"}, to \in {"succeeded", "failed"} : Step(t, from, to)
  /\ UNCHANGED cells

Unwind(t) ==
  /\ unwinds
  /\ \E from \in {"calling", "trying"} : Step(t, from, "idle")
  /\ UNCHANGED cells

---------------------------------------------------------------------------
(* record_success *)

\* A variant of RecordSuccess that leaves a half-open circuit as it is.
RecordSuccessIgnoresTrial(t) ==
  /\ \/ state = "closed" /\ Step(t, "succeeded", "reset")
     \/ state # "closed" /\ Step(t, "succeeded", "idle")
  /\ UNCHANGED cells

RecordSuccess(t) ==
  /\ \/ state = "half_open" /\ Step(t, "succeeded", "leave")
     \/ state = "closed" /\ Step(t, "succeeded", "reset")
     \/ state = "open" /\ Step(t, "succeeded", "idle")
  /\ UNCHANGED cells

Close(t) ==
  /\ Step(t, "close", "zero")
  /\ state' = "closed"
  /\ UNCHANGED <<failures, openedAt, inflight, unwinds>>

\* A variant of Zero that forgets the counter when a trial succeeds.
ZeroForgotten(t) ==
  /\ \/ Step(t, "zero", "clear") /\ failures' = failures
     \/ Step(t, "reset", "idle") /\ failures' = failures
  /\ UNCHANGED <<state, openedAt, inflight, unwinds>>

Zero(t) ==
  /\ Step(t, "zero", "clear") \/ Step(t, "reset", "idle")
  /\ failures' = 0
  /\ UNCHANGED <<state, openedAt, inflight, unwinds>>

Clear(t) ==
  /\ Step(t, "clear", "idle")
  /\ openedAt' = "none"
  /\ UNCHANGED <<state, failures, inflight, unwinds>>

---------------------------------------------------------------------------
(* record_failure and open *)

\* A variant of RecordFailure that ignores a failed trial.
RecordFailureIgnoresTrial(t) ==
  /\ \/ state = "closed" /\ Step(t, "failed", "count")
     \/ state # "closed" /\ Step(t, "failed", "idle")
  /\ UNCHANGED cells

RecordFailure(t) ==
  /\ \/ state = "closed" /\ Step(t, "failed", "count")
     \/ state = "half_open" /\ Step(t, "failed", "retreat")
     \/ state = "open" /\ Step(t, "failed", "idle")
  /\ UNCHANGED cells

\* A variant of Count that trips one failure late.
CountLate(t) ==
  /\ Step(t, "count", IF failures + 1 > FailureThreshold THEN "stamp" ELSE "idle")
  /\ failures' = failures + 1
  /\ UNCHANGED <<state, openedAt, inflight, unwinds>>

\* A variant of Count that compares the new value and does not store it.
CountLost(t) ==
  /\ Step(t, "count", IF failures + 1 >= FailureThreshold THEN "stamp" ELSE "idle")
  /\ UNCHANGED cells

Count(t) ==
  /\ Step(t, "count", IF failures + 1 >= FailureThreshold THEN "stamp" ELSE "idle")
  /\ failures' = failures + 1
  /\ UNCHANGED <<state, openedAt, inflight, unwinds>>

\* fetch_sub of half_open_inflight, in record_success and in record_failure.
LeaveTrial(t) ==
  /\ Step(t, "leave", "close") \/ Step(t, "retreat", "stamp")
  /\ inflight' = WrapDec(inflight)
  /\ UNCHANGED <<state, failures, openedAt, unwinds>>

Stamp(t) ==
  /\ Step(t, "stamp", "rezero")
  /\ openedAt' = "fresh"
  /\ UNCHANGED <<state, failures, inflight, unwinds>>

Rezero(t) ==
  /\ Step(t, "rezero", "trip")
  /\ failures' = 0
  /\ UNCHANGED <<state, openedAt, inflight, unwinds>>

Trip(t) ==
  /\ Step(t, "trip", "idle")
  /\ state' = "open"
  /\ UNCHANGED <<failures, openedAt, inflight, unwinds>>

\* reset_timeout passes since the last stamp (at once when it is 0 ms).
Elapse ==
  /\ openedAt = "fresh"
  /\ openedAt' = "elapsed"
  /\ UNCHANGED <<state, failures, inflight, unwinds, pc>>

---------------------------------------------------------------------------

Caller(t) ==
  \/ TryAcquire(t) \/ Gauge(t) \/ Join(t) \/ Clock(t) \/ Probe(t)
  \/ Return(t) \/ Unwind(t)
  \/ RecordSuccess(t) \/ Close(t) \/ Zero(t) \/ Clear(t)
  \/ RecordFailure(t) \/ Count(t) \/ LeaveTrial(t)
  \/ Stamp(t) \/ Rezero(t) \/ Trip(t)

Next == Elapse \/ \E t \in Threads : Caller(t)

Spec == Init /\ [][Next]_vars

\* Threads are scheduled and keep calling, and time passes.
FairSpec == Spec /\ WF_vars(Elapse) /\ \A t \in Threads : WF_vars(Caller(t))

---------------------------------------------------------------------------
(* What the interleavings preserve *)

\* Points of a call from which, if the circuit is half-open, the caller will
\* close it or open it.
Resolving == {"calling", "trying", "succeeded", "failed", "leave", "close",
              "retreat", "stamp", "rezero", "trip"}

\* A half-open circuit always has a caller in flight that will close or open
\* it, whatever the interleaving of the probes, the trials and the calls that
\* started before the circuit opened: record_success and record_failure never
\* drop the last one.  Holds only while no wrapped call unwinds.
HalfOpenResolves ==
  ~unwinds /\ state = "half_open" => \E t \in Threads : pc[t] \in Resolving

\* A counter that has reached failure_threshold is on its way to open(): no
\* interleaving of fetch_add with the resets of other callers leaves a closed
\* circuit at or past its threshold.
ThresholdHonoured ==
  failures > 0 /\ failures >= FailureThreshold =>
    \E t \in Threads : pc[t] \in {"stamp", "rezero"}

\* Points of a call that store to the state or stamp it without looking again.
Committed == {"probe", "leave", "close", "count", "retreat", "stamp", "rezero", "trip"}

LockedOut ==
  /\ state = "open"
  /\ openedAt = "none"
  /\ \A t \in Threads : pc[t] \notin Committed

\* An open circuit without a stamp rejects every call from then on: nothing in
\* the breaker repairs it, neither time nor the calls still in flight.
LockoutIsPermanent == [][LockedOut => LockedOut']_vars

\* Under load an open circuit leaves that state after reset_timeout, unless it
\* lost its stamp: the lockout is the only way to stay open for ever.
OpenResolves == (state = "open") ~> (state # "open" \/ LockedOut)

\* A service that keeps failing and has stopped succeeding trips the circuit
\* again and again, even with callers that count, reset and panic concurrently:
\* no failure is lost for ever between record_failure and open().
FailuresTrip ==
  /\ []<>(\E t \in Threads : pc[t] = "failed")
  /\ <>[](\A t \in Threads : pc[t] # "succeeded")
  => []<>(state # "closed")

\* Once the wrapped service stops failing the circuit closes and stays closed.
RecoversWhenHealthy ==
  <>[](\A t \in Threads : pc[t] # "failed") => <>[](state = "closed")

---------------------------------------------------------------------------
(* What the documentation says and concurrent callers break *)

\* An open circuit with no operation under way has the stamp that lets it move
\* on: "After reset_timeout the breaker moves to HALF_OPEN".
OpenIsStamped ==
  state = "open" /\ (\A t \in Threads : pc[t] = "idle") => openedAt # "none"

=============================================================================
