------------------------ MODULE CircuitBreakerProofs ------------------------
(***************************************************************************)
(* What every number of callers, every threshold and every interleaving of *)
(* the breaker's atomic operations keeps; and that a breaker with a single *)
(* caller, for every threshold, implements BreakerContract.                *)
(***************************************************************************)
EXTENDS SequentialBreaker, TLAPS

\* usize arithmetic stays within the machine word.
LEMMA WordArithmetic ==
  ASSUME NEW n \in 0..WordMax
  PROVE  WrapInc(n) \in 0..WordMax /\ WrapDec(n) \in 0..WordMax
BY BreakerAssumption DEF WrapInc, WrapDec

LEMMA TypePreserved == TypeOK /\ [Next]_vars => TypeOK'
<1> SUFFICES ASSUME TypeOK, [Next]_vars PROVE TypeOK'
  OBVIOUS
<1> USE DEF TypeOK, Step, cells, Labels
<1>1. CASE Elapse
  BY <1>1 DEF Elapse
<1>2. ASSUME NEW t \in Threads, Caller(t) PROVE TypeOK'
  <2>1. CASE TryAcquire(t) \/ Gauge(t) \/ Clock(t) \/ Probe(t)
    BY <2>1 DEF TryAcquire, Gauge, Clock, Probe
  <2>2. CASE Join(t) \/ LeaveTrial(t)
    BY <2>2, WordArithmetic DEF Join, LeaveTrial
  <2>3. CASE Return(t) \/ Unwind(t)
    BY <2>3 DEF Return, Unwind
  <2>4. CASE RecordSuccess(t) \/ Close(t) \/ Zero(t) \/ Clear(t)
    BY <2>4 DEF RecordSuccess, Close, Zero, Clear
  <2>5. CASE RecordFailure(t) \/ Count(t)
    BY <2>5 DEF RecordFailure, Count
  <2>6. CASE Stamp(t) \/ Rezero(t) \/ Trip(t)
    BY <2>6 DEF Stamp, Rezero, Trip
  <2>7. QED
    BY <1>2, <2>1, <2>2, <2>3, <2>4, <2>5, <2>6 DEF Caller
<1>3. CASE UNCHANGED vars
  BY <1>3 DEF vars
<1>4. QED
  BY <1>1, <1>2, <1>3 DEF Next

\* Every reachable state of the breaker is well typed: no interleaving of the
\* fetch_sub of try_acquire's uncounted trial leaves the machine word.
THEOREM TypeCorrect == Spec => []TypeOK
<1>1. Init => TypeOK
  BY BreakerAssumption DEF Init, TypeOK, Labels
<1>2. QED
  BY <1>1, TypePreserved, PTL DEF Spec

---------------------------------------------------------------------------

\* While no wrapped call unwinds, a half-open circuit always has a caller in
\* flight that will close or open it: record_success and record_failure move
\* the state whenever they find it half-open.
THEOREM HalfOpenAlwaysResolves == Spec => []HalfOpenResolves
<1>1. Init => HalfOpenResolves
  BY DEF Init, HalfOpenResolves
<1>2. TypeOK /\ HalfOpenResolves /\ [Next]_vars => HalfOpenResolves'
  <2> SUFFICES ASSUME TypeOK, HalfOpenResolves, [Next]_vars, ~unwinds', state' = "half_open"
               PROVE  \E u \in Threads : pc'[u] \in Resolving
    BY DEF HalfOpenResolves
  <2> USE DEF TypeOK, Step, cells, Resolving
  <2>1. ASSUME NEW t \in Threads, Caller(t)
        PROVE  \E u \in Threads : pc'[u] \in Resolving
    <3>1. CASE Probe(t)
      BY <3>1 DEF Probe
    <3>2. CASE Close(t) \/ Trip(t)
      BY <3>2 DEF Close, Trip
    <3>3. CASE TryAcquire(t) \/ Gauge(t) \/ Join(t) \/ Clock(t)
      BY <3>3 DEF TryAcquire, Gauge, Join, Clock, HalfOpenResolves
    <3>4. CASE Return(t) \/ Unwind(t)
      BY <3>4 DEF Return, Unwind, HalfOpenResolves
    <3>5. CASE RecordSuccess(t) \/ Zero(t) \/ Clear(t)
      BY <3>5 DEF RecordSuccess, Zero, Clear, HalfOpenResolves
    <3>6. CASE RecordFailure(t) \/ Count(t) \/ LeaveTrial(t)
      BY <3>6 DEF RecordFailure, Count, LeaveTrial, HalfOpenResolves
    <3>7. CASE Stamp(t) \/ Rezero(t)
      BY <3>7 DEF Stamp, Rezero, HalfOpenResolves
    <3>8. QED
      BY <2>1, <3>1, <3>2, <3>3, <3>4, <3>5, <3>6, <3>7 DEF Caller
  <2>2. CASE Elapse
    BY <2>2 DEF Elapse, HalfOpenResolves
  <2>3. CASE UNCHANGED vars
    BY <2>3 DEF vars, HalfOpenResolves
  <2>4. QED
    BY <2>1, <2>2, <2>3 DEF Next
<1>3. QED
  BY <1>1, <1>2, TypeCorrect, PTL DEF Spec

---------------------------------------------------------------------------

\* Whatever resets and counts interleave, a counter at or past the threshold
\* belongs to a caller inside open().
THEOREM ThresholdAlwaysHonoured == Spec => []ThresholdHonoured
<1>1. Init => ThresholdHonoured
  BY DEF Init, ThresholdHonoured
<1>2. TypeOK /\ ThresholdHonoured /\ [Next]_vars => ThresholdHonoured'
  <2> SUFFICES ASSUME TypeOK, ThresholdHonoured, [Next]_vars,
                      failures' > 0, failures' >= FailureThreshold
               PROVE  \E u \in Threads : pc'[u] \in {"stamp", "rezero"}
    BY DEF ThresholdHonoured
  <2> USE DEF TypeOK, Step, cells
  <2>1. ASSUME NEW t \in Threads, Caller(t)
        PROVE  \E u \in Threads : pc'[u] \in {"stamp", "rezero"}
    <3>1. CASE Count(t)
      BY <3>1, BreakerAssumption DEF Count
    <3>2. CASE Zero(t) \/ Rezero(t)
      BY <3>2 DEF Zero, Rezero
    <3>3. CASE TryAcquire(t) \/ Gauge(t) \/ Join(t) \/ Clock(t) \/ Probe(t)
      BY <3>3 DEF TryAcquire, Gauge, Join, Clock, Probe, ThresholdHonoured
    <3>4. CASE Return(t) \/ Unwind(t)
      BY <3>4 DEF Return, Unwind, ThresholdHonoured
    <3>5. CASE RecordSuccess(t) \/ Close(t) \/ Clear(t)
      BY <3>5 DEF RecordSuccess, Close, Clear, ThresholdHonoured
    <3>6. CASE RecordFailure(t) \/ LeaveTrial(t)
      BY <3>6 DEF RecordFailure, LeaveTrial, ThresholdHonoured
    <3>7. CASE Stamp(t) \/ Trip(t)
      BY <3>7 DEF Stamp, Trip, ThresholdHonoured
    <3>8. QED
      BY <2>1, <3>1, <3>2, <3>3, <3>4, <3>5, <3>6, <3>7 DEF Caller
  <2>2. CASE Elapse
    BY <2>2 DEF Elapse, ThresholdHonoured
  <2>3. CASE UNCHANGED vars
    BY <2>3 DEF vars, ThresholdHonoured
  <2>4. QED
    BY <2>1, <2>2, <2>3 DEF Next
<1>3. QED
  BY <1>1, <1>2, TypeCorrect, PTL DEF Spec

---------------------------------------------------------------------------

\* An open circuit that lost its stamp stays so whatever its callers do.
THEOREM LockoutAlwaysPermanent == Spec => LockoutIsPermanent
<1>1. TypeOK /\ [Next]_vars => (LockedOut => LockedOut')
  <2> SUFFICES ASSUME TypeOK, [Next]_vars, LockedOut PROVE LockedOut'
    OBVIOUS
  <2> USE DEF TypeOK, Step, cells, LockedOut, Committed
  <2>1. ASSUME NEW t \in Threads, Caller(t) PROVE LockedOut'
    <3>1. CASE TryAcquire(t) \/ Gauge(t) \/ Join(t) \/ Clock(t)
      BY <3>1 DEF TryAcquire, Gauge, Join, Clock
    <3>2. CASE Return(t) \/ Unwind(t) \/ Zero(t) \/ Clear(t)
      BY <3>2 DEF Return, Unwind, Zero, Clear
    <3>3. CASE RecordSuccess(t) \/ RecordFailure(t)
      BY <3>3 DEF RecordSuccess, RecordFailure
    <3>4. CASE Probe(t) \/ Close(t) \/ Count(t) \/ LeaveTrial(t)
      BY <3>4 DEF Probe, Close, Count, LeaveTrial
    <3>5. CASE Stamp(t) \/ Rezero(t) \/ Trip(t)
      BY <3>5 DEF Stamp, Rezero, Trip
    <3>6. QED
      BY <2>1, <3>1, <3>2, <3>3, <3>4, <3>5 DEF Caller
  <2>2. CASE Elapse
    BY <2>2 DEF Elapse
  <2>3. CASE UNCHANGED vars
    BY <2>3 DEF vars
  <2>4. QED
    BY <2>1, <2>2, <2>3 DEF Next
<1>2. QED
  BY <1>1, TypeCorrect, PTL DEF Spec, LockoutIsPermanent

---------------------------------------------------------------------------
(* One caller at a time *)

\* Where a lone caller can be in each state of the circuit.
Whereabouts(t) ==
  /\ pc[t] \in {"trying", "leave", "close", "retreat"} => state = "half_open"
  /\ pc[t] \in {"calling", "zero", "clear", "reset", "count"} => state = "closed"
  /\ pc[t] \in {"clock", "probe"} => state = "open"
  /\ pc[t] = "idle" => state # "half_open"
  /\ pc[t] \in Pending => state # "open"
  /\ pc[t] \notin {"gauge", "join"}
  /\ pc[t] = "probe" => openedAt = "elapsed"

\* What the failure counter holds in each of those places.
Counted(t) ==
  /\ state # "closed" \/ pc[t] \in {"trip", "zero"} => failures = 0
  /\ pc[t] \notin {"stamp", "rezero"} => failures = 0 \/ failures < FailureThreshold

SequentialInv == TypeOK /\ \A t \in Threads : Whereabouts(t) /\ Counted(t)

LEMMA SequentialInvariant ==
  ASSUME NEW me, Threads = {me}, Panics = {FALSE}
  PROVE  Spec => []SequentialInv
<1> USE DEF Step, cells, Pending, Whereabouts, Counted
<1>1. Init => SequentialInv
  BY BreakerAssumption DEF Init, SequentialInv, TypeOK, Labels
<1>2. SequentialInv /\ [Next]_vars => SequentialInv'
  <2> SUFFICES ASSUME SequentialInv, [Next]_vars PROVE SequentialInv'
    OBVIOUS
  <2>1. TypeOK /\ TypeOK'
    BY TypePreserved DEF SequentialInv
  <2>2. ASSUME NEW t \in Threads, Caller(t)
        PROVE  Whereabouts(t)' /\ Counted(t)'
    <3> USE <2>1 DEF TypeOK, SequentialInv
    <3>1. CASE TryAcquire(t) \/ Gauge(t) \/ Join(t)
      BY <3>1 DEF TryAcquire, Gauge, Join
    <3>2. CASE Clock(t) \/ Probe(t)
      BY <3>2 DEF Clock, Probe
    <3>3. CASE Return(t) \/ Unwind(t)
      BY <3>3 DEF Return, Unwind
    <3>4. CASE RecordSuccess(t) \/ Close(t)
      BY <3>4 DEF RecordSuccess, Close
    <3>5. CASE Zero(t) \/ Clear(t)
      BY <3>5 DEF Zero, Clear
    <3>6. CASE RecordFailure(t) \/ LeaveTrial(t)
      BY <3>6 DEF RecordFailure, LeaveTrial
    <3>7. CASE Count(t)
      BY <3>7, BreakerAssumption DEF Count
    <3>8. CASE Stamp(t) \/ Rezero(t) \/ Trip(t)
      BY <3>8 DEF Stamp, Rezero, Trip
    <3>9. QED
      BY <2>2, <3>1, <3>2, <3>3, <3>4, <3>5, <3>6, <3>7, <3>8 DEF Caller
  <2>3. CASE Elapse
    BY <2>1, <2>3 DEF Elapse, SequentialInv
  <2>4. CASE UNCHANGED vars
    BY <2>1, <2>4 DEF vars, SequentialInv
  <2>5. QED
    BY <2>1, <2>2, <2>3, <2>4 DEF Next, SequentialInv
<1>3. QED
  BY <1>1, <1>2, PTL DEF Spec

\* Each step of a lone caller is a step of the contract or leaves its view of
\* the breaker unchanged.
LEMMA StepRefines ==
  ASSUME NEW me, Threads = {me}, Panics = {FALSE}, SequentialInv, SequentialInv', [Next]_vars
  PROVE  [Contract!Next]_(Contract!vars)
<1> USE DEF Step, cells, Contract!vars
<1>1. \A t \in Threads : t = me
  OBVIOUS
<1>2. ASSUME NEW t \in Threads, Caller(t)
      PROVE  Contract!Next \/ UNCHANGED Contract!vars
  <2> USE DEF SequentialInv, TypeOK, Whereabouts, Counted, CallOf, StreakOf,
              Pending, Opening, Contract!Become
  <2> DEFINE view == [u \in Threads |-> CallOf(u)]
  <2>1. CASE TryAcquire(t) /\ state = "closed"
    <3>1. Contract!Flow(t)
      BY <2>1 DEF TryAcquire, Contract!Flow
    <3>2. QED
      BY <3>1 DEF Contract!Next
  <2>2. CASE (TryAcquire(t) /\ state # "closed") \/ Gauge(t) \/ Join(t) \/ Clock(t)
    BY <2>2 DEF TryAcquire, Gauge, Join, Clock
  <2>3. CASE Probe(t)
    <3>1. Contract!FirstTrial(t)
      BY <2>3 DEF Probe, Contract!FirstTrial
    <3>2. QED
      BY <3>1 DEF Contract!Next
  <2>4. CASE Return(t) \/ Unwind(t)
    BY <2>4 DEF Return, Unwind
  <2>5. CASE RecordSuccess(t) \/ RecordFailure(t) \/ LeaveTrial(t)
    BY <2>5 DEF RecordSuccess, RecordFailure, LeaveTrial
  <2>6. CASE Close(t) \/ (Zero(t) /\ pc[t] = "reset")
    <3>1. Contract!Succeed(t)
      BY <2>6 DEF Close, Zero, Contract!Succeed
    <3>2. QED
      BY <3>1 DEF Contract!Next
  <2>7. CASE (Zero(t) /\ pc[t] = "zero") \/ Clear(t)
    BY <2>7 DEF Zero, Clear
  <2>8. CASE Count(t) /\ failures + 1 < FailureThreshold
    <3>1. /\ pc[t] = "count" /\ pc'[t] = "idle"
          /\ state = "closed" /\ state' = "closed"
          /\ failures' = failures + 1
          /\ UNCHANGED openedAt
      BY <2>8, BreakerAssumption DEF Count
    <3>2. StreakOf = failures /\ StreakOf' = failures + 1
      BY <1>1, <3>1
    <3>3. Contract!Become(t, "normal", "none")
      BY <1>1, <3>1
    <3>4. Contract!Fail(t)
      BY <2>8, <3>1, <3>2, <3>3, BreakerAssumption DEF Contract!Fail
    <3>5. QED
      BY <3>4 DEF Contract!Next
  <2>9. CASE Count(t) /\ ~(failures + 1 < FailureThreshold)
    BY <2>9, BreakerAssumption DEF Count
  <2>10. CASE Stamp(t) \/ Rezero(t)
    BY <2>10 DEF Stamp, Rezero
  <2>11. CASE Trip(t)
    <3>1. /\ pc[t] = "trip" /\ pc'[t] = "idle"
          /\ state' = "open"
          /\ failures = 0 /\ failures' = 0
      BY <2>11 DEF Trip
    <3>2. StreakOf' = 0
      BY <3>1
    <3>3. Contract!Open
      BY <3>1, <3>2 DEF Contract!Open
    <3>4. state = "half_open" => Contract!Fail(t)
      BY <1>1, <3>1, <3>3 DEF Contract!Fail
    <3>5. state = "closed" => Contract!Fail(t)
      <4> SUFFICES ASSUME state = "closed" PROVE Contract!Fail(t)
        OBVIOUS
      <4>1. StreakOf + 1 >= FailureThreshold
        BY <3>1, BreakerAssumption
      <4>2. Contract!Become(t, "normal", "none")
        BY <1>1, <3>1
      <4>3. QED
        BY <3>3, <4>1, <4>2 DEF Contract!Fail
    <3>6. Contract!Fail(t)
      BY <3>1, <3>4, <3>5
    <3>7. QED
      BY <3>6 DEF Contract!Next
  <2>12. QED
    BY <1>2, <2>1, <2>2, <2>3, <2>4, <2>5, <2>6, <2>7, <2>8, <2>9, <2>10, <2>11
       DEF Caller, Zero
<1>3. CASE Elapse
  BY <1>3 DEF Elapse, CallOf, StreakOf, SequentialInv, TypeOK, Contract!Next, Contract!Elapse
<1>4. CASE UNCHANGED vars
  BY <1>4 DEF vars, CallOf, StreakOf
<1>5. QED
  BY <1>2, <1>3, <1>4 DEF Next

\* A breaker with one caller whose calls do not unwind does, for every
\* threshold and every half_open_max, what its documentation says.
THEOREM SequentialBreakerMeetsContract ==
  ASSUME NEW me, Threads = {me}, Panics = {FALSE}
  PROVE  Spec => MeetsContract
<1>1. Init => Contract!Init
  BY DEF Init, Contract!Init, CallOf, StreakOf, Pending, Opening
<1>2. SequentialInv /\ SequentialInv' /\ [Next]_vars => [Contract!Next]_(Contract!vars)
  BY StepRefines
<1>3. QED
  BY <1>1, <1>2, SequentialInvariant, PTL DEF Spec, MeetsContract, Contract!Spec

---------------------------------------------------------------------------
(* A lone caller, one method at a time, panics and all *)

\* Where a lone caller can be in each state, and when the circuit is stamped: a
\* stamp outlives its open() until a trial succeeds.
Stamped(t) ==
  /\ pc[t] \in {"gauge", "join", "trying", "leave", "close", "retreat"} => state = "half_open"
  /\ pc[t] \in {"calling", "zero", "clear", "reset", "count"} => state = "closed"
  /\ pc[t] \in {"clock", "probe"} => state = "open"
  /\ pc[t] = "join" => inflight < HalfOpenMax
  /\ pc[t] \in Pending => state # "open"
  /\ state = "open" \/ pc[t] \in {"rezero", "trip"} => openedAt # "none"
  /\ state = "half_open" /\ pc[t] \notin {"rezero", "trip"} => openedAt = "elapsed"
  /\ pc[t] \in {"probe", "zero", "clear"} => openedAt = "elapsed"
  /\ state = "closed" /\ pc[t] \notin {"zero", "clear", "rezero", "trip"} => openedAt = "none"

\* The counter is zero wherever open() or a trial's success has passed.
Rezeroed(t) == state # "closed" \/ pc[t] \in {"trip", "zero", "clear"} => failures = 0

LoneInv == TypeOK /\ \A t \in Threads : Stamped(t) /\ Rezeroed(t)

LEMMA LoneInvariant ==
  ASSUME NEW me, Threads = {me}
  PROVE  Spec => []LoneInv
<1> USE DEF Step, cells, Pending, Stamped, Rezeroed
<1>1. Init => LoneInv
  BY BreakerAssumption DEF Init, LoneInv, TypeOK, Labels
<1>2. LoneInv /\ [Next]_vars => LoneInv'
  <2> SUFFICES ASSUME LoneInv, [Next]_vars PROVE LoneInv'
    OBVIOUS
  <2>1. TypeOK /\ TypeOK'
    BY TypePreserved DEF LoneInv
  <2>2. ASSUME NEW t \in Threads, Caller(t)
        PROVE  Stamped(t)' /\ Rezeroed(t)'
    <3> USE <2>1, BreakerAssumption DEF TypeOK, LoneInv
    <3>1. CASE TryAcquire(t) \/ Gauge(t) \/ Join(t)
      BY <3>1 DEF TryAcquire, Gauge, Join
    <3>2. CASE Clock(t) \/ Probe(t)
      BY <3>2 DEF Clock, Probe
    <3>3. CASE Return(t) \/ Unwind(t)
      BY <3>3 DEF Return, Unwind
    <3>4. CASE RecordSuccess(t) \/ Close(t)
      BY <3>4 DEF RecordSuccess, Close
    <3>5. CASE Zero(t) \/ Clear(t)
      BY <3>5 DEF Zero, Clear
    <3>6. CASE RecordFailure(t) \/ LeaveTrial(t)
      BY <3>6 DEF RecordFailure, LeaveTrial
    <3>7. CASE Count(t)
      BY <3>7, BreakerAssumption DEF Count
    <3>8. CASE Stamp(t) \/ Rezero(t) \/ Trip(t)
      BY <3>8 DEF Stamp, Rezero, Trip
    <3>9. QED
      BY <2>2, <3>1, <3>2, <3>3, <3>4, <3>5, <3>6, <3>7, <3>8 DEF Caller
  <2>3. CASE Elapse
    BY <2>1, <2>3 DEF Elapse, LoneInv
  <2>4. CASE UNCHANGED vars
    BY <2>1, <2>4 DEF vars, LoneInv
  <2>5. QED
    BY <2>1, <2>2, <2>3, <2>4 DEF Next, LoneInv
<1>3. QED
  BY <1>1, <1>2, PTL DEF Spec

\* What Methods sees of the breaker, and of a lone caller.
Seen(p) ==
  [state |-> IF p \in Opening THEN "open" ELSE IF p \in Closing THEN "closed" ELSE state,
   failures |-> IF p \in Opening \cup Closing THEN 0 ELSE failures,
   openedAt |-> IF p \in Closing THEN "none" ELSE IF p = "stamp" THEN "fresh" ELSE openedAt,
   inflight |-> inflight]

LEMMA SeenByOne ==
  ASSUME NEW me, Threads = {me}
  PROVE  /\ BreakerAfter({pc[t] : t \in Threads}) = Seen(pc[me])
         /\ BreakerAfter({pc[t] : t \in Threads})' = Seen(pc[me])'
<1>1. {pc[t] : t \in Threads} = {pc[me]} /\ {pc'[t] : t \in Threads} = {pc'[me]}
  OBVIOUS
<1>2. \A p, S : {p} \cap S # {} <=> p \in S
  OBVIOUS
<1>3. \A p : "stamp" \in {p} <=> p = "stamp"
  OBVIOUS
<1>4. BreakerAfter({pc[t] : t \in Threads}) = Seen(pc[me])
  BY <1>1, <1>2, <1>3 DEF BreakerAfter, Seen
<1>5. BreakerAfter({pc[t] : t \in Threads})' = Seen(pc[me])'
  BY <1>1, <1>2, <1>3 DEF BreakerAfter, Seen
<1>6. QED
  BY <1>4, <1>5

\* The counter of trials in the machine's arithmetic and in Breaker's.
LEMMA WordModulo ==
  ASSUME NEW n \in 0..WordMax
  PROVE  /\ WrapInc(n) = (n + 1) % (WordMax + 1)
         /\ WrapDec(n) = (n + WordMax) % (WordMax + 1)
<1>1. WordMax \in Nat \ {0} /\ n \in Nat
  BY BreakerAssumption
<1>2. CASE n = WordMax
  <2>1. (n + 1) % (WordMax + 1) = 0
    BY <1>1, <1>2
  <2>2. (n + WordMax) % (WordMax + 1) = WordMax - 1
    <3>1. n + WordMax = 1 * (WordMax + 1) + (WordMax - 1)
      BY <1>1, <1>2
    <3>2. QED
      BY <1>1, <3>1
  <2>3. QED
    BY <1>1, <1>2, <2>1, <2>2 DEF WrapInc, WrapDec
<1>3. CASE n = 0
  BY <1>1, <1>3 DEF WrapInc, WrapDec
<1>4. CASE n # 0 /\ n # WordMax
  <2>1. (n + 1) % (WordMax + 1) = n + 1
    BY <1>1, <1>4
  <2>2. (n + WordMax) % (WordMax + 1) = n - 1
    <3>1. n + WordMax = 1 * (WordMax + 1) + (n - 1)
      BY <1>1
    <3>2. QED
      BY <1>1, <1>4, <3>1
  <2>3. QED
    BY <1>1, <1>4, <2>1, <2>2 DEF WrapInc, WrapDec
<1>5. QED
  BY <1>2, <1>3, <1>4

\* MethodOf, by the label.
Phase(p) ==
  CASE p \in {"calling", "trying"} -> "under_way"
    [] p \in {"succeeded", "leave", "reset"} -> "ok"
    [] p \in {"failed", "count", "retreat"} -> "error"
    [] OTHER -> "none"

LEMMA PhaseOfLabel ==
  ASSUME NEW p \in Labels
  PROVE  /\ p \in {"calling", "trying"} => Phase(p) = "under_way"
         /\ p \in {"succeeded", "leave", "reset"} => Phase(p) = "ok"
         /\ p \in {"failed", "count", "retreat"} => Phase(p) = "error"
         /\ p \in {"idle", "gauge", "join", "clock", "probe", "close", "zero", "clear",
                   "stamp", "rezero", "trip"} => Phase(p) = "none"
BY DEF Phase

\* A breaker that was opened, field by field.
LEMMA OpenedRecord ==
  ASSUME NEW b, NEW f, NEW o, NEW i, NEW s,
         b = [state |-> s, failures |-> f, openedAt |-> o, inflight |-> i]
  PROVE  Methods!Opened(b) =
           [state |-> "open", failures |-> 0, openedAt |-> "fresh", inflight |-> i]
<1>1. PICK z : z = [b EXCEPT !.state = "open", !.failures = 0, !.openedAt = "fresh"]
  OBVIOUS
<1>2. DOMAIN z = {"state", "failures", "openedAt", "inflight"} /\ z = [q \in DOMAIN z |-> z[q]]
  BY <1>1
<1>3. z.state = "open" /\ z.failures = 0 /\ z.openedAt = "fresh" /\ z.inflight = i
  BY <1>1
<1>4. PICK c : c = [state |-> "open", failures |-> 0, openedAt |-> "fresh", inflight |-> i]
  OBVIOUS
<1>5. c = z
  BY <1>2, <1>3, <1>4
<1>6. QED
  BY <1>1, <1>4, <1>5 DEF Methods!Opened

\* Every step of a lone caller is a method of Breaker or shows nowhere in it.
LEMMA LoneStepIsMethod ==
  ASSUME NEW me, Threads = {me}, LoneInv, LoneInv', [Next]_vars
  PROVE  [Methods!Next]_(Methods!vars)
<1> DEFINE b == Seen(pc[me])
<1> USE DEF Step, cells
<1>1. /\ BreakerAfter({pc[t] : t \in Threads}) = b
      /\ BreakerAfter({pc[t] : t \in Threads})' = b'
      /\ TypeOK /\ TypeOK' /\ Stamped(me) /\ Rezeroed(me)
      /\ me \in Threads /\ \A t \in Threads : t = me
  BY SeenByOne DEF LoneInv
<1>2. ASSUME b' = b, Phase(pc'[me]) = Phase(pc[me])
      PROVE  UNCHANGED Methods!vars
  BY <1>1, <1>2 DEF Methods!vars, MethodOf, Phase
<1>3. ASSUME NEW from, NEW to, Phase(pc[me]) = from, Phase(pc'[me]) = to
      PROVE  Methods!Become(me, from, to)
  BY <1>1, <1>3 DEF Methods!Become, MethodOf, Phase
<1>4. ASSUME NEW q, pc' = [pc EXCEPT ![me] = q]
      PROVE  pc'[me] = q
  BY <1>1, <1>4 DEF TypeOK
<1>5. pc[me] \in Labels /\ pc'[me] \in Labels
  BY <1>1 DEF TypeOK
<1>6. CASE TryAcquire(me) /\ state = "closed"
  <2>1. pc[me] = "idle" /\ pc'[me] = "calling" /\ UNCHANGED cells
    BY <1>1, <1>6, <1>4 DEF TryAcquire
  <2>2. b' = b /\ b.state = "closed"
    BY <1>6, <2>1 DEF Seen, Opening, Closing
  <2>3. Methods!Become(me, "none", "under_way")
    BY <1>3, <1>5, <2>1, PhaseOfLabel
  <2>4. Methods!Enter(me)
    BY <1>1, <2>2, <2>3 DEF Methods!Enter, Methods!Admits, Methods!Admitted
  <2>5. QED
    BY <1>1, <2>4 DEF Methods!Next
<1>7. CASE (TryAcquire(me) /\ state # "closed") \/ Gauge(me) \/ Clock(me)
  <2>1. /\ pc[me] \in {"idle", "gauge", "clock"}
        /\ pc'[me] \in {"idle", "gauge", "clock", "join", "probe"} /\ UNCHANGED cells
    BY <1>1, <1>4, <1>7 DEF TryAcquire, Gauge, Clock
  <2>2. b' = b
    BY <2>1 DEF Seen, Opening, Closing
  <2>3. QED
    BY <1>2, <1>5, <2>1, <2>2, PhaseOfLabel
<1>8. CASE Join(me)
  <2>1. /\ pc[me] = "join" /\ pc'[me] = "trying" /\ inflight' = WrapInc(inflight)
        /\ UNCHANGED <<state, failures, openedAt>>
        /\ state = "half_open" /\ inflight < HalfOpenMax /\ inflight \in 0..WordMax
    BY <1>1, <1>4, <1>8 DEF Join, TypeOK, Stamped
  <2>2. /\ b = [state |-> state, failures |-> failures, openedAt |-> openedAt, inflight |-> inflight]
        /\ b' = [state |-> state, failures |-> failures, openedAt |-> openedAt,
                 inflight |-> WrapInc(inflight)]
    BY <2>1 DEF Seen, Opening, Closing
  <2>3. Methods!Admits(b) /\ b' = Methods!Admitted(b)
    BY <2>1, <2>2, WordModulo DEF Methods!Admits, Methods!Admitted
  <2>4. Methods!Become(me, "none", "under_way")
    BY <1>3, <1>5, <2>1, PhaseOfLabel
  <2>5. QED
    BY <1>1, <2>3, <2>4 DEF Methods!Enter, Methods!Next
<1>9. CASE Probe(me)
  <2>1. /\ pc[me] = "probe" /\ pc'[me] = "trying" /\ state' = "half_open"
        /\ UNCHANGED <<inflight, failures, openedAt>>
        /\ state = "open" /\ openedAt = "elapsed"
    BY <1>1, <1>4, <1>9 DEF Probe, Stamped
  <2>2. /\ b = [state |-> "open", failures |-> failures, openedAt |-> openedAt, inflight |-> inflight]
        /\ b' = [state |-> "half_open", failures |-> failures, openedAt |-> openedAt,
                 inflight |-> inflight]
    BY <2>1 DEF Seen, Opening, Closing
  <2>3. Methods!Admits(b) /\ b' = Methods!Admitted(b)
    BY <2>1, <2>2 DEF Methods!Admits, Methods!Admitted
  <2>4. Methods!Become(me, "none", "under_way")
    BY <1>3, <1>5, <2>1, PhaseOfLabel
  <2>5. QED
    BY <1>1, <2>3, <2>4 DEF Methods!Enter, Methods!Next
<1>10. CASE Return(me)
  <2>1. /\ pc[me] \in {"calling", "trying"} /\ pc'[me] \in {"succeeded", "failed"}
        /\ UNCHANGED cells
    BY <1>1, <1>4, <1>10 DEF Return
  <2>2. b' = b
    BY <2>1 DEF Seen, Opening, Closing
  <2>3. \E result \in {"ok", "error"} : Methods!Become(me, "under_way", result)
    BY <1>3, <1>5, <2>1, PhaseOfLabel
  <2>4. Methods!Return(me)
    BY <1>1, <2>2, <2>3 DEF Methods!Return
  <2>5. QED
    BY <1>1, <2>4 DEF Methods!Next
<1>11. CASE Unwind(me)
  <2>1. pc[me] \in {"calling", "trying"} /\ pc'[me] = "idle" /\ UNCHANGED cells
    BY <1>1, <1>4, <1>11 DEF Unwind
  <2>2. b' = b
    BY <2>1 DEF Seen, Opening, Closing
  <2>3. Methods!Become(me, "under_way", "none")
    BY <1>3, <1>5, <2>1, PhaseOfLabel
  <2>4. QED
    BY <1>1, <2>2, <2>3 DEF Methods!Unwind, Methods!Next
<1>12. CASE RecordSuccess(me) \/ RecordFailure(me)
  <2>1. /\ \/ pc[me] = "succeeded" /\ pc'[me] \in {"leave", "reset"}
           \/ pc[me] = "failed" /\ pc'[me] \in {"count", "retreat"}
        /\ UNCHANGED cells
    BY <1>1, <1>4, <1>12 DEF RecordSuccess, RecordFailure, Stamped, Pending
  <2>2. b' = b
    BY <2>1 DEF Seen, Opening, Closing
  <2>3. QED
    BY <1>2, <1>5, <2>1, <2>2, PhaseOfLabel
<1>13. CASE LeaveTrial(me)
  <2>1. /\ \/ pc[me] = "leave" /\ pc'[me] = "close"
           \/ pc[me] = "retreat" /\ pc'[me] = "stamp"
        /\ inflight' = WrapDec(inflight) /\ UNCHANGED <<state, failures, openedAt>>
        /\ state = "half_open" /\ inflight \in 0..WordMax
    BY <1>1, <1>4, <1>13 DEF LeaveTrial, TypeOK, Stamped
  <2>2. /\ b = [state |-> "half_open", failures |-> failures, openedAt |-> openedAt,
                inflight |-> inflight]
        /\ pc[me] = "leave" =>
             b' = [state |-> "closed", failures |-> 0, openedAt |-> "none",
                   inflight |-> WrapDec(inflight)]
        /\ pc[me] = "retreat" =>
             b' = [state |-> "open", failures |-> 0, openedAt |-> "fresh",
                   inflight |-> WrapDec(inflight)]
    BY <2>1 DEF Seen, Opening, Closing
  <2>3. Methods!Left(b) = [b EXCEPT !.inflight = WrapDec(inflight)]
    BY <2>1, <2>2, WordModulo DEF Methods!Left
  <2>4. CASE pc[me] = "leave"
    <3>1. b' = Methods!Succeeded(b)
      <4>1. Methods!Succeeded(b) =
              [Methods!Left(b) EXCEPT !.state = "closed", !.failures = 0, !.openedAt = "none"]
        BY <2>2 DEF Methods!Succeeded
      <4>2. QED
        BY <2>2, <2>3, <2>4, <4>1
    <3>2. Methods!Become(me, "ok", "none")
      BY <1>3, <1>5, <2>1, <2>4, PhaseOfLabel
    <3>3. QED
      BY <1>1, <3>1, <3>2 DEF Methods!Record, Methods!Next
  <2>5. CASE pc[me] = "retreat"
    <3>1. b' = Methods!Failed(b)
      <4>1. Methods!Failed(b) = Methods!Opened(Methods!Left(b))
        BY <2>2 DEF Methods!Failed
      <4>2. QED
        BY <2>2, <2>3, <2>5, <4>1 DEF Methods!Opened
    <3>2. Methods!Become(me, "error", "none")
      BY <1>3, <1>5, <2>1, <2>5, PhaseOfLabel
    <3>3. QED
      BY <1>1, <3>1, <3>2 DEF Methods!Record, Methods!Next
  <2>6. QED
    BY <2>1, <2>4, <2>5
<1>14. CASE Close(me)
  <2>1. /\ pc[me] = "close" /\ pc'[me] = "zero"
        /\ UNCHANGED <<failures, openedAt, inflight>>
    BY <1>1, <1>4, <1>14 DEF Close
  <2>2. b' = b
    BY <2>1 DEF Seen, Opening, Closing
  <2>3. QED
    BY <1>2, <1>5, <2>1, <2>2, PhaseOfLabel
<1>15. CASE Zero(me) /\ pc[me] = "reset"
  <2>1. /\ pc[me] = "reset" /\ pc'[me] = "idle" /\ failures' = 0 /\ state = "closed"
        /\ UNCHANGED <<state, openedAt, inflight>>
    BY <1>1, <1>4, <1>15 DEF Zero, Stamped
  <2>2. /\ b = [state |-> "closed", failures |-> failures, openedAt |-> openedAt,
                inflight |-> inflight]
        /\ b' = [state |-> "closed", failures |-> 0, openedAt |-> openedAt, inflight |-> inflight]
    BY <2>1 DEF Seen, Opening, Closing
  <2>3. b' = Methods!Succeeded(b)
    BY <2>2 DEF Methods!Succeeded
  <2>4. Methods!Become(me, "ok", "none")
    BY <1>3, <1>5, <2>1, PhaseOfLabel
  <2>5. QED
    BY <1>1, <2>3, <2>4 DEF Methods!Record, Methods!Next
<1>16. CASE (Zero(me) /\ pc[me] = "zero") \/ Clear(me)
  <2>1. \/ /\ pc[me] = "zero" /\ pc'[me] = "clear" /\ failures' = 0
           /\ UNCHANGED <<state, openedAt, inflight>>
        \/ /\ pc[me] = "clear" /\ pc'[me] = "idle" /\ openedAt' = "none"
           /\ UNCHANGED <<state, failures, inflight>> /\ failures = 0 /\ state = "closed"
    BY <1>1, <1>4, <1>16 DEF Zero, Clear, Stamped, Rezeroed
  <2>2. b' = b
    BY <2>1 DEF Seen, Opening, Closing
  <2>3. QED
    BY <1>2, <1>5, <2>1, <2>2, PhaseOfLabel
<1>17. CASE Count(me)
  <2>1. /\ pc[me] = "count"
        /\ pc'[me] = IF failures + 1 >= FailureThreshold THEN "stamp" ELSE "idle"
        /\ failures' = failures + 1 /\ state = "closed"
        /\ UNCHANGED <<state, openedAt, inflight>>
    BY <1>1, <1>4, <1>17 DEF Count, Stamped
  <2>2. /\ b = [state |-> "closed", failures |-> failures, openedAt |-> openedAt,
                inflight |-> inflight]
        /\ failures + 1 >= FailureThreshold =>
             b' = [state |-> "open", failures |-> 0, openedAt |-> "fresh", inflight |-> inflight]
        /\ ~(failures + 1 >= FailureThreshold) =>
             b' = [state |-> "closed", failures |-> failures + 1, openedAt |-> openedAt,
                   inflight |-> inflight]
    BY <2>1 DEF Seen, Opening, Closing
  <2>3. b' = Methods!Failed(b)
    <3>1. Methods!Failed(b) = IF failures + 1 >= FailureThreshold
                                THEN Methods!Opened(b)
                                ELSE [b EXCEPT !.failures = failures + 1]
      BY <2>2 DEF Methods!Failed
    <3>2. CASE failures + 1 >= FailureThreshold
      <4>1. Methods!Failed(b) = Methods!Opened(b)
        BY <3>1, <3>2
      <4>2. b = [state |-> "closed", failures |-> failures, openedAt |-> openedAt,
                 inflight |-> inflight]
        BY <2>2
      <4>3. Methods!Opened(b) =
              [state |-> "open", failures |-> 0, openedAt |-> "fresh", inflight |-> inflight]
        BY <4>2, OpenedRecord
      <4>4. QED
        BY <2>2, <3>2, <4>1, <4>3
    <3>3. CASE ~(failures + 1 >= FailureThreshold)
      BY <2>2, <3>1, <3>3
    <3>4. QED
      BY <3>2, <3>3
  <2>4. Methods!Become(me, "error", "none")
    BY <1>3, <1>5, <2>1, PhaseOfLabel
  <2>5. QED
    BY <1>1, <2>3, <2>4 DEF Methods!Record, Methods!Next
<1>18. CASE Stamp(me) \/ Rezero(me) \/ Trip(me)
  <2>1. /\ \/ pc[me] = "stamp" /\ pc'[me] = "rezero" /\ openedAt' = "fresh"
           \/ pc[me] = "rezero" /\ pc'[me] = "trip" /\ UNCHANGED openedAt
           \/ /\ pc[me] = "trip" /\ pc'[me] = "idle" /\ UNCHANGED <<openedAt, failures>>
              /\ state' = "open" /\ failures = 0
        /\ UNCHANGED inflight
    BY <1>1, <1>4, <1>18 DEF Stamp, Rezero, Trip, Rezeroed
  <2>2. b' = b
    BY <2>1 DEF Seen, Opening, Closing
  <2>3. QED
    BY <1>2, <1>5, <2>1, <2>2, PhaseOfLabel
<1>19. CASE Elapse
  <2>1. /\ openedAt = "fresh" /\ openedAt' = "elapsed" /\ pc' = pc
        /\ UNCHANGED <<state, failures, inflight>>
    BY <1>19 DEF Elapse
  <2>2. pc[me] \notin Closing
    BY <1>1, <2>1 DEF Stamped, Closing
  <2>3. pc[me] # "stamp"
    BY <1>1, <2>1 DEF Stamped, Pending, TypeOK
  <2>4. b.openedAt = "fresh" /\ b' = Methods!Ripe(b)
    BY <2>1, <2>2, <2>3 DEF Seen, Methods!Ripe
  <2>5. \A t \in Threads : MethodOf(t)' = MethodOf(t)
    BY <2>1 DEF MethodOf
  <2>6. QED
    BY <1>1, <2>4, <2>5 DEF Methods!Elapse, Methods!Next
<1>20. CASE UNCHANGED vars
  <2>1. b' = b /\ pc' = pc
    BY <1>20 DEF vars, Seen
  <2>2. QED
    BY <1>2, <2>1
<1>21. QED
  BY <1>1, <1>6, <1>7, <1>8, <1>9, <1>10, <1>11, <1>12, <1>13, <1>14, <1>15, <1>16, <1>17,
     <1>18, <1>19, <1>20 DEF Next, Caller, Zero

\* A breaker with one caller, whose calls may panic, is Breaker's: its operations
\* add up to methods of one step each, for every threshold, every half_open_max
\* and every width of its counter.
THEOREM LoneBreakerIsBreaker ==
  ASSUME NEW me, Threads = {me}
  PROVE  Spec => MethodsInOneStep
<1>1. Init => Methods!Init
  <2> SUFFICES ASSUME Init PROVE Methods!Init
    OBVIOUS
  <2>1. BreakerAfter({pc[t] : t \in Threads}) = Methods!NewBreaker
    <3>1. pc[me] = "idle" /\ state = "closed" /\ failures = 0 /\ openedAt = "none" /\ inflight = 0
      BY DEF Init
    <3>2. Seen(pc[me]) = Methods!NewBreaker
      BY <3>1 DEF Seen, Opening, Closing, Methods!NewBreaker
    <3>3. QED
      BY <3>2, SeenByOne
  <2>2. \A t \in Threads : MethodOf(t) = "none"
    BY DEF Init, MethodOf
  <2>3. QED
    BY <2>1, <2>2 DEF Methods!Init
<1>2. LoneInv /\ LoneInv' /\ [Next]_vars => [Methods!Next]_(Methods!vars)
  BY LoneStepIsMethod
<1>3. QED
  BY <1>1, <1>2, LoneInvariant, PTL DEF Spec, MethodsInOneStep, Methods!Spec

---------------------------------------------------------------------------
(* The same operations as operators on a value *)

Operations == INSTANCE BreakerOperations

Cells == [state |-> state, failures |-> failures, openedAt |-> openedAt, inflight |-> inflight]

\* The operation a thread that is not in the wrapped call executes next, and
\* where the thread is when the operation has led to o.
Operation(t) == IF pc[t] = "idle" THEN "acquire" ELSE pc[t]
After(o) ==
  IF o = "admitted" THEN {"calling", "trying"}
  ELSE IF o \in Operations!Outcomes THEN {"idle"} ELSE {o}

\* Thread t executes the operation it is at, as BreakerOperations has it.
Performs(t) ==
  /\ pc[t] \notin {"calling", "trying"}
  /\ Cells' = Operations!Stored(Cells, Operation(t))
  /\ \E next \in After(Operations!Following(Cells, Operation(t))) : pc' = [pc EXCEPT ![t] = next]

\* A step is an operation of one thread, a result of a wrapped call, or time.
PerformsOperations ==
  \/ \E t \in Threads : Performs(t)
  \/ \E t \in Threads : pc[t] \in {"calling", "trying"} /\ UNCHANGED Cells
  \/ Cells' = Operations!Ripe(Cells) /\ UNCHANGED pc

LEMMA PerformedByOne ==
  ASSUME TypeOK, NEW t \in Threads, Caller(t), pc[t] \notin {"calling", "trying"}
  PROVE  Performs(t)
<1> USE DEF TypeOK, Labels, Cells, Step, cells, Performs, Operation, After, Operations!Outcomes,
        Operations!Stored, Operations!Following
<1>1. CASE TryAcquire(t)
  BY <1>1 DEF TryAcquire, Operations!Admission
<1>2. CASE Gauge(t)
  BY <1>2 DEF Gauge
<1>3. CASE Join(t)
  BY <1>3 DEF Join, WrapInc, Operations!Incremented
<1>4. CASE Clock(t)
  BY <1>4 DEF Clock
<1>5. CASE Probe(t)
  BY <1>5 DEF Probe
<1>6. CASE RecordSuccess(t)
  BY <1>6 DEF RecordSuccess, Operations!AfterSuccess
<1>7. CASE Close(t) \/ Clear(t)
  BY <1>7 DEF Close, Clear
<1>8. CASE Zero(t)
  BY <1>8 DEF Zero
<1>9. CASE RecordFailure(t)
  BY <1>9 DEF RecordFailure, Operations!AfterFailure
<1>10. CASE Count(t)
  BY <1>10 DEF Count
<1>11. CASE LeaveTrial(t)
  BY <1>11 DEF LeaveTrial, WrapDec, Operations!Decremented
<1>12. CASE Stamp(t) \/ Rezero(t) \/ Trip(t)
  BY <1>12 DEF Stamp, Rezero, Trip
<1>13. ~(Return(t) \/ Unwind(t))
  BY DEF Return, Unwind
<1>14. QED
  BY <1>1, <1>2, <1>3, <1>4, <1>5, <1>6, <1>7, <1>8, <1>9, <1>10, <1>11, <1>12, <1>13 DEF Caller

\* The operators of BreakerOperations are the atomic operations of this breaker:
\* every step of every thread is the operation it is at, for any number of threads.
THEOREM OperationsAreBreakers == Spec => [][PerformsOperations]_vars
<1>1. TypeOK /\ [Next]_vars => [PerformsOperations]_vars
  <2> SUFFICES ASSUME TypeOK, Next PROVE PerformsOperations
    OBVIOUS
  <2>1. ASSUME NEW t \in Threads, Caller(t) PROVE PerformsOperations
    <3>1. CASE pc[t] \notin {"calling", "trying"}
      BY <2>1, <3>1, PerformedByOne DEF PerformsOperations
    <3>2. CASE pc[t] \in {"calling", "trying"}
      <4>1. Return(t) \/ Unwind(t)
        BY <2>1, <3>2 DEF Caller, Step, TryAcquire, Gauge, Join, Clock, Probe, RecordSuccess, Close,
           Zero, Clear, RecordFailure, Count, LeaveTrial, Stamp, Rezero, Trip
      <4>2. UNCHANGED Cells
        BY <4>1 DEF Return, Unwind, cells, Cells
      <4>3. QED
        BY <3>2, <4>2 DEF PerformsOperations
    <3>3. QED
      BY <3>1, <3>2
  <2>2. CASE Elapse
    BY <2>2 DEF Elapse, Operations!Ripe, Cells, PerformsOperations
  <2>3. QED
    BY <2>1, <2>2 DEF Next
<1>2. QED
  BY <1>1, TypeCorrect, PTL DEF Spec

=============================================================================
