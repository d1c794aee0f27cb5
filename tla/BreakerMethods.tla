---------------------------- MODULE BreakerMethods ----------------------------
(***************************************************************************)
(* Callers that put a breaker around a port, each method of the breaker in *)
(* one step: what Endpoints makes of run().                                *)
(***************************************************************************)
EXTENDS Breaker

CONSTANT Callers

VARIABLES
  breaker,  \* one of Breakers
  call      \* call[c]: none, under way, or its result until that is recorded

vars == <<breaker, call>>

Init == breaker = NewBreaker /\ call = [c \in Callers |-> "none"]

Become(c, from, to) == call[c] = from /\ call' = [call EXCEPT ![c] = to]

\* A call that is rejected changes nothing.
Enter(c) == Admits(breaker) /\ Become(c, "none", "under_way") /\ breaker' = Admitted(breaker)

Return(c) == /\ \E result \in {"ok", "error"} : Become(c, "under_way", result)
             /\ UNCHANGED breaker

\* The call unwinds: run records nothing.
Unwind(c) == Become(c, "under_way", "none") /\ UNCHANGED breaker

Record(c) ==
  \/ Become(c, "ok", "none") /\ breaker' = Succeeded(breaker)
  \/ Become(c, "error", "none") /\ breaker' = Failed(breaker)

Elapse == breaker.openedAt = "fresh" /\ breaker' = Ripe(breaker) /\ UNCHANGED call

Next == Elapse \/ \E c \in Callers : Enter(c) \/ Return(c) \/ Unwind(c) \/ Record(c)

Spec == Init /\ [][Next]_vars

=============================================================================
