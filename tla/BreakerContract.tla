--------------------------- MODULE BreakerContract ---------------------------
(***************************************************************************)
(* What the documentation of the circuit breaker promises (the module      *)
(* comment of src/src/infrastructure/circuit_breaker.rs and the README):   *)
(* every call is admitted or rejected, and every result recorded, in one   *)
(* indivisible step.                                                       *)
(***************************************************************************)
EXTENDS Naturals, FiniteSets

CONSTANTS Callers, FailureThreshold, HalfOpenMax

VARIABLES
  circuit,  \* closed, open or half_open
  streak,   \* consecutive failures seen while closed
  ripe,     \* whether reset_timeout has passed since the circuit opened
  call      \* call[c]: none, normal or trial

vars == <<circuit, streak, ripe, call>>

Init ==
  /\ circuit = "closed"
  /\ streak = 0
  /\ ripe = FALSE
  /\ call = [c \in Callers |-> "none"]

Become(c, from, to) == call[c] = from /\ call' = [call EXCEPT ![c] = to]

Trials == {c \in Callers : call[c] = "trial"}

\* CLOSED: calls flow.
Flow(c) ==
  /\ circuit = "closed"
  /\ Become(c, "none", "normal")
  /\ UNCHANGED <<circuit, streak, ripe>>

\* OPEN: after reset_timeout the breaker moves to HALF_OPEN, for a first trial.
FirstTrial(c) ==
  /\ circuit = "open" /\ ripe
  /\ Become(c, "none", "trial")
  /\ circuit' = "half_open"
  /\ ripe' = FALSE
  /\ UNCHANGED streak

\* HALF_OPEN: a limited number of trial calls are let through.
NextTrial(c) ==
  /\ circuit = "half_open"
  /\ Cardinality(Trials) < HalfOpenMax
  /\ Become(c, "none", "trial")
  /\ UNCHANGED <<circuit, streak, ripe>>

\* A result that comes in while the circuit is open changes nothing.
Late(c) ==
  /\ circuit = "open"
  /\ \E kind \in {"normal", "trial"} : Become(c, kind, "none")
  /\ UNCHANGED <<circuit, streak, ripe>>

Succeed(c) ==
  /\ circuit # "open"
  /\ Become(c, IF circuit = "closed" THEN "normal" ELSE "trial", "none")
  /\ circuit' = "closed"
  /\ streak' = 0
  /\ UNCHANGED ripe

\* The timeout counts from a stamp taken just before the circuit shows as open.
Open == circuit' = "open" /\ streak' = 0 /\ ripe' \in BOOLEAN

Fail(c) ==
  \/ /\ circuit = "closed" /\ Become(c, "normal", "none")
     /\ IF streak + 1 >= FailureThreshold
          THEN Open
          ELSE streak' = streak + 1 /\ UNCHANGED <<circuit, ripe>>
  \/ circuit = "half_open" /\ Become(c, "trial", "none") /\ Open

Elapse ==
  /\ circuit = "open" /\ ~ripe
  /\ ripe' = TRUE
  /\ UNCHANGED <<circuit, streak, call>>

Next ==
  \/ Elapse
  \/ \E c \in Callers :
       Flow(c) \/ FirstTrial(c) \/ NextTrial(c) \/ Late(c) \/ Succeed(c) \/ Fail(c)

Spec == Init /\ [][Next]_vars

=============================================================================
