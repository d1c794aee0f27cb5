-------------------------- MODULE CommandDelivery --------------------------
(***************************************************************************)
(* What a consumer of script commands promises of each command, whatever   *)
(* broker it listens to (src/src/infrastructure/consumer/mod.rs).  Which   *)
(* of the two promises is kept depends on when the broker is told that a   *)
(* command is settled: before its script runs or after.                    *)
(***************************************************************************)
EXTENDS Naturals

CONSTANTS
  Commands,
  Many  \* a command that was begun this many times may be begun again

VARIABLES
  promise,  \* at_least_once, at_most_once, or none
  care,     \* care[m]: unsent, owed by the broker, or settled
  begun,    \* begun[m]: how many times the script of m was started, up to Many
  handled   \* handled[m]: whether handle returned for m, or m was dropped

vars == <<promise, care, begun, handled>>

Init ==
  /\ promise \in {"at_least_once", "at_most_once", "none"}
  /\ care = [m \in Commands |-> "unsent"]
  /\ begun = [m \in Commands |-> 0]
  /\ handled = [m \in Commands |-> FALSE]

Send(m) ==
  /\ care[m] = "unsent"
  /\ care' = [care EXCEPT ![m] = "owed"]
  /\ UNCHANGED <<promise, begun, handled>>

\* At most once: a command runs after it was settled, and only the first time.
Begin(m) ==
  /\ care[m] # "unsent"
  /\ promise = "at_most_once" => care[m] = "settled" /\ begun[m] = 0
  /\ begun[m] < Many
  /\ begun' = [begun EXCEPT ![m] = @ + 1]
  /\ UNCHANGED <<promise, care, handled>>

Handle(m) ==
  /\ care[m] # "unsent"
  /\ handled' = [handled EXCEPT ![m] = TRUE]
  /\ UNCHANGED <<promise, care, begun>>

\* At least once: only commands that were handled are settled.
Settle(S) ==
  /\ \A m \in S : care[m] = "owed" /\ (promise = "at_least_once" => handled[m])
  /\ care' = [m \in Commands |-> IF m \in S THEN "settled" ELSE care[m]]
  /\ UNCHANGED <<promise, begun, handled>>

Next ==
  \/ \E m \in Commands : Send(m) \/ Begin(m) \/ Handle(m)
  \/ \E S \in SUBSET Commands : Settle(S)

Spec == Init /\ [][Next]_vars

=============================================================================
