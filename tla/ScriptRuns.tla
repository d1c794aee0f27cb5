----------------------------- MODULE ScriptRuns -----------------------------
(***************************************************************************)
(* What the script service owes a request to run a script, over HTTP or as *)
(* a command (ScriptingUseCase::execute and its callers): nothing runs     *)
(* that is not permitted, every effect of a script falls between its       *)
(* request and its answer, a refusal means that there was none, and a      *)
(* result that the script ran to its end.                                  *)
(***************************************************************************)
EXTENDS Naturals

CONSTANT Requests

VARIABLES
  permitted,  \* permitted[r]: whether r may run its script
  verdict,    \* verdict[r]: new, waiting, or how it ended: refused, completed, failed, lost
  run,        \* run[r]: none, running, ended or broken; none again once r has ended
  effects     \* effects[r]: how many calls the script of r made on an adapter

vars == <<permitted, verdict, run, effects>>

Init ==
  /\ permitted = [r \in Requests |-> FALSE]
  /\ verdict = [r \in Requests |-> "new"]
  /\ run = [r \in Requests |-> "none"]
  /\ effects = [r \in Requests |-> 0]

Ask(r) ==
  /\ verdict[r] = "new"
  /\ verdict' = [verdict EXCEPT ![r] = "waiting"]
  /\ \E p \in BOOLEAN : permitted' = [permitted EXCEPT ![r] = p]
  /\ UNCHANGED <<run, effects>>

Begin(r) ==
  /\ verdict[r] = "waiting" /\ permitted[r] /\ run[r] = "none"
  /\ run' = [run EXCEPT ![r] = "running"]
  /\ UNCHANGED <<permitted, verdict, effects>>

Effect(r) ==
  /\ verdict[r] = "waiting" /\ run[r] = "running"
  /\ effects' = [effects EXCEPT ![r] = @ + 1]
  /\ UNCHANGED <<permitted, verdict, run>>

\* The script comes to its end, or it stops on an error or a panic.
Stop(r) ==
  /\ verdict[r] = "waiting" /\ run[r] = "running"
  /\ \E how \in {"ended", "broken"} : run' = [run EXCEPT ![r] = how]
  /\ UNCHANGED <<permitted, verdict, effects>>

Answer(r) ==
  /\ verdict[r] = "waiting"
  /\ \/ run[r] = "none" /\ verdict' = [verdict EXCEPT ![r] = "refused"]
     \/ run[r] = "ended" /\ verdict' = [verdict EXCEPT ![r] = "completed"]
     \/ run[r] \in {"none", "broken"} /\ verdict' = [verdict EXCEPT ![r] = "failed"]
  /\ run' = [run EXCEPT ![r] = "none"]
  /\ UNCHANGED <<permitted, effects>>

\* A crash takes all requests with it, a failed report of a result one.
Lose(R) ==
  /\ \A r \in R : verdict[r] = "waiting"
  /\ verdict' = [r \in Requests |-> IF r \in R THEN "lost" ELSE verdict[r]]
  /\ run' = [r \in Requests |-> IF r \in R THEN "none" ELSE run[r]]
  /\ UNCHANGED <<permitted, effects>>

Next ==
  \/ \E r \in Requests :
       Ask(r) \/ Begin(r) \/ Effect(r) \/ Stop(r) \/ Answer(r)
  \/ \E R \in SUBSET Requests : Lose(R)

Spec == Init /\ [][Next]_vars

=============================================================================
