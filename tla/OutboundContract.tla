--------------------------- MODULE OutboundContract ---------------------------
(***************************************************************************)
(* What a caller of EventPort, LambdaPort or EmailPort may rely on: its    *)
(* calls return one after the other, with ok or with an error, and an      *)
(* error promises nothing.  An ok promises the arrival, where the adapter  *)
(* waits for it ("acked"), or that the event stays ahead of the caller's   *)
(* later ones if it arrives ("ordered"), or nothing ("none").              *)
(***************************************************************************)
EXTENDS Naturals, Sequences

CONSTANTS
  Callers,    \* threads that call: scripts, command consumers, HTTP handlers
  MaxEvents,  \* bound on the calls of a caller
  MaxLog      \* bound on the arrivals of a run

Events == Callers \X (1..MaxEvents)

VARIABLES
  promise,    \* one of the three
  asked,      \* asked[c]: how many calls c has made
  told,       \* told[e]: what the call returned, "none" before that
  log         \* what reached the other side, in the order it did

vars == <<promise, asked, told, log>>

Arrived == {log[i] : i \in DOMAIN log}
Pending(c) == asked[c] > 0 /\ told[<<c, asked[c]>>] = "none"

Init ==
  /\ promise \in {"acked", "ordered", "none"}
  /\ asked = [c \in Callers |-> 0]
  /\ told = [e \in Events |-> "none"]
  /\ log = <<>>

Ask(c) ==
  /\ asked[c] < MaxEvents /\ ~Pending(c)
  /\ asked' = [asked EXCEPT ![c] = @ + 1]
  /\ UNCHANGED <<promise, told, log>>

\* Of an event whose call returned ok: not any more, or not behind a later one.
Arrive(e) ==
  /\ Len(log) < MaxLog
  /\ e[2] <= asked[e[1]]
  /\ told[e] = "ok" =>
       /\ promise # "acked"
       /\ promise = "ordered" => \A f \in Arrived : f[1] = e[1] => f[2] <= e[2]
  /\ log' = Append(log, e)
  /\ UNCHANGED <<promise, asked, told>>

Return(c, result) ==
  /\ Pending(c)
  /\ result = "ok" /\ promise = "acked" => <<c, asked[c]>> \in Arrived
  /\ told' = [told EXCEPT ![<<c, asked[c]>>] = result]
  /\ UNCHANGED <<promise, asked, log>>

Next ==
  \/ \E c \in Callers : Ask(c) \/ \E r \in {"ok", "error"} : Return(c, r)
  \/ \E e \in Events : Arrive(e)

Spec == Init /\ [][Next]_vars

=============================================================================
