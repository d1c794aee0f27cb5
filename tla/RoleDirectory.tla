---------------------------- MODULE RoleDirectory ----------------------------
(***************************************************************************)
(* What creating a role promises (POST /api/v1/roles and Graph::           *)
(* create_role): the directory decides in one step whether a name is new.  *)
(***************************************************************************)
CONSTANTS Clients, Names, Seeded

VARIABLES
  directory,  \* the names of the roles
  open,       \* whether the service runs
  asks,       \* asks[c]: the name c asked for
  reply       \* reply[c]: pending, created, refused, failed, or none

vars == <<directory, open, asks, reply>>

Settled == {"none", "created", "refused", "failed"}

Init ==
  /\ directory = {}
  /\ open = FALSE
  /\ asks \in [Clients -> Names]
  /\ reply = [c \in Clients |-> "none"]

\* Starting the service adds the seeds that are missing.
Start ==
  /\ ~open /\ open' = TRUE
  /\ directory' = directory \cup Seeded
  /\ UNCHANGED <<asks, reply>>

Stop ==
  /\ open /\ open' = FALSE
  /\ reply' = [c \in Clients |-> "none"]
  /\ UNCHANGED <<directory, asks>>

Become(c, from, to) == open /\ reply[c] \in from /\ reply' = [reply EXCEPT ![c] = to]

Ask(c, n) ==
  /\ Become(c, Settled, "pending")
  /\ asks' = [asks EXCEPT ![c] = n]
  /\ UNCHANGED <<directory, open>>

\* A malformed name fails without being asked for.
Reject(c) == Become(c, Settled, "failed") /\ UNCHANGED <<directory, open, asks>>

Create(c) ==
  /\ asks[c] \notin directory
  /\ Become(c, {"pending"}, "created")
  /\ directory' = directory \cup {asks[c]}
  /\ UNCHANGED <<open, asks>>

Refuse(c) ==
  /\ asks[c] \in directory
  /\ Become(c, {"pending"}, "refused")
  /\ UNCHANGED <<directory, open, asks>>

\* A failure does not say whether the role was created.
Fail(c) ==
  /\ Become(c, {"pending"}, "failed")
  /\ directory' \in {directory, directory \cup {asks[c]}}
  /\ UNCHANGED <<open, asks>>

\* Roles are renamed and deleted through the port.
Rename(old, n) ==
  /\ open
  /\ old \in directory /\ n \notin directory
  /\ directory' = (directory \ {old}) \cup {n}
  /\ UNCHANGED <<open, asks, reply>>

Delete(old) ==
  /\ open
  /\ old \in directory
  /\ directory' = directory \ {old}
  /\ UNCHANGED <<open, asks, reply>>

Next ==
  \/ Start \/ Stop
  \/ \E old \in Names : Delete(old) \/ \E n \in Names : Rename(old, n)
  \/ \E c \in Clients :
       (\E n \in Names : Ask(c, n)) \/ Reject(c) \/ Create(c) \/ Refuse(c) \/ Fail(c)

Spec == Init /\ [][Next]_vars

=============================================================================
