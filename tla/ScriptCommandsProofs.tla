------------------------ MODULE ScriptCommandsProofs ------------------------
(***************************************************************************)
(* What the consumers keep for any number of processes and commands.       *)
(***************************************************************************)
EXTENDS ScriptCommands, TLAPS

USE DEF Broker, Busy, Listening

LEMMA CommandsTyped == TypeOK /\ [Next]_vars => TypeOK'
<1> SUFFICES ASSUME TypeOK, [Next]_vars PROVE TypeOK'
  OBVIOUS
<1> USE CommandsAssumption DEF TypeOK, Move, Forget, Requeued, history
<1>1. ASSUME NEW m \in Commands, Send(m) PROVE TypeOK'
  BY <1>1 DEF Send
<1>2. ASSUME NEW m \in Commands, Expire(m) PROVE TypeOK'
  BY <1>2 DEF Expire
<1>3. ASSUME NEW p \in Processes, Start(p) PROVE TypeOK'
  BY <1>3, ZenonT(30) DEF Start
<1>4. ASSUME NEW p \in Processes, Crash(p) PROVE TypeOK'
  BY <1>4 DEF Crash
<1>5. ASSUME NEW p \in Processes, Unlink(p) PROVE TypeOK'
  BY <1>5 DEF Unlink
<1>6. ASSUME NEW p \in Processes, Commit(p) PROVE TypeOK'
  BY <1>6 DEF Commit
<1>7. ASSUME NEW p \in Processes, NEW S \in SUBSET Commands, Fetch(p, S) PROVE TypeOK'
  <2>1. inbox' \in [Processes -> SUBSET Commands] /\ phase[p] \in Listening
    BY <1>7 DEF Fetch, Receptive
  <2>2. place' \in [Commands -> {"unsent", "waiting", "gone"} \cup Processes]
    BY <1>7 DEF Fetch
  <2>3. QED
    BY <1>7, <2>1, <2>2 DEF Fetch
<1>8. ASSUME NEW p \in Processes, NEW m \in Commands, Begin(p, m) PROVE TypeOK'
  BY <1>8 DEF Begin
<1>9. ASSUME NEW p \in Processes, NEW m \in Commands, Drop(p, m) PROVE TypeOK'
  BY <1>9 DEF Drop
<1>10. ASSUME NEW p \in Processes, Finish(p) PROVE TypeOK'
  BY <1>10 DEF Finish
<1>11. ASSUME NEW p \in Processes, Publish(p) PROVE TypeOK'
  BY <1>11 DEF Publish
<1>12. ASSUME NEW p \in Processes, Panic(p) PROVE TypeOK'
  BY <1>12 DEF Panic
<1>13. ASSUME NEW p \in Processes, Settle(p) PROVE TypeOK'
  BY <1>13 DEF Settle
<1>14. ASSUME NEW p \in Processes, Deafen(p) PROVE TypeOK'
  BY <1>14 DEF Deafen
<1>15. CASE UNCHANGED vars
  BY <1>15 DEF vars
<1>16. QED
  BY <1>1, <1>2, <1>3, <1>4, <1>5, <1>6, <1>7, <1>8, <1>9, <1>10, <1>11, <1>12,
     <1>13, <1>14, <1>15 DEF Next, Thread

\* The consumers and the broker stay well formed; in particular a consumer that
\* works has its message in its inbox.
THEOREM CommandsTypeCorrect == Spec => []TypeOK
<1>1. Init => TypeOK
  BY CommandsAssumption DEF Init, TypeOK
<1>2. QED
  BY <1>1, CommandsTyped, PTL DEF Spec

---------------------------------------------------------------------------

\* While its connection to RabbitMQ holds, a consumer has only messages that
\* were delivered to it and to nobody since.
Held ==
  Broker("rabbit") =>
    \A p \in Processes : linked[p] => \A m \in inbox[p] : place[m] = p

\* SQS and RabbitMQ have settled only what was handled.
SettledLate ==
  /\ \A p \in Processes : phase[p] = "settling" => handled[work[p]]
  /\ \A m \in Commands :
       place[m] = "gone" /\ (Broker("sqs") \/ Broker("rabbit")) => handled[m]

\* A command leaves Redis before it runs, in one inbox at most.
SettledEarly ==
  Broker("redis") =>
    /\ \A p \in Processes : \A m \in inbox[p] :
         place[m] = "gone" /\ (begun[m] = 0 \/ work[p] = m)
    /\ \A p, q \in Processes : p # q => inbox[p] \cap inbox[q] = {}
    /\ \A m \in Commands : begun[m] > 0 => place[m] = "gone"

Kept ==
  /\ Held
  /\ SettledLate
  /\ SettledEarly
  /\ \A p \in Processes : \A m \in inbox[p] : place[m] # "unsent"

LEMMA CommandsKept == TypeOK /\ Kept /\ [Next]_vars => Kept'
<1> SUFFICES ASSUME TypeOK, Kept, [Next]_vars PROVE Kept'
  OBVIOUS
<1> USE CommandsAssumption
    DEF TypeOK, Move, Forget, Requeued, history, Kept, Held, SettledLate, SettledEarly
<1>1. ASSUME NEW m \in Commands, Send(m) PROVE Kept'
  BY <1>1 DEF Send
<1>2. ASSUME NEW m \in Commands, Expire(m) PROVE Kept'
  BY <1>2 DEF Expire
<1>3. ASSUME NEW p \in Processes, Start(p) PROVE Kept'
  BY <1>3 DEF Start
<1>4. ASSUME NEW p \in Processes, Crash(p) PROVE Kept'
  BY <1>4 DEF Crash
<1>5. ASSUME NEW p \in Processes, Unlink(p) PROVE Kept'
  BY <1>5 DEF Unlink
<1>6. ASSUME NEW p \in Processes, Commit(p) PROVE Kept'
  BY <1>6 DEF Commit
<1>7. ASSUME NEW p \in Processes, NEW S \in SUBSET Commands, Fetch(p, S) PROVE Kept'
  BY <1>7 DEF Fetch, Receptive
<1>8. ASSUME NEW p \in Processes, NEW m \in Commands, Begin(p, m) PROVE Kept'
  BY <1>8 DEF Begin
<1>9. ASSUME NEW p \in Processes, NEW m \in Commands, Drop(p, m) PROVE Kept'
  BY <1>9 DEF Drop
<1>10. ASSUME NEW p \in Processes, Finish(p) PROVE Kept'
  BY <1>10 DEF Finish
<1>11. ASSUME NEW p \in Processes, Publish(p) PROVE Kept'
  BY <1>11 DEF Publish
<1>12. ASSUME NEW p \in Processes, Panic(p) PROVE Kept'
  BY <1>12 DEF Panic
<1>13. ASSUME NEW p \in Processes, Settle(p) PROVE Kept'
  BY <1>13 DEF Settle, Acknowledges
<1>14. ASSUME NEW p \in Processes, Deafen(p) PROVE Kept'
  BY <1>14 DEF Deafen
<1>15. CASE UNCHANGED vars
  BY <1>15 DEF vars
<1>16. QED
  BY <1>1, <1>2, <1>3, <1>4, <1>5, <1>6, <1>7, <1>8, <1>9, <1>10, <1>11, <1>12,
     <1>13, <1>14, <1>15 DEF Next, Thread

LEMMA CommandsInvariant == Spec => [](TypeOK /\ Kept)
<1>1. Init => Kept
  BY CommandsAssumption DEF Init, Kept, Held, SettledLate, SettledEarly
<1>2. QED
  BY <1>1, CommandsKept, CommandsTypeCorrect, PTL DEF Spec

\* No two consumers connected to RabbitMQ have one message between them.
THEOREM OneConsumerEachAlways == Spec => []OneConsumerEach
<1>1. Kept => OneConsumerEach
  BY DEF Kept, Held, OneConsumerEach
<1>2. QED
  BY <1>1, CommandsInvariant, PTL

---------------------------------------------------------------------------

\* The contract's view of the broker.
Care == [m \in Commands |-> CareOf(m)]

LEMMA CareValues ==
  ASSUME TypeOK, NEW m \in Commands
  PROVE  /\ CareOf(m) = "unsent" <=> place[m] = "unsent"
         /\ CareOf(m) = "settled" <=> place[m] = "gone"
         /\ CareOf(m) = "owed" <=> place[m] \notin {"unsent", "gone"}
BY DEF CareOf

\* A step that moves messages between the broker and the consumers only.
LEMMA Redelivered ==
  ASSUME TypeOK, TypeOK',
         \A m \in Commands :
           /\ place'[m] = "unsent" <=> place[m] = "unsent"
           /\ place'[m] = "gone" <=> place[m] = "gone"
  PROVE  Care' = Care
BY DEF Care, CareOf

\* A step that settles the messages of S.
LEMMA Settled ==
  ASSUME TypeOK, TypeOK', UNCHANGED <<setup, begun, handled>>,
         NEW S \in SUBSET Commands,
         \A m \in Commands : place'[m] = IF m \in S THEN "gone" ELSE place[m],
         \A m \in S : place[m] \notin {"unsent", "gone"},
         \A m \in S : Promise = "at_least_once" => handled[m]
  PROVE  Delivery!Settle(S)
<1>1. \A m \in Commands : CareOf(m)' = IF m \in S THEN "settled" ELSE CareOf(m)
  BY DEF CareOf
<1>2. \A m \in S : Care[m] = "owed"
  BY CareValues DEF Care
<1>3. Care' = [m \in Commands |-> IF m \in S THEN "settled" ELSE Care[m]]
  BY <1>1 DEF Care
<1>4. Promise' = Promise
  BY DEF Promise
<1>5. QED
  BY <1>2, <1>3, <1>4 DEF Delivery!Settle, Care

LEMMA PromiseValues ==
  /\ Broker("sqs") \/ Broker("rabbit") => Promise = "at_least_once"
  /\ Broker("redis") => Promise = "at_most_once"
  /\ Broker("kafka") => Promise = "none"
BY DEF Promise

LEMMA KnownBroker ==
  setup \in Setups => Broker("sqs") \/ Broker("rabbit") \/ Broker("redis") \/ Broker("kafka")
BY CommandsAssumption DEF Brokers

LEMMA CommandsStepRefines ==
  ASSUME TypeOK, Kept, [Next]_vars
  PROVE  [Delivery!Next]_(Delivery!vars)
<1>0. TypeOK' /\ Kept'
  BY CommandsTyped, CommandsKept
<1>1. setup' = setup
  BY DEF Next, Thread, vars, Send, Expire, Start, Crash, Unlink, Commit, Fetch,
         Begin, Drop, Finish, Publish, Panic, Settle, Deafen
<1>2. Promise' = Promise
  BY <1>1 DEF Promise
<1>3. ASSUME UNCHANGED <<Care, begun, handled>> PROVE UNCHANGED Delivery!vars
  BY <1>2, <1>3 DEF Delivery!vars, Care
<1>4. ASSUME NEW m \in Commands, Send(m) PROVE Delivery!Next
  <2>1. Care' = [Care EXCEPT ![m] = "owed"] /\ Care[m] = "unsent"
    BY <1>4 DEF Send, TypeOK, Care, CareOf
  <2>2. Delivery!Send(m)
    BY <1>2, <1>4, <2>1 DEF Send, history, Delivery!Send, Care
  <2>3. QED
    BY <2>2 DEF Delivery!Next
<1>5. ASSUME NEW m \in Commands, Expire(m) PROVE UNCHANGED Delivery!vars
  <2>1. Care' = Care
    BY <1>0, <1>5, CommandsAssumption, Redelivered DEF Expire, TypeOK
  <2>2. QED
    BY <1>3, <1>5, <2>1 DEF Expire, history
<1>6. ASSUME NEW p \in Processes, Start(p) \/ Deafen(p) \/ Finish(p)
      PROVE  UNCHANGED Delivery!vars
  <2>1. Care' = Care
    BY <1>0, <1>6, Redelivered DEF Start, Deafen, Finish
  <2>2. QED
    BY <1>3, <1>6, <2>1 DEF Start, Deafen, Finish, history
<1>7. ASSUME NEW p \in Processes, Crash(p) \/ Panic(p) PROVE UNCHANGED Delivery!vars
  <2>1. Care' = Care
    BY <1>0, <1>7, CommandsAssumption, Redelivered DEF Crash, Panic, Requeued, TypeOK
  <2>2. QED
    BY <1>3, <1>7, <2>1 DEF Crash, Panic, history
<1>8. ASSUME NEW p \in Processes, Unlink(p) PROVE Delivery!Next \/ UNCHANGED Delivery!vars
  <2>1. CASE place' = Requeued(p)
    <3>1. Care' = Care
      BY <1>0, <2>1, CommandsAssumption, Redelivered DEF Requeued, TypeOK
    <3>2. QED
      BY <1>3, <1>8, <3>1 DEF Unlink, history
  <2>2. ASSUME NEW m \in Commands, Broker("redis"), place[m] = "waiting",
               place' = [place EXCEPT ![m] = "gone"]
        PROVE  Delivery!Next
    <3>1. \A n \in Commands : place'[n] = IF n \in {m} THEN "gone" ELSE place[n]
      BY <2>2 DEF TypeOK
    <3>2. Promise = "at_most_once"
      BY <2>2, PromiseValues
    <3>3. Delivery!Settle({m})
      BY <1>0, <1>1, <1>8, <2>2, <3>1, <3>2, Settled DEF Unlink, history
    <3>4. QED
      BY <3>3 DEF Delivery!Next
  <2>3. QED
    BY <1>8, <2>1, <2>2 DEF Unlink
<1>9. ASSUME NEW p \in Processes, Commit(p) PROVE Delivery!Next
  <2> DEFINE S == {m \in Commands : place[m] = p}
  <2>1. \A m \in Commands : place'[m] = IF m \in S THEN "gone" ELSE place[m]
    BY <1>9 DEF Commit
  <2>2. Promise = "none"
    BY <1>9, PromiseValues DEF Commit
  <2>3. \A m \in S : place[m] \notin {"unsent", "gone"}
    BY CommandsAssumption
  <2>4. Delivery!Settle(S)
    BY <1>0, <1>1, <1>9, <2>1, <2>2, <2>3, Settled DEF Commit, history
  <2>5. QED
    BY <2>4 DEF Delivery!Next
<1>10. ASSUME NEW p \in Processes, NEW S \in SUBSET Commands, Fetch(p, S)
       PROVE  Delivery!Next \/ UNCHANGED Delivery!vars
  <2>1. CASE Broker("redis")
    <3>1. \A m \in Commands : place'[m] = IF m \in S THEN "gone" ELSE place[m]
      BY <1>10, <2>1 DEF Fetch
    <3>2. Promise = "at_most_once"
      BY <2>1, PromiseValues
    <3>3. Delivery!Settle(S)
      BY <1>0, <1>1, <1>10, <3>1, <3>2, Settled DEF Fetch, history
    <3>4. QED
      BY <3>3 DEF Delivery!Next
  <2>2. CASE ~Broker("redis")
    <3>1. Care' = Care
      BY <1>0, <1>10, <2>2, CommandsAssumption, Redelivered DEF Fetch, TypeOK
    <3>2. QED
      BY <1>3, <1>10, <3>1 DEF Fetch, history
  <2>3. QED
    BY <2>1, <2>2
<1>11. ASSUME NEW p \in Processes, NEW m \in Commands, Begin(p, m)
       PROVE  Delivery!Next \/ UNCHANGED Delivery!vars
  <2>1. Care' = Care
    BY <1>0, <1>11, Redelivered DEF Begin
  <2>2. CASE begun[m] = Many
    <3>1. begun' = begun
      BY <1>11, <2>2 DEF Begin, TypeOK
    <3>2. QED
      BY <1>3, <1>11, <2>1, <3>1 DEF Begin
  <2>3. CASE begun[m] # Many
    <3>1. begun[m] < Many /\ begun' = [begun EXCEPT ![m] = @ + 1]
      <4>1. begun[m] \in 0..Many /\ Many \in Nat
        BY CommandsAssumption DEF TypeOK
      <4>2. begun[m] < Many
        BY <2>3, <4>1
      <4>3. QED
        BY <1>11, <4>2 DEF Begin
    <3>2. m \in inbox[p] /\ place[m] # "unsent" /\ work[p] = None
      BY <1>11 DEF Begin, Move, Kept, TypeOK
    <3>3. Care[m] = CareOf(m) /\ Care[m] # "unsent"
      BY <3>2, CareValues DEF Care
    <3>4. Promise = "at_most_once" => Care[m] = "settled" /\ begun[m] = 0
      <4>1. Promise = "at_most_once" => Broker("redis")
        BY KnownBroker, PromiseValues DEF TypeOK
      <4>2. Broker("redis") => place[m] = "gone" /\ begun[m] = 0
        BY <1>11, <3>2, CommandsAssumption DEF Kept, SettledEarly, TypeOK
      <4>3. place[m] = "gone" => CareOf(m) = "settled"
        BY CareValues
      <4>4. QED
        BY <3>3, <4>1, <4>2, <4>3
    <3>5. Delivery!Begin(m)
      BY <1>2, <1>11, <2>1, <3>1, <3>3, <3>4 DEF Begin, Delivery!Begin, Care
    <3>6. QED
      BY <3>5 DEF Delivery!Next
  <2>4. QED
    BY <2>2, <2>3
<1>12. ASSUME NEW p \in Processes, NEW m \in Commands, m \in inbox[p],
              place' = place, begun' = begun, handled' = [handled EXCEPT ![m] = TRUE]
       PROVE  Delivery!Next
  <2>1. Care' = Care
    BY <1>0, <1>12, Redelivered
  <2>2. Care[m] # "unsent"
    BY <1>12, CareValues DEF Care, Kept
  <2>3. Delivery!Handle(m)
    BY <1>2, <1>12, <2>1, <2>2 DEF Delivery!Handle, Care
  <2>4. QED
    BY <2>3 DEF Delivery!Next
<1>13. ASSUME NEW p \in Processes, Publish(p) PROVE Delivery!Next
  BY <1>12, <1>13 DEF Publish, Move, TypeOK
<1>14. ASSUME NEW p \in Processes, NEW m \in Commands, Drop(p, m) PROVE Delivery!Next
  BY <1>12, <1>14 DEF Drop
<1>15. ASSUME NEW p \in Processes, Settle(p) PROVE Delivery!Next \/ UNCHANGED Delivery!vars
  <2>1. work[p] \in inbox[p] /\ work[p] \in Commands /\ handled[work[p]]
    BY <1>15 DEF Settle, Move, TypeOK, Kept, SettledLate
  <2>2. place[work[p]] # "unsent"
    BY <2>1 DEF Kept
  <2>3. CASE place' = place
    <3>1. Care' = Care
      BY <1>0, <2>3, Redelivered
    <3>2. QED
      BY <1>3, <1>15, <3>1 DEF Settle, history
  <2>4. CASE place' # place
    <3>1. \A m \in Commands : place'[m] = IF m \in {work[p]} THEN "gone" ELSE place[m]
      BY <1>15, <2>4 DEF Settle, TypeOK
    <3>2. place[work[p]] # "gone"
      BY <1>15, <2>1, <2>4 DEF Settle, TypeOK
    <3>3. Delivery!Settle({work[p]})
      BY <1>0, <1>1, <1>15, <2>1, <2>2, <3>1, <3>2, Settled DEF Settle, history
    <3>4. QED
      BY <2>1, <3>3 DEF Delivery!Next
  <2>5. QED
    BY <2>3, <2>4
<1>16. CASE UNCHANGED vars
  <2>1. Care' = Care
    BY <1>0, <1>16, Redelivered DEF vars
  <2>2. QED
    BY <1>3, <1>16, <2>1 DEF vars
<1>17. QED
  BY <1>4, <1>5, <1>6, <1>7, <1>8, <1>9, <1>10, <1>11, <1>13, <1>14, <1>15, <1>16
     DEF Next, Thread

\* Whatever crashes, breaks, times out or is delivered twice, the consumers of
\* SQS and RabbitMQ settle only commands that were handled, and the consumer of
\* Redis runs no command twice.
THEOREM CommandsImplementDelivery == Spec => ImplementsDelivery
<1>1. Init => Delivery!Init
  <2> SUFFICES ASSUME Init PROVE Delivery!Init
    OBVIOUS
  <2>1. Promise \in {"at_least_once", "at_most_once", "none"}
    BY KnownBroker, PromiseValues DEF Init
  <2>2. \A m \in Commands : CareOf(m) = "unsent"
    BY DEF Init, CareOf
  <2>3. QED
    BY <2>1, <2>2 DEF Init, Delivery!Init, Care
<1>2. TypeOK /\ Kept /\ [Next]_vars => [Delivery!Next]_(Delivery!vars)
  BY CommandsStepRefines
<1>3. QED
  BY <1>1, <1>2, CommandsInvariant, PTL DEF Spec, ImplementsDelivery, Delivery!Spec

=============================================================================
