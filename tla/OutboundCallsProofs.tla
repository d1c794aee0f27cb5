------------------------- MODULE OutboundCallsProofs -------------------------
(***************************************************************************)
(* Every adapter keeps its contract, for any number of callers and calls.  *)
(***************************************************************************)
EXTENDS OutboundCalls, SequenceTheorems, TLAPS

\* A caller waits exactly while its last call has returned nothing; of calls to
\* come nothing is known.
Waits ==
  /\ \A c \in Callers : at[c] # "idle" <=> Contract!Pending(c)
  /\ \A e \in Events : e[2] > asked[e[1]] => told[e] = "none"

\* Only what was asked for is on its way or arrived.
Sent ==
  /\ \A i \in DOMAIN log : log[i][2] <= asked[log[i][1]]
  /\ \A i \in DOMAIN held : held[i].event[2] <= asked[held[i].event[1]]

\* Kafka's queue holds nothing that publish has reported as sent.
Unflushed ==
  adapter = "kafka" => \A i \in DOMAIN held : told[held[i].event] # "ok"

\* What RabbitMQ's library holds of a caller is behind what arrived, in order.
Lined ==
  adapter = "rabbit" =>
    \A j \in DOMAIN held :
      /\ \A i \in DOMAIN log :
           log[i][1] = held[j].event[1] => log[i][2] <= held[j].event[2]
      /\ \A i \in 1..j :
           held[i].event[1] = held[j].event[1] => held[i].event[2] <= held[j].event[2]

OutboundInv == TypeOK /\ Waits /\ Sent /\ Unflushed /\ Lined
---------------------------------------------------------------------------
(* What the adapters do, by its effect on calls, queue and arrivals *)

\* A call of c returns, and what the library holds stays.
Replies(c, result) ==
  /\ at[c] # "idle" /\ result \in {"ok", "error"}
  /\ Return(c, result) /\ UNCHANGED library
  /\ result = "ok" =>
       /\ Promise = "acked" => Arrived(Event(c))
       /\ adapter = "kafka" => held = <<>>

\* The event of c joins the queue, and the call returns at once.
Queues(c) ==
  /\ at[c] = "calling" /\ adapter \in {"rabbit", "invokeAsync"}
  /\ Hold(c) /\ Return(c, "ok") /\ UNCHANGED channel

\* The event of c joins Kafka's queue, and the call waits.
Sends(c) ==
  /\ at[c] = "calling" /\ adapter = "kafka"
  /\ Hold(c) /\ at' = [at EXCEPT ![c] = "flushing"]
  /\ UNCHANGED <<adapter, name, asked, told, log, channel>>

Passes(i) == Reach(held[i].event) /\ UNCHANGED held
Drops(i) == held' = RemoveAt(held, i) /\ UNCHANGED log
Forwards ==
  /\ adapter = "rabbit" /\ held # <<>>
  /\ Reach(Head(held).event) /\ held' = Tail(held)
Loses ==
  /\ adapter = "rabbit" /\ held' \in {held, <<>>}
  /\ channel' \in {"closing", "closed", "lost"} /\ UNCHANGED log

LEMMA Effects ==
  ASSUME TypeOK, [Next]_vars
  PROVE  \/ \E c \in Callers : Call(c) \/ Deliver(c) \/ Queues(c) \/ Sends(c)
         \/ \E c \in Callers, result \in {"ok", "error"} : Replies(c, result)
         \/ /\ adapter \in {"kafka", "invokeAsync"}
            /\ \E i \in DOMAIN held : Passes(i) \/ Drops(i)
            /\ UNCHANGED <<adapter, at, name, asked, told, channel>>
         \/ Forwards /\ UNCHANGED <<adapter, at, name, asked, told, channel>>
         \/ Loses /\ UNCHANGED <<adapter, at, name, asked, told>>
         \/ UNCHANGED vars
<1> USE DEF TypeOK
<1>1. ASSUME NEW c \in Callers, NEW okay \in BOOLEAN, Answer(c, okay),
             okay => (Promise = "acked" => Arrived(Event(c))) /\ adapter # "kafka"
      PROVE  \E result \in {"ok", "error"} : Replies(c, result)
  BY <1>1 DEF Answer, Replies
<1>2. ASSUME NEW c \in Callers, Caller(c)
      PROVE  Queues(c) \/ Sends(c) \/ \E result \in {"ok", "error"} : Replies(c, result)
  <2> USE DEF Promise
  <2>1. CASE SnsPublish(c) \/ SqsPublish(c) \/ Invoke(c) \/ SendEmailFull(c)
    BY <2>1, <1>1 DEF SnsPublish, SqsPublish, Invoke, SendEmailFull, Arrived
  <2>2. CASE EventBridgePublish(c)
    BY <2>2, <1>1 DEF EventBridgePublish
  <2>3. CASE InvokeAsync(c)
    BY <2>3, <1>1 DEF InvokeAsync, Queues
  <2>4. CASE KafkaPublish(c)
    BY <2>4, <1>1 DEF KafkaPublish, Sends, Flush, Replies
  <2>5. CASE RabbitPublish(c)
    BY <2>5 DEF RabbitPublish, Queues, Replies, library
  <2>6. QED
    BY <1>2, <2>1, <2>2, <2>3, <2>4, <2>5 DEF Caller
<1>3. CASE Drain
  BY <1>3 DEF Drain, Passes, Drops
<1>4. CASE RabbitBroker
  BY <1>4 DEF RabbitBroker, Forwards, Loses
<1>5. CASE RabbitCloses
  BY <1>5 DEF RabbitCloses, Loses
<1>6. QED
  BY <1>2, <1>3, <1>4, <1>5 DEF Next

---------------------------------------------------------------------------
(* Queues *)

Held == [event: Events, name: Names]

LEMMA Removed ==
  ASSUME NEW S, NEW s \in Seq(S), NEW i \in DOMAIN s
  PROVE  /\ RemoveAt(s, i) \in Seq(S)
         /\ \A j \in DOMAIN RemoveAt(s, i) : \E k \in DOMAIN s : RemoveAt(s, i)[j] = s[k]
<1> DEFINE front == SubSeq(s, 1, i - 1)
           back == SubSeq(s, i + 1, Len(s))
<1>1. i \in 1..Len(s) /\ Len(s) \in Nat /\ \A k \in 1..Len(s) : s[k] \in S
  BY ElementOfSeq, LenProperties
<1>2. /\ front \in Seq(S) /\ Len(front) = i - 1
      /\ \A j \in 1..Len(front) : front[j] = s[j]
  BY <1>1, SubSeqProperties
<1>3. /\ back \in Seq(S) /\ Len(back) = Len(s) - i
      /\ \A j \in 1..Len(back) : back[j] = s[i + j]
  BY <1>1, SubSeqProperties, SMTT(30)
<1> HIDE DEF front, back
<1>4. /\ front \o back \in Seq(S) /\ Len(front \o back) = Len(s) - 1
      /\ \A j \in 1..(Len(s) - 1) :
           (front \o back)[j] = IF j <= i - 1 THEN front[j] ELSE back[j - (i - 1)]
  BY <1>1, <1>2, <1>3, ConcatProperties, SMTT(30)
<1>5. \A j \in 1..(Len(s) - 1) : \E k \in 1..Len(s) : (front \o back)[j] = s[k]
  <2> TAKE j \in 1..(Len(s) - 1)
  <2>1. CASE j <= i - 1
    BY <2>1, <1>1, <1>2, <1>4
  <2>2. CASE j > i - 1
    <3>1. j - (i - 1) \in 1..Len(back) /\ (front \o back)[j] = back[j - (i - 1)]
      BY <2>2, <1>1, <1>3, <1>4
    <3>2. (front \o back)[j] = s[i + (j - (i - 1))] /\ i + (j - (i - 1)) \in 1..Len(s)
      BY <3>1, <1>1, <1>3, SMTT(30)
    <3>3. QED
      BY <3>2
  <2>3. j <= i - 1 \/ j > i - 1
    BY <1>1
  <2>4. QED
    BY <2>1, <2>2, <2>3
<1>6. RemoveAt(s, i) = front \o back
  BY DEF RemoveAt, front, back
<1>7. DOMAIN (front \o back) = 1..(Len(s) - 1) /\ DOMAIN s = 1..Len(s)
  BY <1>4, <1>1, LenProperties
<1>8. QED
  BY <1>4, <1>5, <1>6, <1>7

\* The event of a waiting caller, and what its library makes of it.
LEMMA Waiting ==
  ASSUME TypeOK, Waits, NEW c \in Callers, at[c] # "idle"
  PROVE  /\ Event(c) \in Events /\ told[Event(c)] = "none"
         /\ Event(c)[1] = c /\ Event(c)[2] = asked[c]
         /\ [event |-> Event(c), name |-> name[c]] \in Held
<1>1. asked[c] \in 1..MaxEvents /\ told[<<c, asked[c]>>] = "none"
  BY OutboundAssumption DEF TypeOK, Waits, Contract!Pending
<1>2. QED
  BY <1>1 DEF Event, Events, TypeOK, Held

LEMMA HeldQueue ==
  ASSUME TypeOK, Waits, NEW c \in Callers, at[c] # "idle", Hold(c)
  PROVE  /\ held' \in Seq(Held) /\ DOMAIN held' = 1..(Len(held) + 1)
         /\ \A i \in DOMAIN held : held'[i] = held[i]
         /\ held'[Len(held) + 1].event = Event(c)
         /\ DOMAIN held = 1..Len(held) /\ Len(held) \in Nat
<1>1. held \in Seq(Held) /\ [event |-> Event(c), name |-> name[c]] \in Held
  BY Waiting DEF TypeOK, Held
<1>2. QED
  BY <1>1, AppendProperties, LenProperties DEF Hold

LEMMA Reached ==
  ASSUME TypeOK, NEW e \in Events, Reach(e)
  PROVE  /\ log' \in Seq(Events) /\ Len(log') <= MaxLog
         /\ DOMAIN log' = 1..(Len(log) + 1) /\ DOMAIN log = 1..Len(log) /\ Len(log) \in Nat
         /\ \A i \in DOMAIN log : log'[i] = log[i]
         /\ log'[Len(log) + 1] = e
BY OutboundAssumption, AppendProperties, LenProperties DEF TypeOK, Reach

LEMMA HeldTyped ==
  ASSUME TypeOK
  PROVE  \A i \in DOMAIN held : held[i] \in Held /\ held[i].event \in Events
<1>1. held \in Seq(Held)
  BY DEF TypeOK, Held
<1>2. \A i \in DOMAIN held : held[i] \in Held
  BY <1>1, ElementOfSeq, LenProperties
<1>3. QED
  BY <1>2 DEF Held

LEMMA FirstHeld ==
  ASSUME TypeOK, held # <<>>
  PROVE  /\ Head(held) = held[1] /\ 1 \in DOMAIN held
         /\ Tail(held) \in Seq(Held)
         /\ \A j \in DOMAIN Tail(held) : j + 1 \in DOMAIN held /\ Tail(held)[j] = held[j + 1]
BY HeadTailProperties, LenProperties DEF TypeOK, Held

---------------------------------------------------------------------------
(* Each effect keeps the invariant. *)

LEMMA CallKeeps ==
  ASSUME OutboundInv, NEW c \in Callers, Call(c)
  PROVE  OutboundInv'
<1> USE OutboundAssumption DEF OutboundInv, TypeOK, Call, library
<1>1. TypeOK'
  OBVIOUS
<1>2. Waits'
  BY DEF Waits, Contract!Pending, Events
<1>3. asked[c] \in Nat /\ \A d \in Callers : asked[d] <= asked'[d]
  OBVIOUS
<1>4. Sent'
  <2>1. \A i \in DOMAIN log : log[i][1] \in Callers /\ log[i][2] \in Nat
    BY ElementOfSeq, LenProperties DEF Events
  <2>2. \A i \in DOMAIN held : held[i].event[1] \in Callers /\ held[i].event[2] \in Nat
    BY HeldTyped, SMTT(30) DEF Events
  <2>3. QED
    BY <1>3, <2>1, <2>2, SMTT(30) DEF Sent
<1>5. Unflushed' /\ Lined'
  BY DEF Unflushed, Lined
<1>6. QED
  BY <1>1, <1>2, <1>4, <1>5

LEMMA DeliverKeeps ==
  ASSUME OutboundInv, NEW c \in Callers, Deliver(c)
  PROVE  OutboundInv'
<1> USE DEF OutboundInv, Deliver, library
<1>1. Event(c) \in Events /\ Event(c)[1] = c /\ Event(c)[2] = asked[c]
  BY Waiting
<1>2. adapter \notin {"rabbit", "kafka"}
  BY DEF Requests, TypeOK
<1>3. TypeOK'
  BY <1>1, Reached DEF TypeOK
<1>4. Waits'
  BY DEF Waits, Contract!Pending
<1>5. Sent'
  BY <1>1, Reached, SMTT(30) DEF Sent, TypeOK
<1>6. Unflushed' /\ Lined'
  BY <1>2 DEF Unflushed, Lined
<1>7. QED
  BY <1>3, <1>4, <1>5, <1>6

\* What a return does to the calls of its caller, and to those of the others.
LEMMA ReturnWaits ==
  ASSUME TypeOK, Waits, NEW c \in Callers, at[c] # "idle",
         NEW result \in {"ok", "error"}, Return(c, result)
  PROVE  /\ Waits'
         /\ at' \in [Callers -> {"idle", "calling", "flushing"}]
         /\ told' \in [Events -> {"none", "ok", "error"}]
         /\ name' \in [Callers -> Names]
         /\ told'[Event(c)] = result
         /\ \A e \in Events \ {Event(c)} : told'[e] = told[e]
<1>1. Event(c) \in Events /\ Event(c)[1] = c /\ Event(c)[2] = asked[c]
  BY Waiting
<1>2. /\ at' \in [Callers -> {"idle", "calling", "flushing"}]
      /\ told' \in [Events -> {"none", "ok", "error"}]
      /\ name' \in [Callers -> Names]
      /\ told'[Event(c)] = result
      /\ \A e \in Events \ {Event(c)} : told'[e] = told[e]
  BY <1>1 DEF Return, TypeOK, Names
<1>3. at'[c] = "idle" /\ ~Contract!Pending(c)'
  BY <1>1, <1>2 DEF Return, TypeOK, Contract!Pending, Event
<1>4. \A d \in Callers \ {c} :
        at'[d] = at[d] /\ (Contract!Pending(d)' <=> Contract!Pending(d))
  <2> TAKE d \in Callers \ {c}
  <2>1. asked[d] > 0 => <<d, asked[d]>> \in Events \ {Event(c)}
    BY OutboundAssumption DEF TypeOK, Events, Event
  <2>2. QED
    BY <2>1, <1>2 DEF Return, TypeOK, Contract!Pending
<1>5. \A e \in Events : e[2] > asked'[e[1]] => told'[e] = "none"
  <2> SUFFICES ASSUME NEW e \in Events, e[2] > asked[e[1]] PROVE told'[e] = "none"
    BY DEF Return
  <2>1. e # Event(c)
    BY <1>1 DEF TypeOK
  <2>2. QED
    BY <2>1, <1>2 DEF Waits
<1>6. Waits'
  BY <1>3, <1>4, <1>5 DEF Waits
<1>7. QED
  BY <1>2, <1>6

LEMMA RepliesKeep ==
  ASSUME OutboundInv, NEW c \in Callers, NEW result \in {"ok", "error"}, Replies(c, result)
  PROVE  OutboundInv'
<1> USE DEF OutboundInv, Replies, library
<1>1. UNCHANGED <<adapter, asked, log, held, channel>>
  BY DEF Return
<1>2. TypeOK' /\ Waits'
  BY <1>1, ReturnWaits DEF TypeOK
<1>3. Sent' /\ Lined'
  BY <1>1 DEF Sent, Lined
<1>4. Unflushed'
  <2> SUFFICES ASSUME adapter = "kafka", NEW i \in DOMAIN held
               PROVE  told'[held[i].event] # "ok"
    BY <1>1 DEF Unflushed
  <2>1. result = "error" \/ held = <<>>
    OBVIOUS
  <2>2. held # <<>>
    OBVIOUS
  <2>3. held[i].event \in Events /\ told[held[i].event] # "ok"
    BY HeldTyped DEF Unflushed
  <2>4. QED
    BY <2>1, <2>2, <2>3, ReturnWaits
<1>5. QED
  BY <1>2, <1>3, <1>4

\* The event of a caller joins the queue behind all that the caller sent.
LEMMA HoldKeeps ==
  ASSUME OutboundInv, NEW c \in Callers, at[c] # "idle", Hold(c),
         UNCHANGED <<adapter, asked, log>>
  PROVE  held' \in Seq(Held) /\ Sent' /\ Lined'
<1> USE DEF OutboundInv
<1>1. Event(c) \in Events /\ Event(c)[1] = c /\ Event(c)[2] = asked[c]
  BY Waiting
<1>2. asked[c] \in Nat
  BY DEF TypeOK
<1>3. Sent'
  BY <1>1, <1>2, HeldQueue DEF Sent
<1>4. Lined'
  <2> SUFFICES ASSUME adapter = "rabbit", NEW j \in DOMAIN held'
               PROVE  /\ \A i \in DOMAIN log :
                           log[i][1] = held'[j].event[1] => log[i][2] <= held'[j].event[2]
                      /\ \A i \in 1..j : held'[i].event[1] = held'[j].event[1] =>
                                           held'[i].event[2] <= held'[j].event[2]
    BY DEF Lined
  <2>1. CASE j \in DOMAIN held
    <3>1. held'[j] = held[j] /\ \A i \in 1..j : i \in DOMAIN held /\ held'[i] = held[i]
      BY <2>1, HeldQueue
    <3>2. QED
      BY <2>1, <3>1 DEF Lined
  <2>2. CASE j = Len(held) + 1
    <3>1. held'[j].event = Event(c)
      BY <2>2, HeldQueue
    <3>2. \A i \in DOMAIN log : log[i][1] = c => log[i][2] <= asked[c]
      BY DEF Sent
    <3>3. \A i \in 1..j : held'[i].event[1] = c => held'[i].event[2] <= asked[c]
      BY <1>1, <1>2, <2>2, <3>1, HeldQueue DEF Sent
    <3>4. QED
      BY <1>1, <3>1, <3>2, <3>3
  <2>3. QED
    BY <2>1, <2>2, HeldQueue
<1>5. QED
  BY <1>3, <1>4, HeldQueue

LEMMA QueuesKeep ==
  ASSUME OutboundInv, NEW c \in Callers, Queues(c)
  PROVE  OutboundInv'
<1> USE DEF Queues
<1>1. UNCHANGED <<adapter, asked, log, channel>>
  BY DEF Return
<1>2. held' \in Seq(Held) /\ Sent' /\ Lined'
  BY <1>1, HoldKeeps
<1>3. TypeOK' /\ Waits'
  BY <1>1, <1>2, ReturnWaits DEF OutboundInv, TypeOK, Held
<1>4. Unflushed'
  BY <1>1 DEF Unflushed
<1>5. QED
  BY <1>2, <1>3, <1>4 DEF OutboundInv

LEMMA SendsKeep ==
  ASSUME OutboundInv, NEW c \in Callers, Sends(c)
  PROVE  OutboundInv'
<1> USE DEF Sends, OutboundInv
<1>1. held' \in Seq(Held) /\ Sent' /\ Lined'
  BY HoldKeeps
<1>2. TypeOK'
  BY <1>1 DEF TypeOK, Held
<1>3. Waits'
  BY DEF TypeOK, Waits, Contract!Pending
<1>4. Unflushed'
  <2> SUFFICES ASSUME NEW i \in DOMAIN held' PROVE told[held'[i].event] # "ok"
    BY DEF Unflushed
  <2>1. CASE i \in DOMAIN held
    BY <2>1, HeldQueue DEF Unflushed
  <2>2. CASE i = Len(held) + 1
    BY <2>2, HeldQueue, Waiting
  <2>3. QED
    BY <2>1, <2>2, HeldQueue
<1>5. QED
  BY <1>1, <1>2, <1>3, <1>4

LEMMA DrainKeeps ==
  ASSUME OutboundInv, NEW i \in DOMAIN held, Passes(i) \/ Drops(i), adapter # "rabbit",
         UNCHANGED <<adapter, at, name, asked, told, channel>>
  PROVE  OutboundInv'
<1> USE DEF OutboundInv
<1>1. held \in Seq(Held) /\ held[i].event \in Events
  BY HeldTyped DEF TypeOK, Held
<1>2. Waits' /\ Lined'
  BY DEF Waits, Contract!Pending, Lined
<1>3. CASE Passes(i)
  <2>1. TypeOK' /\ Unflushed'
    BY <1>1, <1>3, Reached DEF Passes, TypeOK, Unflushed
  <2>2. Sent'
    BY <1>1, <1>3, Reached DEF Passes, Sent
  <2>3. QED
    BY <1>2, <2>1, <2>2
<1>4. CASE Drops(i)
  <2>1. /\ held' \in Seq(Held)
        /\ \A j \in DOMAIN held' : \E k \in DOMAIN held : held'[j] = held[k]
    BY <1>1, <1>4, Removed DEF Drops
  <2>2. TypeOK'
    BY <1>4, <2>1 DEF Drops, TypeOK, Held
  <2>3. Sent' /\ Unflushed'
    BY <1>4, <2>1 DEF Drops, Sent, Unflushed
  <2>4. QED
    BY <1>2, <2>2, <2>3
<1>5. QED
  BY <1>3, <1>4

LEMMA ForwardsKeep ==
  ASSUME OutboundInv, Forwards, UNCHANGED <<adapter, at, name, asked, told, channel>>
  PROVE  OutboundInv'
<1> USE DEF OutboundInv, Forwards
<1>1. Head(held).event \in Events
  BY FirstHeld, HeldTyped
<1>2. TypeOK'
  BY <1>1, FirstHeld, Reached DEF TypeOK, Held
<1>3. Waits' /\ Unflushed'
  BY DEF Waits, Contract!Pending, Unflushed
<1>4. Sent'
  BY <1>1, FirstHeld, Reached DEF Sent
<1>5. Lined'
  <2> SUFFICES ASSUME NEW j \in DOMAIN Tail(held)
               PROVE  /\ \A i \in DOMAIN log' : log'[i][1] = Tail(held)[j].event[1] =>
                                                  log'[i][2] <= Tail(held)[j].event[2]
                      /\ \A i \in 1..j : Tail(held)[i].event[1] = Tail(held)[j].event[1] =>
                                           Tail(held)[i].event[2] <= Tail(held)[j].event[2]
    BY DEF Lined
  <2>1. j + 1 \in DOMAIN held /\ Tail(held)[j] = held[j + 1] /\ j \in Nat \ {0}
    BY FirstHeld, LenProperties
  <2>2. \A i \in 1..j : i \in DOMAIN Tail(held)
    BY <2>1, FirstHeld, LenProperties
  <2>3. \A i \in DOMAIN log' : log'[i][1] = held[j + 1].event[1] =>
                                 log'[i][2] <= held[j + 1].event[2]
    <3>1. 1 \in 1..(j + 1)
      BY <2>1
    <3>2. Head(held).event[1] = held[j + 1].event[1] =>
            Head(held).event[2] <= held[j + 1].event[2]
      BY <2>1, <3>1, FirstHeld DEF Lined
    <3>3. QED
      <4>1. \A i \in DOMAIN log : log'[i] = log[i] /\
              (log[i][1] = held[j + 1].event[1] => log[i][2] <= held[j + 1].event[2])
        BY <1>1, <2>1, Reached DEF Lined
      <4>2. \A i \in DOMAIN log' : i \in DOMAIN log \/ log'[i] = Head(held).event
        BY <1>1, Reached
      <4>3. QED
        BY <3>2, <4>1, <4>2
  <2>4. \A i \in 1..j : held[i + 1].event[1] = held[j + 1].event[1] =>
                          held[i + 1].event[2] <= held[j + 1].event[2]
    BY <2>1 DEF Lined
  <2>5. QED
    BY <2>1, <2>2, <2>3, <2>4, FirstHeld
<1>6. QED
  BY <1>2, <1>3, <1>4, <1>5

LEMMA OutboundInvariant == Spec => []OutboundInv
<1>1. Init => OutboundInv
  <2> SUFFICES ASSUME Init PROVE OutboundInv
    OBVIOUS
  <2>1. TypeOK
    <3>1. log \in Seq(Events) /\ held \in Seq([event: Events, name: Names])
      BY EmptySeq DEF Init
    <3>2. Len(log) = 0
      BY EmptySeq DEF Init
    <3>3. Len(log) <= MaxLog
      BY <3>2, OutboundAssumption
    <3>4. asked \in [Callers -> 0..MaxEvents]
      <4>1. asked = [c \in Callers |-> 0]
        BY DEF Init
      <4>2. QED
        BY <4>1, OutboundAssumption
    <3>5. /\ at \in [Callers -> {"idle", "calling", "flushing"}]
          /\ name \in [Callers -> Names]
          /\ told \in [Events -> {"none", "ok", "error"}]
          /\ adapter \in Adapters /\ channel = "open"
      BY DEF Init, Names
    <3>6. QED
      BY <3>1, <3>3, <3>4, <3>5 DEF TypeOK
  <2>2. Waits
    <3>1. \A c \in Callers : at[c] = "idle" /\ asked[c] = 0
      BY DEF Init
    <3>2. \A e \in Events : told[e] = "none"
      BY DEF Init
    <3>3. QED
      BY <3>1, <3>2 DEF Waits, Contract!Pending
  <2>3. Sent /\ Unflushed /\ Lined
    <3>1. DOMAIN <<>> = {}
      OBVIOUS
    <3>2. QED
      BY <3>1 DEF Init, Sent, Unflushed, Lined
  <2>4. QED
    BY <2>1, <2>2, <2>3 DEF OutboundInv
<1>2. OutboundInv /\ [Next]_vars => OutboundInv'
  <2> SUFFICES ASSUME OutboundInv, [Next]_vars PROVE OutboundInv'
    OBVIOUS
  <2>1. CASE Loses /\ UNCHANGED <<adapter, at, name, asked, told>>
    <3> USE <2>1 DEF Loses, OutboundInv
    <3>1. held' \in {held, <<>>} /\ DOMAIN <<>> = {}
      OBVIOUS
    <3>2. TypeOK' /\ Waits'
      BY <3>1, EmptySeq DEF TypeOK, Waits, Contract!Pending
    <3>3. CASE held' = held
      BY <3>2, <3>3 DEF Sent, Unflushed, Lined
    <3>4. CASE held' = <<>>
      BY <3>1, <3>2, <3>4 DEF Sent, Unflushed, Lined
    <3>5. QED
      BY <3>1, <3>3, <3>4
  <2>2. CASE UNCHANGED vars
    BY <2>2 DEF vars, OutboundInv, TypeOK, Waits, Contract!Pending, Sent, Unflushed, Lined
  <2>3. QED
    BY <2>1, <2>2, Effects, CallKeeps, DeliverKeeps, RepliesKeep, QueuesKeep, SendsKeep,
       DrainKeeps, ForwardsKeep DEF OutboundInv
<1>3. QED
  BY <1>1, <1>2, PTL DEF Spec

\* The adapters and their libraries stay within their types.
THEOREM OutboundTypeCorrect == Spec => []TypeOK
BY OutboundInvariant, PTL DEF OutboundInv

---------------------------------------------------------------------------
(* Each effect is a step that the contract allows. *)

LEMMA StepKeepsContract ==
  ASSUME OutboundInv, OutboundInv', [Next]_vars
  PROVE  [Contract!Next]_(Contract!vars)
<1> USE DEF OutboundInv
<1>1. ASSUME NEW c \in Callers, Call(c) PROVE Contract!Ask(c)
  BY <1>1 DEF Call, Contract!Ask, Waits, Promise
<1>2. ASSUME NEW e \in Events, Reach(e), told[e] # "ok", e[2] <= asked[e[1]],
             UNCHANGED <<adapter, asked, told>>
      PROVE  Contract!Arrive(e)
  BY <1>2 DEF Reach, Contract!Arrive, Promise
<1>3. ASSUME NEW c \in Callers, NEW result \in {"ok", "error"}, at[c] # "idle",
             Return(c, result), result = "ok" /\ Promise = "acked" => Arrived(Event(c))
      PROVE  Contract!Return(c, result)
  <2>1. result = "ok" /\ Promise = "acked" => <<c, asked[c]>> \in Contract!Arrived
    BY <1>3 DEF Arrived, Contract!Arrived, Event
  <2>2. QED
    BY <1>3, <2>1 DEF Return, Contract!Return, Waits, Event, Promise
<1>4. ASSUME NEW c \in Callers, Deliver(c) PROVE Contract!Arrive(Event(c))
  <2>1. Event(c) \in Events /\ told[Event(c)] = "none"
        /\ Event(c)[1] = c /\ Event(c)[2] = asked[c] /\ asked[c] \in Nat
    <3>1. at[c] # "idle"
      BY <1>4 DEF Deliver
    <3>2. asked[c] \in Nat
      BY DEF TypeOK
    <3>3. QED
      BY <3>1, <3>2, Waiting
  <2>2. asked[c] <= asked[c]
    BY <2>1
  <2>3. Reach(Event(c)) /\ UNCHANGED <<adapter, asked, told>>
    BY <1>4 DEF Deliver
  <2>4. told[Event(c)] # "ok" /\ Event(c)[2] <= asked[Event(c)[1]]
    BY <2>1, <2>2
  <2>5. QED
    BY <1>2, <2>1, <2>3, <2>4
<1>5. ASSUME NEW i \in DOMAIN held, Passes(i), adapter \in {"kafka", "invokeAsync"},
             UNCHANGED <<adapter, asked, told>>
      PROVE  Contract!Arrive(held[i].event)
  <2>1. held[i].event \in Events /\ held[i].event[2] <= asked[held[i].event[1]]
    BY HeldTyped DEF Sent
  <2>2. CASE adapter = "kafka"
    BY <1>2, <1>5, <2>1, <2>2 DEF Passes, Unflushed
  <2>3. CASE adapter = "invokeAsync"
    BY <1>5, <2>1, <2>3 DEF Passes, Reach, Contract!Arrive, Promise
  <2>4. QED
    BY <1>5, <2>2, <2>3
<1>6. ASSUME Forwards, UNCHANGED <<adapter, asked, told>>
      PROVE  Contract!Arrive(Head(held).event)
  <2>1. /\ Head(held).event \in Events
        /\ Head(held).event[2] <= asked[Head(held).event[1]]
    BY <1>6, FirstHeld, HeldTyped DEF Forwards, Sent
  <2>2. \A f \in Contract!Arrived :
          f[1] = Head(held).event[1] => f[2] <= Head(held).event[2]
    BY <1>6, FirstHeld DEF Forwards, Lined, Contract!Arrived
  <2>3. QED
    BY <1>6, <2>1, <2>2 DEF Forwards, Reach, Contract!Arrive, Promise
<1>7. ASSUME NEW c \in Callers, Queues(c) PROVE Contract!Return(c, "ok")
  BY <1>3, <1>7 DEF Queues, Promise
<1>8. ASSUME UNCHANGED <<adapter, asked, told, log>> PROVE UNCHANGED Contract!vars
  BY <1>8 DEF Contract!vars, Promise
<1>9. QED
  <2>1. ASSUME NEW c \in Callers, Call(c) \/ Deliver(c) \/ Queues(c) \/ Sends(c)
        PROVE  [Contract!Next]_(Contract!vars)
    <3>1. CASE Call(c)
      BY <3>1, <1>1 DEF Contract!Next
    <3>2. CASE Deliver(c)
      BY <3>2, <1>4, Waiting DEF Contract!Next, Contract!Events, Events, Deliver
    <3>3. CASE Queues(c)
      BY <3>3, <1>7 DEF Contract!Next
    <3>4. CASE Sends(c)
      BY <3>4, <1>8 DEF Sends
    <3>5. QED
      BY <2>1, <3>1, <3>2, <3>3, <3>4
  <2>2. ASSUME NEW c \in Callers, NEW result \in {"ok", "error"}, Replies(c, result)
        PROVE  Contract!Next
    BY <2>2, <1>3 DEF Contract!Next, Replies
  <2>3. ASSUME NEW i \in DOMAIN held, Passes(i) \/ Drops(i),
               adapter \in {"kafka", "invokeAsync"}, UNCHANGED <<adapter, asked, told>>
        PROVE  [Contract!Next]_(Contract!vars)
    BY <2>3, <1>5, <1>8, HeldTyped DEF Contract!Next, Contract!Events, Events, Drops
  <2>4. ASSUME Forwards, UNCHANGED <<adapter, asked, told>>
        PROVE  Contract!Next
    BY <2>4, <1>6, FirstHeld, HeldTyped DEF Contract!Next, Contract!Events, Events, Forwards
  <2>5. CASE Loses /\ UNCHANGED <<adapter, at, name, asked, told>>
    BY <2>5, <1>8 DEF Loses
  <2>6. CASE UNCHANGED vars
    BY <2>6, <1>8 DEF vars
  <2>7. QED
    BY <2>1, <2>2, <2>3, <2>4, <2>5, <2>6, Effects

\* Whatever is lost, repeated or delayed, each adapter keeps its promise: an ok
\* of SNS, SQS, Lambda and SMTP means arrived, and of the others that a caller's
\* events stay in order.
THEOREM OutboundImplementsContract == Spec => ImplementsContract
<1>1. Init => Contract!Init
  BY OutboundAssumption DEF Init, Contract!Init, Contract!Events, Events, Promise, AllAdapters
<1>2. OutboundInv /\ OutboundInv' /\ [Next]_vars => [Contract!Next]_(Contract!vars)
  BY StepKeepsContract
<1>3. QED
  BY <1>1, <1>2, OutboundInvariant, PTL DEF Spec, ImplementsContract, Contract!Spec

=============================================================================
