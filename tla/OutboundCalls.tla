---------------------------- MODULE OutboundCalls ----------------------------
(***************************************************************************)
(* The adapters that call out: the five publishers behind EventPort,       *)
(* Lambda, and SMTP.  They differ in what they wait for.  Callers share    *)
(* one adapter, and what its client library holds for them.                *)
(***************************************************************************)
EXTENDS Naturals, Sequences, SequencesExt

CONSTANTS
  Callers,    \* threads that call: scripts, command consumers, HTTP handlers
  MaxEvents,  \* bound on the calls of a caller
  MaxLog,     \* bound on the arrivals of a run
  Adapters    \* those a run may choose

AllAdapters ==
  {"sns", "sqs", "eventbridge", "kafka", "rabbit", "invoke", "invokeAsync", "smtp"}

ASSUME OutboundAssumption ==
  MaxEvents \in Nat /\ MaxLog \in Nat /\ Adapters \subseteq AllAdapters

Events == Callers \X (1..MaxEvents)

\* What a call names: a topic, a queue, a function, a sender's address.
Names == {"", "there", "missing"}

VARIABLES
  adapter,  \* the one event_publisher and from_env chose
  at,       \* at[c]: idle, calling, or flushing
  name,     \* name[c]: what the call of c names
  asked, told, log,
  held,     \* [event, name] records accepted and not settled
  channel   \* RabbitMQ's: open, closing (the broker dropped it), closed, lost

vars == <<adapter, at, name, asked, told, log, held, channel>>
library == <<held, channel>>

TypeOK ==
  /\ adapter \in Adapters
  /\ at \in [Callers -> {"idle", "calling", "flushing"}]
  /\ name \in [Callers -> Names]
  /\ asked \in [Callers -> 0..MaxEvents]
  /\ told \in [Events -> {"none", "ok", "error"}]
  /\ log \in Seq(Events) /\ Len(log) <= MaxLog
  /\ held \in Seq([event: Events, name: Names])
  /\ channel \in {"open", "closing", "closed", "lost"}

Init ==
  /\ adapter \in Adapters
  /\ at = [c \in Callers |-> "idle"]
  /\ name = [c \in Callers |-> ""]
  /\ asked = [c \in Callers |-> 0]
  /\ told = [e \in Events |-> "none"]
  /\ log = <<>>
  /\ held = <<>>
  /\ channel = "open"

Call(c) ==
  /\ at[c] = "idle" /\ asked[c] < MaxEvents
  /\ at' = [at EXCEPT ![c] = "calling"]
  /\ asked' = [asked EXCEPT ![c] = @ + 1]
  /\ \E n \in Names : name' = [name EXCEPT ![c] = n]
  /\ UNCHANGED <<adapter, told, log, library>>

Event(c) == <<c, asked[c]>>
Arrived(e) == \E i \in DOMAIN log : log[i] = e
Reach(e) == Len(log) < MaxLog /\ log' = Append(log, e)

Return(c, result) ==
  /\ at' = [at EXCEPT ![c] = "idle"]
  /\ told' = [told EXCEPT ![Event(c)] = result]
  /\ name' = [name EXCEPT ![c] = ""]
  /\ UNCHANGED <<adapter, asked, log>>

\* A variant of Hold that forgets what the event was addressed to.
HoldBare(c) == held' = Append(held, [event |-> Event(c)])

Hold(c) == held' = Append(held, [event |-> Event(c), name |-> name[c]])

---------------------------------------------------------------------------
(* One blocking request.  The SDK repeats a request that seems lost, so it *)
(* may arrive more than once, and after it did the answer may be an error, *)
(* or none: no timeout is set, and nothing makes a call return that the    *)
(* service accepts and never answers.                                      *)

Requests(c) ==
  CASE adapter \in {"sns", "invoke"} -> name[c] = "there"
    [] adapter \in {"sqs", "eventbridge", "smtp"} -> name[c] # "missing"
    [] OTHER -> FALSE

Deliver(c) ==
  /\ at[c] = "calling" /\ Requests(c)
  /\ Reach(Event(c))
  /\ UNCHANGED <<adapter, at, name, asked, told, library>>

Answer(c, okay) ==
  /\ at[c] = "calling"
  /\ \/ Return(c, "error")
     \/ okay /\ Return(c, "ok")
  /\ UNCHANGED library

SnsPublish(c) == adapter = "sns" /\ Answer(c, Arrived(Event(c)))
SqsPublish(c) == adapter = "sqs" /\ Answer(c, Arrived(Event(c)))
Invoke(c) == adapter = "invoke" /\ Answer(c, Arrived(Event(c)))

\* Bad addresses are errors before anything is sent.
SendEmailFull(c) == adapter = "smtp" /\ Answer(c, Arrived(Event(c)))

\* A response whose one entry failed is ok: failed_entry_count is not read.
EventBridgePublish(c) == adapter = "eventbridge" /\ Answer(c, TRUE)

\* Lambda queues the event; the function runs later, perhaps more than once.
InvokeAsync(c) ==
  /\ adapter = "invokeAsync"
  /\ \/ Answer(c, FALSE)
     \/ at[c] = "calling" /\ name[c] = "there"
        /\ Hold(c) /\ Return(c, "ok") /\ UNCHANGED channel

---------------------------------------------------------------------------
(* Kafka: the producer and its queue are shared by all callers. *)

\* A variant of Flush that does not wait.
FlushOnce(c) ==
  /\ at[c] = "flushing"
  /\ Return(c, "ok")
  /\ UNCHANGED library

\* flush waits until nothing at all is queued, for at most 5 s.
Flush(c) ==
  /\ at[c] = "flushing"
  /\ \/ held = <<>> /\ Return(c, "ok")
     \/ held # <<>> /\ Return(c, "error")
  /\ UNCHANGED library

\* send fails at once if the queue is full.
KafkaPublish(c) ==
  /\ adapter = "kafka"
  /\ \/ Answer(c, FALSE)
     \/ /\ at[c] = "calling"
        /\ Hold(c)
        /\ at' = [at EXCEPT ![c] = "flushing"]
        /\ UNCHANGED <<adapter, name, asked, told, log, channel>>
     \/ Flush(c)

\* Delivery, in any order and possibly repeated, by the two queues.
Drain ==
  /\ adapter \in {"kafka", "invokeAsync"}
  /\ \E i \in DOMAIN held :
       \/ held[i].name = "there" /\ Reach(held[i].event) /\ UNCHANGED held
       \/ held' = RemoveAt(held, i) /\ UNCHANGED log  \* acked, or given up
  /\ UNCHANGED <<adapter, at, name, asked, told, channel>>

---------------------------------------------------------------------------
(* RabbitMQ: one channel, behind a mutex.  No confirmation is awaited. *)

RabbitPublish(c) ==
  /\ adapter = "rabbit" /\ at[c] = "calling"
  /\ \/ channel = "open" /\ Hold(c) /\ Return(c, "ok")
     \/ channel = "closing" /\ Return(c, "ok") /\ UNCHANGED held
     \/ channel \in {"closed", "lost"} /\ Return(c, "error") /\ UNCHANGED held
  /\ UNCHANGED channel

\* An event for an exchange nobody declared closes the channel.
RabbitBroker ==
  /\ adapter = "rabbit" /\ held # <<>>
  /\ \/ /\ Head(held).name # "missing"
        /\ Reach(Head(held).event) /\ held' = Tail(held) /\ UNCHANGED channel
     \/ /\ Head(held).name = "missing"
        /\ channel' = "closing" /\ held' = <<>> /\ UNCHANGED log
  /\ UNCHANGED <<adapter, at, name, asked, told>>

\* The library reads the broker's close, or the connection breaks.
RabbitCloses ==
  /\ adapter = "rabbit"
  /\ \/ channel = "closing" /\ channel' = "closed" /\ UNCHANGED held
     \/ channel = "open" /\ channel' = "lost" /\ held' = <<>>
  /\ UNCHANGED <<adapter, at, name, asked, told, log>>

---------------------------------------------------------------------------

Caller(c) ==
  \/ SnsPublish(c) \/ SqsPublish(c) \/ EventBridgePublish(c)
  \/ KafkaPublish(c) \/ RabbitPublish(c)
  \/ Invoke(c) \/ InvokeAsync(c) \/ SendEmailFull(c)

Next ==
  \/ \E c \in Callers : Call(c) \/ Deliver(c) \/ Caller(c)
  \/ Drain \/ RabbitBroker \/ RabbitCloses

Spec == Init /\ [][Next]_vars

---------------------------------------------------------------------------

Promise ==
  CASE adapter \in {"sns", "sqs", "invoke", "smtp"} -> "acked"
    [] adapter \in {"eventbridge", "kafka", "rabbit"} -> "ordered"
    [] adapter = "invokeAsync" -> "none"

\* Every adapter keeps its promise, whatever is lost, repeated or delayed: of
\* SNS, SQS, Lambda and SMTP ok means arrived; of the others it means that a
\* caller's events keep their order ("so ordering per key is honoured").
Contract == INSTANCE OutboundContract WITH promise <- Promise
ImplementsContract == Contract!Spec

=============================================================================
