--------------------------- MODULE ScriptCommands ---------------------------
(***************************************************************************)
(* Script commands from a broker to ScriptCommandUseCase::handle           *)
(* (src/src/infrastructure/consumer/, src/src/application/use_cases.rs).   *)
(* Each process runs one consumer thread; the broker, with its visibility  *)
(* timeouts, rebalances and requeues, is external.  No broker is asked for *)
(* an order here, and none is kept.                                        *)
(***************************************************************************)
EXTENDS Naturals, FiniteSets

CONSTANTS
  Processes,  \* processes started with the same HEX_CONSUMER_TYPE
  Commands,   \* the messages sent to the command topic or queue
  Setups,     \* [broker, publisher, bad]: HEX_CONSUMER_TYPE, whether the publisher
              \* drives Tokio (SNS, SQS, EventBridge, RabbitMQ) or not (Kafka),
              \* and the commands parse_command refuses
  None,       \* no message
  BatchMax,   \* max_number_of_messages of the SQS consumer
  Many        \* the runs of one command are counted up to here

Brokers == {"sqs", "kafka", "rabbit", "redis"}

ASSUME CommandsAssumption ==
  /\ None \notin Commands
  /\ Setups \subseteq [broker: Brokers, publisher: {"tokio", "kafka"}, bad: SUBSET Commands]
  /\ BatchMax \in Nat \ {0}
  /\ Many \in Nat \ {0, 1}
  /\ {"unsent", "waiting", "gone"} \cap Processes = {}

VARIABLES
  setup,   \* one of Setups
  place,   \* place[m]: unsent, waiting, gone, or the process m was delivered to
  phase,   \* phase[p]: down, deaf (up, but without a consumer), or what its consumer does
  inbox,   \* inbox[p]: the messages the consumer of p received and has not finished
  work,    \* work[p]: the one it is at
  linked,  \* linked[p]: whether its connection to RabbitMQ or Redis holds
  begun,   \* begun[m]: how many times the script of m was started, up to Many (history)
  handled  \* handled[m]: whether handle returned for m, or m was dropped (history)

vars == <<setup, place, phase, inbox, work, linked, begun, handled>>
history == <<begun, handled>>

Busy == {"running", "publishing", "settling"}
Listening == {"polling"} \cup Busy

\* Besides the types: a consumer that works has its message in its inbox, and a
\* process without a consumer keeps nothing.
TypeOK ==
  /\ setup \in Setups
  /\ place \in [Commands -> {"unsent", "waiting", "gone"} \cup Processes]
  /\ phase \in [Processes -> {"down", "deaf"} \cup Listening]
  /\ inbox \in [Processes -> SUBSET Commands]
  /\ work \in [Processes -> Commands \cup {None}]
  /\ linked \in [Processes -> BOOLEAN]
  /\ begun \in [Commands -> 0..Many]
  /\ handled \in [Commands -> BOOLEAN]
  /\ \A p \in Processes :
       /\ work[p] # None <=> phase[p] \in Busy
       /\ work[p] # None => work[p] \in inbox[p]
       /\ phase[p] \notin Listening => inbox[p] = {} /\ ~linked[p]

Init ==
  /\ setup \in Setups
  /\ place = [m \in Commands |-> "unsent"]
  /\ phase = [p \in Processes |-> "down"]
  /\ inbox = [p \in Processes |-> {}]
  /\ work = [p \in Processes |-> None]
  /\ linked = [p \in Processes |-> FALSE]
  /\ begun = [m \in Commands |-> 0]
  /\ handled = [m \in Commands |-> FALSE]

Broker(b) == setup.broker = b
Move(p, from, to) == phase[p] = from /\ phase' = [phase EXCEPT ![p] = to]

\* place once the connection or the process of p is gone: RabbitMQ requeues what
\* p did not acknowledge, SQS and Kafka find out later.
Requeued(p) ==
  [m \in Commands |-> IF Broker("rabbit") /\ place[m] = p THEN "waiting" ELSE place[m]]

\* A variant of Forget that drops the connection only.
ForgetLinkOnly(p) ==
  /\ linked' = [linked EXCEPT ![p] = FALSE]
  /\ UNCHANGED <<inbox, work>>

\* The consumer thread of p lets go of what it has.
Forget(p) ==
  /\ inbox' = [inbox EXCEPT ![p] = {}]
  /\ work' = [work EXCEPT ![p] = None]
  /\ linked' = [linked EXCEPT ![p] = FALSE]

Send(m) ==
  /\ place[m] = "unsent"
  /\ place' = [place EXCEPT ![m] = "waiting"]
  /\ UNCHANGED <<setup, phase, inbox, work, linked, history>>

---------------------------------------------------------------------------
(* The processes and their connections *)

\* start_consumers; a consumer that cannot connect is not started again.
Start(p) ==
  /\ \/ Move(p, "down", "polling") /\ linked' = [linked EXCEPT ![p] = TRUE]
     \/ /\ Broker("rabbit") \/ Broker("redis")
        /\ Move(p, "down", "deaf") /\ UNCHANGED linked
  /\ UNCHANGED <<setup, place, inbox, work, history>>

Crash(p) ==
  /\ phase[p] # "down"
  /\ phase' = [phase EXCEPT ![p] = "down"]
  /\ place' = Requeued(p)
  /\ Forget(p)
  /\ UNCHANGED <<setup, history>>

\* A variant of Unlink whose channel recovers and keeps what it had received.
UnlinkRecovers(p) ==
  /\ Broker("rabbit") \/ Broker("redis")
  /\ phase[p] \in Listening /\ linked[p]
  /\ place' = Requeued(p)
  /\ UNCHANGED <<setup, phase, inbox, work, linked, history>>

\* A Redis connection that breaks may take the answer of a BLPOP with it.
Unlink(p) ==
  /\ Broker("rabbit") \/ Broker("redis")
  /\ phase[p] \in Listening /\ linked[p]
  /\ linked' = [linked EXCEPT ![p] = FALSE]
  /\ \/ place' = Requeued(p)
     \/ /\ Broker("redis") /\ phase[p] = "polling" /\ inbox[p] = {}
        /\ \E m \in Commands :
             place[m] = "waiting" /\ place' = [place EXCEPT ![m] = "gone"]
  /\ UNCHANGED <<setup, phase, inbox, work, history>>

\* The stream of deliveries ends, or every BLPOP fails from now on.
Deafen(p) ==
  /\ ~linked[p]
  /\ Move(p, "polling", "deaf")
  /\ Forget(p)
  /\ UNCHANGED <<setup, place, history>>

---------------------------------------------------------------------------
(* Deliveries *)

\* A variant of Fetch for which a delivery is settled when it is made.
FetchSettles(p, S) ==
  /\ S # {} /\ \A m \in S : place[m] = "waiting"
  /\ linked[p] /\ phase[p] = "polling" /\ inbox[p] = {}
  /\ inbox' = [inbox EXCEPT ![p] = S]
  /\ place' = [m \in Commands |-> IF m \in S THEN "gone" ELSE place[m]]
  /\ UNCHANGED <<setup, phase, work, linked, history>>

\* SQS hands out batches, Kafka and Redis one message at a time, when the loop
\* comes round; RabbitMQ pushes without a prefetch limit.
Receptive(p) ==
  \/ phase[p] = "polling" /\ inbox[p] = {}
  \/ Broker("rabbit") /\ phase[p] \in Listening

\* BLPOP removes what it hands out.
Fetch(p, S) ==
  /\ S # {} /\ \A m \in S : place[m] = "waiting"
  /\ Cardinality(S) <= IF Broker("sqs") THEN BatchMax ELSE 1
  /\ linked[p] /\ Receptive(p)
  /\ inbox' = [inbox EXCEPT ![p] = @ \cup S]
  /\ place' = [m \in Commands |-> IF m \notin S THEN place[m]
                                  ELSE IF Broker("redis") THEN "gone" ELSE p]
  /\ UNCHANGED <<setup, phase, work, linked, history>>

\* The visibility timeout of SQS, or a rebalance of Kafka.
Expire(m) ==
  /\ Broker("sqs") \/ Broker("kafka")
  /\ place[m] \in Processes
  /\ place' = [place EXCEPT ![m] = "waiting"]
  /\ UNCHANGED <<setup, phase, inbox, work, linked, history>>

\* enable.auto.commit: in the background, whatever p polled so far.
Commit(p) ==
  /\ Broker("kafka") /\ phase[p] \in Listening
  /\ \E m \in Commands : place[m] = p
  /\ place' = [m \in Commands |-> IF place[m] = p THEN "gone" ELSE place[m]]
  /\ UNCHANGED <<setup, phase, inbox, work, linked, history>>

---------------------------------------------------------------------------
(* The consumer thread *)

Begin(p, m) ==
  /\ m \in inbox[p] \ setup.bad
  /\ Move(p, "polling", "running")
  /\ work' = [work EXCEPT ![p] = m]
  /\ begun' = [begun EXCEPT ![m] = IF @ < Many THEN @ + 1 ELSE @]
  /\ UNCHANGED <<setup, place, inbox, linked, handled>>

\* A message that does not parse is dropped, and settled like any other.
Drop(p, m) ==
  /\ m \in inbox[p] \cap setup.bad
  /\ Move(p, "polling", "settling")
  /\ work' = [work EXCEPT ![p] = m]
  /\ handled' = [handled EXCEPT ![m] = TRUE]
  /\ UNCHANGED <<setup, place, inbox, linked, begun>>

\* scripting.execute returns, with a result or with an error.
Finish(p) ==
  /\ Move(p, "running", "publishing")
  /\ UNCHANGED <<setup, place, inbox, work, linked, history>>

\* The RabbitMQ consumer handles its commands inside a block_on: a publisher
\* that calls block_on again panics, and the thread of the consumer ends.
Nested == Broker("rabbit") /\ setup.publisher = "tokio"

\* An error of the publisher is logged; either way handle returns.
Publish(p) ==
  /\ ~Nested
  /\ Move(p, "publishing", "settling")
  /\ handled' = [handled EXCEPT ![work[p]] = TRUE]
  /\ UNCHANGED <<setup, place, inbox, work, linked, begun>>

Panic(p) ==
  /\ Nested
  /\ Move(p, "publishing", "deaf")
  /\ place' = Requeued(p)
  /\ Forget(p)
  /\ UNCHANGED <<setup, history>>

\* A variant of Settle that gives up the rest of the batch.
SettleForgetsBatch(p) ==
  /\ Move(p, "settling", "polling")
  /\ inbox' = [inbox EXCEPT ![p] = {}]
  /\ work' = [work EXCEPT ![p] = None]
  /\ place' = IF Broker("sqs") \/ Broker("rabbit")
                THEN [place EXCEPT ![work[p]] = "gone"] ELSE place
  /\ UNCHANGED <<setup, linked, history>>

Acknowledges(p) == Broker("rabbit") /\ linked[p]

\* SQS deletes by receipt and ignores the outcome, a stale receipt included;
\* RabbitMQ acknowledges; the others have nothing to do.
Settle(p) ==
  LET m == work[p] IN
  /\ Move(p, "settling", "polling")
  /\ inbox' = [inbox EXCEPT ![p] = @ \ {m}]
  /\ work' = [work EXCEPT ![p] = None]
  /\ \/ /\ Broker("sqs") \/ Acknowledges(p)
        /\ place' = [place EXCEPT ![m] = "gone"]
     \/ ~Acknowledges(p) /\ UNCHANGED place
  /\ UNCHANGED <<setup, linked, history>>

---------------------------------------------------------------------------

Thread(p) ==
  \/ \E m \in Commands : Begin(p, m) \/ Drop(p, m)
  \/ Finish(p) \/ Publish(p) \/ Panic(p) \/ Settle(p) \/ Deafen(p)

Next ==
  \/ \E m \in Commands : Send(m) \/ Expire(m)
  \/ \E p \in Processes :
       \/ Start(p) \/ Crash(p) \/ Unlink(p) \/ Commit(p) \/ Thread(p)
       \/ \E S \in SUBSET Commands : Fetch(p, S)

Spec == Init /\ [][Next]_vars

Deliver(m) == \E p \in Processes, S \in SUBSET Commands : m \in S /\ Fetch(p, S)

\* Consumer threads are scheduled and scripts return; a timeout of the broker
\* expires, and it does not withhold a message from consumers that keep asking.
FairSpec ==
  /\ Spec
  /\ \A p \in Processes : WF_vars(Thread(p))
  /\ \A m \in Commands : WF_vars(Expire(m)) /\ SF_vars(Deliver(m))

---------------------------------------------------------------------------

\* Each broker's consumer implements CommandDelivery with the promise that its
\* order of settling and running amounts to: whatever crashes, lost
\* connections, timeouts and stale receipts, SQS and RabbitMQ settle only
\* commands that were handled, and a command popped from Redis runs at most once.
Promise ==
  CASE Broker("sqs") \/ Broker("rabbit") -> "at_least_once"
    [] Broker("redis") -> "at_most_once"
    [] Broker("kafka") -> "none"

CareOf(m) ==
  CASE place[m] = "unsent" -> "unsent"
    [] place[m] = "gone" -> "settled"
    [] OTHER -> "owed"

Delivery == INSTANCE CommandDelivery WITH
  promise <- Promise,
  care <- [m \in Commands |-> CareOf(m)]

ImplementsDelivery == Delivery!Spec

\* Two processes whose connections to RabbitMQ hold never have one message
\* between them: only a requeue after a lost connection runs a command twice.
OneConsumerEach ==
  Broker("rabbit") =>
    \A p, q \in Processes :
      p # q /\ linked[p] /\ linked[q] => inbox[p] \cap inbox[q] = {}

\* The message left the broker, nobody has it, and it was never handled.
Lost(m) ==
  /\ place[m] = "gone"
  /\ ~handled[m]
  /\ \A p \in Processes : m \notin inbox[p]

Serving(p) == phase[p] \in Listening

\* Once some consumer keeps listening, and the others do or stay away, every
\* message that was sent is handled or already lost, whatever other processes
\* took with them.
EventuallyHandled ==
  /\ \E p \in Processes : <>[]Serving(p)
  /\ \A p \in Processes : <>[]Serving(p) \/ <>[]~Serving(p)
  => \A m \in Commands : place[m] # "unsent" ~> handled[m] \/ Lost(m)

---------------------------------------------------------------------------
(* What the documentation says and the RabbitMQ consumer does not do *)

\* "the publish failure is logged, not fatal": no publish ends a consumer while
\* its process goes on.
PublishFailureNotFatal ==
  [][\A p \in Processes : phase[p] = "publishing" => phase'[p] # "deaf"]_vars

=============================================================================
