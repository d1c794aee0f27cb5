---------------------------- MODULE ScriptService ----------------------------
(***************************************************************************)
(* The process as a whole: Graph::from_env wires the adapters it finds     *)
(* into the services.* facade, and each request to run a script, over HTTP *)
(* or from the command consumer, passes the middleware, the whitelist and  *)
(* the scripts directory before a thread of its own runs it                *)
(* (src/src/graph.rs, src/src/main.rs, src/src/application/,               *)
(* src/src/infrastructure/engine.rs and source.rs).  Operators replace     *)
(* script files while requests are under way, and the process may crash    *)
(* and start again with other adapters at any time.                        *)
(***************************************************************************)
EXTENDS Naturals, Sequences, FiniteSets

CONSTANTS
  Requests,
  Program,    \* Program[s]: the services that script s calls, in order
  Endless,    \* scripts that may never end
  Whitelist,  \* HEX_SCRIPTS_WHITELIST
  Malformed,  \* script names that are empty or hold "..", "/" or "\"
  Asks,       \* [from, token, parses, script]: the requests that may come in; the
              \* consumer drops a command that does not parse before it gets here
  Settings    \* the environments: [jwt: whether JWT_SECRET is set, env: the adapters
              \* that are enabled, publisher: HEX_EVENTS_TYPE, where tokio is SNS, SQS
              \* or EventBridge, consumer: HEX_CONSUMER_TYPE]

Scripts == DOMAIN Program
Unsupported == "unsupported"
Adapters == {"cache", "abc", "store", "events", "lambda", "email"}
Down == {}

ASSUME ServiceAssumption ==
  /\ Program \in [Scripts -> Seq(STRING)]
  /\ Whitelist \subseteq Scripts /\ Malformed \subseteq Scripts /\ Endless \subseteq Scripts
  /\ Asks \subseteq [from: {"http", "command"}, token: BOOLEAN, parses: BOOLEAN, script: Scripts]
  /\ \A a \in Asks : a.from = "command" => a.parses
  /\ Settings \subseteq [jwt: BOOLEAN, env: SUBSET {"abc", "store", "lambda", "email"},
                          publisher: {"none", "kafka", "rabbit", "tokio"},
                          consumer: {"none", "rabbit", "other"}]

VARIABLES
  setting,
  ports,     \* the adapters wired in the running process, or Down
  services,  \* what FacadeBuilder::build made of them
  deaf,      \* whether the thread of the command consumer ended
  poisoned,  \* the RabbitMQ publisher's Mutex<Channel>
  files,     \* the scripts in HEX_SCRIPTS_DIR
  ask,       \* ask[r]: [from, token, parses, script]
  at,        \* at[r]: where the handler of r is
  thread,    \* thread[r]: none, running, or what it left in the channel
  step,      \* step[r]: the call that the script of r makes next
  answer,    \* answer[r]: the HTTP status, or the one the command's error stands for
  calls      \* calls[r]: how many calls of r reached an adapter (history)

vars == <<setting, ports, services, deaf, poisoned, files, ask, at, thread, step, answer, calls>>
process == <<setting, ports, services, deaf, poisoned>>
running == <<thread, step, calls>>

Up == ports # Down
Working == {"checking", "reading", "receiving", "reporting"}
NoAsk == [from |-> "nobody"]

\* Besides the types: a script thread lives while the handler waits for it.
TypeOK ==
  /\ setting \in Settings
  /\ ports \subseteq Adapters
  /\ deaf \in BOOLEAN /\ poisoned \in BOOLEAN
  /\ files \subseteq Scripts \ Malformed
  /\ ask \in [Requests -> Asks \cup {NoAsk}]
  /\ at \in [Requests -> Working \cup {"new", "done", "lost"}]
  /\ thread \in [Requests -> {"none", "running", "ok", "err", "dropped"}]
  /\ step \in [Requests -> Nat]
  /\ answer \in [Requests -> {0, 200, 400, 401, 403, 404, 500}]
  /\ calls \in [Requests -> Nat]
  /\ \A r \in Requests :
       /\ thread[r] # "none" <=> at[r] = "receiving"
       /\ at[r] \in Working => Up

---------------------------------------------------------------------------
(* FacadeBuilder::build *)

Mount(names, port) == [i \in DOMAIN names |-> [name |-> names[i], port |-> port]]

\* abc and cache mount their names either way.
Always(P, port, names) == Mount(names, IF port \in P THEN port ELSE Unsupported)
Optional(P, port, names) == IF port \in P THEN Mount(names, port) ELSE <<>>

\* A variant of Unless that mounts the names of wired ports as well.
UnlessAlways(P, port, names) == Mount(names, Unsupported)

Unless(P, port, names) == IF port \in P THEN <<>> ELSE Mount(names, Unsupported)

\* The names of wired() whose port is absent.
Unmounted(P) ==
  Unless(P, "events", <<"publish">>)
    \o Unless(P, "lambda", <<"invoke", "invokeAsync">>)
    \o Unless(P, "store", <<"listItems", "saveItem", "getItem", "deleteItem">>)
    \o Unless(P, "email", <<"sendEmail">>)

Build(P) ==
  Always(P, "abc", <<"abcSheet", "abcExec">>)
    \o Always(P, "cache", <<"cacheGet", "cacheSet", "cacheEvict">>)
    \o Optional(P, "store", <<"saveItem", "getItem", "listItems", "deleteItem">>)
    \o Optional(P, "events", <<"publish">>)
    \o Optional(P, "lambda", <<"invoke", "invokeAsync">>)
    \o Optional(P, "email", <<"sendEmail">>)
    \o Unmounted(P)

\* Registered in order: the last host function of a name is the one scripts see.
Behind(name) ==
  LET named == {i \in DOMAIN services : services[i].name = name}
  IN services[CHOOSE i \in named : \A j \in named : j <= i].port

---------------------------------------------------------------------------
(* The process *)

Init ==
  /\ setting \in Settings
  /\ ports = Down /\ services = <<>> /\ deaf = FALSE /\ poisoned = FALSE
  /\ files \in SUBSET (Scripts \ Malformed)
  /\ ask = [r \in Requests |-> NoAsk]
  /\ at = [r \in Requests |-> "new"]
  /\ thread = [r \in Requests |-> "none"]
  /\ step = [r \in Requests |-> 0]
  /\ answer = [r \in Requests |-> 0]
  /\ calls = [r \in Requests |-> 0]

\* event_publisher: only RabbitMQ's has to connect, and may fail to.
EventPublisher ==
  CASE setting.publisher = "none" -> {{}}
    [] setting.publisher = "rabbit" -> {{}, {"events"}}
    [] OTHER -> {{"events"}}

Boot ==
  /\ ~Up
  /\ \E events \in EventPublisher : ports' = {"cache"} \cup setting.env \cup events
  /\ services' = Build(ports')
  /\ UNCHANGED <<setting, deaf, poisoned, files, ask, at, running, answer>>

\* Everything at work in the process ends with it.
Abandoned == [r \in Requests |-> IF at[r] \in Working THEN "lost" ELSE at[r]]

Crash ==
  /\ Up
  /\ ports' = Down /\ services' = <<>> /\ deaf' = FALSE /\ poisoned' = FALSE
  /\ at' = Abandoned
  /\ thread' = [r \in Requests |-> "none"]
  /\ UNCHANGED <<setting, files, ask, step, answer, calls>>

\* An operator adds or removes a script.
Deploy(s) ==
  /\ files' = IF s \in files THEN files \ {s} ELSE files \cup {s}
  /\ UNCHANGED <<process, ask, at, running, answer>>

---------------------------------------------------------------------------
(* A request, up to the start of its script *)

\* The consumer thread takes one command at a time; it is started only with a
\* publisher, and a panic of that publisher ends it.
ConsumerFree ==
  /\ "events" \in ports /\ setting.consumer # "none" /\ ~deaf
  /\ \A r \in Requests : ask[r].from = "command" => at[r] \notin Working

Arrive(r) ==
  /\ Up /\ at[r] = "new"
  /\ \E a \in Asks :
       /\ a.from = "command" => ConsumerFree
       /\ ask' = [ask EXCEPT ![r] = a]
  /\ at' = [at EXCEPT ![r] = "checking"]
  /\ UNCHANGED <<process, files, running, answer>>

\* An HTTP handler answers; the consumer goes on to publish the outcome.
Reply(r, status) ==
  /\ answer' = [answer EXCEPT ![r] = status]
  /\ at' = [at EXCEPT ![r] = IF ask[r].from = "http" THEN "done" ELSE "reporting"]

\* The middleware, the body of the request, the whitelist and the directory may
\* turn it down.
Unauthorized(a) == a.from = "http" /\ setting.jwt /\ ~a.token
Unreadable(a) == ~a.parses
NotAllowed(a) == a.script \notin Whitelist
NotFound(a) == a.script \in Malformed \/ a.script \notin files

\* A variant of Refusals without the whitelist.
RefusalsNoWhitelist(a) ==
  {s \in {401, 400, 404} :
    \/ s = 401 /\ Unauthorized(a)
    \/ s = 400 /\ Unreadable(a)
    \/ s = 404 /\ NotFound(a)}

\* domain_status and the handler give each of them a status.
Refusals(a) ==
  {s \in {401, 400, 403, 404} :
    \/ s = 401 /\ Unauthorized(a)
    \/ s = 400 /\ Unreadable(a)
    \/ s = 403 /\ NotAllowed(a)
    \/ s = 404 /\ NotFound(a)}

\* They are asked in this order and the first to object answers.
First(statuses) ==
  CASE 401 \in statuses -> 401
    [] 401 \notin statuses /\ 400 \in statuses -> 400
    [] statuses \cap {401, 400} = {} /\ 403 \in statuses -> 403
    [] statuses = {404} -> 404

Check(r) ==
  /\ at[r] = "checking"
  /\ IF Refusals(ask[r]) = {}
       THEN at' = [at EXCEPT ![r] = "reading"] /\ UNCHANGED answer
       ELSE Reply(r, First(Refusals(ask[r])))
  /\ UNCHANGED <<process, files, ask, running>>

\* A variant of Read for which scripts run one at a time.
ReadAlone(r) ==
  /\ at[r] = "reading"
  /\ \A other \in Requests : thread[other] # "running"
  /\ \/ /\ ask[r].script \in files
        /\ at' = [at EXCEPT ![r] = "receiving"]
        /\ thread' = [thread EXCEPT ![r] = "running"]
        /\ step' = [step EXCEPT ![r] = 1]
        /\ UNCHANGED answer
     \/ Reply(r, 500) /\ UNCHANGED <<thread, step>>
  /\ UNCHANGED <<process, files, ask, calls>>

\* The file may be gone since path.exists(), and the thread may not spawn.
Read(r) ==
  /\ at[r] = "reading"
  /\ \/ /\ ask[r].script \in files
        /\ at' = [at EXCEPT ![r] = "receiving"]
        /\ thread' = [thread EXCEPT ![r] = "running"]
        /\ step' = [step EXCEPT ![r] = 1]
        /\ UNCHANGED answer
     \/ Reply(r, 500) /\ UNCHANGED <<thread, step>>
  /\ UNCHANGED <<process, files, ask, calls>>

---------------------------------------------------------------------------
(* The script's thread *)

Left(r, what) == thread[r] = "running" /\ thread' = [thread EXCEPT ![r] = what]

AtEnd(r) == step[r] > Len(Program[ask[r].script])
Name(r) == Program[ask[r].script][step[r]]

\* A call that is answered, or whose error the script goes on from.
Call(r) ==
  /\ thread[r] = "running" /\ ~AtEnd(r)
  /\ ~(Behind(Name(r)) = "events" /\ poisoned)
  /\ step' = [step EXCEPT ![r] = @ + 1]
  /\ calls' = [calls EXCEPT ![r] = IF Behind(Name(r)) = Unsupported THEN @ ELSE @ + 1]
  /\ UNCHANGED <<process, files, ask, at, thread, answer>>

\* lock().unwrap() on a poisoned Mutex: the thread ends and its sender with it.
Panic(r) ==
  /\ Left(r, "dropped")
  /\ ~AtEnd(r) /\ Behind(Name(r)) = "events" /\ poisoned
  /\ UNCHANGED <<process, files, ask, at, step, calls, answer>>

\* It does not compile, or it ends on an error, its own or a service's.
Throw(r) ==
  /\ Left(r, "err")
  /\ UNCHANGED <<process, files, ask, at, step, calls, answer>>

End(r) ==
  /\ Left(r, "ok") /\ AtEnd(r)
  /\ UNCHANGED <<process, files, ask, at, step, calls, answer>>

---------------------------------------------------------------------------
(* The handler again *)

\* A variant of Receive that keeps a sender of its own: no end of the channel.
ReceiveHoldsSender(r) ==
  /\ at[r] = "receiving" /\ thread[r] \in {"ok", "err"}
  /\ Reply(r, IF thread[r] = "ok" THEN 200 ELSE 500)
  /\ thread' = [thread EXCEPT ![r] = "none"]
  /\ UNCHANGED <<process, files, ask, step, calls>>

\* A variant of Receive with a timeout: it gives up on a script that still runs.
ReceiveTimesOut(r) ==
  /\ at[r] = "receiving"
  /\ Reply(r, IF thread[r] = "ok" THEN 200 ELSE 500)
  /\ thread' = [thread EXCEPT ![r] = IF @ = "running" THEN @ ELSE "none"]
  /\ UNCHANGED <<process, files, ask, step, calls>>

\* rx.recv() returns what was sent, or fails when the sender was dropped.
Receive(r) ==
  /\ at[r] = "receiving" /\ thread[r] \in {"ok", "err", "dropped"}
  /\ Reply(r, IF thread[r] = "ok" THEN 200 ELSE 500)
  /\ thread' = [thread EXCEPT ![r] = "none"]
  /\ UNCHANGED <<process, files, ask, step, calls>>

\* handle runs inside the RabbitMQ consumer's block_on, where the publishers that
\* call block_on themselves panic.
Nested == setting.consumer = "rabbit" /\ setting.publisher \in {"rabbit", "tokio"}

\* ScriptCommandUseCase::handle publishes the envelope, or logs that it could not.
Report(r) ==
  /\ at[r] = "reporting" /\ ~Nested
  /\ \E end \in {"done", "lost"} : at' = [at EXCEPT ![r] = end]
  /\ UNCHANGED <<process, files, ask, running, answer>>

\* RabbitMQ's publisher panics with its lock held.
ReportPanics(r) ==
  /\ at[r] = "reporting" /\ Nested
  /\ at' = [at EXCEPT ![r] = "lost"]
  /\ deaf' = TRUE
  /\ poisoned' = (setting.publisher = "rabbit")
  /\ UNCHANGED <<setting, ports, services, files, ask, running, answer>>

---------------------------------------------------------------------------

Handler(r) == Check(r) \/ Read(r) \/ Receive(r) \/ Report(r) \/ ReportPanics(r)
Thread(r) == Call(r) \/ Panic(r) \/ Throw(r) \/ End(r)

Next ==
  \/ Boot \/ Crash
  \/ \E s \in Scripts \ Malformed : Deploy(s)
  \/ \E r \in Requests : Arrive(r) \/ Handler(r) \/ Thread(r)

Spec == Init /\ [][Next]_vars

MayLoop(r) == ask[r] # NoAsk /\ ask[r].script \in Endless

\* Handlers and script threads are scheduled, and scripts end but for Endless.
FairSpec ==
  /\ Spec
  /\ \A r \in Requests :
       WF_vars(Handler(r)) /\ WF_vars(~MayLoop(r) /\ Thread(r))

---------------------------------------------------------------------------

\* The names of the services.* facade and the adapters behind them.
Surface ==
  [abc |-> {"abcSheet", "abcExec"}, cache |-> {"cacheGet", "cacheSet", "cacheEvict"},
   store |-> {"saveItem", "getItem", "listItems", "deleteItem"}, events |-> {"publish"},
   lambda |-> {"invoke", "invokeAsync"}, email |-> {"sendEmail"}]

\* "the full hex4w services.* surface is always present": whichever adapters
\* from_env finds, each name is registered once, and is backed by its adapter
\* exactly when that one is wired.
SurfaceComplete ==
  Up =>
    /\ \A port \in DOMAIN Surface : \A name \in Surface[port] :
         /\ Cardinality({i \in DOMAIN services : services[i].name = name}) = 1
         /\ Behind(name) = IF port \in ports THEN port ELSE Unsupported
    /\ \A i \in DOMAIN services : \E port \in DOMAIN Surface : services[i].name \in Surface[port]

\* Who may run a script: the whitelist holds for commands as well.
Permitted(r) ==
  /\ ask[r] # NoAsk
  /\ ask[r].from = "http" /\ setting.jwt => ask[r].token
  /\ ask[r].script \in Whitelist \ Malformed

\* How ScriptRuns sees a request that is at a place, with an answer.
Verdict(place, status) ==
  CASE place \in Working -> "waiting"
    [] place \in {"new", "lost"} -> place
    [] place = "done" ->
         CASE status = 200 -> "completed"
           [] status = 500 -> "failed"
           [] OTHER -> "refused"

\* Whether its script runs; next tells, while the answer is reported, whether
\* there was one.
Run(place, status, left, next) ==
  CASE place = "receiving" /\ left = "running" -> "running"
    [] \/ place = "receiving" /\ left = "ok"
       \/ place = "reporting" /\ next > 0 /\ status = 200 -> "ended"
    [] \/ place = "receiving" /\ left \notin {"running", "ok"}
       \/ place = "reporting" /\ next > 0 /\ status # 200 -> "broken"
    [] OTHER -> "none"

VerdictOf(r) == Verdict(at[r], answer[r])
RunOf(r) == Run(at[r], answer[r], thread[r], step[r])

Runs == INSTANCE ScriptRuns WITH
  permitted <- [r \in Requests |-> Permitted(r)],
  verdict <- [r \in Requests |-> VerdictOf(r)],
  run <- [r \in Requests |-> RunOf(r)],
  effects <- calls

\* Through crashes, panics and files that come and go, the service does what
\* ScriptRuns says: nothing runs that is not permitted, no effect comes after
\* the answer, and an answer tells whether the script ran.
ImplementsRuns == Runs!Spec

\* A handler whose script ends answers, unless the process ends or the answer
\* cannot be published: neither a panic of the script's thread nor a file that
\* vanishes leaves it waiting on its channel, and a script that never ends holds
\* no request but its own.
EveryRequestAnswered ==
  \A r \in Requests :
    at[r] \in Working /\ ~MayLoop(r) ~> at[r] \in {"done", "lost"}

=============================================================================
