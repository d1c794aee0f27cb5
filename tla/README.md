# A verification of hex

TLA+ modules that model the HTTP service under `src/src`, the TLC runs that
check them on small instances, and the proofs TLAPS checks about them.
`PROJECT.json` maps every definition to the lines it models.

hex is a small scripting service in Rust. It runs whitelisted scripts in a
JavaScript engine, for HTTP clients and for commands from a broker, and gives
them a `services.*` facade over outbound adapters (XDB, a cache, S3, a
publisher of events, Lambda, e-mail), which sit behind circuit breakers. It also
proxies XDB and keeps a table of roles in SQLite.

## 1. Inventory

| component | state | operations | interacts with |
|---|---|---|---|
| circuit breaker (`circuit_breaker.rs`) | `state`, `consecutive_failures`, `opened_at`, `half_open_inflight` | `run`, which calls `try_acquire`, `record_success`, `record_failure`, `open` | its callers are all threads that use one port; no lock spans two operations |
| breaker decorators (`cb_decorator.rs`) | one breaker per port | `sheet`, `exec`; `get`, `set`, `evict` | call the port inside `run` |
| cached sheet (`cached_abc.rs`) | none | `sheet` (get, ask, set), `exec` | calls the cache through the cache's breaker, inside XDB's |
| caches (`cache.rs`) | a mutexed map with expiry, or one mutexed Redis connection | `get`, `set`, `evict` | Redis is chosen, or not, once at startup |
| XDB clients (`abc_http.rs`, `grpc_abc.rs`) | a client | `sheet`, `exec` | remote service |
| composition root (`graph.rs`) | the adapters | `from_env`, `create_role`, pass-through methods | wires everything below |
| facade (`application/facade.rs`) | the list of host functions | `with_*`, `build` | the engine registers the list for each run |
| use cases (`use_cases.rs`) | none | `ScriptingUseCase::execute`, `ScriptCommandUseCase::handle` | whitelist, source, engine, publisher |
| whitelist, source (`script_whitelist.rs`, `source.rs`) | a set of names; a directory | `require_allowed`; `load` | files may change while they are read |
| engine (`engine.rs`) | a thread and a channel per run | `run`, `compile_and_run` | the handler waits on the channel |
| consumers (`consumer/*.rs`) | a thread and a connection per process | one `start` for each of SQS, Kafka, RabbitMQ, Redis | broker, `handle` |
| publishers (`*_events.rs`) | a client; Kafka a queue, RabbitMQ a mutexed channel, shared by all callers | `publish` | brokers; `block_on`, except Kafka |
| Lambda, SMTP (`lambda_client.rs`, `smtp_email.rs`) | a client | `invoke`, `invoke_async`, `send_email_full` | remote services; one blocking call each |
| roles (`role.rs`) | a SQLite table and its AUTOINCREMENT sequence | `open`, `save`, `delete_by_id`, reads | one mutex per method, two methods per `create_role` |
| S3 store (`s3_store.rs`) | none | `save_item`, `get_item`, `list_items`, `delete_item` | a bucket others write to; `list_items` takes several calls |
| HTTP (`main.rs`) | none | middleware, routes | a handler runs on a coroutine and blocks |
| GraphQL (`graphql.rs`), gRPC (`grpc.rs`) | none | `abcSheet`, `abcSheets`; `Sheet` | the same `Graph` as the routes; gRPC on a Tokio runtime of its own, past the middleware |

What is hard here, and what makes each part correct:

* **The breaker is lock-free.** A caller reads the state, decides, and stores in
  separate operations. Correct means: no half-open circuit is left without a
  caller that settles it, no counter passes its threshold without opening, an
  open circuit can be left again, and a lone caller gets what the module
  comment promises.
* **Two breakers are nested**, the cache's within XDB's, and the errors of the
  inner one count for the outer. Correct means: neither keeps the other open,
  the outer one opens for XDB's failures, and stale data leaves the cache.
* **Check then act on roles.** Correct means: one success per name, ids that are
  never reused, roles that survive a restart, and a 409 for a duplicate.
* **Commands are settled at different moments** by each broker's consumer, and
  receipts go stale. Correct means: each keeps the promise its order of settling
  amounts to, and no command is left behind.
* **Scripts run on threads of their own**, may panic, and outlive nothing but
  the process. Correct means: nothing forbidden runs, every request is answered,
  the answer tells whether the script ran, and the surface is complete.
* **A listing is read in pages** while the bucket changes. Correct means: it is
  still a set of keys that a client can rely on, and the loop ends.
* **Calls go out through eight adapters** that wait for different things, and
  callers share what their libraries queue. Correct means: every ok is worth what
  the adapter promises.
* **Three kinds of doors lead to one Graph** and one circuit. Correct means: an
  answer tells what was done whichever door it came by, and an XDB that hangs
  holds nobody.
* **Patterns are put together from strings** that clients choose. Correct means: a
  search finds exactly what it says.

`PROJECT.json` lists the hazards one by one, each at its line, with the
properties that cover it.

## 2. Plan

The order puts the code that most other code runs through first.

1. `CircuitBreaker`, atomic operation by operation; its contract; proofs. *Done.*
2. `SheetPath` over `BreakerOperations`: the composition of two breakers, cache and
   XDB, at the breakers' atomic operations. *Done, with proofs.*
3. `RoleRegistry` and `RoleDirectory`, with proofs. *Done.*
4. `ScriptCommands` and `CommandDelivery`, with proofs. *Done.*
5. `ScriptService` and `ScriptRuns`, with proofs. *Done.*
6. `StoreListing`. *Done, with proofs.*
7. `SheetPathProofs`: the safety of the two nested breakers for any number of
   callers and any thresholds. *Done.*
8. `StoreListingProofs`: `ListingSound`; pages are sequences from the start, which
   takes the proof past sorting. *Done.*
9. `BreakerMethods`: that `Breaker`, the breaker with methods as values which
   `Endpoints` uses, is what `CircuitBreaker` does when its operations are not
   interleaved; and that `BreakerOperations`, which `SheetPath` uses, has its
   operations for any number of callers. *Done, proved.*
10. `OutboundCalls` and `OutboundContract`: the publishers, Lambda, SMTP. *Done,
    with proofs.*
11. `Endpoints`: the doors, their checks and their statuses, over one circuit and
    an XDB that may hang. *Done, with proofs.*
12. `RoleSearch`: names, character by character, and LIKE. *Done, with proofs.*
13. `CacheKeys`: several sheets and the scripts' keys in the caches, which are one
    key space over Redis. *Open.*
14. `SheetPath` again: a ttl of 0, and the gRPC server over the gRPC client.
    `ScriptService` again: scripts that never end. *Done.*
15. `OutboundCallsProofs`: that every adapter implements `OutboundContract`;
    `EndpointsProofs`: `AnswerTellsOutcome`; `SurfaceComplete`, over concatenations
    of blocks instead of a filtered list. *Done.*
16. The search in `RoleRegistryProofs`: LIKE with the pattern that is built, for
    every text and every name. *Done.*

Abstract specifications: `BreakerContract` (what the comment in
`circuit_breaker.rs` says), `RoleDirectory` (a directory that grants a name in
one step), `CommandDelivery` (at least once, at most once), `ScriptRuns` (who
may run, and what an answer tells), `OutboundContract` (what an ok of a port is
worth: that the event arrived, that it keeps its place, or nothing).

## 3. Modules

| module | models | state and actions |
|---|---|---|
| `CircuitBreaker` | `circuit_breaker.rs` | one variable per field of the struct, and `pc[t]`, the operation a caller executes next. One action per load, store, `fetch_add`, `fetch_sub` or mutex section. `opened_at` is none, fresh, or elapsed; `Elapse` is the clock. `usize` is `0..WordMax`, with wrap-around. `Unwind` is a panic of the wrapped call; whether calls panic is chosen in `Init` (`unwinds`). |
| `BreakerContract` | the documented breaker | admissions and results in one step each |
| `SequentialBreaker` | one caller | the refinement mapping from `CircuitBreaker` to the contract, and the one to `BreakerMethods` |
| `BreakerMethods` | callers of `run` around a `Breaker` | one step to enter, to return, to panic and to record |
| `BreakerOperations` | the atomic operations of a breaker as operators on a record: what each stores, and which one follows | used twice by `SheetPath` |
| `Breaker` | the methods of a breaker as operators on a record | used by `Endpoints` and `BreakerMethods` |
| `SheetPath` | `cb_decorator.rs`, `cached_abc.rs`, `cache.rs`, `abc_http.rs`, their wiring in `graph.rs` | two breakers, one cache entry with its ttl, the version of XDB's data, the health of XDB and of Redis; a caller moves through `sheet` or `exec` one atomic operation of a breaker, or one call of the cache or of XDB, at a time: `at[c]` is the method or the call, `op[c]` the operation. What a start finds (Redis or not, the ttl, who writes, which callers come over gRPC and go out over gRPC) is chosen in `Init`. |
| `RoleRegistry` | `Graph::create_role`, `role.rs`, `validate_role_name` | the table, its sequence, the requests; a method of the repository is a step, since it holds the mutex. `Save` has the INSERT that fails, the one that succeeds, and the one whose row stays although the SELECT behind it fails (`role.rs:95-100`). `Open` is every start of the process, `Crash` its end. |
| `RoleDirectory` | what clients may rely on | names granted, refused or failed in one step; a failure leaves open whether the name was taken |
| `ScriptCommands` | the four consumers and `ScriptCommandUseCase::handle` | where the broker has each message, what each process received, what it works on, whether its connection holds |
| `CommandDelivery` | what a consumer promises | owed and settled, begun and handled |
| `ScriptService` | `from_env`, `FacadeBuilder::build`, the script route and the middleware, whitelist, source, engine, `handle` | the environment of a start, the host functions built from it, the scripts directory, and for each request its handler, its thread and its answer |
| `ScriptRuns` | what a request may rely on | permission, one run, effects only while it lasts, an answer that tells the outcome |
| `StoreListing` | `S3Store` | the bucket, and for each listing its token and its items; two history variables remember which keys were there all the time and which at some time |
| `OutboundCalls` | the five publishers, Lambda, SMTP | one adapter, chosen in `Init` as `event_publisher` does; for each caller its call and what it was told; the library's queue, RabbitMQ's channel, and what arrived in which order |
| `OutboundContract` | what an ok of a port is worth | calls, arrivals, results |
| `Endpoints` | the middleware and routes of `main.rs`, `graphql.rs`, `grpc.rs` | which doors are built and which ports wired, one circuit around XDB, and for each request its place, the calls it still makes, those that took effect, and its answer |
| `RoleSearch` | `validate_role_name`, `search_by_name` | extends `RoleRegistry`, whose table a search reads in one section of the mutex; gives its names, which are parameters there, their rules. A text is a sequence of characters. LIKE reads the pattern from left to right, up to its first Nul as SQLite does, and keeps the lengths of the text that what was read matches. |

`MC*` modules hold the model values and the small sets of their component. Names
that begin like a definition and go on like `...NotUnique` or `...IgnoresTrial`
are variants, each preceded by a comment: what the definition would be with a
plausible mistake. No specification uses them; each shows that a property can
be broken.

External parts are modelled from how the code uses them: the brokers (SQS
visibility timeouts, Kafka rebalances, automatic commits and the producer's
queue, RabbitMQ requeues and channel closes, Redis BLPOP), the retries of the AWS
SDK, S3's pages, Redis, XDB, SQLite's LIKE, the JavaScript engine.

## 4. Runs

| run | question | instance |
|---|---|---|
| `cb_concurrent` | What do the races of the breaker leave intact, is an open circuit left again, does a failing service trip it, even if calls panic? | 3 callers, threshold 2, one trial, with panics and without |
| `cb_sequential` | Does a lone caller get what is documented, and its circuit back? | 1 caller, threshold 3 |
| `cb_lockout` (violation) | Does every open circuit have its stamp? No. | 2 callers |
| `sheet_outages` | Which failures open which breaker, do both recover, what is in the cache in the end? | 2 callers, thresholds 1 (XDB) and 2 (cache), 2 versions of the data; 4 starts: the map over an XDB that may answer `ok: false`, the map over an XDB that may be down, a Redis that errs, for a while or for good, with callers that only read, and Redis with a ttl of 0, where one caller comes in and goes out over gRPC |
| `roles_registry` | Who is told what about a name, what stays, does it implement the directory, and what does a search find? | 2 requests, 3 names, 3 that are refused, 12 patterns, ids up to 6 |
| `roles_loser` (violation) | Does the loser of a race get 409? It gets 500. | the same, ids up to 4 |
| `commands_delivery` | Which promise does each consumer keep, is a command left behind? | 2 processes, 2 commands, every broker, batches of 2 |
| `commands_publish` (violation) | Is a failing publish never fatal? It is, for RabbitMQ. | the same, RabbitMQ |
| `script_service` | Does nothing forbidden run, is everything answered truthfully (except a script that never ends, which holds nobody else), is the surface complete? | 2 requests, 4 scripts, 7 environments |
| `endpoints` | Does an answer tell what was done, and does an XDB that hangs hold nobody? | 2 requests, 9 things to ask, 3 ways to start, threshold 2 |
| `outbound_calls` | What is an ok of each adapter worth? | 2 callers, 2 calls each, 3 arrivals, 8 adapters |
| `store_listing` | Is a listing sound though the bucket changes, and does it end? | 1 listing, 4 keys, pages of up to 2 |

What they show, in particular what does **not** hold:

* `cb_lockout`: a trial that succeeds beside a call that fails, a second trial or
  one admitted before the circuit opened, as in TLC's trace. The
  success stores `closed` and clears `opened_at` in two operations; if the
  failure's `open()` falls between or around them, the circuit is open without
  a stamp and rejects everything for ever (`LockoutIsPermanent` shows that it
  is for ever, `OpenResolves` that this is the only way to stay open). A second
  trial is possible although `half_open_max` is 1, because the first is never
  counted (`circuit_breaker.rs:107-109`).
* `roles_loser`: both requests pass `exists_by_name`; the second INSERT fails on
  UNIQUE and becomes an internal error.
* `commands_publish`: the RabbitMQ consumer calls `handle` inside a `block_on`,
  and so does the publisher, which Tokio answers with a panic: the consumer ends
  with its first result, and a RabbitMQ publisher leaves its mutex poisoned for
  every script of the process. `script_service` has the rest of that story: the
  process goes on and still answers.

Other disagreements between the code and its comments that the models contain,
as what a step does, and that no run singles out:

* With Redis as cache, `self.cache.get(&key)?` makes an error of Redis one of XDB's
  breaker, which then rejects `exec` as well (`Got`); the manifest calls the cache
  "Redis key/value (falls back to in-memory)", which it does at startup only.
* The gRPC client drives a Tokio runtime, which panics on a thread of the gRPC
  server's runtime (`Panic` of `SheetPath`). `run` records nothing then: the sheet
  is lost, no circuit opens by it (`XdbOpensOnXdbFailures`), but a half-open one is
  not settled either: once its counter has wrapped, a single trial that panics
  leaves it half-open for ever. Hence the `setting.nested = {}` of `NestedRecovery`.
* The lost stamp of `cb_lockout` happens to nested breakers as well, and
  `NestedRecovery` says so: either XDB's circuit closes for good, or one of the two
  has lost its stamp (`LockedOut`). It takes only the cache's breaker to make every
  sheet fail for ever; without that disjunct TLC finds the property violated.
* None of the AWS SDK's calls has a timeout once it is connected (`sns_events.rs:44`
  and its likes): a service that accepts and never answers holds its caller for
  ever. `OutboundCalls` has these behaviours, and no property says that a call
  returns.
* What is searched by may hold a character of code 0 (`%00`), where SQLite's LIKE
  stops reading, so that the `%` behind the name is lost: the search finds the names
  that end in the part before it. `SearchExact` is about the other queries.
* GraphQL answers 200 with the error in its body and gRPC maps every error to
  INTERNAL (`Say`), so a rejection by the circuit is 503 over REST only.
* Kafka's `flush` is ok as soon as nothing is queued, and a delivery that failed is
  not queued either (`Drain`); the adapter's promise is `ordered`, not `acked`, though
  `kafka_events.rs:5-6` has callers "see a best-effort success only once the broker
  acked".
* A RabbitMQ topic that is not empty is taken for an exchange, and only
  `HEX_RABBIT_EXCHANGE` is ever declared. An event for any other, such as the
  default results topic, makes RabbitMQ close the channel (`RabbitBroker`);
  publishes succeed until the library has read the close, and fail for ever after.

What does hold is as much a result: the counter that wraps never confuses
`half_open_max` into leaving a circuit unsettled while calls do not panic; nested
breakers do not keep each other open, lost stamps apart; the cache ends up fresh although `exec` evicts nothing, thanks to the ttl; restarts
never reuse an id although each start draws three; the surface has every name
once for every set of adapters; a listing is sound through concurrent changes,
as long as S3 pages by key. A ttl of 0 makes every `SETEX` fail and opens nothing,
because the get before each set succeeds, while there are fewer callers than the
threshold. An XDB that accepts and never answers trips
the circuit by the HTTP client's timeout. `Endpoints` shows that with a breaker whose
methods are one step each, since its properties are about statuses, effects and the
timeouts that become failures; that failures trip the circuit under every interleaving
of its operations is `FailuresTrip` of `CircuitBreaker`. SNS, SQS, Lambda and SMTP are ok only if
the event arrived, though an error does not say that it did not. No name, with
whichever of `%`, `_`, `\` and blanks, escapes the search by it. An internal error of
`create_role` may leave the role in the table, and costs nothing else.

### Bounds, and why they are enough

* *Callers.* The races of the breaker are between two: one that decides on what
  it read and one that changes it in between. The third caller of
  `cb_concurrent` brings a late result from before the circuit opened. The
  safety properties of that run are also proved for any number of callers.
* *WordMax* 2 or 3 stands for `usize::MAX`: above the number of callers, so that
  `0 - 1` is told apart from any count that callers can reach. In `sheet_outages` it
  is 1: with `half_open_max` 1, 0 stands for the counts that admit a second trial and 1
  for those that do not, the wrapped ones among them; that the next wrapped count is
  again one that admits makes for more behaviours, not fewer.
* *Thresholds.* 2 or 3 in the runs of the breaker, so that the count before the
  threshold and the one at it differ. In `sheet_outages`, where counting is not
  the question, 1 for XDB, to keep two breakers and two callers within reach, and 2
  for the cache: one more than the callers that get as far as a set in the start
  with a ttl of 0, which is what `ZeroTtlForgiven` is about.
* *versions*, a field of each setting: two tell old data from new where a caller
  writes, and where none does there is only one. A ttl of 1 lets an entry be served
  and expire.
* *MaxSeq* 6: two starts draw two seeds each, two ids are left to requests;
  `Crash` is guarded such that a next start has its ids. The action properties
  are about one step and the proofs have no such bound on how often things happen
  except MaxSeq itself, which is any natural number.
* *Many* 2: once, and more than once.
* *Commands, Processes* 2 each: a batch of two, one process that holds it and
  another that gets it again.
* *Requests* 2: one that panics with the publisher's lock and one that meets the
  poisoned lock, or two that share the consumer thread.
* *Keys* 4 in pages of up to 2: three pages, of which S3 may make more.
* *MaxEvents* 2, *MaxLog* 3: an earlier and a later event of a caller, one of
  another, and a repetition.
* *Asks, Settings* of `endpoints`: a door of each kind (a plain one, one without
  middleware, one whose method may answer 4xx or 404, a batch of 2 and of 0), each
  check failing once, all features and none, either client of XDB.
* *Names, Queries* of `roles_registry`: a new name that a wildcard would take for a
  seeded one, in two spellings; parts of names in either case, with blanks, each of
  `%`, `_`, `\` alone and within a part, one with a Nul; names the rules refuse.
* *Symmetry* is used in `roles_registry`, which checks no liveness.

### Fairness

* Threads and coroutines that can move do: `WF` of each caller, consumer thread,
  handler and script thread. The code has no waiting beyond its mutexes and
  channels, and each mutex section is one step.
* Callers keep calling (breaker, sheet path): the liveness properties of a
  breaker are about a service under load; without callers an open circuit stays
  open by design, and no property claims otherwise. In `SheetPath` a caller always
  has a step to take, so its fairness is stated as taking steps for ever.
* Time passes: `WF` of `Elapse`, of the ttl's `Expire`, and of the brokers'
  timeouts.
* A broker does not withhold a message from a consumer that keeps asking: `SF` of
  `Deliver`, since a consumer asks only between two commands.
* Scripts end, except those in `Endless`: nothing is assumed of their threads. The
  code has no timeout for them; `EveryRequestAnswered` shows that they hold only
  their own request. That another handler is scheduled beside one that blocks is
  Feather's doing: it has as many worker threads as the machine has cores, and
  the assumption is that not all of them are held.
* An XDB that hangs ends a call by the HTTP client's timeout of 10 s (`Sheet` is
  fair for that client); the gRPC client has none and nothing is assumed of it.
* Of outbound calls nothing is assumed, neither that they return nor that anything
  arrives: `OutboundCalls` has no fairness. Scripts and command consumers that call
  out are among those who wait: where `EveryRequestAnswered` and `EventuallyHandled`
  assume that scripts end and that reporting a result returns, they assume that the
  service called does answer. A script whose call hangs is one of `Endless`.
* S3 answers each request, with a page or with an error: an assumption about S3, since
  its client has no timeout either. `ListingEnds` is about the loop over the pages.
* Nothing is assumed of crashes, panics, outages and deploys: they may happen
  always or never.

## 5. Proofs

All theorems hold for every value of the constants that satisfies the module's
`ASSUME`. They need no assumption beyond those, except where stated. The
assumptions say what the constants are: thresholds and limits are numbers, the
widths of counters and the limits of pages are not 0, a setting or a request has
the fields that the code gives it, names are texts and those in the table valid and
without blanks around them (`SearchAssumption`; `ValidationStable` proves it of
everything `create_role` stores). `SheetPath` takes finitely many callers, which
threads are.

| module | theorems | argument |
|---|---|---|
| `CircuitBreakerProofs` | `TypeCorrect`, `HalfOpenAlwaysResolves` (no panics), `ThresholdAlwaysHonoured`, `LockoutAlwaysPermanent` | `TypeOK` is inductive by `WordArithmetic`. `HalfOpenResolves` and `ThresholdHonoured` are inductive with it: the sets `Resolving` and {stamp, rezero} are closed under the steps that do not settle the matter themselves. |
| | `SequentialBreakerMeetsContract` (one caller, no panics) | `SequentialInv` says where the caller can be in each state of the circuit (`Whereabouts`) and what the counter holds there (`Counted`); without it a step such as `Gauge`, which a lone caller never reaches, would have no counterpart in the contract. |
| | `LoneBreakerIsBreaker` (one caller) | `LoneInv` adds to the places of the caller when the circuit is stamped (`Stamped`): a stamp outlives its `open()` until a trial succeeds, so the store of `closed` and the clearing of the stamp, two operations, are one step to Breaker. `WordModulo` equates the two arithmetics of the counter. No run lists `MethodsInOneStep`: the theorem is all there is to it, and any run of `SequentialBreaker` with one caller can take it along. Each method takes effect at one operation: the `fetch_add` or `fetch_sub` of a trial, the store of `half_open`, the counter of a closed circuit. |
| | `OperationsAreBreakers` | Any number of callers: each operation of a caller stores what `BreakerOperations!Stored` says and is followed by what `Following` says (`PerformedByOne`); `Return`, `Unwind` and the call itself store nothing. It is why the two breakers of `SheetPath` are the breaker of `CircuitBreaker`, races included. |
| `SheetPathProofs` | `SheetTypeCorrect`, `XdbOpensOnXdbFailuresAlways`, `ZeroTtlAlwaysForgiven` | Neither invariant is inductive alone. `OperationsFit`: a caller inside a method is at an operation of that method. `NestedStop`: gRPC handlers over the gRPC client get no further than asking. `CacheCalm`: over a sound cache its circuit stays closed and its callers are at operations of a closed circuit; for a ttl of 0 it bounds the cache's failures by the number of callers that are not between a get and the end of its set (`Settled`): a refused SETEX adds its caller to them and one to the count, and a get sets the count to 0. `XdbCalm` follows: no caller gets to record a failure while XDB answers. |
| `RoleRegistryProofs` | `RegistryTypeCorrect`, `IdsAlwaysNew`, `RolesCreatedOnce`, `CreatedRolesStay`, `RegistryImplementsDirectory` | `Granted`: a name was granted at most once, only if it is in the table, and the table is injective (UNIQUE). `CreatedOnce` alone is not inductive: a second grant is excluded by the first one's row. An INSERT whose SELECT fails is `Fail` of the directory, with the name in it. |
| | `SearchAlwaysExact`, `ValidationStable` | `LikeIsOccurs`: LIKE with `search_by_name`'s pattern is containment in either case, for texts and names of any length over any characters. The invariant of reading the pattern is `EndsOf`: behind the first k characters of the name, LIKE is at the lengths of the text at which it holds these k (`PrefixRead`). It needs `EscapedMore`: the three replacements, one after the other, put one escape before each special character and never a second one, which is where their order matters. A text over an alphabet without Nul is read to its end (`NoNulToStopAt`), and names have none (`NamesHoldNoNul`). The induction is over sets: `NatSetInduction`, from the well-founded order of the numbers, and `Reads`, by which a recursive function is any function that takes its steps. |
| `ScriptCommandsProofs` | `CommandsTypeCorrect`, `OneConsumerEachAlways`, `CommandsImplementDelivery` | `Kept`: a linked RabbitMQ consumer has only what is delivered to it (`Held`), SQS and RabbitMQ settle after handling (`SettledLate`), Redis before running, in one inbox (`SettledEarly`). |
| `ScriptServiceProofs` | `ServiceTypeCorrect`, `ServiceImplementsRuns` | `Admitted`: a request past its checks is permitted, and keeps its `step`. `FirstRefuses` shows that the order of the refusals decides which status is answered but never whether. |
| | `SurfaceAlwaysComplete` | `Built`: the services are what `build` makes of the wired ports. `Presents` says that a list has exactly the names of a set, each once and on its port; blocks that share no name put together present the union (`PresentsBoth`), and of a port's two blocks one is empty (`BlockPresents`). |
| `StoreListingProofs` | `ListingTypeCorrect`, `ListingAlwaysSound` | `Collected`: what was collected is in order and not past the token. `Faithful`: what stayed all the time and is not past the token was collected, and what was collected was there at some time. `PageShape` says what S3's pages are, `IncreasingConcat` that they can be put together. |
| `OutboundCallsProofs` | `OutboundTypeCorrect`, `OutboundImplementsContract` | `Waits`: a caller is busy exactly while its last call has no result. `Unflushed`: Kafka's queue holds nothing that was reported as sent, so what arrives from it breaks no promise already given. `Lined`: what RabbitMQ's library holds of a caller is in order and behind what arrived (`Sent` bounds both by what was asked). `Effects` shows first that every action does one of a few things to queue, log and results, so that each is looked at once for all adapters. |
| `EndpointsProofs` | `EndpointsTypeCorrect`, `AnswersTellOutcome` | `Progress`: while a request is under way the calls that took effect and those left add up to what was asked. `Statuses` tells a 4xx of a check from an error of a call. |

Only model-checked:

* liveness (`OpenResolves`, `FailuresTrip`, `RecoversWhenHealthy`,
  `NestedRecovery`, `DownXdbStaysOpen`, `EventuallyFresh`, `EventuallyHandled`,
  `EveryRequestAnswered`, `HungXdbTrips`, `ListingEnds`): temporal
  reasoning under fairness and ENABLED are beyond the prover.

Every other property of a passing run is stated by a theorem. The library's
induction theorems take an operator as a parameter, which none of the backends can
instantiate; where a proof needs induction it is `NatSetInduction`, whose parameter
is a set.

## 6. What is not modelled

* Memory orderings: the breaker's atomics are interleaved as if sequentially
  consistent. Its loads and stores are Acquire and Release on separate cells, so
  real executions may have more behaviours than the model.
* The breaker around `evict`: only scripts evict, through a breaker of their own
  that does what the one around `get` does.
* The keys of the cache. `SheetPath` has one sheet. The key joins the three parts of
  a query with `:`, so two sheets whose names hold one can share an entry; and over
  Redis scripts use the same keys, so what they set or evict may be a sheet's.
* Builds with debug assertions, in which `reqwest`'s blocking client checks that it
  is not called on a thread of a Tokio runtime: there the HTTP client behaves on the
  gRPC server's threads as the gRPC client does in `SheetPath`.
* What a Lambda function answers, the entries an EventBridge response names as
  failed, the text of S3's errors by which `get_item` tells an absent object: the
  code passes them on or does not look at them.
* Configuration, logging, the wording of errors, JSON, the building of mails and
  of gRPC messages (`encode_puts`, `decode`, `abc_exec_request`).
* The reads that return what is there: an S3 object, the number of roles.
* Script names, which are malformed or not; trimming is modelled for blanks and
  tabs, the rest of Unicode's white space is not.
* The engine itself, and Feather's scheduler.

## 7. Running it

    tlc -workers 2 -config cb_concurrent.cfg MCCircuitBreaker.tla
    tlapm CircuitBreakerProofs.tla

Each configuration belongs to the MC module named in `PROJECT.json`;
`sheet_outages` takes less than three minutes, `cb_concurrent`, `script_service`,
`roles_registry` and `endpoints` about two, the others less than one.
