------------------------------ MODULE SheetPath ------------------------------
(***************************************************************************)
(* One sheet of XDB behind the ports Graph::from_env composes: a breaker   *)
(* (CbAbcPort) around a cache-first read (CachedAbcPort) whose cache has a *)
(* breaker of its own (CbCachePort).  A caller of the port is a process; a *)
(* step is an atomic operation of a breaker, or one call of the cache or   *)
(* of XDB.                                                                 *)
(***************************************************************************)
EXTENDS Naturals, FiniteSets

CONSTANTS
  Callers,         \* threads that use the port: HTTP, GraphQL, gRPC, scripts
  XdbThreshold,    \* HEX_CB_FAILURE_THRESHOLD, of the breaker around XDB
  CacheThreshold,  \* CbConfig::default().failure_threshold, of the cache's
  HalfOpenMax,
  WordMax,
  Settings         \* what a start may find, see Setting

\* Whether redis_cache() reached Redis, and what it may become: up, or erring,
\* for a while or (its one connection broke) for good; HEX_XDB_CACHE_TTL; the
\* callers that also exec; those that are handlers of the gRPC server, which has
\* no exec, over the gRPC client; what XDB may do: up, faulty (answers ok:
\* false), down; and the bound on the versions of its data.
Setting ==
  [redis: BOOLEAN, cache: SUBSET {"up", "erring"}, ttl: Nat, writers: SUBSET Callers,
   nested: SUBSET Callers, xdb: SUBSET {"up", "faulty", "down"}, versions: Nat \ {0}]

ASSUME SheetAssumption ==
  /\ IsFiniteSet(Callers)
  /\ {XdbThreshold, CacheThreshold, HalfOpenMax} \subseteq Nat
  /\ WordMax \in Nat \ {0}
  /\ Settings \subseteq Setting
  /\ \A s \in Settings : /\ "up" \in s.xdb \cap s.cache
                         /\ s.redis \/ s.cache = {"up"}
                         /\ s.writers \cap s.nested = {}

VARIABLES
  setting,         \* one of Settings, chosen at startup
  xdbCb, cacheCb,  \* the two breakers
  entry,           \* the cached sheet: a version of XDB's data, or None
  xdb,             \* the version XDB holds
  xdbHealth,       \* one of setting.xdb
  cacheHealth,     \* one of setting.cache
  at,              \* at[c]: where caller c is, see Places
  op,              \* op[c]: the operation of a breaker c executes next, or none
  seen             \* seen[c]: the version c got from the cache or from XDB, or None

vars == <<setting, xdbCb, cacheCb, entry, xdb, xdbHealth, cacheHealth, at, op, seen>>
health == <<setting, xdbHealth, cacheHealth>>
data == <<entry, xdb>>

None == 0
Versions == 1..setting.versions

XdbBreaker == INSTANCE BreakerOperations WITH FailureThreshold <- XdbThreshold
CacheBreaker == INSTANCE BreakerOperations WITH FailureThreshold <- CacheThreshold

\* In try_acquire of a breaker (the first two in that of XDB's), in record_success
\* or record_failure of one (answered: of XDB's), in a call of the cache or XDB.
Places == {"sheet", "exec", "lookup", "store",
           "got", "got_error", "stored", "answered",
           "get", "ask", "set", "apply",
           "idle"}

TypeOK ==
  /\ setting \in Settings
  /\ xdbCb \in XdbBreaker!Breakers
  /\ cacheCb \in CacheBreaker!Breakers
  /\ entry \in Versions \cup {None}
  /\ xdb \in Versions
  /\ xdbHealth \in setting.xdb
  /\ cacheHealth \in setting.cache
  /\ at \in [Callers -> Places]
  /\ op \in [Callers -> XdbBreaker!Acquiring \cup XdbBreaker!Recording \cup {"none"}]
  /\ seen \in [Callers -> Versions \cup {None}]

Init ==
  /\ setting \in Settings
  /\ xdbCb = XdbBreaker!NewBreaker
  /\ cacheCb = CacheBreaker!NewBreaker
  /\ entry = None
  /\ xdb = 1
  /\ xdbHealth = "up"
  /\ cacheHealth = "up"
  /\ at = [c \in Callers |-> "idle"]
  /\ op = [c \in Callers |-> "none"]
  /\ seen = [c \in Callers |-> None]

\* c goes on to a place, and there to an operation, the first of a method or none.
Go(c, to, operation) == at' = [at EXCEPT ![c] = to] /\ op' = [op EXCEPT ![c] = operation]
See(c, v) == seen' = [seen EXCEPT ![c] = v]

\* c goes on with the same method.
Inside(c, following) ==
  /\ following \notin XdbBreaker!Outcomes
  /\ op' = [op EXCEPT ![c] = following]
  /\ UNCHANGED <<at, seen>>

\* c has its result, "succeeded" or "failed", which XDB's breaker records.
Answer(c, result) == Go(c, "answered", result) /\ See(c, None)

---------------------------------------------------------------------------
(* CbAbcPort.sheet and CbAbcPort.exec; a rejected call answers Unavailable. *)

\* The load of the state by try_acquire: a closed circuit admits.
Begin(c, inside, to, operation) ==
  /\ at[c] = "idle"
  /\ LET following == XdbBreaker!Following(xdbCb, "acquire") IN
       \/ following = "admitted" /\ Go(c, to, operation)
       \/ following # "admitted" /\ Go(c, inside, following)
  /\ UNCHANGED <<xdbCb, cacheCb, data, health, seen>>

Sheet(c) == Begin(c, "sheet", "lookup", "acquire")

Exec(c) == c \in setting.writers /\ Begin(c, "exec", "apply", "none")

Enter(c) ==
  /\ at[c] \in {"sheet", "exec"}
  /\ xdbCb' = XdbBreaker!Stored(xdbCb, op[c])
  /\ LET following == XdbBreaker!Following(xdbCb, op[c]) IN
       \/ Inside(c, following)
       \/ /\ following = "admitted"
          /\ IF at[c] = "sheet" THEN Go(c, "lookup", "acquire") ELSE Go(c, "apply", "none")
          /\ UNCHANGED seen
       \/ following = "rejected" /\ Go(c, "idle", "none") /\ UNCHANGED seen
  /\ UNCHANGED <<cacheCb, data, health>>

Leave(c) ==
  /\ at[c] = "answered"
  /\ xdbCb' = XdbBreaker!Stored(xdbCb, op[c])
  /\ LET following == XdbBreaker!Following(xdbCb, op[c]) IN
       \/ Inside(c, following)
       \/ following = "recorded" /\ Go(c, "idle", "none") /\ UNCHANGED seen
  /\ UNCHANGED <<cacheCb, data, health>>

---------------------------------------------------------------------------
(* CachedAbcPort.sheet through CbCachePort *)

\* A get the cache's breaker rejects fails the sheet.
Lookup(c) ==
  /\ at[c] = "lookup"
  /\ cacheCb' = CacheBreaker!Stored(cacheCb, op[c])
  /\ LET following == CacheBreaker!Following(cacheCb, op[c]) IN
       \/ Inside(c, following)
       \/ following = "admitted" /\ Go(c, "get", "none") /\ UNCHANGED seen
       \/ following = "rejected" /\ Answer(c, "failed")
  /\ UNCHANGED <<xdbCb, data, health>>

Get(c) ==
  /\ at[c] = "get"
  /\ \/ cacheHealth = "up" /\ Go(c, "got", "succeeded") /\ See(c, entry)
     \/ cacheHealth = "erring" /\ Go(c, "got_error", "failed") /\ UNCHANGED seen
  /\ UNCHANGED <<xdbCb, cacheCb, data, health>>

\* A hit answers, a miss asks XDB, an error fails the sheet (the ? of l.32).
Got(c) ==
  /\ at[c] \in {"got", "got_error"}
  /\ cacheCb' = CacheBreaker!Stored(cacheCb, op[c])
  /\ LET following == CacheBreaker!Following(cacheCb, op[c])
         hit == at[c] = "got" /\ seen[c] # None
         miss == at[c] = "got" /\ seen[c] = None IN
       \/ Inside(c, following)
       \/ following = "recorded" /\ hit /\ Answer(c, "succeeded")
       \/ following = "recorded" /\ miss /\ Go(c, "ask", "none") /\ UNCHANGED seen
       \/ following = "recorded" /\ at[c] = "got_error" /\ Answer(c, "failed")
  /\ UNCHANGED <<xdbCb, data, health>>

\* A variant of Panic that counts as a failure of XDB.
PanicCounted(c) ==
  /\ at[c] = "ask" /\ c \in setting.nested
  /\ Answer(c, "failed")
  /\ UNCHANGED <<xdbCb, cacheCb, data, health>>

\* The gRPC client drives a runtime of its own; on a thread of the server's
\* runtime that panics, and run records nothing.
Panic(c) ==
  /\ at[c] = "ask" /\ c \in setting.nested
  /\ Go(c, "idle", "none")
  /\ UNCHANGED <<xdbCb, cacheCb, data, health, seen>>

\* A variant of Ask for which an answer that is not ok is an error.
AskOkOnly(c) ==
  /\ at[c] = "ask" /\ c \notin setting.nested
  /\ \/ xdbHealth = "up" /\ Go(c, "store", "acquire") /\ See(c, xdb)
     \/ xdbHealth # "up" /\ Answer(c, "failed")
  /\ UNCHANGED <<xdbCb, cacheCb, data, health>>

\* Only an ok response is stored; a faulty one answers all the same.
Ask(c) ==
  /\ at[c] = "ask" /\ c \notin setting.nested
  /\ \/ xdbHealth = "up" /\ Go(c, "store", "acquire") /\ See(c, xdb)
     \/ xdbHealth = "faulty" /\ Answer(c, "succeeded")
     \/ xdbHealth = "down" /\ Answer(c, "failed")
  /\ UNCHANGED <<xdbCb, cacheCb, data, health>>

\* A rejected or failed set is ignored.
Store(c) ==
  /\ at[c] = "store"
  /\ cacheCb' = CacheBreaker!Stored(cacheCb, op[c])
  /\ LET following == CacheBreaker!Following(cacheCb, op[c]) IN
       \/ Inside(c, following)
       \/ following = "admitted" /\ Go(c, "set", "none") /\ UNCHANGED seen
       \/ following = "rejected" /\ Answer(c, "succeeded")
  /\ UNCHANGED <<xdbCb, data, health>>

\* With a ttl of 0 Redis refuses SETEX, and the map keeps what it never serves.
Refuses == setting.redis /\ setting.ttl = 0

Set(c) ==
  /\ at[c] = "set"
  /\ \/ /\ cacheHealth = "up" /\ ~Refuses
        /\ Go(c, "stored", "succeeded")
        /\ entry' = IF setting.ttl = 0 THEN None ELSE seen[c]
     \/ /\ cacheHealth = "erring" \/ Refuses
        /\ Go(c, "stored", "failed")
        /\ UNCHANGED entry
  /\ See(c, None)
  /\ UNCHANGED <<xdbCb, cacheCb, xdb, health>>

Stored(c) ==
  /\ at[c] = "stored"
  /\ cacheCb' = CacheBreaker!Stored(cacheCb, op[c])
  /\ LET following == CacheBreaker!Following(cacheCb, op[c]) IN
       \/ Inside(c, following)
       \/ following = "recorded" /\ Answer(c, "succeeded")
  /\ UNCHANGED <<xdbCb, data, health>>

---------------------------------------------------------------------------
(* XDB and the cache *)

\* exec goes straight to XDB; a write whose answer is lost may be applied.
Apply(c) ==
  /\ at[c] = "apply"
  /\ \/ xdbHealth # "down" /\ Answer(c, "succeeded") /\ UNCHANGED xdb
     \/ xdbHealth = "up" /\ Answer(c, "succeeded") /\ xdb' \in {xdb + 1} \cap Versions
     \/ xdbHealth = "down" /\ Answer(c, "failed") /\ xdb' \in {xdb, xdb + 1} \cap Versions
  /\ UNCHANGED <<xdbCb, cacheCb, entry, health>>

\* A variant of Expire in which an entry past its ttl is still served.
ExpireIgnored == entry # None /\ UNCHANGED vars

\* The ttl runs out.
Expire ==
  /\ entry # None
  /\ entry' = None
  /\ UNCHANGED <<xdbCb, cacheCb, xdb, health, at, op, seen>>

\* reset_timeout runs out, for one breaker or the other.
XdbElapse ==
  /\ xdbCb.openedAt = "fresh"
  /\ xdbCb' = XdbBreaker!Ripe(xdbCb)
  /\ UNCHANGED <<cacheCb, data, health, at, op, seen>>

CacheElapse ==
  /\ cacheCb.openedAt = "fresh"
  /\ cacheCb' = CacheBreaker!Ripe(cacheCb)
  /\ UNCHANGED <<xdbCb, data, health, at, op, seen>>

XdbChanges ==
  /\ xdbHealth' \in setting.xdb \ {xdbHealth}
  /\ UNCHANGED <<setting, xdbCb, cacheCb, data, cacheHealth, at, op, seen>>

CacheChanges ==
  /\ cacheHealth' \in setting.cache \ {cacheHealth}
  /\ UNCHANGED <<setting, xdbCb, cacheCb, data, xdbHealth, at, op, seen>>

---------------------------------------------------------------------------

Caller(c) ==
  \/ Sheet(c) \/ Exec(c) \/ Enter(c) \/ Leave(c)
  \/ Lookup(c) \/ Get(c) \/ Got(c) \/ Ask(c) \/ Panic(c) \/ Store(c) \/ Set(c) \/ Stored(c)
  \/ Apply(c)

Next ==
  \/ Expire \/ XdbElapse \/ CacheElapse \/ XdbChanges \/ CacheChanges
  \/ \E c \in Callers : Caller(c)

Spec == Init /\ [][Next]_vars

\* Time passes, and callers are scheduled and keep calling: a caller always has
\* a step to take, so that weak fairness of it is to take steps for ever.
FairSpec ==
  /\ Spec
  /\ WF_vars(Expire) /\ WF_vars(XdbElapse) /\ WF_vars(CacheElapse)
  /\ \A c \in Callers : []<><<Caller(c)>>_vars

---------------------------------------------------------------------------

\* A cache that errs only where the code has it err: on every set, with a ttl of
\* 0 in Redis, by callers fewer than its breaker's threshold.
SoundCache ==
  /\ setting.cache = {"up"}
  /\ Refuses => Cardinality(Callers \ setting.nested) < CacheThreshold

\* Over a sound cache only failing calls of XDB open XDB's circuit: not answers
\* with ok: false, nor panics of the gRPC client, nor anything the cache does.
XdbOpensOnXdbFailures ==
  SoundCache /\ "down" \notin setting.xdb => xdbCb.state = "closed"

\* Each SETEX that Redis refuses for its ttl of 0 is forgiven by a get in time:
\* the circuit of a sound cache stays closed.
ZeroTtlForgiven == SoundCache => cacheCb.state = "closed"

\* A sheet filled from a read older than a concurrent exec may be cached after
\* that exec, but not for ever: once the writes stop, the cache ends up empty
\* or current.
EventuallyFresh == <>[](entry \in {None, xdb})

\* Once XDB stays down its circuit ends up open or probing: sheets served from
\* the cache count as successes of the breaker, but no longer than their ttl.
DownXdbStaysOpen ==
  <>[](xdbHealth = "down") => <>[](xdbCb.state # "closed")

\* An open circuit whose stamp a concurrent success has cleared: it rejects
\* every call (CircuitBreaker!LockedOut).
LockedOut(cb) == cb.state = "open" /\ cb.openedAt = "none"

\* Two breakers, one within the other, do not keep each other open: once XDB
\* and the cache answer, XDB's circuit closes for good, unless one of the two
\* lost its stamp to a race of a success with a failure.
NestedRecovery ==
  /\ setting.nested = {} /\ ~Refuses
  /\ <>[](xdbHealth # "down" /\ cacheHealth = "up")
  => \/ <>[](xdbCb.state = "closed")
     \/ <>[]LockedOut(xdbCb) \/ <>[]LockedOut(cacheCb)

=============================================================================
