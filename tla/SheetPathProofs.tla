--------------------------- MODULE SheetPathProofs ---------------------------
(***************************************************************************)
(* What the two nested breakers keep for any number of callers, any two    *)
(* thresholds and any settings, under every interleaving of the operations *)
(* of the breakers.                                                        *)
(***************************************************************************)
EXTENDS SheetPath, FiniteSetTheorems, TLAPS

\* A caller inside a method is at an operation of that method.
Fits(place, operation) ==
  /\ operation \in XdbBreaker!Acquiring \cup XdbBreaker!Recording \cup {"none"}
  /\ place \in {"sheet", "exec", "lookup", "store"} => operation \in XdbBreaker!Acquiring
  /\ place \in {"got", "got_error", "stored", "answered"} => operation \in XdbBreaker!Recording

OperationsFit == \A c \in Callers : Fits(at[c], op[c])

\* Handlers of the gRPC server over the gRPC client get no further than ask.
NestedStop ==
  \A c \in Callers : at[c] \in {"store", "set", "stored"} => c \notin setting.nested

\* Callers that could make the cache's breaker count their failed SETEX only
\* after another get.
Settled ==
  {c \in Callers \ setting.nested : at[c] \notin {"ask", "store", "set", "stored"}}

\* A sound cache errs on a SETEX with a ttl of 0 alone, and since the last get
\* that succeeded at most once for each caller.
CacheCalm ==
  SoundCache =>
    /\ cacheHealth = "up" /\ cacheCb.state = "closed"
    /\ \A c \in Callers :
         /\ at[c] # "got_error"
         /\ at[c] \in {"lookup", "store"} => op[c] = "acquire"
         /\ at[c] = "got" => op[c] \in {"succeeded", "reset"}
         /\ at[c] = "stored" =>
              op[c] \in IF Refuses THEN {"failed", "count"} ELSE {"succeeded", "reset"}
    /\ Refuses => cacheCb.failures <= Cardinality(Settled)

\* Over a sound cache no sheet and no exec fails while XDB answers.
XdbCalm ==
  SoundCache /\ "down" \notin setting.xdb =>
    /\ xdbCb.state = "closed"
    /\ \A c \in Callers :
         at[c] \notin {"sheet", "exec"} /\ (at[c] = "answered" => op[c] \in {"succeeded", "reset"})

SheetInv == TypeOK /\ OperationsFit /\ NestedStop /\ CacheCalm /\ XdbCalm

---------------------------------------------------------------------------
(* The breakers *)

LEMMA SameBreakers ==
  /\ CacheBreaker!Breakers = XdbBreaker!Breakers
  /\ CacheBreaker!Acquiring = XdbBreaker!Acquiring
  /\ CacheBreaker!Recording = XdbBreaker!Recording
BY DEF CacheBreaker!Breakers, XdbBreaker!Breakers, CacheBreaker!Acquiring, XdbBreaker!Acquiring,
       CacheBreaker!Recording, XdbBreaker!Recording

\* An operation leads to one of its method, or to an outcome of that method.
LEMMA OperationsFollow ==
  ASSUME NEW cb \in XdbBreaker!Breakers, NEW o
  PROVE  /\ o \in XdbBreaker!Acquiring =>
              /\ XdbBreaker!Following(cb, o) \in XdbBreaker!Acquiring \cup {"admitted", "rejected"}
              /\ CacheBreaker!Following(cb, o) \in XdbBreaker!Acquiring \cup {"admitted", "rejected"}
         /\ o \in XdbBreaker!Recording =>
              /\ XdbBreaker!Following(cb, o) \in XdbBreaker!Recording \cup {"recorded"}
              /\ CacheBreaker!Following(cb, o) \in XdbBreaker!Recording \cup {"recorded"}
<1> USE DEF XdbBreaker!Breakers, XdbBreaker!Acquiring, XdbBreaker!Recording
<1>1. o \in XdbBreaker!Acquiring =>
        XdbBreaker!Following(cb, o) \in XdbBreaker!Acquiring \cup {"admitted", "rejected"}
  BY DEF XdbBreaker!Following, XdbBreaker!Admission
<1>2. o \in XdbBreaker!Acquiring =>
        CacheBreaker!Following(cb, o) \in XdbBreaker!Acquiring \cup {"admitted", "rejected"}
  BY DEF CacheBreaker!Following, CacheBreaker!Admission
<1>3. o \in XdbBreaker!Recording =>
        XdbBreaker!Following(cb, o) \in XdbBreaker!Recording \cup {"recorded"}
  BY DEF XdbBreaker!Following, XdbBreaker!AfterSuccess, XdbBreaker!AfterFailure
<1>4. o \in XdbBreaker!Recording =>
        CacheBreaker!Following(cb, o) \in XdbBreaker!Recording \cup {"recorded"}
  BY DEF CacheBreaker!Following, CacheBreaker!AfterSuccess, CacheBreaker!AfterFailure
<1>5. QED
  BY <1>1, <1>2, <1>3, <1>4

\* The operations of both breakers keep to the machine word.
LEMMA OperationsTyped ==
  ASSUME NEW cb \in XdbBreaker!Breakers, NEW o \in XdbBreaker!Acquiring \cup XdbBreaker!Recording
  PROVE  /\ XdbBreaker!Stored(cb, o) \in XdbBreaker!Breakers
         /\ CacheBreaker!Stored(cb, o) \in XdbBreaker!Breakers
<1> USE SheetAssumption DEF XdbBreaker!Breakers, XdbBreaker!Acquiring, XdbBreaker!Recording
<1>1. \A n \in 0..WordMax :
        /\ XdbBreaker!Incremented(n) \in 0..WordMax /\ XdbBreaker!Decremented(n) \in 0..WordMax
        /\ CacheBreaker!Incremented(n) \in 0..WordMax /\ CacheBreaker!Decremented(n) \in 0..WordMax
  BY DEF XdbBreaker!Incremented, XdbBreaker!Decremented,
         CacheBreaker!Incremented, CacheBreaker!Decremented
<1>2. XdbBreaker!Stored(cb, o) \in XdbBreaker!Breakers
  BY <1>1 DEF XdbBreaker!Stored
<1>3. CacheBreaker!Stored(cb, o) \in XdbBreaker!Breakers
  BY <1>1 DEF CacheBreaker!Stored
<1>4. QED
  BY <1>2, <1>3

LEMMA RipeTyped ==
  ASSUME NEW cb \in XdbBreaker!Breakers
  PROVE  /\ XdbBreaker!Ripe(cb) \in XdbBreaker!Breakers
         /\ XdbBreaker!Ripe(cb).state = cb.state
         /\ CacheBreaker!Ripe(cb) \in XdbBreaker!Breakers
         /\ CacheBreaker!Ripe(cb).state = cb.state
         /\ CacheBreaker!Ripe(cb).failures = cb.failures
BY DEF XdbBreaker!Breakers, XdbBreaker!Ripe, CacheBreaker!Ripe

\* What a call that succeeds does to a closed circuit.
LEMMA SuccessKeepsClosed ==
  ASSUME NEW cb \in XdbBreaker!Breakers, cb.state = "closed", NEW o \in {"succeeded", "reset"}
  PROVE  /\ XdbBreaker!Stored(cb, o).state = "closed"
         /\ XdbBreaker!Following(cb, o) \in {"reset", "recorded"}
         /\ CacheBreaker!Stored(cb, o).state = "closed"
         /\ CacheBreaker!Following(cb, o) \in {"reset", "recorded"}
         /\ CacheBreaker!Following(cb, o) = "reset" => CacheBreaker!Stored(cb, o) = cb
         /\ CacheBreaker!Following(cb, o) = "recorded" => CacheBreaker!Stored(cb, o).failures = 0
BY DEF XdbBreaker!Breakers, XdbBreaker!Stored, XdbBreaker!Following, XdbBreaker!AfterSuccess,
       CacheBreaker!Stored, CacheBreaker!Following, CacheBreaker!AfterSuccess

\* A closed circuit admits, and counts a failure below its threshold.
LEMMA ClosedStays ==
  ASSUME NEW cb \in XdbBreaker!Breakers, cb.state = "closed"
  PROVE  /\ XdbBreaker!Following(cb, "acquire") = "admitted"
         /\ CacheBreaker!Following(cb, "acquire") = "admitted"
         /\ CacheBreaker!Stored(cb, "acquire") = cb
         /\ CacheBreaker!Following(cb, "failed") = "count"
         /\ CacheBreaker!Stored(cb, "failed") = cb
         /\ CacheBreaker!Stored(cb, "count").state = "closed"
         /\ CacheBreaker!Stored(cb, "count").failures = cb.failures + 1
         /\ cb.failures + 1 < CacheThreshold => CacheBreaker!Following(cb, "count") = "recorded"
BY SheetAssumption DEF XdbBreaker!Breakers, XdbBreaker!Following, XdbBreaker!Admission,
   CacheBreaker!Following, CacheBreaker!Admission, CacheBreaker!AfterFailure, CacheBreaker!Stored

---------------------------------------------------------------------------
(* Types *)

\* A caller that goes on to a place and an operation of its own fits again.
LEMMA MovedFits ==
  ASSUME TypeOK, OperationsFit, NEW c \in Callers, NEW place \in Places, NEW operation,
         Fits(place, operation), Go(c, place, operation)
  PROVE  /\ at' \in [Callers -> Places]
         /\ op' \in [Callers -> XdbBreaker!Acquiring \cup XdbBreaker!Recording \cup {"none"}]
         /\ OperationsFit'
<1>1. at \in [Callers -> Places]
      /\ op \in [Callers -> XdbBreaker!Acquiring \cup XdbBreaker!Recording \cup {"none"}]
  BY DEF TypeOK
<1>2. operation \in XdbBreaker!Acquiring \cup XdbBreaker!Recording \cup {"none"}
  BY DEF Fits
<1>3. \A d \in Callers : IF d = c THEN at'[d] = place /\ op'[d] = operation
                                  ELSE at'[d] = at[d] /\ op'[d] = op[d]
  BY <1>1, <1>2 DEF Go
<1>4. ASSUME NEW d \in Callers PROVE Fits(at'[d], op'[d])
  <2>1. CASE d = c
    BY <1>3, <2>1
  <2>2. CASE d # c
    BY <1>3, <2>2 DEF OperationsFit
  <2>3. QED
    BY <2>1, <2>2
<1>5. OperationsFit'
  BY <1>4 DEF OperationsFit, Fits
<1>6. QED
  BY <1>1, <1>2, <1>5 DEF Go

\* A caller goes on somewhere it fits.
GoesOn(c) == \E place \in Places : \E operation : Fits(place, operation) /\ Go(c, place, operation)

LEMMA TypedStep ==
  ASSUME TypeOK, OperationsFit, NEW c \in Callers, GoesOn(c), UNCHANGED setting,
         xdbHealth' \in setting.xdb, cacheHealth' \in setting.cache,
         xdbCb' \in XdbBreaker!Breakers, cacheCb' \in XdbBreaker!Breakers,
         entry' \in Versions \cup {None}, xdb' \in Versions,
         seen' \in [Callers -> Versions \cup {None}]
  PROVE  TypeOK' /\ OperationsFit'
<1>1. /\ at' \in [Callers -> Places]
      /\ op' \in [Callers -> XdbBreaker!Acquiring \cup XdbBreaker!Recording \cup {"none"}]
      /\ OperationsFit'
  BY MovedFits DEF GoesOn
<1>2. QED
  BY <1>1, SameBreakers DEF TypeOK, Versions

\* A caller inside a method goes on with it.
LEMMA InsideFits ==
  ASSUME TypeOK, OperationsFit, NEW c \in Callers, NEW next, Inside(c, next),
         \/ op[c] \in XdbBreaker!Acquiring /\ next \in XdbBreaker!Acquiring
            /\ at[c] \in {"sheet", "exec", "lookup", "store"}
         \/ op[c] \in XdbBreaker!Recording /\ next \in XdbBreaker!Recording
            /\ at[c] \in {"got", "got_error", "stored", "answered"}
  PROVE  GoesOn(c)
<1>1. at[c] \in Places /\ Fits(at[c], next)
  BY DEF TypeOK, Fits
<1>2. Go(c, at[c], next)
  BY DEF TypeOK, Inside, Go
<1>3. QED
  BY <1>1, <1>2 DEF GoesOn

LEMMA SheetTyped == TypeOK /\ OperationsFit /\ [Next]_vars => TypeOK' /\ OperationsFit'
<1> SUFFICES ASSUME TypeOK, OperationsFit, [Next]_vars PROVE TypeOK' /\ OperationsFit'
  OBVIOUS
<1>1. /\ xdbCb \in XdbBreaker!Breakers /\ cacheCb \in XdbBreaker!Breakers
      /\ entry \in Versions \cup {None} /\ xdb \in Versions /\ None \in Versions \cup {None}
      /\ xdbHealth \in setting.xdb /\ cacheHealth \in setting.cache
      /\ seen \in [Callers -> Versions \cup {None}]
  BY SameBreakers DEF TypeOK
<1>2. /\ Fits("lookup", "acquire") /\ Fits("store", "acquire")
      /\ Fits("got", "succeeded") /\ Fits("got_error", "failed")
      /\ Fits("stored", "succeeded") /\ Fits("stored", "failed")
      /\ Fits("answered", "succeeded") /\ Fits("answered", "failed")
      /\ \A place \in {"get", "ask", "set", "apply", "idle"} : Fits(place, "none")
  BY DEF Fits, XdbBreaker!Acquiring, XdbBreaker!Recording
<1>3. ASSUME NEW c \in Callers, NEW place \in Places, NEW operation,
             Fits(place, operation), Go(c, place, operation)
      PROVE  GoesOn(c)
  BY <1>3 DEF GoesOn
<1>4. ASSUME NEW c \in Callers, Caller(c) PROVE TypeOK' /\ OperationsFit'
  <2> USE <1>1, <1>2, <1>3 DEF health, data, Places
  <2>1. CASE Sheet(c) \/ Exec(c)
    <3>1. \A place \in {"sheet", "exec"} :
            XdbBreaker!Following(xdbCb, "acquire") # "admitted" =>
              Fits(place, XdbBreaker!Following(xdbCb, "acquire"))
      BY DEF XdbBreaker!Following, XdbBreaker!Admission, XdbBreaker!Breakers, Fits,
             XdbBreaker!Acquiring
    <3>2. GoesOn(c)
      BY <2>1, <3>1 DEF Sheet, Exec, Begin
    <3>3. QED
      BY <2>1, <3>2, TypedStep DEF Sheet, Exec, Begin
  <2>2. CASE Enter(c)
    <3> DEFINE next == XdbBreaker!Following(xdbCb, op[c])
    <3>1. op[c] \in XdbBreaker!Acquiring
      BY <2>2 DEF Enter, OperationsFit, Fits
    <3>2. next \in XdbBreaker!Acquiring \cup {"admitted", "rejected"}
      BY <3>1, OperationsFollow
    <3>3. XdbBreaker!Stored(xdbCb, op[c]) \in XdbBreaker!Breakers
      BY <3>1, OperationsTyped
    <3>4. Inside(c, next) => GoesOn(c)
      BY <2>2, <3>1, <3>2, InsideFits DEF Enter, Inside, XdbBreaker!Outcomes
    <3>5. \/ Inside(c, next)
          \/ Go(c, "lookup", "acquire") \/ Go(c, "apply", "none") \/ Go(c, "idle", "none")
      BY <2>2 DEF Enter
    <3>6. seen' \in [Callers -> Versions \cup {None}]
      BY <2>2 DEF Enter, Inside
    <3>7. QED
      BY <2>2, <3>3, <3>4, <3>5, <3>6, TypedStep DEF Enter
  <2>3. CASE Leave(c)
    <3> DEFINE next == XdbBreaker!Following(xdbCb, op[c])
    <3>1. op[c] \in XdbBreaker!Recording
      BY <2>3 DEF Leave, OperationsFit, Fits
    <3>2. next \in XdbBreaker!Recording \cup {"recorded"}
      BY <3>1, OperationsFollow
    <3>3. XdbBreaker!Stored(xdbCb, op[c]) \in XdbBreaker!Breakers
      BY <3>1, OperationsTyped
    <3>4. Inside(c, next) => GoesOn(c)
      BY <2>3, <3>1, <3>2, InsideFits DEF Leave, Inside, XdbBreaker!Outcomes
    <3>5. \/ Inside(c, next)
          \/ Go(c, "idle", "none")
      BY <2>3 DEF Leave
    <3>6. seen' \in [Callers -> Versions \cup {None}]
      BY <2>3 DEF Leave, Inside
    <3>7. QED
      BY <2>3, <3>3, <3>4, <3>5, <3>6, TypedStep DEF Leave
  <2>4. CASE Lookup(c)
    <3> DEFINE next == CacheBreaker!Following(cacheCb, op[c])
    <3>1. op[c] \in XdbBreaker!Acquiring
      BY <2>4 DEF Lookup, OperationsFit, Fits
    <3>2. next \in XdbBreaker!Acquiring \cup {"admitted", "rejected"}
      BY <3>1, OperationsFollow
    <3>3. CacheBreaker!Stored(cacheCb, op[c]) \in XdbBreaker!Breakers
      BY <3>1, OperationsTyped
    <3>4. Inside(c, next) => GoesOn(c)
      BY <2>4, <3>1, <3>2, InsideFits DEF Lookup, Inside, XdbBreaker!Outcomes
    <3>5. \/ Inside(c, next)
          \/ Go(c, "get", "none") \/ Go(c, "answered", "failed")
      BY <2>4 DEF Lookup, Answer
    <3>6. seen' \in [Callers -> Versions \cup {None}]
      BY <2>4 DEF Lookup, Inside, Answer, See
    <3>7. QED
      BY <2>4, <3>3, <3>4, <3>5, <3>6, TypedStep DEF Lookup
  <2>5. CASE Store(c)
    <3> DEFINE next == CacheBreaker!Following(cacheCb, op[c])
    <3>1. op[c] \in XdbBreaker!Acquiring
      BY <2>5 DEF Store, OperationsFit, Fits
    <3>2. next \in XdbBreaker!Acquiring \cup {"admitted", "rejected"}
      BY <3>1, OperationsFollow
    <3>3. CacheBreaker!Stored(cacheCb, op[c]) \in XdbBreaker!Breakers
      BY <3>1, OperationsTyped
    <3>4. Inside(c, next) => GoesOn(c)
      BY <2>5, <3>1, <3>2, InsideFits DEF Store, Inside, XdbBreaker!Outcomes
    <3>5. \/ Inside(c, next)
          \/ Go(c, "set", "none") \/ Go(c, "answered", "succeeded")
      BY <2>5 DEF Store, Answer
    <3>6. seen' \in [Callers -> Versions \cup {None}]
      BY <2>5 DEF Store, Inside, Answer, See
    <3>7. QED
      BY <2>5, <3>3, <3>4, <3>5, <3>6, TypedStep DEF Store
  <2>6. CASE Got(c)
    <3> DEFINE next == CacheBreaker!Following(cacheCb, op[c])
    <3>1. op[c] \in XdbBreaker!Recording
      BY <2>6 DEF Got, OperationsFit, Fits
    <3>2. next \in XdbBreaker!Recording \cup {"recorded"}
      BY <3>1, OperationsFollow
    <3>3. CacheBreaker!Stored(cacheCb, op[c]) \in XdbBreaker!Breakers
      BY <3>1, OperationsTyped
    <3>4. Inside(c, next) => GoesOn(c)
      BY <2>6, <3>1, <3>2, InsideFits DEF Got, Inside, XdbBreaker!Outcomes
    <3>5. \/ Inside(c, next)
          \/ Go(c, "ask", "none") \/ Go(c, "answered", "succeeded") \/ Go(c, "answered", "failed")
      BY <2>6 DEF Got, Answer
    <3>6. seen' \in [Callers -> Versions \cup {None}]
      BY <2>6 DEF Got, Inside, Answer, See
    <3>7. QED
      BY <2>6, <3>3, <3>4, <3>5, <3>6, TypedStep DEF Got
  <2>7. CASE Stored(c)
    <3> DEFINE next == CacheBreaker!Following(cacheCb, op[c])
    <3>1. op[c] \in XdbBreaker!Recording
      BY <2>7 DEF Stored, OperationsFit, Fits
    <3>2. next \in XdbBreaker!Recording \cup {"recorded"}
      BY <3>1, OperationsFollow
    <3>3. CacheBreaker!Stored(cacheCb, op[c]) \in XdbBreaker!Breakers
      BY <3>1, OperationsTyped
    <3>4. Inside(c, next) => GoesOn(c)
      BY <2>7, <3>1, <3>2, InsideFits DEF Stored, Inside, XdbBreaker!Outcomes
    <3>5. \/ Inside(c, next)
          \/ Go(c, "answered", "succeeded")
      BY <2>7 DEF Stored, Answer
    <3>6. seen' \in [Callers -> Versions \cup {None}]
      BY <2>7 DEF Stored, Inside, Answer, See
    <3>7. QED
      BY <2>7, <3>3, <3>4, <3>5, <3>6, TypedStep DEF Stored
  <2>8. CASE Get(c) \/ Ask(c) \/ Panic(c)
    <3>1. GoesOn(c)
      BY <2>8 DEF Get, Ask, Panic, Answer
    <3>2. QED
      BY <2>8, <3>1, TypedStep DEF Get, Ask, Panic, Answer, See
  <2>9. CASE Set(c)
    <3>1. GoesOn(c)
      BY <2>9 DEF Set
    <3>2. seen[c] \in Versions \cup {None}
      OBVIOUS
    <3>3. QED
      BY <2>9, <3>1, <3>2, TypedStep DEF Set, See
  <2>10. CASE Apply(c)
    <3>1. GoesOn(c)
      BY <2>10 DEF Apply, Answer
    <3>2. QED
      BY <2>10, <3>1, TypedStep DEF Apply, Answer, See
  <2>11. QED
    BY <1>4, <2>1, <2>2, <2>3, <2>4, <2>5, <2>6, <2>7, <2>8, <2>9, <2>10 DEF Caller
<1>5. CASE Expire \/ XdbElapse \/ CacheElapse
  BY <1>1, <1>5, RipeTyped, SameBreakers
     DEF Expire, XdbElapse, CacheElapse, TypeOK, OperationsFit, Fits, health, data, Versions
<1>6. CASE XdbChanges \/ CacheChanges
  BY <1>6 DEF XdbChanges, CacheChanges, TypeOK, OperationsFit, Fits, data, Versions
<1>7. CASE UNCHANGED vars
  BY <1>7 DEF vars, TypeOK, OperationsFit, Fits, Versions
<1>8. QED
  BY <1>4, <1>5, <1>6, <1>7 DEF Next

LEMMA SheetTypedAlways == Spec => [](TypeOK /\ OperationsFit)
<1>1. Init => TypeOK /\ OperationsFit
  BY SheetAssumption
     DEF Init, TypeOK, OperationsFit, Fits, XdbBreaker!NewBreaker, CacheBreaker!NewBreaker,
         XdbBreaker!Breakers, CacheBreaker!Breakers, Setting, Versions, None, Places
<1>2. QED
  BY <1>1, SheetTyped, PTL DEF Spec

\* The sheet, both breakers and every caller stay well formed.
THEOREM SheetTypeCorrect == Spec => []TypeOK
BY SheetTypedAlways, PTL

LEMMA SettingStays == [Next]_vars => setting' = setting
BY DEF Next, vars, health, Caller, Sheet, Exec, Begin, Enter, Leave, Lookup, Get, Got, Ask, Panic,
       Store, Set, Stored, Apply, Expire, XdbElapse, CacheElapse, XdbChanges, CacheChanges

---------------------------------------------------------------------------
(* The cache's breaker *)

LEMMA NestedStopKept == TypeOK /\ NestedStop /\ [Next]_vars => NestedStop'
<1> SUFFICES ASSUME TypeOK, NestedStop, [Next]_vars PROVE NestedStop'
  OBVIOUS
<1> USE SettingStays DEF TypeOK, NestedStop, Go, Answer, Inside
<1>1. ASSUME NEW c \in Callers, Caller(c) PROVE NestedStop'
  <2>1. CASE Sheet(c) \/ Exec(c) \/ Enter(c) \/ Leave(c)
    BY <2>1 DEF Sheet, Exec, Begin, Enter, Leave
  <2>2. CASE Lookup(c) \/ Get(c) \/ Got(c)
    BY <2>2 DEF Lookup, Get, Got
  <2>3. CASE Ask(c) \/ Panic(c) \/ Apply(c)
    BY <2>3 DEF Ask, Panic, Apply
  <2>4. CASE Store(c) \/ Set(c) \/ Stored(c)
    BY <2>4 DEF Store, Set, Stored
  <2>5. QED
    BY <1>1, <2>1, <2>2, <2>3, <2>4 DEF Caller
<1>2. CASE Expire \/ XdbElapse \/ CacheElapse \/ XdbChanges \/ CacheChanges
  BY <1>2 DEF Expire, XdbElapse, CacheElapse, XdbChanges, CacheChanges
<1>3. CASE UNCHANGED vars
  BY <1>3 DEF vars
<1>4. QED
  BY <1>1, <1>2, <1>3 DEF Next

LEMMA SettledFinite ==
  /\ IsFiniteSet(Settled) /\ Cardinality(Settled) \in Nat
  /\ IsFiniteSet(Settled') /\ Cardinality(Settled') \in Nat
<1>1. IsFiniteSet(Callers) /\ Settled \subseteq Callers /\ Settled' \subseteq Callers
  BY SheetAssumption DEF Settled
<1>2. QED
  BY <1>1, FS_Subset, FS_CardinalityType

\* A step that counts nothing forgets no settled caller, unless it resets.
LEMMA SettledGrows ==
  ASSUME Settled \subseteq Settled'
  PROVE  Cardinality(Settled) <= Cardinality(Settled')
BY SettledFinite, FS_Subset

\* A caller whose SETEX Redis refused is not among the settled, who are fewer
\* than the threshold with it.
LEMMA BelowThreshold ==
  ASSUME TypeOK, NestedStop, CacheCalm, SoundCache, Refuses, NEW c \in Callers, at[c] = "stored"
  PROVE  /\ c \in Callers \ setting.nested
         /\ Cardinality(Settled \cup {c}) = Cardinality(Settled) + 1
         /\ cacheCb.failures + 1 <= Cardinality(Settled \cup {c})
         /\ cacheCb.failures + 1 < CacheThreshold
<1>1. cacheCb.failures <= Cardinality(Settled) /\ cacheCb.failures \in Nat
  BY DEF TypeOK, CacheCalm, CacheBreaker!Breakers
<1>2. c \in Callers \ setting.nested /\ c \notin Settled
  BY DEF NestedStop, Settled
<1>3. Cardinality(Settled \cup {c}) = Cardinality(Settled) + 1
  BY <1>2, SettledFinite, FS_AddElement
<1>4. Settled \cup {c} \subseteq Callers \ setting.nested
  BY <1>2 DEF Settled
<1>5. Cardinality(Settled \cup {c}) <= Cardinality(Callers \ setting.nested)
      /\ Cardinality(Callers \ setting.nested) < CacheThreshold
      /\ Cardinality(Callers \ setting.nested) \in Nat
  <2>1. IsFiniteSet(Callers \ setting.nested)
    BY SheetAssumption, FS_Subset
  <2>2. QED
    BY <1>4, <2>1, FS_Subset, FS_CardinalityType DEF SoundCache
<1>6. QED
  BY <1>1, <1>2, <1>3, <1>5, SettledFinite, SheetAssumption

\* The refused SETEX settles its caller, once it is counted.
LEMMA RefusedCounts ==
  ASSUME TypeOK, NestedStop, CacheCalm, SoundCache, Refuses, setting' = setting,
         NEW c \in Callers, at[c] = "stored", at' = [at EXCEPT ![c] = "answered"]
  PROVE  cacheCb.failures + 1 <= Cardinality(Settled')
<1>1. Settled' = Settled \cup {c}
  BY BelowThreshold DEF Settled, TypeOK
<1>2. QED
  BY <1>1, BelowThreshold

LEMMA CacheCalmKept ==
  TypeOK /\ OperationsFit /\ NestedStop /\ CacheCalm /\ [Next]_vars => CacheCalm'
<1> SUFFICES ASSUME TypeOK, OperationsFit, NestedStop, CacheCalm, [Next]_vars PROVE CacheCalm'
  OBVIOUS
<1>1. setting' = setting
  BY SettingStays
<1> SUFFICES ASSUME SoundCache PROVE CacheCalm'
  BY <1>1 DEF CacheCalm, SoundCache, Refuses
<1>2. SoundCache
  OBVIOUS
<1>3. cacheHealth' = "up"
  BY <1>1, <1>2, SheetTyped DEF SoundCache, TypeOK
<1>4. /\ cacheCb \in XdbBreaker!Breakers /\ cacheCb.state = "closed" /\ cacheHealth = "up"
      /\ cacheCb.failures \in Nat
      /\ Refuses => cacheCb.failures <= Cardinality(Settled)
  BY <1>2, SameBreakers DEF CacheCalm, TypeOK, XdbBreaker!Breakers
\* What CacheCalm says of one caller.
<1> DEFINE Calm(place, operation) ==
      /\ place # "got_error"
      /\ place \in {"lookup", "store"} => operation = "acquire"
      /\ place = "got" => operation \in {"succeeded", "reset"}
      /\ place = "stored" =>
           operation \in IF Refuses THEN {"failed", "count"} ELSE {"succeeded", "reset"}
<1>5. \A c \in Callers : Calm(at[c], op[c])
  BY <1>2 DEF CacheCalm
<1>6. ASSUME cacheCb'.state = "closed", \A c \in Callers : Calm(at'[c], op'[c]),
             Refuses => cacheCb'.failures <= Cardinality(Settled')
      PROVE  CacheCalm'
  BY <1>1, <1>3, <1>6 DEF CacheCalm, Refuses
<1>7. ASSUME cacheCb'.state = "closed", cacheCb'.failures = cacheCb.failures,
             \A c \in Callers : Calm(at'[c], op'[c]), Refuses => Settled \subseteq Settled'
      PROVE  CacheCalm'
  BY <1>4, <1>6, <1>7, SettledGrows, SettledFinite
<1>8. ASSUME cacheCb'.state = "closed", cacheCb'.failures = 0,
             \A c \in Callers : Calm(at'[c], op'[c])
      PROVE  CacheCalm'
  BY <1>6, <1>8, SettledFinite
<1>9. ASSUME NEW c \in Callers, NEW place, NEW operation, Go(c, place, operation),
             Calm(place, operation)
      PROVE  \A d \in Callers : Calm(at'[d], op'[d])
  BY <1>5, <1>9 DEF TypeOK, Go
<1>10. ASSUME NEW c \in Callers, NEW place, NEW operation, Go(c, place, operation),
              at[c] \in {"ask", "store", "set", "stored"}
                \/ place \notin {"ask", "store", "set", "stored"}
       PROVE  Settled \subseteq Settled'
  BY <1>1, <1>10 DEF Settled, TypeOK, Go
<1>11. ASSUME NEW c \in Callers, Caller(c) PROVE CacheCalm'
  <2>1. CASE Sheet(c) \/ Exec(c)
    BY <2>1, <1>4, <1>7, <1>9, <1>10 DEF Sheet, Exec, Begin
  <2>2. CASE Enter(c) \/ Leave(c)
    BY <2>2, <1>4, <1>5, <1>7, <1>9, <1>10, <1>1 DEF Enter, Leave, Inside, Settled, TypeOK
  <2>3. CASE Lookup(c)
    <3>1. op[c] = "acquire"
      BY <2>3, <1>5 DEF Lookup
    <3>2. Go(c, "get", "none") /\ cacheCb' = cacheCb
      BY <2>3, <3>1, <1>4, ClosedStays DEF Lookup, Inside, XdbBreaker!Outcomes
    <3>3. QED
      BY <2>3, <3>2, <1>4, <1>7, <1>9, <1>10
  <2>4. CASE Get(c)
    BY <2>4, <1>4, <1>7, <1>9, <1>10 DEF Get
  <2>5. CASE Got(c)
    <3>1. at[c] = "got" /\ op[c] \in {"succeeded", "reset"}
      BY <2>5, <1>5 DEF Got
    <3>2. CASE CacheBreaker!Following(cacheCb, op[c]) = "reset"
      <4>1. Inside(c, "reset") /\ cacheCb' = cacheCb
        BY <2>5, <3>1, <3>2, <1>4, SuccessKeepsClosed DEF Got
      <4>2. Go(c, "got", "reset")
        BY <3>1, <4>1 DEF Inside, Go, TypeOK
      <4>3. QED
        BY <4>1, <4>2, <1>4, <1>7, <1>9, <1>10
    <3>3. CASE CacheBreaker!Following(cacheCb, op[c]) = "recorded"
      <4>1. cacheCb'.state = "closed" /\ cacheCb'.failures = 0
        BY <2>5, <3>1, <3>3, <1>4, SuccessKeepsClosed DEF Got
      <4>2. Go(c, "ask", "none") \/ Go(c, "answered", "succeeded")
        BY <2>5, <3>1, <3>3 DEF Got, Inside, Answer, XdbBreaker!Outcomes
      <4>3. QED
        BY <4>1, <4>2, <1>8, <1>9
    <3>4. QED
      BY <3>1, <3>2, <3>3, <1>4, SuccessKeepsClosed
  <2>6. CASE Ask(c) \/ Panic(c)
    BY <2>6, <1>4, <1>7, <1>9, <1>10 DEF Ask, Panic, Answer
  <2>7. CASE Store(c)
    <3>1. op[c] = "acquire" /\ at[c] = "store"
      BY <2>7, <1>5 DEF Store
    <3>2. Go(c, "set", "none") /\ cacheCb' = cacheCb
      BY <2>7, <3>1, <1>4, ClosedStays DEF Store, Inside, XdbBreaker!Outcomes
    <3>3. QED
      BY <3>1, <3>2, <1>4, <1>7, <1>9, <1>10
  <2>8. CASE Set(c)
    <3>1. at[c] = "set" /\ cacheCb' = cacheCb
          /\ Go(c, "stored", IF Refuses THEN "failed" ELSE "succeeded")
      BY <2>8, <1>4 DEF Set, Refuses
    <3>2. QED
      BY <3>1, <1>4, <1>7, <1>9, <1>10
  <2>9. CASE Stored(c) /\ ~Refuses
    <3>1. at[c] = "stored" /\ op[c] \in {"succeeded", "reset"}
      BY <2>9, <1>5 DEF Stored
    <3>2. cacheCb'.state = "closed"
      BY <2>9, <3>1, <1>4, SuccessKeepsClosed DEF Stored
    <3>3. Go(c, "stored", "reset") \/ Go(c, "answered", "succeeded")
      BY <2>9, <3>1, <1>4, SuccessKeepsClosed DEF Stored, Inside, Answer, Go, TypeOK, XdbBreaker!Outcomes
    <3>4. \A d \in Callers : Calm(at'[d], op'[d])
      BY <2>9, <3>3, <1>9
    <3>5. QED
      BY <2>9, <3>2, <3>4, <1>6
  <2>10. CASE Stored(c) /\ Refuses
    <3>1. at[c] = "stored" /\ op[c] \in {"failed", "count"}
      BY <2>10, <1>5 DEF Stored
    <3>2. CASE op[c] = "failed"
      <4>1. Inside(c, "count") /\ cacheCb' = cacheCb
        BY <2>10, <3>2, <1>4, ClosedStays DEF Stored
      <4>2. Go(c, "stored", "count")
        BY <3>1, <4>1 DEF Inside, Go, TypeOK
      <4>3. QED
        BY <2>10, <3>1, <4>1, <4>2, <1>4, <1>7, <1>9, <1>10
    <3>3. CASE op[c] = "count"
      <4>1. cacheCb'.state = "closed" /\ cacheCb'.failures = cacheCb.failures + 1
        BY <2>10, <3>3, <1>4, ClosedStays DEF Stored
      <4>2. Inside(c, CacheBreaker!Following(cacheCb, "count")) \/ Go(c, "answered", "succeeded")
        BY <2>10, <3>3 DEF Stored, Answer
      <4>3. cacheCb.failures + 1 < CacheThreshold
        BY <2>10, <3>1, <1>1, <1>2, BelowThreshold
      <4>4. Go(c, "answered", "succeeded")
        BY <4>2, <4>3, <1>4, ClosedStays DEF Inside, XdbBreaker!Outcomes
      <4>5. cacheCb.failures + 1 <= Cardinality(Settled')
        BY <2>10, <3>1, <4>4, <1>1, <1>2, RefusedCounts DEF Go
      <4>6. \A d \in Callers : Calm(at'[d], op'[d])
        BY <4>4, <1>9
      <4>7. QED
        BY <4>1, <4>5, <4>6, <1>6
    <3>4. QED
      BY <3>1, <3>2, <3>3
  <2>11. CASE Apply(c)
    BY <2>11, <1>4, <1>7, <1>9, <1>10 DEF Apply, Answer
  <2>12. QED
    BY <1>11, <2>1, <2>2, <2>3, <2>4, <2>5, <2>6, <2>7, <2>8, <2>9, <2>10, <2>11 DEF Caller
<1>12. ASSUME UNCHANGED <<at, op>>, cacheCb'.state = cacheCb.state,
              cacheCb'.failures = cacheCb.failures
       PROVE  CacheCalm'
  BY <1>1, <1>4, <1>5, <1>7, <1>12 DEF Settled
<1>13. CASE Expire \/ XdbElapse \/ XdbChanges \/ CacheChanges
  BY <1>12, <1>13 DEF Expire, XdbElapse, XdbChanges, CacheChanges
<1>14. CASE CacheElapse
  BY <1>4, <1>12, <1>14, RipeTyped DEF CacheElapse
<1>15. CASE UNCHANGED vars
  BY <1>12, <1>15 DEF vars
<1>16. QED
  BY <1>11, <1>13, <1>14, <1>15 DEF Next

---------------------------------------------------------------------------
(* XDB's breaker *)

LEMMA XdbCalmKept ==
  TypeOK /\ CacheCalm /\ XdbCalm /\ [Next]_vars => XdbCalm'
<1> SUFFICES ASSUME TypeOK, CacheCalm, XdbCalm, [Next]_vars PROVE XdbCalm'
  OBVIOUS
<1>1. setting' = setting
  BY SettingStays
<1> SUFFICES ASSUME SoundCache, "down" \notin setting.xdb PROVE XdbCalm'
  BY <1>1 DEF XdbCalm, SoundCache, Refuses
\* What XdbCalm says of one caller.
<1> DEFINE Calm(place, operation) ==
      place \notin {"sheet", "exec"} /\ (place = "answered" => operation \in {"succeeded", "reset"})
<1>2. /\ xdbCb \in XdbBreaker!Breakers /\ xdbCb.state = "closed"
      /\ cacheCb \in XdbBreaker!Breakers /\ cacheCb.state = "closed"
      /\ xdbHealth # "down"
      /\ \A c \in Callers :
           /\ at[c] # "got_error" /\ Calm(at[c], op[c])
           /\ at[c] \in {"lookup", "store"} => op[c] = "acquire"
  BY SameBreakers DEF TypeOK, CacheCalm, XdbCalm
<1>3. xdbCb'.state = "closed" /\ (\A c \in Callers : Calm(at'[c], op'[c])) => XdbCalm'
  BY DEF XdbCalm
<1>4. ASSUME NEW c \in Callers, NEW place, NEW operation, Go(c, place, operation),
             Calm(place, operation)
      PROVE  \A d \in Callers : Calm(at'[d], op'[d])
  BY <1>2, <1>4 DEF TypeOK, Go
<1>5. ASSUME NEW c \in Callers, NEW operation, Inside(c, operation), at[c] # "answered"
      PROVE  \A d \in Callers : Calm(at'[d], op'[d])
  BY <1>2, <1>5 DEF TypeOK, Inside
<1>6. ASSUME NEW c \in Callers, Caller(c) PROVE XdbCalm'
  <2>1. CASE Sheet(c) \/ Exec(c)
    BY <2>1, <1>2, <1>3, <1>4, ClosedStays DEF Sheet, Exec, Begin
  <2>2. CASE Enter(c)
    BY <2>2, <1>2 DEF Enter
  <2>3. CASE Leave(c)
    <3>1. at[c] = "answered" /\ op[c] \in {"succeeded", "reset"}
      BY <2>3, <1>2 DEF Leave
    <3>2. /\ xdbCb'.state = "closed"
          /\ XdbBreaker!Following(xdbCb, op[c]) \in {"reset", "recorded"}
      BY <2>3, <3>1, <1>2, SuccessKeepsClosed DEF Leave
    <3>3. Go(c, "answered", "reset") \/ Go(c, "idle", "none")
      BY <2>3, <3>1, <3>2 DEF Leave, Inside, Go, TypeOK, XdbBreaker!Outcomes
    <3>4. QED
      BY <3>2, <3>3, <1>3, <1>4
  <2>4. CASE Lookup(c) \/ Store(c)
    <3>1. at[c] \in {"lookup", "store"} /\ op[c] = "acquire"
      BY <2>4, <1>2 DEF Lookup, Store
    <3>2. Go(c, "get", "none") \/ Go(c, "set", "none")
      BY <2>4, <3>1, <1>2, ClosedStays DEF Lookup, Store, Inside, XdbBreaker!Outcomes
    <3>3. xdbCb' = xdbCb
      BY <2>4 DEF Lookup, Store
    <3>4. QED
      BY <3>2, <3>3, <1>2, <1>3, <1>4
  <2>5. CASE Get(c) \/ Set(c)
    BY <2>5, <1>2, <1>3, <1>4 DEF Get, Set
  <2>6. CASE Got(c)
    <3>1. at[c] = "got" /\ xdbCb' = xdbCb
      BY <2>6, <1>2 DEF Got
    <3>2. \/ Inside(c, CacheBreaker!Following(cacheCb, op[c]))
          \/ Go(c, "ask", "none") \/ Go(c, "answered", "succeeded")
      BY <2>6, <3>1 DEF Got, Answer
    <3>3. QED
      BY <3>1, <3>2, <1>2, <1>3, <1>4, <1>5
  <2>7. CASE Stored(c)
    <3>1. at[c] = "stored" /\ xdbCb' = xdbCb
      BY <2>7 DEF Stored
    <3>2. \/ Inside(c, CacheBreaker!Following(cacheCb, op[c]))
          \/ Go(c, "answered", "succeeded")
      BY <2>7 DEF Stored, Answer
    <3>3. QED
      BY <3>1, <3>2, <1>2, <1>3, <1>4, <1>5
  <2>8. CASE Ask(c) \/ Panic(c) \/ Apply(c)
    BY <2>8, <1>2, <1>3, <1>4 DEF Ask, Panic, Apply, Answer
  <2>9. QED
    BY <1>6, <2>1, <2>2, <2>3, <2>4, <2>5, <2>6, <2>7, <2>8 DEF Caller
<1>7. ASSUME xdbCb'.state = xdbCb.state, UNCHANGED <<at, op>> PROVE XdbCalm'
  BY <1>2, <1>3, <1>7
<1>8. CASE XdbElapse
  BY <1>2, <1>7, <1>8, RipeTyped DEF XdbElapse
<1>9. CASE Expire \/ CacheElapse \/ XdbChanges \/ CacheChanges
  BY <1>7, <1>9 DEF Expire, CacheElapse, XdbChanges, CacheChanges
<1>10. CASE UNCHANGED vars
  BY <1>7, <1>10 DEF vars
<1>11. QED
  BY <1>6, <1>8, <1>9, <1>10 DEF Next

LEMMA SheetInvariant == Spec => []SheetInv
<1>1. Init => NestedStop /\ CacheCalm /\ XdbCalm
  <2> SUFFICES ASSUME Init PROVE NestedStop /\ CacheCalm /\ XdbCalm
    OBVIOUS
  <2>1. \A c \in Callers : at[c] = "idle"
    BY DEF Init
  <2>2. xdbCb.state = "closed" /\ cacheCb.state = "closed" /\ cacheCb.failures = 0
        /\ cacheHealth = "up"
    BY DEF Init, XdbBreaker!NewBreaker, CacheBreaker!NewBreaker
  <2>3. 0 <= Cardinality(Settled)
    BY SettledFinite
  <2>4. QED
    BY <2>1, <2>2, <2>3 DEF NestedStop, CacheCalm, XdbCalm
<1>2. QED
  BY <1>1, SheetTypedAlways, NestedStopKept, CacheCalmKept, XdbCalmKept, PTL DEF Spec, SheetInv

\* Over a sound cache XDB's circuit stays closed as long as XDB answers,
\* whatever it answers, and whatever its callers and the cache's ttl do.
THEOREM XdbOpensOnXdbFailuresAlways == Spec => []XdbOpensOnXdbFailures
<1>1. SheetInv => XdbOpensOnXdbFailures
  BY DEF SheetInv, XdbCalm, XdbOpensOnXdbFailures
<1>2. QED
  BY <1>1, SheetInvariant, PTL

\* Fewer callers than the threshold cannot trip the cache's breaker by a ttl of
\* 0: each of them succeeds with a get before it fails again.
THEOREM ZeroTtlAlwaysForgiven == Spec => []ZeroTtlForgiven
<1>1. SheetInv => ZeroTtlForgiven
  BY DEF SheetInv, CacheCalm, ZeroTtlForgiven
<1>2. QED
  BY <1>1, SheetInvariant, PTL

=============================================================================
