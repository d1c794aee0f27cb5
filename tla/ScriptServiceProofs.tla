------------------------ MODULE ScriptServiceProofs ------------------------
(***************************************************************************)
(* What the script service keeps for every set of requests, scripts,       *)
(* adapters and settings.                                                  *)
(***************************************************************************)
EXTENDS ScriptService, FiniteSetTheorems, TLAPS

USE DEF Working, Up

LEMMA FirstRefuses ==
  ASSUME NEW S \in SUBSET {401, 400, 403, 404}, S # {}
  PROVE  First(S) \in {401, 400, 403, 404}
BY DEF First

LEMMA Refusing ==
  ASSUME NEW a, Refusals(a) # {}
  PROVE  First(Refusals(a)) \in {401, 400, 403, 404}
<1>1. Refusals(a) \in SUBSET {401, 400, 403, 404}
  BY DEF Refusals, Unauthorized, Unreadable, NotAllowed, NotFound
<1>2. QED
  BY <1>1, FirstRefuses

LEMMA ServiceTyped == TypeOK /\ [Next]_vars => TypeOK'
<1> SUFFICES ASSUME TypeOK, [Next]_vars PROVE TypeOK'
  OBVIOUS
<1> USE DEF TypeOK, process, running, Reply, Left
<1>1. CASE Boot
  <2>1. PICK events \in EventPublisher : ports' = {"cache"} \cup setting.env \cup events
    BY <1>1 DEF Boot
  <2>2. events \subseteq {"events"}
    BY <2>1 DEF EventPublisher
  <2>3. setting.env \subseteq {"abc", "store", "lambda", "email"}
    BY ServiceAssumption
  <2>4. ports' \subseteq Adapters /\ ports' # Down
    BY <2>1, <2>2, <2>3 DEF Adapters, Down
  <2>5. UNCHANGED <<setting, deaf, poisoned, files, ask, at, running, answer>>
    BY <1>1 DEF Boot
  <2>6. QED
    BY <2>4, <2>5
<1>2. CASE Crash
  <2>1. \A r \in Requests : at'[r] \in {"new", "done", "lost"} /\ thread'[r] = "none"
    BY <1>2 DEF Crash, Abandoned
  <2>2. at' \in [Requests -> {"new", "done", "lost"}]
    BY <1>2, <2>1 DEF Crash, Abandoned
  <2>3. /\ ports' = {} /\ deaf' = FALSE /\ poisoned' = FALSE
        /\ thread' = [r \in Requests |-> "none"]
        /\ UNCHANGED <<setting, files, ask, step, answer, calls>>
    BY <1>2 DEF Crash, Down
  <2>4. thread' \in [Requests -> {"none", "running", "ok", "err", "dropped"}]
    BY <2>3
  <2>5. \A r \in Requests : at'[r] \notin Working /\ at'[r] # "receiving"
    BY <2>1
  <2>6. at' \in [Requests -> Working \cup {"new", "done", "lost"}]
    BY <2>2
  <2>7. QED
    BY <2>1, <2>3, <2>4, <2>5, <2>6
<1>3. ASSUME NEW s \in Scripts \ Malformed, Deploy(s) PROVE TypeOK'
  BY <1>3 DEF Deploy
<1>4. ASSUME NEW r \in Requests, Arrive(r) PROVE TypeOK'
  BY <1>4 DEF Arrive
<1>5. ASSUME NEW r \in Requests, Check(r) PROVE TypeOK'
  <2>1. CASE Refusals(ask[r]) = {}
    BY <1>5, <2>1 DEF Check
  <2>2. CASE Refusals(ask[r]) # {}
    <3> DEFINE f == First(Refusals(ask[r]))
    <3>1. f \in {401, 400, 403, 404}
      BY <2>2, Refusing
    <3> HIDE DEF f
    <3>2. Reply(r, f) /\ UNCHANGED <<process, files, ask, running>> /\ at[r] = "checking"
      BY <1>5, <2>2 DEF Check, f
    <3>3. QED
      BY <3>1, <3>2
  <2>3. QED
    BY <2>1, <2>2
<1>6. ASSUME NEW r \in Requests, Read(r) PROVE TypeOK'
  BY <1>6 DEF Read
<1>7. ASSUME NEW r \in Requests, Receive(r) PROVE TypeOK'
  <2>1. PICK status \in {200, 500} : Reply(r, status)
    BY <1>7, ZenonT(30) DEF Receive
  <2>2. QED
    BY <1>7, <2>1 DEF Receive
<1>8. ASSUME NEW r \in Requests, Report(r) \/ ReportPanics(r) PROVE TypeOK'
  <2>1. deaf' \in BOOLEAN /\ poisoned' \in BOOLEAN
    BY <1>8 DEF Report, ReportPanics
  <2>2. UNCHANGED <<setting, ports, files, ask, running, answer>> /\ at[r] = "reporting"
    BY <1>8 DEF Report, ReportPanics
  <2>3. \E end \in {"done", "lost"} : at' = [at EXCEPT ![r] = end]
    BY <1>8 DEF Report, ReportPanics
  <2>4. QED
    BY <2>1, <2>2, <2>3
<1>9. ASSUME NEW r \in Requests, Call(r) PROVE TypeOK'
  BY <1>9 DEF Call
<1>10. ASSUME NEW r \in Requests, Panic(r) \/ Throw(r) \/ End(r) PROVE TypeOK'
  BY <1>10 DEF Panic, Throw, End
<1>11. CASE UNCHANGED vars
  BY <1>11 DEF vars
<1>12. QED
  BY <1>1, <1>2, <1>3, <1>4, <1>5, <1>6, <1>7, <1>8, <1>9, <1>10, <1>11
     DEF Next, Handler, Thread

LEMMA ServiceStarts == Init => TypeOK
<1> SUFFICES ASSUME Init PROVE TypeOK
  OBVIOUS
<1>1. \A r \in Requests : at[r] = "new" /\ thread[r] = "none"
  BY DEF Init
<1>2. setting \in Settings /\ ports = Down /\ deaf = FALSE /\ poisoned = FALSE
  BY DEF Init
<1>3. files \subseteq Scripts \ Malformed
  BY DEF Init
<1>4. /\ ask \in [Requests -> Asks \cup {NoAsk}]
      /\ at \in [Requests -> Working \cup {"new", "done", "lost"}]
  BY DEF Init
<1>5. /\ thread \in [Requests -> {"none", "running", "ok", "err", "dropped"}]
      /\ step \in [Requests -> Nat] /\ calls \in [Requests -> Nat]
      /\ answer \in [Requests -> {0, 200, 400, 401, 403, 404, 500}]
  BY DEF Init
<1>6. QED
  BY <1>1, <1>2, <1>3, <1>4, <1>5 DEF TypeOK, Down

\* Requests, threads and answers stay well formed; in particular a script's
\* thread lives exactly as long as its handler waits on the channel.
THEOREM ServiceTypeCorrect == Spec => []TypeOK
<1>1. QED
  BY ServiceStarts, ServiceTyped, PTL DEF Spec

---------------------------------------------------------------------------
(* The requests, seen from ScriptRuns *)

\* Only a permitted request gets past its checks, and a script has a next call
\* from the moment its file was read.
Admitted ==
  \A r \in Requests :
    /\ at[r] \in Working => ask[r] # NoAsk
    /\ at[r] \in {"reading", "receiving"} => Permitted(r)
    /\ at[r] \in {"new", "checking", "reading"} => step[r] = 0
    /\ at[r] = "receiving" => step[r] > 0
    /\ at[r] = "reporting" =>
         \/ answer[r] \in {400, 401, 403, 404} /\ step[r] = 0
         \/ answer[r] = 500
         \/ answer[r] = 200 /\ step[r] > 0

LEMMA AskIsSomebody == \A a \in Asks : a # NoAsk
<1>1. \A a \in Asks : a.from \in {"http", "command"}
  BY ServiceAssumption
<1>2. QED
  BY <1>1 DEF NoAsk

LEMMA NoRefusal ==
  ASSUME NEW r \in Requests, ask[r] # NoAsk, Refusals(ask[r]) = {}
  PROVE  Permitted(r)
<1>1. \A s \in {401, 403, 404} : s \notin Refusals(ask[r])
  OBVIOUS
<1>2. QED
  BY <1>1 DEF Refusals, Unauthorized, Unreadable, NotAllowed, NotFound, Permitted

LEMMA AdmittedKept == TypeOK /\ Admitted /\ [Next]_vars => Admitted'
<1> SUFFICES ASSUME TypeOK, Admitted, [Next]_vars PROVE Admitted'
  OBVIOUS
<1> USE DEF TypeOK, process, running, Reply, Left
<1>1. ASSUME NEW q \in Requests, ask'[q] = ask[q], setting' = setting
      PROVE  Permitted(q)' <=> Permitted(q)
  BY <1>1 DEF Permitted
<1>2. ASSUME ask' = ask, setting' = setting, step' = step, answer' = answer,
             \A q \in Requests : at'[q] = at[q] \/ at'[q] \in {"done", "lost"}
      PROVE  Admitted'
  BY <1>1, <1>2 DEF Admitted
<1>3. CASE Boot \/ UNCHANGED vars \/ \E s \in Scripts \ Malformed : Deploy(s)
  BY <1>2, <1>3 DEF Boot, Deploy, vars
<1>4. CASE Crash
  BY <1>2, <1>4 DEF Crash, Abandoned
<1>5. ASSUME NEW r \in Requests, Arrive(r) PROVE Admitted'
  BY <1>1, <1>5, AskIsSomebody DEF Arrive, Admitted
<1>6. ASSUME NEW r \in Requests, Check(r) PROVE Admitted'
  <2>1. CASE Refusals(ask[r]) = {}
    BY <1>1, <1>6, <2>1, NoRefusal DEF Check, Admitted
  <2>2. CASE Refusals(ask[r]) # {}
    <3> DEFINE f == First(Refusals(ask[r]))
    <3>1. f \in {401, 400, 403, 404}
      BY <2>2, Refusing
    <3> HIDE DEF f
    <3>2. Reply(r, f) /\ UNCHANGED <<process, files, ask, running>> /\ at[r] = "checking"
      BY <1>6, <2>2 DEF Check, f
    <3>3. QED
      BY <1>1, <3>1, <3>2 DEF Admitted
  <2>3. QED
    BY <2>1, <2>2
<1>7. ASSUME NEW r \in Requests, Read(r) PROVE Admitted'
  BY <1>1, <1>7 DEF Read, Admitted
<1>8. ASSUME NEW r \in Requests, Receive(r) PROVE Admitted'
  <2>1. PICK status \in {200, 500} : Reply(r, status)
    BY <1>8, ZenonT(30) DEF Receive
  <2>2. QED
    BY <1>1, <1>8, <2>1 DEF Receive, Admitted
<1>9. ASSUME NEW r \in Requests, Report(r) \/ ReportPanics(r) PROVE Admitted'
  BY <1>2, <1>9 DEF Report, ReportPanics
<1>10. ASSUME NEW r \in Requests, Call(r) PROVE Admitted'
  BY <1>1, <1>10 DEF Call, Admitted
<1>11. ASSUME NEW r \in Requests, Panic(r) \/ Throw(r) \/ End(r) PROVE Admitted'
  BY <1>2, <1>11 DEF Panic, Throw, End
<1>12. QED
  BY <1>3, <1>4, <1>5, <1>6, <1>7, <1>8, <1>9, <1>10, <1>11 DEF Next, Handler, Thread

LEMMA ServiceInvariant == Spec => [](TypeOK /\ Admitted)
<1>1. Init => TypeOK /\ Admitted
  <2>1. Init => TypeOK
    BY ServiceStarts
  <2>2. Init => Admitted
    BY DEF Init, Admitted
  <2>3. QED
    BY <2>1, <2>2
<1>2. QED
  BY <1>1, ServiceTyped, AdmittedKept, PTL DEF Spec

Permits == [r \in Requests |-> Permitted(r)]
Verdicts == [r \in Requests |-> VerdictOf(r)]
RunMap == [r \in Requests |-> RunOf(r)]

LEMMA VerdictOfPlace ==
  ASSUME NEW place, NEW status
  PROVE  /\ place \in Working => Verdict(place, status) = "waiting"
         /\ place \in {"new", "lost"} => Verdict(place, status) = place
         /\ place = "done" /\ status = 200 => Verdict(place, status) = "completed"
         /\ place = "done" /\ status = 500 => Verdict(place, status) = "failed"
         /\ place = "done" /\ status \notin {200, 500} => Verdict(place, status) = "refused"
<1>1. CASE place = "done"
  BY <1>1 DEF Verdict
<1>2. CASE place \in Working
  BY <1>2 DEF Verdict
<1>3. CASE place \in {"new", "lost"}
  BY <1>3 DEF Verdict
<1>4. QED
  BY <1>1, <1>2, <1>3

LEMMA RunOfPlace ==
  ASSUME NEW place, NEW status, NEW left, NEW next \in Nat
  PROVE  /\ place \notin {"receiving", "reporting"} => Run(place, status, left, next) = "none"
         /\ place = "receiving" =>
              /\ left = "running" => Run(place, status, left, next) = "running"
              /\ left = "ok" => Run(place, status, left, next) = "ended"
              /\ left \notin {"running", "ok"} => Run(place, status, left, next) = "broken"
         /\ place = "reporting" =>
              /\ next > 0 /\ status = 200 => Run(place, status, left, next) = "ended"
              /\ next > 0 /\ status # 200 => Run(place, status, left, next) = "broken"
              /\ next = 0 => Run(place, status, left, next) = "none"
<1>1. CASE place = "receiving"
  BY <1>1 DEF Run
<1>2. CASE place = "reporting"
  <2>1. CASE next = 0
    BY <1>2, <2>1 DEF Run
  <2>2. CASE next > 0
    BY <1>2, <2>2 DEF Run
  <2>3. QED
    BY <1>2, <2>1, <2>2
<1>3. CASE place \notin {"receiving", "reporting"}
  <2>1. place # "receiving" /\ place # "reporting"
    BY <1>3
  <2>2. Run(place, status, left, next) = "none"
    BY <2>1 DEF Run
  <2>3. QED
    BY <2>1, <2>2
<1>4. QED
  BY <1>1, <1>2, <1>3

\* A step of r shows nowhere else.
LEMMA OneRequest ==
  ASSUME NEW r \in Requests, setting' = setting,
         \A q \in Requests \ {r} :
           /\ ask'[q] = ask[q] /\ at'[q] = at[q] /\ answer'[q] = answer[q]
           /\ thread'[q] = thread[q] /\ step'[q] = step[q]
  PROVE  /\ Verdicts' = [Verdicts EXCEPT ![r] = VerdictOf(r)']
         /\ RunMap' = [RunMap EXCEPT ![r] = RunOf(r)']
         /\ Permits' = [Permits EXCEPT ![r] = Permitted(r)']
<1>1. \A q \in Requests \ {r} : VerdictOf(q)' = VerdictOf(q)
  BY DEF VerdictOf
<1>2. \A q \in Requests \ {r} : RunOf(q)' = RunOf(q)
  BY DEF RunOf
<1>3. \A q \in Requests \ {r} : Permitted(q)' = Permitted(q)
  BY DEF Permitted
<1>4. Verdicts' = [Verdicts EXCEPT ![r] = VerdictOf(r)']
  BY <1>1 DEF Verdicts
<1>5. RunMap' = [RunMap EXCEPT ![r] = RunOf(r)']
  BY <1>2 DEF RunMap
<1>6. Permits' = [Permits EXCEPT ![r] = Permitted(r)']
  BY <1>3 DEF Permits
<1>7. QED
  BY <1>4, <1>5, <1>6

\* A step that leaves the views of all requests but r as they are is a stutter or
\* a step of ScriptRuns, as its effect on r shows.
LEMMA ServiceStepRefines ==
  ASSUME TypeOK, TypeOK', Admitted, [Next]_vars
  PROVE  Runs!Next \/ UNCHANGED Runs!vars
<1> USE DEF process, running, Reply, Left
<1>0. /\ Permits \in [Requests -> BOOLEAN]
      /\ DOMAIN Verdicts = Requests /\ DOMAIN RunMap = Requests
      /\ \A r \in Requests : Verdicts[r] = VerdictOf(r) /\ RunMap[r] = RunOf(r)
      /\ \A r \in Requests : Permits[r] = Permitted(r)
  BY DEF Permits, Verdicts, RunMap, Permitted
<1>1. Permits' = Permits /\ Verdicts' = Verdicts /\ RunMap' = RunMap /\ calls' = calls
        => UNCHANGED Runs!vars
  BY DEF Runs!vars, Permits, Verdicts, RunMap
<1>2. ASSUME setting' = setting, ask' = ask, at' = at, answer' = answer,
             thread' = thread, step' = step, calls' = calls
      PROVE  UNCHANGED Runs!vars
  <2>1. \A r \in Requests : VerdictOf(r)' = VerdictOf(r) /\ RunOf(r)' = RunOf(r)
    BY <1>2 DEF VerdictOf, RunOf
  <2>2. \A r \in Requests : Permitted(r)' = Permitted(r)
    BY <1>2 DEF Permitted
  <2>3. Verdicts' = Verdicts /\ RunMap' = RunMap
    BY <2>1 DEF Verdicts, RunMap
  <2>4. Permits' = Permits
    BY <2>2 DEF Permits
  <2>5. QED
    BY <1>1, <1>2, <2>3, <2>4
<1>3. CASE Boot \/ UNCHANGED vars \/ \E s \in Scripts \ Malformed : Deploy(s)
  BY <1>2, <1>3 DEF Boot, Deploy, vars
<1>4. ASSUME NEW r \in Requests, setting' = setting,
             \A q \in Requests \ {r} :
               /\ ask'[q] = ask[q] /\ at'[q] = at[q] /\ answer'[q] = answer[q]
               /\ thread'[q] = thread[q] /\ step'[q] = step[q],
             VerdictOf(r)' = VerdictOf(r), RunOf(r)' = RunOf(r),
             ask'[r] = ask[r], calls' = calls
      PROVE  UNCHANGED Runs!vars
  <2>1. \A q \in Requests : VerdictOf(q)' = VerdictOf(q) /\ RunOf(q)' = RunOf(q)
    <3>1. \A q \in Requests \ {r} : VerdictOf(q)' = VerdictOf(q) /\ RunOf(q)' = RunOf(q)
      BY <1>4 DEF VerdictOf, RunOf
    <3>2. QED
      BY <1>4, <3>1
  <2>2. \A q \in Requests : Permitted(q)' = Permitted(q)
    BY <1>4 DEF Permitted
  <2>3. Verdicts' = Verdicts /\ RunMap' = RunMap
    BY <2>1 DEF Verdicts, RunMap
  <2>4. Permits' = Permits
    BY <2>2 DEF Permits
  <2>5. QED
    BY <1>1, <1>4, <2>3, <2>4
<1>5. ASSUME NEW r \in Requests, Arrive(r) PROVE Runs!Next
  <2>1. VerdictOf(r) = "new" /\ VerdictOf(r)' = "waiting"
    BY <1>5, VerdictOfPlace DEF Arrive, TypeOK, VerdictOf
  <2>2. RunOf(r) = "none" /\ RunOf(r)' = "none"
    BY <1>5, RunOfPlace DEF Arrive, TypeOK, RunOf
  <2>3. /\ Verdicts' = [Verdicts EXCEPT ![r] = "waiting"]
        /\ RunMap' = [RunMap EXCEPT ![r] = "none"]
        /\ Permits' = [Permits EXCEPT ![r] = Permitted(r)']
    BY <1>5, <2>1, <2>2, OneRequest DEF Arrive, TypeOK
  <2>4. RunMap' = RunMap
    BY <1>0, <2>2, <2>3 DEF RunMap
  <2>5. Permitted(r)' \in BOOLEAN
    BY DEF Permitted
  <2>6. Runs!Ask(r)
    BY <1>0, <1>5, <2>1, <2>3, <2>4, <2>5 DEF Runs!Ask, Arrive, Permits, Verdicts, RunMap
  <2>7. QED
    BY <2>6 DEF Runs!Next
<1>6. ASSUME NEW r \in Requests, setting' = setting, calls' = calls, ask' = ask,
             \A q \in Requests \ {r} :
               /\ at'[q] = at[q] /\ answer'[q] = answer[q]
               /\ thread'[q] = thread[q] /\ step'[q] = step[q],
             VerdictOf(r) = "waiting", RunOf(r)' = "none",
             \/ RunOf(r) = "none" /\ VerdictOf(r)' = "refused"
             \/ RunOf(r) = "ended" /\ VerdictOf(r)' = "completed"
             \/ RunOf(r) \in {"none", "broken"} /\ VerdictOf(r)' = "failed"
      PROVE  Runs!Next
  <2>1. /\ Verdicts' = [Verdicts EXCEPT ![r] = VerdictOf(r)']
        /\ RunMap' = [RunMap EXCEPT ![r] = RunOf(r)']
    BY <1>6, OneRequest
  <2>2. Permits' = Permits
    BY <1>6 DEF Permits, Permitted
  <2>3. Runs!Answer(r)
    BY <1>0, <1>6, <2>1, <2>2 DEF Runs!Answer, Permits, Verdicts, RunMap
  <2>4. QED
    BY <2>3 DEF Runs!Next
<1>7. ASSUME NEW r \in Requests, setting' = setting, ask' = ask, at' = at, answer' = answer,
             \A q \in Requests \ {r} : thread'[q] = thread[q] /\ step'[q] = step[q],
             VerdictOf(r) = "waiting"
      PROVE  /\ Verdicts' = Verdicts /\ Permits' = Permits
             /\ RunMap' = [RunMap EXCEPT ![r] = RunOf(r)']
  <2>1. RunMap' = [RunMap EXCEPT ![r] = RunOf(r)']
    BY <1>7, OneRequest
  <2>2. \A q \in Requests : VerdictOf(q)' = VerdictOf(q) /\ Permitted(q)' = Permitted(q)
    BY <1>7 DEF VerdictOf, Permitted
  <2>3. QED
    BY <2>1, <2>2 DEF Verdicts, Permits
<1>8. ASSUME NEW r \in Requests, Call(r) PROVE Runs!Next \/ UNCHANGED Runs!vars
  <2>1. at[r] = "receiving" /\ thread[r] = "running" /\ step[r] \in Nat /\ step'[r] \in Nat
    BY <1>8 DEF Call, TypeOK
  <2>2. VerdictOf(r) = "waiting"
    BY <2>1, VerdictOfPlace DEF VerdictOf
  <2>3. RunOf(r) = "running" /\ RunOf(r)' = "running"
    BY <1>8, <2>1, RunOfPlace DEF Call, RunOf
  <2>4. Verdicts' = Verdicts /\ Permits' = Permits /\ RunMap' = RunMap
    <3>1. /\ Verdicts' = Verdicts /\ Permits' = Permits
          /\ RunMap' = [RunMap EXCEPT ![r] = "running"]
      BY <1>7, <1>8, <2>2, <2>3 DEF Call, TypeOK
    <3>2. RunMap' = RunMap
      BY <1>0, <2>3, <3>1 DEF RunMap
    <3>3. QED
      BY <3>1, <3>2
  <2>5. CASE Behind(Name(r)) = Unsupported
    <3>1. calls' = calls
      BY <1>8, <2>5 DEF Call, TypeOK
    <3>2. QED
      BY <1>1, <2>4, <3>1
  <2>6. CASE Behind(Name(r)) # Unsupported
    <3>1. calls' = [calls EXCEPT ![r] = @ + 1]
      BY <1>8, <2>6 DEF Call
    <3>2. Runs!Effect(r)
      BY <1>0, <2>2, <2>3, <2>4, <3>1 DEF Runs!Effect, Permits, Verdicts, RunMap
    <3>3. QED
      BY <3>2 DEF Runs!Next
  <2>7. QED
    BY <2>5, <2>6
<1>9. ASSUME NEW r \in Requests, Panic(r) \/ Throw(r) \/ End(r) PROVE Runs!Next
  <2>1. /\ at[r] = "receiving" /\ at' = at /\ thread[r] = "running"
        /\ thread'[r] \in {"ok", "err", "dropped"} /\ step[r] \in Nat /\ step' = step
    BY <1>9 DEF Panic, Throw, End, TypeOK
  <2>2. VerdictOf(r) = "waiting"
    BY <2>1, VerdictOfPlace DEF VerdictOf
  <2>3. RunOf(r) = "running" /\ RunOf(r)' \in {"ended", "broken"}
    BY <2>1, RunOfPlace DEF RunOf
  <2>4. Verdicts' = Verdicts /\ Permits' = Permits /\ RunMap' = [RunMap EXCEPT ![r] = RunOf(r)']
    BY <1>7, <1>9, <2>2 DEF Panic, Throw, End, TypeOK
  <2>5. Runs!Stop(r)
    BY <1>0, <1>9, <2>2, <2>3, <2>4 DEF Runs!Stop, Panic, Throw, End, Permits, Verdicts, RunMap
  <2>6. QED
    BY <2>5 DEF Runs!Next
<1>10. ASSUME NEW r \in Requests, at[r] = "checking", step[r] = 0, step' = step,
              thread' = thread, setting' = setting, ask' = ask, calls' = calls,
              \A q \in Requests \ {r} : at'[q] = at[q] /\ answer'[q] = answer[q],
              \/ at'[r] \in {"reading", "reporting"}
              \/ at'[r] = "done" /\ answer'[r] \in {401, 400, 403, 404}
       PROVE  Runs!Next \/ UNCHANGED Runs!vars
  <2>1. VerdictOf(r) = "waiting" /\ RunOf(r) = "none"
    BY <1>10, VerdictOfPlace, RunOfPlace DEF VerdictOf, RunOf
  <2>2. CASE at'[r] \in {"reading", "reporting"}
    <3>1. VerdictOf(r)' = "waiting"
      BY <2>2, VerdictOfPlace DEF VerdictOf
    <3>2. RunOf(r)' = "none"
      BY <1>10, <2>2, RunOfPlace DEF RunOf
    <3>3. QED
      BY <1>4, <1>10, <2>1, <3>1, <3>2 DEF TypeOK
  <2>3. CASE at'[r] = "done"
    <3>1. answer'[r] \in {401, 400, 403, 404}
      BY <1>10, <2>3 DEF TypeOK
    <3>2. VerdictOf(r)' = "refused"
      BY <2>3, <3>1, VerdictOfPlace DEF VerdictOf
    <3>3. RunOf(r)' = "none"
      BY <1>10, <2>3, RunOfPlace DEF RunOf
    <3>4. QED
      BY <1>6, <1>10, <2>1, <3>2, <3>3 DEF TypeOK
  <2>4. QED
    BY <1>10, <2>2, <2>3 DEF TypeOK
<1>11. ASSUME NEW r \in Requests, Check(r) PROVE Runs!Next \/ UNCHANGED Runs!vars
  <2>1. step[r] = 0
    BY <1>11 DEF Check, Admitted
  <2>2. CASE Refusals(ask[r]) = {}
    BY <1>10, <1>11, <2>1, <2>2 DEF Check, TypeOK
  <2>3. CASE Refusals(ask[r]) # {}
    <3> DEFINE f == First(Refusals(ask[r]))
    <3>1. f \in {401, 400, 403, 404}
      BY <2>3, Refusing
    <3> HIDE DEF f
    <3>2. Reply(r, f) /\ UNCHANGED <<process, files, ask, running>> /\ at[r] = "checking"
      BY <1>11, <2>3 DEF Check, f
    <3>3. /\ at[r] = "checking" /\ step' = step /\ thread' = thread
          /\ setting' = setting /\ ask' = ask /\ calls' = calls
      BY <3>2
    <3>4. /\ \A q \in Requests \ {r} : at'[q] = at[q] /\ answer'[q] = answer[q]
          /\ at'[r] \in {"done", "reporting"} /\ answer'[r] = f
      BY <3>2 DEF TypeOK
    <3>5. QED
      BY <1>10, <2>1, <3>1, <3>3, <3>4
  <2>4. QED
    BY <2>2, <2>3
<1>12. ASSUME NEW r \in Requests, Read(r) PROVE Runs!Next \/ UNCHANGED Runs!vars
  <2>1. at[r] = "reading" /\ step[r] = 0 /\ Permitted(r)
    BY <1>12 DEF Read, Admitted
  <2>2. VerdictOf(r) = "waiting" /\ RunOf(r) = "none"
    BY <2>1, VerdictOfPlace, RunOfPlace DEF VerdictOf, RunOf
  <2>3. CASE at' = [at EXCEPT ![r] = "receiving"]
    <3>1. /\ at'[r] = "receiving" /\ thread'[r] = "running" /\ step'[r] = 1
          /\ setting' = setting /\ ask' = ask /\ answer' = answer /\ calls' = calls
      BY <1>12, <2>1, <2>3 DEF Read, TypeOK
    <3>2. VerdictOf(r)' = "waiting" /\ RunOf(r)' = "running"
      BY <3>1, VerdictOfPlace, RunOfPlace DEF VerdictOf, RunOf
    <3>3. /\ Verdicts' = [Verdicts EXCEPT ![r] = "waiting"]
          /\ RunMap' = [RunMap EXCEPT ![r] = "running"]
      BY <1>12, <2>3, <3>1, <3>2, OneRequest DEF Read, TypeOK
    <3>4. Verdicts' = Verdicts
      BY <1>0, <2>2, <3>3 DEF Verdicts
    <3>5. Permits' = Permits
      BY <3>1 DEF Permits, Permitted
    <3>6. Runs!Begin(r)
      BY <1>0, <2>1, <2>2, <3>1, <3>3, <3>4, <3>5 DEF Runs!Begin, Permits, Verdicts, RunMap
    <3>7. QED
      BY <3>6 DEF Runs!Next
  <2>4. CASE Reply(r, 500) /\ UNCHANGED <<thread, step>>
    <3>1. CASE at'[r] = "done"
      <4>1. VerdictOf(r)' = "failed"
        BY <2>4, <3>1, VerdictOfPlace DEF VerdictOf, TypeOK
      <4>2. RunOf(r)' = "none"
        BY <2>1, <2>4, <3>1, RunOfPlace DEF RunOf
      <4>3. QED
        BY <1>6, <1>12, <2>2, <2>4, <4>1, <4>2 DEF Read, TypeOK
    <3>2. CASE at'[r] = "reporting"
      <4>1. VerdictOf(r)' = "waiting"
        BY <3>2, VerdictOfPlace DEF VerdictOf
      <4>2. RunOf(r)' = "none"
        BY <2>1, <2>4, <3>2, RunOfPlace DEF RunOf
      <4>3. QED
        BY <1>4, <1>12, <2>2, <2>4, <4>1, <4>2 DEF Read, TypeOK
    <3>3. QED
      BY <2>4, <3>1, <3>2 DEF TypeOK
  <2>5. QED
    BY <1>12, <2>3, <2>4 DEF Read
<1>13. ASSUME NEW r \in Requests, Receive(r) PROVE Runs!Next \/ UNCHANGED Runs!vars
  <2> DEFINE status == IF thread[r] = "ok" THEN 200 ELSE 500
  <2>1. status \in {200, 500} /\ Reply(r, status) /\ (status = 200 <=> thread[r] = "ok")
    BY <1>13 DEF Receive
  <2> HIDE DEF status
  <2>2. /\ at[r] = "receiving" /\ thread[r] \in {"ok", "err", "dropped"}
        /\ answer'[r] = status /\ step' = step /\ step[r] \in Nat /\ step[r] > 0
        /\ setting' = setting /\ ask' = ask /\ calls' = calls
        /\ thread' = [thread EXCEPT ![r] = "none"]
    BY <1>13, <2>1 DEF Receive, TypeOK, Admitted
  <2>3. VerdictOf(r) = "waiting" /\ RunOf(r) = IF status = 200 THEN "ended" ELSE "broken"
    BY <2>1, <2>2, VerdictOfPlace, RunOfPlace DEF VerdictOf, RunOf
  <2>4. CASE at'[r] = "done"
    <3>1. VerdictOf(r)' = IF status = 200 THEN "completed" ELSE "failed"
      BY <2>1, <2>2, <2>4, VerdictOfPlace DEF VerdictOf
    <3>2. RunOf(r)' = "none"
      BY <2>2, <2>4, RunOfPlace DEF RunOf
    <3>3. \/ RunOf(r) = "ended" /\ VerdictOf(r)' = "completed"
          \/ RunOf(r) = "broken" /\ VerdictOf(r)' = "failed"
      BY <2>3, <3>1
    <3>4. \A q \in Requests \ {r} :
            /\ at'[q] = at[q] /\ answer'[q] = answer[q]
            /\ thread'[q] = thread[q] /\ step'[q] = step[q]
      BY <2>1, <2>2 DEF TypeOK
    <3>5. QED
      BY <1>6, <2>2, <2>3, <3>2, <3>3, <3>4
  <2>5. CASE at'[r] = "reporting"
    <3>1. VerdictOf(r)' = "waiting"
      BY <2>5, VerdictOfPlace DEF VerdictOf
    <3>2. RunOf(r)' = IF status = 200 THEN "ended" ELSE "broken"
      BY <2>2, <2>5, RunOfPlace DEF RunOf
    <3>3. QED
      BY <1>4, <1>13, <2>1, <2>2, <2>3, <3>1, <3>2 DEF Receive, TypeOK
  <2>6. QED
    BY <2>1, <2>4, <2>5 DEF TypeOK
<1>14. ASSUME NEW R \in SUBSET Requests, \A r \in R : at[r] \in Working,
              at' = [r \in Requests |-> IF r \in R THEN "lost" ELSE at[r]],
              \A r \in Requests \ R : thread'[r] = thread[r],
              setting' = setting, ask' = ask, answer' = answer, step' = step, calls' = calls
       PROVE  Runs!Next
  <2>1. \A r \in R : VerdictOf(r) = "waiting" /\ VerdictOf(r)' = "lost" /\ RunOf(r)' = "none"
    BY <1>14, VerdictOfPlace, RunOfPlace DEF VerdictOf, RunOf, TypeOK
  <2>2. \A r \in Requests \ R : VerdictOf(r)' = VerdictOf(r) /\ RunOf(r)' = RunOf(r)
    BY <1>14 DEF VerdictOf, RunOf
  <2>3. /\ Verdicts' = [r \in Requests |-> IF r \in R THEN "lost" ELSE Verdicts[r]]
        /\ RunMap' = [r \in Requests |-> IF r \in R THEN "none" ELSE RunMap[r]]
    BY <2>1, <2>2 DEF Verdicts, RunMap
  <2>4. Permits' = Permits
    BY <1>14 DEF Permits, Permitted
  <2>5. Runs!Lose(R)
    BY <1>0, <1>14, <2>1, <2>3, <2>4 DEF Runs!Lose, Permits, Verdicts, RunMap
  <2>6. QED
    BY <2>5 DEF Runs!Next
<1>15. CASE Crash
  <2> DEFINE R == {r \in Requests : at[r] \in Working}
  <2>1. at' = [r \in Requests |-> IF r \in R THEN "lost" ELSE at[r]]
    BY <1>15 DEF Crash, Abandoned
  <2>2. \A r \in Requests \ R : thread'[r] = thread[r]
    BY <1>15 DEF Crash, TypeOK
  <2>3. QED
    BY <1>14, <1>15, <2>1, <2>2 DEF Crash
<1>16. ASSUME NEW r \in Requests, Report(r) \/ ReportPanics(r) PROVE Runs!Next
  <2>1. CASE at' = [at EXCEPT ![r] = "lost"]
    <3>1. at' = [q \in Requests |-> IF q \in {r} THEN "lost" ELSE at[q]]
      BY <2>1, ZenonT(30) DEF TypeOK
    <3>2. QED
      BY <1>14, <1>16, <3>1 DEF Report, ReportPanics
  <2>2. CASE at' = [at EXCEPT ![r] = "done"]
    <3>1. /\ at[r] = "reporting" /\ at'[r] = "done" /\ answer'[r] = answer[r]
          /\ step'[r] = step[r] /\ step[r] \in Nat
      BY <1>16, <2>2 DEF Report, ReportPanics, TypeOK
    <3>2. VerdictOf(r) = "waiting" /\ RunOf(r)' = "none"
      BY <3>1, VerdictOfPlace, RunOfPlace DEF VerdictOf, RunOf
    <3>3. \/ RunOf(r) = "none" /\ VerdictOf(r)' = "refused"
          \/ RunOf(r) = "ended" /\ VerdictOf(r)' = "completed"
          \/ RunOf(r) \in {"none", "broken"} /\ VerdictOf(r)' = "failed"
      <4>1. CASE answer[r] \in {400, 401, 403, 404} /\ step[r] = 0
        BY <3>1, <4>1, VerdictOfPlace, RunOfPlace DEF VerdictOf, RunOf
      <4>2. CASE answer[r] = 500
        BY <3>1, <4>2, VerdictOfPlace, RunOfPlace DEF VerdictOf, RunOf
      <4>3. CASE answer[r] = 200 /\ step[r] > 0
        BY <3>1, <4>3, VerdictOfPlace, RunOfPlace DEF VerdictOf, RunOf
      <4>4. QED
        BY <3>1, <4>1, <4>2, <4>3 DEF Admitted
    <3>4. QED
      BY <1>6, <1>16, <2>2, <3>2, <3>3 DEF Report, ReportPanics, TypeOK
  <2>3. QED
    BY <1>16, <2>1, <2>2 DEF Report, ReportPanics
<1>17. QED
  BY <1>3, <1>5, <1>8, <1>9, <1>11, <1>12, <1>13, <1>15, <1>16 DEF Next, Handler, Thread

\* Whatever crashes, panics or vanishes, the service never runs what is not
\* permitted, never lets a script outlive its request, and never says of a
\* script that it ran, or did not, when it is otherwise.
THEOREM ServiceImplementsRuns == Spec => ImplementsRuns
<1>1. Init => Runs!Init
  <2> SUFFICES ASSUME Init PROVE Runs!Init
    OBVIOUS
  <2>1. \A r \in Requests : VerdictOf(r) = "new" /\ RunOf(r) = "none"
    BY VerdictOfPlace, RunOfPlace DEF Init, VerdictOf, RunOf
  <2>2. \A r \in Requests : Permitted(r) = FALSE
    BY DEF Init, Permitted
  <2>3. QED
    BY <2>1, <2>2 DEF Init, Runs!Init
<1>2. TypeOK /\ TypeOK' /\ Admitted /\ [Next]_vars => [Runs!Next]_(Runs!vars)
  BY ServiceStepRefines
<1>3. QED
  BY <1>1, <1>2, ServiceInvariant, PTL DEF Spec, ImplementsRuns, Runs!Spec

---------------------------------------------------------------------------
(* The surface *)

\* Each name of the surface and its port.
PortOf ==
  [abcSheet |-> "abc", abcExec |-> "abc",
   cacheGet |-> "cache", cacheSet |-> "cache", cacheEvict |-> "cache",
   saveItem |-> "store", getItem |-> "store", listItems |-> "store", deleteItem |-> "store",
   publish |-> "events", invoke |-> "lambda", invokeAsync |-> "lambda", sendEmail |-> "email"]

Backing(P) == [n \in DOMAIN PortOf |-> IF PortOf[n] \in P THEN PortOf[n] ELSE Unsupported]

Host == [name: DOMAIN PortOf, port: DOMAIN Surface \cup {Unsupported}]

\* The host functions of s are those named in N, each there once and backed by
\* what backing says.
Presents(s, N, backing) ==
  /\ s \in Seq(Host)
  /\ \A i \in DOMAIN s : s[i].name \in N
  /\ \A n \in N : \E i \in DOMAIN s :
       /\ s[i].name = n /\ s[i].port = backing[n]
       /\ \A j \in DOMAIN s : s[j].name = n => j = i

LEMMA PresentsNothing ==
  ASSUME NEW backing
  PROVE  Presents(<<>>, {}, backing)
BY DEF Presents

\* Blocks that share no name put together.
LEMMA PresentsBoth ==
  ASSUME NEW s, NEW t, NEW N, NEW M, NEW backing, N \cap M = {},
         Presents(s, N, backing), Presents(t, M, backing)
  PROVE  Presents(s \o t, N \cup M, backing)
<1>1. /\ s \in Seq(Host) /\ t \in Seq(Host)
      /\ \A i \in DOMAIN s : s[i].name \in N
      /\ \A i \in DOMAIN t : t[i].name \in M
  BY DEF Presents
<1>2. /\ s \o t \in Seq(Host)
      /\ DOMAIN s = 1..Len(s) /\ DOMAIN t = 1..Len(t) /\ Len(s) \in Nat /\ Len(t) \in Nat
      /\ DOMAIN (s \o t) = 1..(Len(s) + Len(t))
      /\ \A i \in DOMAIN s : (s \o t)[i] = s[i]
      /\ \A i \in DOMAIN t : (s \o t)[Len(s) + i] = t[i]
  BY <1>1
<1>3. \A i \in DOMAIN (s \o t) : i \in DOMAIN s \/ \E k \in DOMAIN t : i = Len(s) + k
  <2> TAKE i \in DOMAIN (s \o t)
  <2>1. CASE i <= Len(s)
    BY <1>2, <2>1
  <2>2. CASE i > Len(s)
    <3>1. i - Len(s) \in DOMAIN t /\ i = Len(s) + (i - Len(s))
      BY <1>2, <2>2
    <3>2. QED
      BY <3>1
  <2>3. QED
    BY <1>2, <2>1, <2>2
<1>4. \A i \in DOMAIN (s \o t) : (s \o t)[i].name \in N \cup M
  BY <1>1, <1>2, <1>3
<1>5. ASSUME NEW n \in N
      PROVE  \E i \in DOMAIN (s \o t) :
               /\ (s \o t)[i].name = n /\ (s \o t)[i].port = backing[n]
               /\ \A j \in DOMAIN (s \o t) : (s \o t)[j].name = n => j = i
  <2>1. PICK i \in DOMAIN s : /\ s[i].name = n /\ s[i].port = backing[n]
                              /\ \A j \in DOMAIN s : s[j].name = n => j = i
    BY DEF Presents
  <2>2. \A k \in DOMAIN t : t[k].name # n
    BY <1>1
  <2>3. \A j \in DOMAIN (s \o t) : (s \o t)[j].name = n => j = i
    BY <1>2, <1>3, <2>1, <2>2
  <2>4. i \in DOMAIN (s \o t)
    BY <1>2
  <2>5. QED
    BY <1>2, <2>1, <2>3, <2>4
<1>6. ASSUME NEW n \in M
      PROVE  \E i \in DOMAIN (s \o t) :
               /\ (s \o t)[i].name = n /\ (s \o t)[i].port = backing[n]
               /\ \A j \in DOMAIN (s \o t) : (s \o t)[j].name = n => j = i
  <2>1. PICK i \in DOMAIN t : /\ t[i].name = n /\ t[i].port = backing[n]
                              /\ \A j \in DOMAIN t : t[j].name = n => j = i
    BY DEF Presents
  <2>2. \A k \in DOMAIN s : s[k].name # n
    BY <1>1
  <2>3. \A j \in DOMAIN (s \o t) : (s \o t)[j].name = n => j = Len(s) + i
    BY <1>2, <1>3, <2>1, <2>2
  <2>4. Len(s) + i \in DOMAIN (s \o t)
    BY <1>2
  <2>5. QED
    BY <1>2, <2>1, <2>3, <2>4
<1>7. QED
  BY <1>2, <1>4, <1>5, <1>6 DEF Presents

\* The names of a block, none of them twice.
Names(names, N) ==
  /\ names \in Seq(N)
  /\ \A n \in N : \E i \in DOMAIN names :
       names[i] = n /\ \A j \in DOMAIN names : names[j] = n => j = i

\* A block mounts its names on one port.
LEMMA PresentsBlock ==
  ASSUME NEW names, NEW N, Names(names, N), N \subseteq DOMAIN PortOf,
         NEW port \in DOMAIN Surface \cup {Unsupported}, NEW backing,
         \A n \in N : backing[n] = port
  PROVE  Presents(Mount(names, port), N, backing)
<1> DEFINE s == Mount(names, port)
<1>1. /\ names \in Seq(N) /\ DOMAIN names = 1..Len(names) /\ Len(names) \in Nat
      /\ \A i \in DOMAIN names : names[i] \in N
  BY DEF Names
<1>2. /\ DOMAIN s = DOMAIN names
      /\ \A i \in DOMAIN names : s[i].name = names[i] /\ s[i].port = port
  BY <1>1 DEF Mount
<1>3. s \in Seq(Host)
  BY <1>1 DEF Host, Mount
<1> HIDE DEF s
<1>4. \A i \in DOMAIN s : s[i].name \in N
  BY <1>1, <1>2
<1>5. ASSUME NEW n \in N
      PROVE  \E i \in DOMAIN s :
               /\ s[i].name = n /\ s[i].port = backing[n]
               /\ \A j \in DOMAIN s : s[j].name = n => j = i
  <2>1. PICK i \in DOMAIN names :
          names[i] = n /\ \A j \in DOMAIN names : names[j] = n => j = i
    BY DEF Names
  <2>2. \A j \in DOMAIN s : s[j].name = n => j = i
    BY <1>2, <2>1
  <2>3. QED
    BY <1>2, <2>1, <2>2
<1>6. Presents(s, N, backing)
  BY <1>3, <1>4, <1>5 DEF Presents
<1>7. QED
  BY <1>6 DEF s

LEMMA SurfaceOfPorts ==
  /\ DOMAIN Surface = {"abc", "cache", "store", "events", "lambda", "email"}
  /\ Surface["abc"] = {"abcSheet", "abcExec"}
  /\ Surface["cache"] = {"cacheGet", "cacheSet", "cacheEvict"}
  /\ Surface["store"] = {"saveItem", "getItem", "listItems", "deleteItem"}
  /\ Surface["events"] = {"publish"}
  /\ Surface["lambda"] = {"invoke", "invokeAsync"}
  /\ Surface["email"] = {"sendEmail"}
BY DEF Surface

LEMMA BackingOfSurface ==
  ASSUME NEW P, NEW port \in DOMAIN Surface, NEW n \in Surface[port]
  PROVE  Backing(P)[n] = IF port \in P THEN port ELSE Unsupported
<1>1. n \in DOMAIN PortOf /\ PortOf[n] = port
  BY SurfaceOfPorts DEF PortOf
<1>2. QED
  BY <1>1 DEF Backing

LEMMA OneName ==
  ASSUME NEW a PROVE Names(<<a>>, {a})
BY DEF Names

LEMMA TwoNames ==
  ASSUME NEW a, NEW b, a # b PROVE Names(<<a, b>>, {a, b})
<1> DEFINE names == <<a, b>>
<1>1. names \in Seq({a, b}) /\ DOMAIN names = {1, 2} /\ names[1] = a /\ names[2] = b
  OBVIOUS
<1> HIDE DEF names
<1>2. Names(names, {a, b})
  BY <1>1 DEF Names
<1>3. QED
  BY <1>2 DEF names

LEMMA ThreeNames ==
  ASSUME NEW a, NEW b, NEW c, a # b, a # c, b # c
  PROVE  Names(<<a, b, c>>, {a, b, c})
<1> DEFINE names == <<a, b, c>>
<1>1. /\ names \in Seq({a, b, c}) /\ DOMAIN names = {1, 2, 3}
      /\ names[1] = a /\ names[2] = b /\ names[3] = c
  OBVIOUS
<1> HIDE DEF names
<1>2. Names(names, {a, b, c})
  BY <1>1 DEF Names
<1>3. QED
  BY <1>2 DEF names

LEMMA FourNames ==
  ASSUME NEW a, NEW b, NEW c, NEW d,
         a # b, a # c, a # d, b # c, b # d, c # d
  PROVE  Names(<<a, b, c, d>>, {a, b, c, d})
<1> DEFINE names == <<a, b, c, d>>
<1>1. /\ names \in Seq({a, b, c, d}) /\ DOMAIN names = {1, 2, 3, 4}
      /\ names[1] = a /\ names[2] = b /\ names[3] = c /\ names[4] = d
  OBVIOUS
<1> HIDE DEF names
<1>2. Names(names, {a, b, c, d})
  BY <1>1 DEF Names
<1>3. QED
  BY <1>2 DEF names

\* The blocks of build(), each with the names of the surface's port.
LEMMA BlockNames ==
  /\ Names(<<"abcSheet", "abcExec">>, Surface["abc"])
  /\ Names(<<"cacheGet", "cacheSet", "cacheEvict">>, Surface["cache"])
  /\ Names(<<"saveItem", "getItem", "listItems", "deleteItem">>, Surface["store"])
  /\ Names(<<"listItems", "saveItem", "getItem", "deleteItem">>, Surface["store"])
  /\ Names(<<"publish">>, Surface["events"])
  /\ Names(<<"invoke", "invokeAsync">>, Surface["lambda"])
  /\ Names(<<"sendEmail">>, Surface["email"])
<1>1. /\ Names(<<"abcSheet", "abcExec">>, {"abcSheet", "abcExec"})
      /\ Names(<<"invoke", "invokeAsync">>, {"invoke", "invokeAsync"})
  BY TwoNames
<1>2. Names(<<"cacheGet", "cacheSet", "cacheEvict">>, {"cacheGet", "cacheSet", "cacheEvict"})
  BY ThreeNames
<1>3. /\ Names(<<"saveItem", "getItem", "listItems", "deleteItem">>,
               {"saveItem", "getItem", "listItems", "deleteItem"})
      /\ Names(<<"listItems", "saveItem", "getItem", "deleteItem">>,
               {"listItems", "saveItem", "getItem", "deleteItem"})
  BY FourNames
<1>4. Names(<<"publish">>, {"publish"}) /\ Names(<<"sendEmail">>, {"sendEmail"})
  BY OneName
<1>5. {"listItems", "saveItem", "getItem", "deleteItem"} =
        {"saveItem", "getItem", "listItems", "deleteItem"}
  OBVIOUS
<1>6. QED
  BY <1>1, <1>2, <1>3, <1>4, <1>5, SurfaceOfPorts

\* A block is mounted on its port, on none, or left out, as the port is wired.
LEMMA BlockPresents ==
  ASSUME NEW P, NEW port \in DOMAIN Surface, NEW names, Names(names, Surface[port])
  PROVE  /\ Presents(Always(P, port, names), Surface[port], Backing(P))
         /\ Presents(Optional(P, port, names), IF port \in P THEN Surface[port] ELSE {}, Backing(P))
         /\ Presents(Unless(P, port, names), IF port \in P THEN {} ELSE Surface[port], Backing(P))
<1> DEFINE on == IF port \in P THEN port ELSE Unsupported
           B == Backing(P)
<1>1. on \in DOMAIN Surface \cup {Unsupported} /\ Surface[port] \subseteq DOMAIN PortOf
  BY SurfaceOfPorts DEF PortOf
<1>2. \A n \in Surface[port] : B[n] = on
  BY BackingOfSurface
<1> HIDE DEF B
<1>3. Presents(Mount(names, on), Surface[port], B)
  <2> HIDE DEF on
  <2>1. QED
    BY <1>1, <1>2, PresentsBlock
<1>4. Presents(<<>>, {}, B)
  BY PresentsNothing
<1>5. CASE port \in P
  BY <1>3, <1>4, <1>5 DEF Always, Optional, Unless, B
<1>6. CASE port \notin P
  BY <1>3, <1>4, <1>6 DEF Always, Optional, Unless, B
<1>7. QED
  BY <1>5, <1>6

\* build() presents every name of the surface once, whichever ports are wired:
\* what a port that is absent leaves out, the last loop puts in.
LEMMA BuildPresents ==
  ASSUME NEW P
  PROVE  Presents(Build(P), DOMAIN PortOf, Backing(P))
<1> DEFINE B == Backing(P)
           Wired(port) == IF port \in P THEN Surface[port] ELSE {}
           Absent(port) == IF port \in P THEN {} ELSE Surface[port]
<1>1. /\ Presents(Always(P, "abc", <<"abcSheet", "abcExec">>), Surface["abc"], B)
      /\ Presents(Always(P, "cache", <<"cacheGet", "cacheSet", "cacheEvict">>), Surface["cache"], B)
      /\ Presents(Optional(P, "store", <<"saveItem", "getItem", "listItems", "deleteItem">>),
                  Wired("store"), B)
      /\ Presents(Optional(P, "events", <<"publish">>), Wired("events"), B)
      /\ Presents(Optional(P, "lambda", <<"invoke", "invokeAsync">>), Wired("lambda"), B)
      /\ Presents(Optional(P, "email", <<"sendEmail">>), Wired("email"), B)
      /\ Presents(Unless(P, "events", <<"publish">>), Absent("events"), B)
      /\ Presents(Unless(P, "lambda", <<"invoke", "invokeAsync">>), Absent("lambda"), B)
      /\ Presents(Unless(P, "store", <<"listItems", "saveItem", "getItem", "deleteItem">>),
                  Absent("store"), B)
      /\ Presents(Unless(P, "email", <<"sendEmail">>), Absent("email"), B)
  BY BlockPresents, BlockNames, SurfaceOfPorts
<1>2. /\ \A port \in DOMAIN Surface : Wired(port) \subseteq Surface[port]
                                     /\ Absent(port) \subseteq Surface[port]
                                     /\ Wired(port) \cap Absent(port) = {}
                                     /\ Wired(port) \cup Absent(port) = Surface[port]
      /\ \A p, q \in DOMAIN Surface : p # q => Surface[p] \cap Surface[q] = {}
  BY SurfaceOfPorts
<1>3. DOMAIN PortOf = Surface["abc"] \cup Surface["cache"] \cup Surface["store"]
        \cup Surface["events"] \cup Surface["lambda"] \cup Surface["email"]
  BY SurfaceOfPorts DEF PortOf
<1> DEFINE N2 == Surface["abc"] \cup Surface["cache"]
           N3 == N2 \cup Wired("store")
           N4 == N3 \cup Wired("events")
           N5 == N4 \cup Wired("lambda")
           N6 == N5 \cup Wired("email")
           M2 == Absent("events") \cup Absent("lambda")
           M3 == M2 \cup Absent("store")
           M4 == M3 \cup Absent("email")
<1>4. \A p, q \in DOMAIN Surface : p # q =>
        /\ Surface[p] \cap Wired(q) = {} /\ Wired(p) \cap Wired(q) = {}
        /\ Absent(p) \cap Absent(q) = {} /\ Wired(p) \cap Absent(q) = {}
        /\ Surface[p] \cap Absent(q) = {}
  BY <1>2
<1> HIDE DEF Wired, Absent, B
<1>5. /\ Surface["abc"] \cap Surface["cache"] = {}
      /\ N2 \cap Wired("store") = {} /\ N3 \cap Wired("events") = {}
      /\ N4 \cap Wired("lambda") = {} /\ N5 \cap Wired("email") = {}
      /\ Absent("events") \cap Absent("lambda") = {}
      /\ M2 \cap Absent("store") = {} /\ M3 \cap Absent("email") = {}
  BY <1>2, <1>4, SurfaceOfPorts
<1>6. N6 \cap M4 = {} /\ N6 \cup M4 = DOMAIN PortOf
  <2>1. N6 \cap M4 = {}
    BY <1>2, <1>4, SurfaceOfPorts
  <2>2. N6 \cup M4 = DOMAIN PortOf
    BY <1>2, <1>3, SurfaceOfPorts
  <2>3. QED
    BY <2>1, <2>2
<1> DEFINE s1 == Always(P, "abc", <<"abcSheet", "abcExec">>)
           s2 == Always(P, "cache", <<"cacheGet", "cacheSet", "cacheEvict">>)
           s3 == Optional(P, "store", <<"saveItem", "getItem", "listItems", "deleteItem">>)
           s4 == Optional(P, "events", <<"publish">>)
           s5 == Optional(P, "lambda", <<"invoke", "invokeAsync">>)
           s6 == Optional(P, "email", <<"sendEmail">>)
           t1 == Unless(P, "events", <<"publish">>)
           t2 == Unless(P, "lambda", <<"invoke", "invokeAsync">>)
           t3 == Unless(P, "store", <<"listItems", "saveItem", "getItem", "deleteItem">>)
           t4 == Unless(P, "email", <<"sendEmail">>)
<1>7. Build(P) = (((((s1 \o s2) \o s3) \o s4) \o s5) \o s6) \o (((t1 \o t2) \o t3) \o t4)
  BY DEF Build, Unmounted
<1>8. /\ Presents(s1, Surface["abc"], B) /\ Presents(s2, Surface["cache"], B)
      /\ Presents(s3, Wired("store"), B) /\ Presents(s4, Wired("events"), B)
      /\ Presents(s5, Wired("lambda"), B) /\ Presents(s6, Wired("email"), B)
      /\ Presents(t1, Absent("events"), B) /\ Presents(t2, Absent("lambda"), B)
      /\ Presents(t3, Absent("store"), B) /\ Presents(t4, Absent("email"), B)
  BY <1>1
<1> HIDE DEF s1, s2, s3, s4, s5, s6, t1, t2, t3, t4
<1> HIDE DEF N2, N3, N4, N5, N6, M2, M3, M4
<1>9. Presents(((((s1 \o s2) \o s3) \o s4) \o s5) \o s6, N6, B)
  <2>1. Presents(s1 \o s2, N2, B)
    BY <1>5, <1>8, PresentsBoth DEF N2
  <2>2. Presents((s1 \o s2) \o s3, N3, B)
    BY <2>1, <1>5, <1>8, PresentsBoth DEF N3
  <2>3. Presents(((s1 \o s2) \o s3) \o s4, N4, B)
    BY <2>2, <1>5, <1>8, PresentsBoth DEF N4
  <2>4. Presents((((s1 \o s2) \o s3) \o s4) \o s5, N5, B)
    BY <2>3, <1>5, <1>8, PresentsBoth DEF N5
  <2>5. QED
    BY <2>4, <1>5, <1>8, PresentsBoth DEF N6
<1>10. Presents(((t1 \o t2) \o t3) \o t4, M4, B)
  <2>1. Presents(t1 \o t2, M2, B)
    BY <1>5, <1>8, PresentsBoth DEF M2
  <2>2. Presents((t1 \o t2) \o t3, M3, B)
    BY <2>1, <1>5, <1>8, PresentsBoth DEF M3
  <2>3. QED
    BY <2>2, <1>5, <1>8, PresentsBoth DEF M4
<1>11. Presents(Build(P), DOMAIN PortOf, B)
  BY <1>6, <1>7, <1>9, <1>10, PresentsBoth
<1>12. QED
  BY <1>11 DEF B

\* What scripts see is what build() made of the wired ports.
Built == Up => services = Build(ports)

LEMMA BuiltKept == TypeOK /\ Built /\ [Next]_vars => Built'
<1> SUFFICES ASSUME TypeOK, Built, [Next]_vars PROVE Built'
  OBVIOUS
<1>1. CASE Boot
  BY <1>1 DEF Boot, Built
<1>2. CASE Crash
  BY <1>2 DEF Crash, Built
<1>3. CASE UNCHANGED <<ports, services>>
  BY <1>3 DEF Built
<1>4. Boot \/ Crash \/ UNCHANGED <<ports, services>>
  BY DEF Next, vars, process, Deploy, Arrive, Handler, Thread, Check, Read, Receive,
         Report, ReportPanics, Call, Panic, Throw, End
<1>5. QED
  BY <1>1, <1>2, <1>3, <1>4

\* A facade that presents the surface as P wires it is complete.
LEMMA PresentedIsComplete ==
  ASSUME Presents(services, DOMAIN PortOf, Backing(ports))
  PROVE  SurfaceComplete
<1>1. ASSUME NEW port \in DOMAIN Surface, NEW name \in Surface[port]
      PROVE  /\ Cardinality({i \in DOMAIN services : services[i].name = name}) = 1
             /\ Behind(name) = IF port \in ports THEN port ELSE Unsupported
  <2>1. name \in DOMAIN PortOf
    BY SurfaceOfPorts DEF PortOf
  <2>2. PICK i \in DOMAIN services :
          /\ services[i].name = name /\ services[i].port = Backing(ports)[name]
          /\ \A j \in DOMAIN services : services[j].name = name => j = i
    BY <2>1 DEF Presents
  <2>3. {j \in DOMAIN services : services[j].name = name} = {i}
    BY <2>2
  <2>4. i \in Nat
    BY DEF Presents
  <2>5. (CHOOSE k \in {i} : \A j \in {i} : j <= k) = i
    BY <2>4
  <2>6. Behind(name) = Backing(ports)[name]
    BY <2>2, <2>3, <2>5 DEF Behind
  <2>7. Cardinality({j \in DOMAIN services : services[j].name = name}) = 1
    <3>1. Cardinality({i}) = 1
      BY FS_Singleton
    <3>2. QED
      BY <2>3, <3>1
  <2>8. Backing(ports)[name] = IF port \in ports THEN port ELSE Unsupported
    BY BackingOfSurface
  <2>9. QED
    BY <2>6, <2>7, <2>8
<1>2. \A i \in DOMAIN services : \E port \in DOMAIN Surface : services[i].name \in Surface[port]
  <2>1. \A i \in DOMAIN services : services[i].name \in DOMAIN PortOf
    BY DEF Presents
  <2>2. \A n \in DOMAIN PortOf : \E port \in DOMAIN Surface : n \in Surface[port]
    BY SurfaceOfPorts DEF PortOf
  <2>3. QED
    BY <2>1, <2>2
<1>3. QED
  BY <1>1, <1>2 DEF SurfaceComplete

\* Whichever adapters a start of the process finds, the scripts that it runs see
\* every name of services.* once, behind its adapter or unsupported.
THEOREM SurfaceAlwaysComplete == Spec => []SurfaceComplete
<1>1. Init => Built
  BY DEF Init, Built
<1>2. Built => SurfaceComplete
  BY BuildPresents, PresentedIsComplete DEF Built, SurfaceComplete
<1>3. QED
  BY <1>1, <1>2, ServiceStarts, ServiceTyped, BuiltKept, PTL DEF Spec

=============================================================================
