--------------------------- MODULE DiscoveryProofs ---------------------------
(***************************************************************************)
(* Whatever the events, the tokens and the failures, and however the event *)
(* service goes on storing between a reader's steps: the aggregator misses *)
(* no event that it could read, and no market is given a name that is not  *)
(* its own.                                                                *)
(***************************************************************************)
EXTENDS Discovery, TLAPS

-----------------------------------------------------------------------------
(* The event service.                                                      *)

Busy == {"fetching", "storing", "reading", "checking"}

Answers ==
  {"none", "refreshed", "bad_gateway", "store_failed", "bad_request", "tokens", "no_tokens",
   "not_found", "redis_failed"}

Task ==
  [stage : Busy \union {"idle"}, event : Events \union {"none"}, version : Nat,
   answer : Answers, before : Nat, had : SUBSET Nat]

StoreTypeOK ==
  /\ catalogue \in [Events -> Nat]
  /\ stored \in [Events -> Nat]
  /\ \A e \in Events : stored[e] <= catalogue[e] /\ catalogue[e] <= Len(Contents[e])
  /\ todo \subseteq Events
  /\ overtaken \subseteq Tasks
  /\ task \in [Tasks -> Task]

(* What is true of a task between two of its steps.  What it has fetched   *)
(* is not older than what it will overwrite, unless it was overtaken; and  *)
(* what it has read is a version that Redis had during the call.           *)
RecordOK(t, over) ==
  /\ t.stage # "idle" => t.event \in Events /\ t.answer = "none"
  /\ t.stage = "fetching" => t.before <= catalogue[t.event]
  /\ t.stage = "storing" =>
       /\ 1 <= t.version /\ t.version <= catalogue[t.event]
       /\ t.before <= t.version
       /\ ~over => stored[t.event] <= t.version
  /\ t.stage \in {"reading", "checking"} => stored[t.event] \in t.had
  /\ t.stage = "checking" =>
       t.version \in t.had /\ (t.version # 0 => TokensOf(t.event, t.version) = {})
  /\ WasTrue(t)

TaskOK(k) == RecordOK(task[k], k \in overtaken)

EventInv == StoreTypeOK /\ \A k \in Tasks : TaskOK(k)

(* Every event has a first version. *)
LEMMA ContentsNotEmpty == \A e \in Events : Len(Contents[e]) \in Nat /\ 1 <= Len(Contents[e])
<1>. DEFINE S == Seq([id : STRING, question : STRING, tokens : Seq(STRING) \union {Unparsable}])
<1>1. \A e \in Events : Contents[e] \in Seq(S) /\ Contents[e] # <<>>
  BY EventServiceAssumption
<1>. HIDE DEF S
<1>. QED
  BY <1>1

(* A task with nothing to do has its type, and nothing to be true. *)
LEMMA IdleOK ==
  /\ Idle \in Task /\ Idle.stage = "idle" /\ Idle.answer = "none"
  /\ \A over : RecordOK(Idle, over)
<1>1. Idle \in Task /\ Idle.stage = "idle" /\ Idle.answer = "none"
  BY DEF Idle, Task, Answers
<1>. QED
  BY <1>1 DEF RecordOK, WasTrue

(* The service starts with a store from an earlier run, or an empty one. *)
LEMMA EventInitInv == EventInit => EventInv
<1>. SUFFICES ASSUME EventInit PROVE EventInv
  OBVIOUS
<1>1. StoreTypeOK
  <2>1. /\ catalogue \in [Events -> {0, 1}] /\ stored \in [Events -> {0, 1}]
        /\ \A e \in Events : stored[e] <= catalogue[e]
    BY DEF EventInit
  <2>2. \A e \in Events : catalogue[e] \in {0, 1} /\ catalogue[e] <= Len(Contents[e])
    BY <2>1, ContentsNotEmpty
  <2>3. catalogue \in [Events -> Nat] /\ stored \in [Events -> Nat]
    BY <2>1
  <2>4. todo \subseteq Events /\ overtaken \subseteq Tasks
    BY EventServiceAssumption DEF EventInit
  <2>5. task \in [Tasks -> Task]
    BY IdleOK DEF EventInit
  <2>. QED
    BY <2>1, <2>2, <2>3, <2>4, <2>5 DEF StoreTypeOK
<1>2. ASSUME NEW k \in Tasks PROVE TaskOK(k)
  BY IdleOK DEF EventInit, TaskOK
<1>. QED
  BY <1>1, <1>2 DEF EventInv

(* The types that the invariant gives. *)
LEMMA Typed ==
  ASSUME EventInv
  PROVE  /\ \A e \in Events : /\ catalogue[e] \in Nat /\ stored[e] \in Nat
                              /\ stored[e] <= catalogue[e]
         /\ \A k \in Tasks : /\ task[k] \in Task /\ task[k].had \subseteq Nat
                             /\ task[k].version \in Nat /\ task[k].before \in Nat
         /\ \A k \in Tasks, t \in Task :
              \A j \in Tasks : [task EXCEPT ![k] = t][j] = IF j = k THEN t ELSE task[j]
BY DEF EventInv, StoreTypeOK, Task

(* Another task's step keeps what is true of this one: the catalogue only  *)
(* grows, what Redis has is noted, and who is overtaken is marked.         *)
LEMMA OthersKeepTask ==
  ASSUME EventInv, NEW k \in Tasks,
         /\ task'[k].stage = task[k].stage /\ task'[k].event = task[k].event
         /\ task'[k].version = task[k].version /\ task'[k].answer = task[k].answer
         /\ task'[k].before = task[k].before /\ task[k].had \subseteq task'[k].had,
         \A e \in Events : catalogue'[e] \in Nat /\ catalogue[e] <= catalogue'[e],
         task[k].stage # "idle" =>
            stored'[task[k].event] \in task'[k].had \union {stored[task[k].event]},
         task[k].stage = "storing" /\ k \notin overtaken' =>
            k \notin overtaken /\ stored'[task[k].event] = stored[task[k].event]
  PROVE  TaskOK(k)'
<1>1. TaskOK(k)
  BY DEF EventInv
<1>2. WasTrue(task[k])'
  BY <1>1 DEF TaskOK, RecordOK, WasTrue
<1>. QED
  BY <1>1, <1>2, Typed DEF TaskOK, RecordOK

(* A step of one task that stores nothing. *)
LEMMA QuietStepInv ==
  ASSUME EventInv, NEW k \in Tasks, NEW t \in Task, Step(k, t), stored' = stored,
         todo' \subseteq Events, overtaken' \in {overtaken, overtaken \ {k}},
         t.stage = "storing" => k \notin overtaken', RecordOK(t, FALSE)
  PROVE  EventInv'
<1>1. task' = [task EXCEPT ![k] = t] /\ catalogue' = catalogue
  BY DEF Step
<1>2. StoreTypeOK'
  BY <1>1 DEF EventInv, StoreTypeOK
<1>3. TaskOK(k)'
  <2>1. task'[k] = t
    BY <1>1, Typed
  <2>. QED
    BY <1>1, <2>1 DEF TaskOK, RecordOK
<1>4. ASSUME NEW j \in Tasks, j # k PROVE TaskOK(j)'
  BY <1>1, <1>4, Typed, OthersKeepTask
<1>. QED
  BY <1>2, <1>3, <1>4 DEF EventInv

(* What is left of a task that is over. *)
LEMMA EndedOK ==
  ASSUME NEW k, NEW t \in Task, NEW answer \in Answers,
         answer \notin Errors => WasTrue([t EXCEPT !.stage = "idle", !.answer = answer])
  PROVE  /\ Ended(k, t, answer) \in Task /\ Ended(k, t, answer).stage = "idle"
         /\ WasTrue(Ended(k, t, answer))
<1>1. CASE k = "loop"
  BY <1>1, IdleOK DEF Ended, RecordOK
<1>2. CASE k # "loop" /\ answer \in Errors
  <2>. DEFINE u == [Idle EXCEPT !.answer = answer]
  <2>1. Ended(k, t, answer) = u
    BY <1>2 DEF Ended
  <2>2. u \in Task /\ u.stage = "idle" /\ u.answer = answer
    BY IdleOK DEF Task
  <2>3. WasTrue(u)
    BY <1>2, <2>2 DEF WasTrue, Errors
  <2>. QED
    BY <2>1, <2>2, <2>3
<1>3. CASE k # "loop" /\ answer \notin Errors
  <2>. DEFINE u == [t EXCEPT !.stage = "idle", !.answer = answer]
  <2>1. Ended(k, t, answer) = u
    BY <1>3 DEF Ended
  <2>2. u \in Task /\ u.stage = "idle"
    BY DEF Task
  <2>. QED
    BY <1>3, <2>1, <2>2
<1>. QED
  BY <1>1, <1>2, <1>3

(* A task ends, with an answer that is true. *)
LEMMA EndInv ==
  ASSUME EventInv, NEW k \in Tasks, task[k].stage # "idle",
         NEW answer \in Answers, End(k, answer), UNCHANGED <<stored, todo, overtaken>>,
         answer \notin Errors => WasTrue([task[k] EXCEPT !.stage = "idle", !.answer = answer])
  PROVE  EventInv'
<1>. DEFINE t == Ended(k, task[k], answer)
<1>1. t \in Task /\ t.stage = "idle" /\ WasTrue(t)
  BY EndedOK, Typed
<1>2. Step(k, t)
  BY DEF End
<1>3. RecordOK(t, FALSE)
  BY <1>1 DEF RecordOK
<1>. QED
  BY <1>1, <1>2, <1>3, QuietStepInv DEF EventInv, StoreTypeOK

(* Who is still storing an event that was stored in the meantime counts as *)
(* overtaken, and who is reading it notes what it was, so that a SET keeps *)
(* what is true of the others.                                             *)
LEMMA PutInv ==
  ASSUME EventInv, NEW k \in Tasks, task[k].stage = "storing",
         NEW answer \in {"refreshed", "store_failed"}, Put(k, answer)
  PROVE  EventInv'
<1>. DEFINE e == task[k].event
            v == task[k].version
            shown == [j \in Tasks |->
                        IF task[j].stage # "idle" /\ task[j].event = e
                        THEN [task[j] EXCEPT !.had = @ \union {v}] ELSE task[j]]
            t == Ended(k, shown[k], answer)
<1>1. task[k] \in Task /\ TaskOK(k) /\ StoreTypeOK /\ e \in Events
  BY Typed DEF EventInv, TaskOK, RecordOK
<1>2. v \in Nat /\ 1 <= v /\ v <= catalogue[e] /\ task[k].before <= v
  BY <1>1, Typed DEF TaskOK, RecordOK
<1>3. /\ task' = [shown EXCEPT ![k] = t] /\ catalogue' = catalogue /\ todo' = todo
      /\ stored' = [stored EXCEPT ![e] = v]
      /\ overtaken' = overtaken \union {j \in Tasks \ {k} : task[j].stage = "storing" /\ task[j].event = e}
  BY DEF Put
<1>4. ASSUME NEW j \in Tasks
      PROVE  /\ shown[j] \in Task
             /\ shown[j].stage = task[j].stage /\ shown[j].event = task[j].event
             /\ shown[j].version = task[j].version /\ shown[j].answer = task[j].answer
             /\ shown[j].before = task[j].before /\ task[j].had \subseteq shown[j].had
             /\ task[j].stage # "idle" /\ task[j].event = e => v \in shown[j].had
  BY <1>2, Typed DEF Task
<1>5. t \in Task /\ t.stage = "idle" /\ WasTrue(t)
  <2>. DEFINE u == [shown[k] EXCEPT !.stage = "idle", !.answer = answer]
  <2>1. answer \in Answers
    BY DEF Answers
  <2>2. ASSUME answer \notin Errors PROVE WasTrue(u)
    <3>1. shown[k] \in Task /\ shown[k].version = v /\ shown[k].before <= v /\ v \in shown[k].had
      BY <1>2, <1>4
    <3>. HIDE DEF shown, v
    <3>2. u.version = v /\ u.before <= v /\ v \in u.had /\ u.answer = "refreshed"
      BY <2>2, <3>1 DEF Task, Errors
    <3>3. u.before \in Nat
      BY <3>1 DEF Task
    <3>. QED
      BY <1>2, <3>2, <3>3 DEF WasTrue
  <2>3. shown[k] \in Task
    BY <1>4
  <2>. HIDE DEF shown
  <2>. QED
    BY <2>1, <2>2, <2>3, EndedOK
<1>. HIDE DEF t
<1>6. /\ stored' \in [Events -> Nat] /\ stored'[e] = v
      /\ \A f \in Events : f # e => stored'[f] = stored[f]
      /\ \A f \in Events : catalogue[f] \in Nat
  BY <1>1, <1>2, <1>3 DEF StoreTypeOK
<1>7. \A j \in Tasks : task'[j] = IF j = k THEN t ELSE shown[j]
  BY <1>3
<1>8. StoreTypeOK'
  <2>1. \A f \in Events : stored'[f] <= catalogue'[f] /\ catalogue'[f] <= Len(Contents[f])
    BY <1>1, <1>2, <1>3, <1>6 DEF StoreTypeOK
  <2>2. task' \in [Tasks -> Task]
    <3>1. shown \in [Tasks -> Task]
      BY <1>4
    <3>. HIDE DEF shown
    <3>. QED
      BY <1>3, <1>5, <3>1
  <2>. QED
    BY <1>1, <1>3, <1>6, <2>1, <2>2 DEF StoreTypeOK
<1>. HIDE DEF shown
<1>9. TaskOK(k)'
  <2>1. task'[k] = t
    BY <1>7
  <2>. QED
    BY <1>5, <2>1 DEF TaskOK, RecordOK
<1>10. ASSUME NEW j \in Tasks, j # k PROVE TaskOK(j)'
  <2>1. task'[j] = shown[j]
    BY <1>7, <1>10
  <2>2. ASSUME task[j].stage # "idle"
        PROVE  stored'[task[j].event] \in task'[j].had \union {stored[task[j].event]}
    <3>1. task[j].event \in Events
      BY <2>2 DEF EventInv, TaskOK, RecordOK
    <3>. QED
      BY <1>4, <1>6, <2>1, <2>2, <3>1
  <2>3. ASSUME task[j].stage = "storing", j \notin overtaken'
        PROVE  j \notin overtaken /\ stored'[task[j].event] = stored[task[j].event]
    <3>1. task[j].event \in Events
      BY <2>3 DEF EventInv, TaskOK, RecordOK
    <3>2. j \notin overtaken /\ task[j].event # e
      BY <1>3, <1>10, <2>3
    <3>. QED
      BY <1>6, <3>1, <3>2
  <2>4. \A f \in Events : catalogue'[f] \in Nat /\ catalogue[f] <= catalogue'[f]
    BY <1>3, <1>6
  <2>. QED
    BY <1>4, <2>1, <2>2, <2>3, <2>4, OthersKeepTask
<1>. QED
  BY <1>8, <1>9, <1>10 DEF EventInv

(* A task that fetches, stores, or fails to, keeps the invariant. *)
LEMMA FetchAndStoreInv ==
  ASSUME EventInv, NEW k \in Tasks, FetchAndStore(k)
  PROVE  EventInv'
<1>1. task[k] \in Task /\ TaskOK(k) /\ StoreTypeOK
  BY Typed DEF EventInv
<1>2. CASE Fetch(k)
  <2>. DEFINE t == [task[k] EXCEPT !.stage = "storing", !.version = catalogue[task[k].event]]
  <2>1. task[k].stage = "fetching" /\ task[k].event \in Events /\ catalogue[task[k].event] # 0
    BY <1>1, <1>2 DEF Fetch, TaskOK, RecordOK
  <2>2. catalogue[task[k].event] \in Nat /\ stored[task[k].event] <= catalogue[task[k].event]
    BY <2>1, Typed
  <2>3. /\ t \in Task /\ t.stage = "storing" /\ t.version = catalogue[task[k].event]
        /\ t.event = task[k].event /\ t.before = task[k].before /\ t.answer = task[k].answer
    BY <1>1, <2>2 DEF Task, Busy
  <2>4. t.answer = "none"
    BY <1>1, <2>1, <2>3 DEF TaskOK, RecordOK
  <2>5. RecordOK(t, FALSE)
    BY <1>1, <2>1, <2>2, <2>3, <2>4 DEF TaskOK, RecordOK, WasTrue
  <2>. QED
    BY <1>1, <1>2, <2>3, <2>5, QuietStepInv DEF Fetch, StoreTypeOK
<1>3. CASE FetchFails(k)
  <2>1. /\ task[k].stage # "idle" /\ End(k, "bad_gateway")
        /\ UNCHANGED <<stored, todo, overtaken>>
    BY <1>3 DEF FetchFails
  <2>2. "bad_gateway" \in Answers \intersect Errors
    BY DEF Answers, Errors
  <2>. QED
    BY <2>1, <2>2, EndInv
<1>4. CASE Store(k)
  BY <1>4, PutInv DEF Store
<1>5. CASE StoreFails(k)
  <2>1. CASE Put(k, "store_failed")
    BY <1>5, <2>1, PutInv DEF StoreFails
  <2>2. CASE End(k, "store_failed") /\ UNCHANGED <<stored, todo, overtaken>>
    <3>1. task[k].stage # "idle" /\ "store_failed" \in Answers \intersect Errors
      BY <1>5 DEF StoreFails, Answers, Errors
    <3>. QED
      BY <2>2, <3>1, EndInv
  <2>. QED
    BY <1>5, <2>1, <2>2 DEF StoreFails
<1>. QED
  BY <1>2, <1>3, <1>4, <1>5 DEF FetchAndStore

(* Every step of a handler keeps the invariant. *)
LEMMA HandleInv ==
  ASSUME EventInv, NEW k \in Callers, Handle(k)
  PROVE  EventInv'
<1>1. k \in Tasks /\ k # "loop"
  BY EventServiceAssumption DEF Tasks
<1>2. task[k] \in Task /\ TaskOK(k) /\ StoreTypeOK
  BY <1>1, Typed DEF EventInv
<1>3. ASSUME NEW e \in Events
      PROVE  /\ NewCall(e) \in Task /\ NewCall(e).event = e /\ NewCall(e).answer = "none"
             /\ NewCall(e).had = {stored[e]}
  <2>. DEFINE h == {stored[e]}
  <2>1. h \in SUBSET Nat
    BY Typed
  <2>2. NewCall(e) = [Idle EXCEPT !.event = e, !.had = h]
    BY DEF NewCall
  <2>. HIDE DEF h
  <2>3. NewCall(e) \in Task /\ NewCall(e).event = e /\ NewCall(e).answer = "none" /\ NewCall(e).had = h
    BY <2>1, <2>2, IdleOK DEF Task
  <2>. QED
    BY <2>3 DEF h
<1>4. ASSUME NEW e \in Events \union Foreign, Refresh(k, e)
      PROVE  EventInv'
  <2>1. CASE e \in Events
    <3>. DEFINE t == [NewCall(e) EXCEPT !.stage = "fetching", !.before = catalogue[e]]
    <3>1. Step(k, t) /\ UNCHANGED <<stored, todo, overtaken>>
      BY <1>4, <2>1 DEF Refresh
    <3>2. catalogue[e] \in Nat
      BY <2>1, Typed
    <3>3. /\ t \in Task /\ t.stage = "fetching" /\ t.event = e
          /\ t.before = catalogue[e] /\ t.answer = "none"
      BY <1>3, <2>1, <3>2 DEF Task, Busy
    <3>4. RecordOK(t, FALSE)
      BY <2>1, <3>2, <3>3 DEF RecordOK, WasTrue
    <3>. QED
      BY <1>1, <1>2, <3>1, <3>3, <3>4, QuietStepInv DEF StoreTypeOK
  <2>2. CASE e \notin Events
    <3>. DEFINE t == [Idle EXCEPT !.answer = "bad_request"]
    <3>1. Step(k, t) /\ UNCHANGED <<stored, todo, overtaken>>
      BY <1>4, <2>2 DEF Refresh
    <3>2. t \in Task /\ t.stage = "idle" /\ t.answer = "bad_request"
      BY IdleOK DEF Task, Answers
    <3>3. RecordOK(t, FALSE)
      BY <3>2 DEF RecordOK, WasTrue
    <3>. QED
      BY <1>1, <1>2, <3>1, <3>2, <3>3, QuietStepInv DEF StoreTypeOK
  <2>. QED
    BY <2>1, <2>2
<1>5. ASSUME NEW e \in Events, GetTokens(k, e)
      PROVE  EventInv'
  <2>. DEFINE t == [NewCall(e) EXCEPT !.stage = "reading"]
  <2>1. Step(k, t) /\ UNCHANGED <<stored, todo, overtaken>>
    BY <1>5 DEF GetTokens
  <2>2. /\ t \in Task /\ t.stage = "reading" /\ t.event = e
        /\ t.had = {stored[e]} /\ t.answer = "none"
    BY <1>3 DEF Task, Busy
  <2>3. RecordOK(t, FALSE)
    BY <2>2 DEF RecordOK, WasTrue
  <2>. QED
    BY <1>1, <1>2, <2>1, <2>2, <2>3, QuietStepInv DEF StoreTypeOK
<1>6. CASE ReadTokens(k)
  <2>. DEFINE e == task[k].event
              found == stored[e] # 0 /\ TokensOf(e, stored[e]) # {}
              t == [task[k] EXCEPT !.version = stored[e]]
              u == IF found THEN [t EXCEPT !.stage = "idle", !.answer = "tokens"]
                   ELSE [t EXCEPT !.stage = "checking"]
  <2>1. e \in Events /\ task[k].answer = "none" /\ stored[e] \in task[k].had
    BY <1>2, <1>6 DEF ReadTokens, TaskOK, RecordOK
  <2>2. Step(k, u) /\ UNCHANGED <<stored, todo, overtaken>>
    BY <1>6 DEF ReadTokens
  <2>3. stored[e] \in Nat
    BY <2>1, Typed
  <2>4. CASE found
    <3>1. /\ u \in Task /\ u.stage = "idle" /\ u.answer = "tokens" /\ u.event = e
          /\ u.version = stored[e] /\ u.had = task[k].had
      BY <1>2, <2>3, <2>4 DEF Task, Answers
    <3>2. RecordOK(u, FALSE)
      BY <2>1, <2>4, <3>1 DEF RecordOK, WasTrue
    <3>. QED
      BY <1>1, <1>2, <2>2, <3>1, <3>2, QuietStepInv DEF StoreTypeOK
  <2>5. CASE ~found
    <3>1. /\ u \in Task /\ u.stage = "checking" /\ u.answer = "none" /\ u.event = e
          /\ u.version = stored[e] /\ u.had = task[k].had
      BY <1>2, <2>1, <2>3, <2>5 DEF Task, Busy
    <3>2. RecordOK(u, FALSE)
      BY <2>1, <2>5, <3>1 DEF RecordOK, WasTrue
    <3>. QED
      BY <1>1, <1>2, <2>2, <3>1, <3>2, QuietStepInv DEF StoreTypeOK
  <2>. QED
    BY <2>4, <2>5
<1>7. CASE CheckExists(k)
  <2>. DEFINE e == task[k].event
              answer == IF stored[e] # 0 THEN "no_tokens" ELSE "not_found"
              t == [task[k] EXCEPT !.stage = "idle", !.answer = answer]
  <2>1. task[k].stage # "idle" /\ End(k, answer) /\ UNCHANGED <<stored, todo, overtaken>>
    BY <1>7 DEF CheckExists
  <2>2. /\ e \in Events /\ stored[e] \in task[k].had /\ task[k].version \in task[k].had
        /\ task[k].version # 0 => TokensOf(e, task[k].version) = {}
    BY <1>2, <1>7 DEF CheckExists, TaskOK, RecordOK
  <2>3. answer \in Answers
    BY DEF Answers
  <2>4. /\ t.answer = answer /\ t.event = e /\ t.had = task[k].had
        /\ t.version = task[k].version
    BY <1>2 DEF Task
  <2>5. WasTrue(t)
    <3>. HIDE DEF t
    <3>. QED
      BY <2>2, <2>4 DEF WasTrue
  <2>. HIDE DEF answer
  <2>. QED
    BY <1>1, <2>1, <2>3, <2>5, EndInv
<1>8. CASE RedisFails(k)
  <2>1. /\ task[k].stage # "idle" /\ End(k, "redis_failed")
        /\ UNCHANGED <<stored, todo, overtaken>>
    BY <1>8 DEF RedisFails
  <2>2. "redis_failed" \in Answers \intersect Errors
    BY DEF Answers, Errors
  <2>. QED
    BY <1>1, <2>1, <2>2, EndInv
<1>. QED
  BY <1>4, <1>5, <1>6, <1>7, <1>8 DEF Handle

(* Every step of the service keeps it. *)
LEMMA EventNextInv == EventInv /\ [EventNext]_eventVars => EventInv'
<1>. SUFFICES ASSUME EventInv, [EventNext]_eventVars PROVE EventInv'
  OBVIOUS
<1>1. StoreTypeOK /\ \A k \in Tasks : TaskOK(k)
  BY DEF EventInv
<1>2. ASSUME NEW e \in Events, Pick(e) PROVE EventInv'
  <2>. DEFINE t == [Idle EXCEPT !.stage = "fetching", !.event = e]
  <2>1. Step("loop", t) /\ UNCHANGED <<stored, overtaken>> /\ todo' \subseteq Events
    BY <1>1, <1>2 DEF Pick, StoreTypeOK
  <2>2. /\ t \in Task /\ t.stage = "fetching" /\ t.event = e
        /\ t.before = 0 /\ t.answer = "none"
    BY IdleOK DEF Task, Busy, Idle
  <2>3. RecordOK(t, FALSE)
    BY <2>2, Typed DEF RecordOK, WasTrue
  <2>. QED
    BY <2>1, <2>2, <2>3, QuietStepInv DEF Tasks
<1>3. ASSUME NEW e \in Events, CatalogueMoves(e) PROVE EventInv'
  <2>1. /\ catalogue \in [Events -> Nat] /\ catalogue[e] < Len(Contents[e])
        /\ catalogue' = [catalogue EXCEPT ![e] = @ + 1]
        /\ UNCHANGED <<stored, todo, task, overtaken>>
    BY <1>1, <1>3 DEF CatalogueMoves, StoreTypeOK
  <2>2. Len(Contents[e]) \in Nat
    BY ContentsNotEmpty
  <2>3. /\ catalogue' \in [Events -> Nat]
        /\ \A f \in Events : /\ catalogue'[f] \in Nat
                             /\ catalogue[f] <= catalogue'[f]
                             /\ catalogue'[f] <= Len(Contents[f])
    BY <1>1, <2>1, <2>2 DEF StoreTypeOK
  <2>4. StoreTypeOK'
    BY <1>1, <2>1, <2>3, Typed DEF StoreTypeOK
  <2>5. ASSUME NEW k \in Tasks PROVE TaskOK(k)'
    BY <2>1, <2>3, OthersKeepTask
  <2>. QED
    BY <2>4, <2>5 DEF EventInv
<1>4. ASSUME NEW k \in Tasks, FetchAndStore(k) PROVE EventInv'
  BY <1>4, FetchAndStoreInv
<1>5. ASSUME NEW k \in Callers, Handle(k) PROVE EventInv'
  BY <1>5, HandleInv
<1>6. ASSUME UNCHANGED <<catalogue, stored, task, overtaken>>, todo' \subseteq Events
      PROVE  EventInv'
  <2>1. StoreTypeOK'
    BY <1>1, <1>6 DEF StoreTypeOK
  <2>2. ASSUME NEW k \in Tasks PROVE TaskOK(k)'
    BY <1>1, <1>6 DEF TaskOK, RecordOK
  <2>. QED
    BY <2>1, <2>2 DEF EventInv
<1>7. CASE Serve
  BY <1>1, <1>6, <1>7 DEF Serve, StoreTypeOK
<1>8. CASE ListStored
  BY <1>6, <1>8 DEF ListStored, Known
<1>9. CASE Restart
  <2>1. /\ UNCHANGED <<catalogue, stored>> /\ overtaken' = {}
        /\ todo' \subseteq Events /\ task' = [k \in Tasks |-> Idle]
    BY <1>9, EventServiceAssumption DEF Restart
  <2>2. StoreTypeOK'
    BY <1>1, <2>1, IdleOK DEF StoreTypeOK
  <2>3. ASSUME NEW k \in Tasks PROVE TaskOK(k)'
    <3>1. task'[k] = Idle
      BY <2>1
    <3>2. Idle.stage = "idle" /\ Idle.answer = "none"
      BY IdleOK
    <3>. QED
      BY <3>1, <3>2 DEF TaskOK, RecordOK, WasTrue
  <2>. QED
    BY <2>2, <2>3 DEF EventInv
<1>10. CASE UNCHANGED eventVars
  BY <1>1, <1>6, <1>10 DEF eventVars, StoreTypeOK
<1>. QED
  BY <1>2, <1>3, <1>4, <1>5, <1>7, <1>8, <1>9, <1>10 DEF EventNext

(* So it holds of every reachable state. *)
LEMMA EventInvariant == EventSpec => []EventInv
BY EventInitInv, EventNextInv, PTL DEF EventSpec

-----------------------------------------------------------------------------
(* The types are part of the invariant. *)
LEMMA EventTypesFollow == EventInv => EventTypeOK
<1>. SUFFICES ASSUME EventInv PROVE EventTypeOK
  OBVIOUS
<1>1. \A e \in Events : /\ catalogue[e] \in 0 .. Len(Contents[e])
                        /\ stored[e] \in 0 .. catalogue[e]
  BY ContentsNotEmpty, Typed DEF EventInv, StoreTypeOK
<1>2. ASSUME NEW k \in Tasks
      PROVE  /\ task[k].stage \in {"idle", "fetching", "storing", "reading", "checking"}
             /\ task[k].stage = "storing" => task[k].version \in 1 .. catalogue[task[k].event]
  <2>1. task[k] \in Task /\ TaskOK(k) /\ task[k].version \in Nat
    BY Typed DEF EventInv
  <2>2. task[k].stage \in Busy \union {"idle"}
    BY <2>1 DEF Task
  <2>3. ASSUME task[k].stage = "storing"
        PROVE  task[k].version \in 1 .. catalogue[task[k].event]
    <3>1. task[k].event \in Events /\ 1 <= task[k].version
          /\ task[k].version <= catalogue[task[k].event]
      BY <2>1, <2>3 DEF TaskOK, RecordOK
    <3>. QED
      BY <2>1, <3>1, Typed
  <2>. QED
    BY <2>2, <2>3 DEF Busy
<1>. QED
  BY <1>1, <1>2 DEF EventInv, StoreTypeOK, EventTypeOK

(* Redis has no event that the catalogue has not had, and what a task is   *)
(* about to store is a version that the catalogue has had.                 *)
THEOREM EventTypes == EventSpec => []EventTypeOK
BY EventTypesFollow, EventInvariant, PTL

(* What the API answers was so at some time during the call, whatever the  *)
(* refreshes, restarts and failures around it; but an empty list of tokens *)
(* may also be that of an event that was stored between the two reads.     *)
THEOREM AnswersAreTrue == EventSpec => []AnswersWereTrue
<1>1. EventInv => AnswersWereTrue
  BY DEF EventInv, TaskOK, RecordOK, AnswersWereTrue, Tasks
<1>. QED
  BY <1>1, EventInvariant, PTL

(* Nobody changes Redis but by the SET of a task that is storing. *)
LEMMA OnlySetsChangeRedis ==
  ASSUME EventNext, stored' # stored
  PROVE  \E k \in Tasks, answer \in Answers :
           Put(k, answer) /\ task[k].stage = "storing" /\ (Store(k) \/ StoreFails(k))
<1>1. PICK k \in Tasks : Store(k) \/ StoreFails(k)
  BY EventServiceAssumption
     DEF EventNext, Pick, CatalogueMoves, FetchAndStore, Fetch, FetchFails, Handle, Refresh,
         GetTokens, ReadTokens, CheckExists, RedisFails, Serve, ListStored, Restart, Tasks
<1>2. task[k].stage = "storing" /\ (Put(k, "refreshed") \/ Put(k, "store_failed"))
  BY <1>1 DEF Store, StoreFails
<1>3. "refreshed" \in Answers /\ "store_failed" \in Answers
  BY DEF Answers
<1>. QED
  BY <1>1, <1>2, <1>3

(* Redis goes back to an older version of an event only by the SET of a    *)
(* task that another one overtook, with or without an answer.              *)
THEOREM OnlyOvertakenGoesBack == EventSpec => GoesBackOnlyWhenOvertaken
<1>. DEFINE GoesBack(e) == stored'[e] < stored[e] =>
                             \E k \in overtaken : task[k].event = e /\ (Store(k) \/ StoreFails(k))
<1>1. EventInv /\ [EventNext]_eventVars => [\A e \in Events : GoesBack(e)]_eventVars
  <2>. SUFFICES ASSUME EventInv, EventNext, NEW e \in Events, stored'[e] < stored[e]
                PROVE  \E k \in overtaken : task[k].event = e /\ (Store(k) \/ StoreFails(k))
    OBVIOUS
  <2>1. stored[e] \in Nat /\ stored \in [Events -> Nat]
    BY DEF EventInv, StoreTypeOK
  <2>2. stored' # stored
    BY <2>1
  <2>3. PICK k \in Tasks : /\ \E answer : Put(k, answer)
                           /\ task[k].stage = "storing"
                           /\ Store(k) \/ StoreFails(k)
    BY <2>2, OnlySetsChangeRedis
  <2>4. TaskOK(k) /\ task[k].version \in Nat
        /\ stored' = [stored EXCEPT ![task[k].event] = task[k].version]
    BY <2>3, Typed DEF EventInv, Put
  <2>5. task[k].event = e /\ stored'[e] = task[k].version
    BY <2>1, <2>4
  <2>6. k \in overtaken
    BY <2>1, <2>3, <2>4, <2>5 DEF TaskOK, RecordOK
  <2>. QED
    BY <2>3, <2>5, <2>6
<1>. QED
  BY <1>1, EventInvariant, PTL DEF EventSpec, GoesBackOnlyWhenOvertaken

-----------------------------------------------------------------------------
(* Its readers: the aggregator and the normalizer.                         *)

(* The aggregator has the tokens of what it has read, each in a version    *)
(* that the catalogue has had, and no others.                              *)
AggregatorInv ==
  /\ aggregator = [stage |-> aggregator.stage, todo |-> aggregator.todo,
                   listed |-> aggregator.listed, failed |-> aggregator.failed,
                   tokens |-> aggregator.tokens, subscribed |-> aggregator.subscribed]
  /\ aggregator.stage \in {"listing", "exited", "reading", "running"}
  /\ aggregator.todo \union aggregator.failed \subseteq aggregator.listed
  /\ aggregator.listed \subseteq Known
  /\ aggregator.stage = "running" => aggregator.todo = {}
  /\ \A e \in aggregator.listed \ (aggregator.failed \union aggregator.todo) :
       \E v \in 1 .. catalogue[e] : TokensOf(e, v) \subseteq aggregator.tokens
  /\ \A t \in aggregator.tokens : \E e \in aggregator.listed :
       \E v \in 1 .. catalogue[e] : t \in TokensOf(e, v)

LookupInv ==
  /\ lookup = [stage |-> lookup.stage, message |-> lookup.message, todo |-> lookup.todo]
  /\ lookup.stage \in {"idle", "by_token", "by_id"}
  /\ lookup.todo \subseteq Known
  /\ lookup.stage # "idle" => lookup.message \in Traded

NamesInv == names = [m \in Markets |-> names[m]] /\ NamesAreTrue

DiscoveryInv == EventInv /\ AggregatorInv /\ LookupInv /\ NamesInv

-----------------------------------------------------------------------------
(* The readers rely on the catalogue's and Redis's events to be there for  *)
(* good, and on no more.                                                   *)

(* An event of Redis is in a version that the catalogue has had. *)
LEMMA KnownVersion ==
  ASSUME EventInv
  PROVE  /\ Known \subseteq Events
         /\ \A e \in Events : catalogue[e] \in Nat
         /\ \A e \in Known : stored[e] \in 1 .. catalogue[e]
<1>1. \A e \in Events : catalogue[e] \in Nat /\ stored[e] \in Nat /\ stored[e] <= catalogue[e]
  BY Typed
<1>. QED
  BY <1>1 DEF Known

(* No step of the event service takes a version back or an event away. *)
LEMMA EventsStay ==
  ASSUME EventInv, EventNext
  PROVE  (\A e \in Events : 1 .. catalogue[e] \subseteq 1 .. catalogue'[e]) /\ Known \subseteq Known'
<1>0. /\ catalogue \in [Events -> Nat] /\ stored \in [Events -> Nat]
      /\ \A k \in Tasks : TaskOK(k)
  BY DEF EventInv, StoreTypeOK
<1>1. CASE UNCHANGED <<catalogue, stored>>
  BY <1>1 DEF Known
<1>2. CASE \E e \in Events : CatalogueMoves(e)
  <2>1. PICK e \in Events : CatalogueMoves(e)
    BY <1>2
  <2>2. catalogue' = [catalogue EXCEPT ![e] = @ + 1] /\ stored' = stored
    BY <2>1 DEF CatalogueMoves
  <2>3. \A f \in Events : catalogue[f] \in Nat /\ catalogue'[f] \in Nat /\ catalogue[f] <= catalogue'[f]
    BY <1>0, <2>2
  <2>. QED
    BY <2>2, <2>3 DEF Known
<1>3. CASE stored' # stored
  <2>1. PICK k \in Tasks : (\E answer : Put(k, answer)) /\ task[k].stage = "storing"
    BY <1>3, OnlySetsChangeRedis
  <2>2. /\ stored' = [stored EXCEPT ![task[k].event] = task[k].version] /\ task[k].stage = "storing"
        /\ catalogue' = catalogue
    BY <2>1 DEF Put
  <2>3. 1 <= task[k].version /\ task[k].version \in Nat
    BY <1>0, <2>2, Typed DEF TaskOK, RecordOK
  <2>4. \A e \in Events : stored[e] # 0 => stored'[e] # 0
    BY <1>0, <2>2, <2>3
  <2>. QED
    BY <2>2, <2>4 DEF Known
<1>. QED
  BY <1>1, <1>2, <1>3, EventServiceAssumption
     DEF EventNext, Pick, FetchAndStore, Fetch, FetchFails, Store, StoreFails, Put, End, Step,
         Handle, Refresh, GetTokens, ReadTokens, CheckExists, RedisFails, Serve, ListStored, Restart,
         Tasks

(* So a reader's part is kept by whoever else takes a step. *)
LEMMA ReadersFrame ==
  ASSUME EventInv, \A e \in Events : 1 .. catalogue[e] \subseteq 1 .. catalogue'[e],
         Known \subseteq Known'
  PROVE  /\ AggregatorInv /\ UNCHANGED aggregator => AggregatorInv'
         /\ LookupInv /\ UNCHANGED lookup => LookupInv'
         /\ NamesInv /\ UNCHANGED names => NamesInv'
<1>1. Known \subseteq Events
  BY KnownVersion
<1>2. AggregatorInv /\ UNCHANGED aggregator => AggregatorInv'
  <2>. SUFFICES ASSUME AggregatorInv, UNCHANGED aggregator PROVE AggregatorInv'
    OBVIOUS
  <2>1. \A e \in aggregator.listed : e \in Events /\ e \in Known'
    BY <1>1 DEF AggregatorInv
  <2>2. ASSUME NEW e \in aggregator.listed \ (aggregator.failed \union aggregator.todo)
        PROVE  \E v \in 1 .. catalogue'[e] : TokensOf(e, v) \subseteq aggregator.tokens
    BY <2>1 DEF AggregatorInv
  <2>3. ASSUME NEW t \in aggregator.tokens
        PROVE  \E e \in aggregator.listed : \E v \in 1 .. catalogue'[e] : t \in TokensOf(e, v)
    BY <2>1 DEF AggregatorInv
  <2>. QED
    BY <2>1, <2>2, <2>3 DEF AggregatorInv
<1>3. LookupInv /\ UNCHANGED lookup => LookupInv'
  BY DEF LookupInv
<1>4. NamesInv /\ UNCHANGED names => NamesInv'
  BY DEF NamesInv, NamesAreTrue
<1>. QED
  BY <1>2, <1>3, <1>4

-----------------------------------------------------------------------------
(* The aggregator.                                                         *)

(* What the aggregator has read moves from the work to do to its tokens. *)
LEMMA AggregatorKeeps ==
  ASSUME EventInv, AggregatorInv,
         \/ ListEvents \/ ListEventsFails \/ Run \/ RestartAggregator
         \/ \E e \in Events : ReadEvent(e) \/ ReadEventFails(e)
  PROVE  AggregatorInv'
<1>0. UNCHANGED <<catalogue, stored>> /\ Known' = Known
  BY DEF ListEvents, ListEventsFails, Run, RestartAggregator, ReadEvent, ReadEventFails,
         AggregatorStep, eventVars, Known
<1>1. CASE ListEvents \/ ListEventsFails
  BY <1>0, <1>1 DEF ListEvents, ListEventsFails, AggregatorStep, Starting, AggregatorInv
<1>2. CASE Run
  BY <1>0, <1>2 DEF Run, AggregatorStep, AggregatorInv
<1>3. CASE RestartAggregator
  BY <1>0, <1>3 DEF RestartAggregator, Starting, AggregatorInv
<1>4. ASSUME NEW e \in Events, ReadEvent(e) PROVE AggregatorInv'
  <2>1. /\ aggregator.stage = "reading" /\ e \in aggregator.todo
        /\ aggregator' = [aggregator EXCEPT !.todo = @ \ {e}, !.tokens = @ \union TokensOf(e, stored[e])]
    BY <1>4 DEF ReadEvent, AggregatorStep
  <2>2. /\ aggregator'.stage = aggregator.stage /\ aggregator'.todo = aggregator.todo \ {e}
        /\ aggregator'.listed = aggregator.listed /\ aggregator'.failed = aggregator.failed
        /\ aggregator'.tokens = aggregator.tokens \union TokensOf(e, stored[e])
        /\ aggregator' = [stage |-> aggregator'.stage, todo |-> aggregator'.todo,
                          listed |-> aggregator'.listed, failed |-> aggregator'.failed,
                          tokens |-> aggregator'.tokens, subscribed |-> aggregator'.subscribed]
    BY <2>1 DEF AggregatorInv
  <2>3. e \in aggregator.listed /\ stored[e] \in 1 .. catalogue[e]
    BY <2>1, KnownVersion DEF AggregatorInv
  <2>4. \A d \in aggregator'.listed \ (aggregator'.failed \union aggregator'.todo) :
          \E v \in 1 .. catalogue[d] : TokensOf(d, v) \subseteq aggregator'.tokens
    BY <2>2, <2>3 DEF AggregatorInv
  <2>5. \A t \in aggregator'.tokens : \E d \in aggregator'.listed :
          \E v \in 1 .. catalogue[d] : t \in TokensOf(d, v)
    BY <2>2, <2>3 DEF AggregatorInv
  <2>. QED
    BY <1>0, <2>1, <2>2, <2>4, <2>5 DEF AggregatorInv
<1>5. ASSUME NEW e \in Events, ReadEventFails(e) PROVE AggregatorInv'
  BY <1>0, <1>5 DEF ReadEventFails, AggregatorStep, AggregatorInv
<1>. QED
  BY <1>1, <1>2, <1>3, <1>4, <1>5

-----------------------------------------------------------------------------
(* The names.                                                              *)

(* What find finds is in the list and passes. *)
LEMMA FoundIsOwn ==
  ASSUME NEW e, NEW market \in Found(e)
  PROVE  LET content == Contents[e][stored[e]]
             m == lookup.message
         IN  \E i \in DOMAIN content :
               /\ content[i].question = market.question
               /\ \/ content[i].id = m.market
                  \/ \E j \in DOMAIN content : /\ m.token \in ToSet(ClobTokenIds(content[j]))
                                               /\ content[j].id = content[i].id
<1>. DEFINE content == Contents[e][stored[e]]
            data == EventData(e, stored[e])
            m == lookup.message
<1>1. /\ DOMAIN data = DOMAIN content
      /\ \A i \in DOMAIN content : /\ data[i].id = content[i].id
                                   /\ data[i].question = content[i].question
                                   /\ data[i].tokens = ToSet(ClobTokenIds(content[i]))
  BY DEF EventData
<1>2. CASE lookup.stage = "by_id"
  <2>1. \E i \in DOMAIN data : market = data[i] /\ data[i].id = m.market
    BY <1>2 DEF Found, Find
  <2>. QED
    BY <1>1, <2>1
<1>3. CASE lookup.stage # "by_id"
  <2>1. \E i, j \in DOMAIN data : /\ market = data[i] /\ data[i].id = data[j].id
                                  /\ m.token \in data[j].tokens
    BY <1>3 DEF Found, Find
  <2>. QED
    BY <1>1, <2>1
<1>. QED
  BY <1>2, <1>3

(* The name that is cached is one that was found for the message's market. *)
LEMMA LookupKeeps ==
  ASSUME EventInv, LookupInv, NamesInv, LookupNext
  PROVE  LookupInv' /\ NamesInv'
<1>0. UNCHANGED <<catalogue, stored>> /\ Known' = Known
  BY DEF LookupNext, Receive, ReceiveWithoutKeys, LookupGoesOn, Look, LookFails, LookById, GiveUp, LookupStep,
         eventVars, Known
<1>1. ASSUME NEW l, LookupStep(l), l = [stage |-> l.stage, message |-> l.message, todo |-> l.todo],
             l.stage \in {"idle", "by_token", "by_id"}, l.todo \subseteq Known,
             l.stage # "idle" => l.message \in Traded
      PROVE  LookupInv' /\ NamesInv'
  BY <1>0, <1>1 DEF LookupStep, LookupInv, NamesInv, NamesAreTrue
<1>2. NoLookup.stage = "idle" /\ NoLookup.todo = {}
      /\ NoLookup = [stage |-> NoLookup.stage, message |-> NoLookup.message, todo |-> NoLookup.todo]
  BY DEF NoLookup
<1>3. ASSUME NEW m \in Traded, Receive(m) \/ ReceiveWithoutKeys(m) PROVE LookupInv' /\ NamesInv'
  BY <1>1, <1>3 DEF Receive, ReceiveWithoutKeys
<1>4. ASSUME NEW e \in Events, LookFails(e) PROVE LookupInv' /\ NamesInv'
  <2>. DEFINE l == [lookup EXCEPT !.todo = @ \ {e}]
  <2>1. /\ l = [stage |-> l.stage, message |-> l.message, todo |-> l.todo]
        /\ l.stage = lookup.stage /\ l.message = lookup.message /\ l.todo = lookup.todo \ {e}
    BY DEF LookupInv
  <2>2. LookupStep(l)
    BY <1>4 DEF LookFails
  <2>. HIDE DEF l
  <2>. QED
    BY <1>1, <2>1, <2>2 DEF LookupInv
<1>5. CASE LookById
  <2>1. lookup.stage = "by_token" /\ lookup.message \in Traded
        /\ lookup = [stage |-> "by_token", message |-> lookup.message, todo |-> lookup.todo]
    BY <1>5 DEF LookById, LookupInv
  <2>2. ASSUME NEW keys, keys \subseteq Known, NEW l, LookupStep(l),
               l = [lookup EXCEPT !.stage = "by_id", !.todo = keys]
        PROVE  LookupInv' /\ NamesInv'
    <3>1. /\ l = [stage |-> l.stage, message |-> l.message, todo |-> l.todo]
          /\ l.stage = "by_id" /\ l.message = lookup.message /\ l.todo = keys
      BY <2>1, <2>2
    <3>. QED
      BY <1>1, <2>1, <2>2, <3>1
  <2>. QED
    BY <1>5, <2>2 DEF LookById
<1>6. CASE GiveUp
  BY <1>1, <1>2, <1>6 DEF GiveUp
<1>7. ASSUME NEW e \in Events, Look(e) PROVE LookupInv' /\ NamesInv'
  <2>1. CASE Found(e) = {}
    <3>. DEFINE l == [lookup EXCEPT !.todo = @ \ {e}]
    <3>1. /\ l = [stage |-> l.stage, message |-> l.message, todo |-> l.todo]
          /\ l.stage = lookup.stage /\ l.message = lookup.message /\ l.todo = lookup.todo \ {e}
      BY DEF LookupInv
    <3>2. LookupStep(l)
      BY <1>7, <2>1 DEF Look
    <3>. HIDE DEF l
    <3>. QED
      BY <1>1, <3>1, <3>2 DEF LookupInv
  <2>2. CASE Found(e) # {}
    <3>1. PICK market \in Found(e) :
            names' = [names EXCEPT ![lookup.message.market] = [slug |-> e, question |-> market.question]]
      BY <1>7, <2>2 DEF Look
    <3>2. lookup' = NoLookup /\ lookup.message \in Traded /\ stored[e] \in 1 .. catalogue[e]
      BY <1>7, <2>2, KnownVersion DEF Look, LookupInv
    <3>. DEFINE m == lookup.message.market
                name == [slug |-> e, question |-> market.question]
    <3>3. \E i \in DOMAIN Contents[e][stored[e]] :
            /\ Contents[e][stored[e]][i].question = name.question
            /\ \/ Contents[e][stored[e]][i].id = m
               \/ \E t \in Traded, j \in DOMAIN Contents[e][stored[e]] :
                    /\ t.market = m /\ t.token \in ToSet(ClobTokenIds(Contents[e][stored[e]][j]))
                    /\ Contents[e][stored[e]][j].id = Contents[e][stored[e]][i].id
      BY <3>2, FoundIsOwn
    <3>4. name.slug = e
      OBVIOUS
    <3>. HIDE DEF name
    <3>5. /\ names' = [n \in Markets |-> names'[n]]
          /\ \A n \in Markets : names'[n] = IF n = m THEN name ELSE names[n]
      <4>1. names' = [names EXCEPT ![m] = name] /\ names = [n \in Markets |-> names[n]]
        BY <3>1 DEF NamesInv, name
      <4>. QED
        BY <4>1
    <3>. HIDE DEF m
    <3>6. NamesAreTrue'
      <4>. SUFFICES ASSUME NEW n \in Markets, names'[n] # NoName
                    PROVE  \E f \in Events : \E v \in 1 .. catalogue[f] :
                             /\ names'[n].slug = f
                             /\ \E i \in DOMAIN Contents[f][v] :
                                  /\ Contents[f][v][i].question = names'[n].question
                                  /\ \/ Contents[f][v][i].id = n
                                     \/ \E t \in Traded, j \in DOMAIN Contents[f][v] :
                                          /\ t.market = n
                                          /\ t.token \in ToSet(ClobTokenIds(Contents[f][v][j]))
                                          /\ Contents[f][v][j].id = Contents[f][v][i].id
        BY <1>0 DEF NamesAreTrue
      <4>1. CASE n = m
        <5>1. names'[n] = name
          BY <3>5, <4>1
        <5>. QED
          BY <3>2, <3>3, <3>4, <4>1, <5>1
      <4>2. CASE n # m
        BY <3>5, <4>2 DEF NamesInv, NamesAreTrue
      <4>. QED
        BY <4>1, <4>2
    <3>. QED
      BY <1>2, <3>2, <3>5, <3>6 DEF LookupInv, NamesInv
  <2>. QED
    BY <2>1, <2>2
<1>. QED
  BY <1>3, <1>4, <1>5, <1>6, <1>7 DEF LookupNext, LookupGoesOn

-----------------------------------------------------------------------------
(* At the start nothing is read yet, and nothing has a name. *)
LEMMA DiscoveryInitInv == DiscoveryInit => DiscoveryInv
<1>. SUFFICES ASSUME DiscoveryInit PROVE DiscoveryInv
  OBVIOUS
<1>1. AggregatorInv
  BY DEF DiscoveryInit, Starting, AggregatorInv
<1>2. LookupInv
  BY DEF DiscoveryInit, NoLookup, LookupInv
<1>3. NamesInv
  BY DEF DiscoveryInit, NamesInv, NamesAreTrue
<1>. QED
  BY <1>1, <1>2, <1>3, EventInitInv DEF DiscoveryInit, DiscoveryInv

(* A step is one of the event service, the aggregator or the look-up. *)
LEMMA DiscoveryStep ==
  ASSUME DiscoveryInv, [DiscoveryNext]_discoveryVars
  PROVE  DiscoveryInv'
<1>0. EventInv /\ AggregatorInv /\ LookupInv /\ NamesInv
  BY DEF DiscoveryInv
<1>1. CASE EventNext /\ UNCHANGED readerVars
  BY <1>0, <1>1, EventNextInv, EventsStay, ReadersFrame DEF readerVars, DiscoveryInv
<1>2. ASSUME UNCHANGED <<catalogue, stored, todo, task, overtaken>>
      PROVE  /\ EventInv' /\ Known' = Known
             /\ UNCHANGED aggregator => AggregatorInv'
             /\ UNCHANGED lookup => LookupInv'
             /\ UNCHANGED names => NamesInv'
  <2>1. EventInv'
    BY <1>0, <1>2 DEF EventInv, StoreTypeOK, TaskOK, RecordOK
  <2>2. Known' = Known /\ catalogue' = catalogue
    BY <1>2 DEF Known
  <2>. QED
    BY <1>0, <2>1, <2>2, ReadersFrame
<1>3. CASE \/ ListEvents \/ ListEventsFails \/ Run \/ RestartAggregator
           \/ \E e \in Events : ReadEvent(e) \/ ReadEventFails(e)
  <2>1. UNCHANGED <<catalogue, stored, todo, task, overtaken, lookup, names>>
    BY <1>3 DEF ListEvents, ListEventsFails, Run, RestartAggregator, ReadEvent, ReadEventFails,
                AggregatorStep, eventVars
  <2>. QED
    BY <1>0, <1>2, <1>3, <2>1, AggregatorKeeps DEF DiscoveryInv
<1>4. CASE LookupNext
  <2>1. UNCHANGED <<catalogue, stored, todo, task, overtaken, aggregator>>
    BY <1>4 DEF LookupNext, Receive, ReceiveWithoutKeys, LookupGoesOn, Look, LookFails, LookById, GiveUp,
                LookupStep, eventVars
  <2>. QED
    BY <1>0, <1>2, <1>4, <2>1, LookupKeeps DEF DiscoveryInv
<1>5. CASE RestartOrderbookService
  <2>1. UNCHANGED <<catalogue, stored, todo, task, overtaken, aggregator>>
    BY <1>5 DEF RestartOrderbookService
  <2>2. LookupInv' /\ NamesInv'
    BY <1>5 DEF RestartOrderbookService, NoLookup, LookupInv, NamesInv, NamesAreTrue
  <2>. QED
    BY <1>2, <2>1, <2>2 DEF DiscoveryInv
<1>6. CASE UNCHANGED discoveryVars
  BY <1>2, <1>6 DEF discoveryVars, eventVars, readerVars, DiscoveryInv
<1>. QED
  BY <1>1, <1>3, <1>4, <1>5, <1>6 DEF DiscoveryNext

(* The event service, the aggregator's start and the look-up of names stay *)
(* in agreement, however their steps interleave.                           *)
THEOREM DiscoveryInvariant == DiscoverySpec => []DiscoveryInv
BY DiscoveryInitInv, DiscoveryStep, PTL DEF DiscoverySpec

(* Every variable has its type, and the readers wait for no event that     *)
(* Redis does not have.                                                    *)
THEOREM DiscoveryTypes == DiscoverySpec => []DiscoveryTypeOK
<1>1. DiscoveryInv => DiscoveryTypeOK
  BY EventTypesFollow DEF DiscoveryInv, AggregatorInv, LookupInv, DiscoveryTypeOK
<1>. QED
  BY <1>1, DiscoveryInvariant, PTL

(* The aggregator runs with the tokens of every event that it listed and   *)
(* could read, and with no token that no event has listed.                 *)
THEOREM StartMissesNothing == DiscoverySpec => []NothingMissedAtStart
<1>1. DiscoveryInv => NothingMissedAtStart
  BY DEF DiscoveryInv, AggregatorInv, NothingMissedAtStart
<1>. QED
  BY <1>1, DiscoveryInvariant, PTL

(* A name in orderbook_service's cache is that of the market to whose id   *)
(* some version of an event gave the token, or that has the id itself.     *)
THEOREM NamesStayTrue == DiscoverySpec => []NamesAreTrue
<1>1. DiscoveryInv => NamesAreTrue
  BY DEF DiscoveryInv, NamesInv
<1>. QED
  BY <1>1, DiscoveryInvariant, PTL
=============================================================================
