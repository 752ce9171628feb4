---------------------------- MODULE EventService ----------------------------
(***************************************************************************)
(* event_service (crates/event_service): it fetches events from the        *)
(* exchange's catalogue and keeps them in Redis, where the other services  *)
(* find them.  A background loop refreshes every stored event, and an      *)
(* endpoint any event; each fetches and then stores, and they run          *)
(* concurrently.  Redis keeps what it has over a restart of the service,   *)
(* and nobody removes an event.                                            *)
(***************************************************************************)
EXTENDS Naturals, SequencesExt

CONSTANTS
  Events,       \* the events of the supported platform (polymarket)
  Foreign,      \* the events of other platforms that clients may name
  Contents,     \* Contents[e]: the versions of e, each its sequence of markets
  Initial,      \* EVENT_SLUG as a set: the event fetched at the start, if any
  Callers,      \* clients of the HTTP API, each with one call at a time
  Unparsable,   \* clobTokenIds that do not parse, or are absent
  MaxRestarts   \* bound: restarts of this service and of its readers

ASSUME EventServiceAssumption ==
  /\ Initial \subseteq Events
  /\ Events \intersect Foreign = {}
  /\ "loop" \notin Callers
  /\ \A e \in Events :
       /\ Contents[e] \in Seq(Seq([id : STRING, question : STRING,
                                  tokens : Seq(STRING) \union {Unparsable}]))
       /\ Contents[e] # <<>>
  /\ MaxRestarts \in Nat

VARIABLES
  catalogue,  \* catalogue[e]: the version that the exchange has now, 0: none
  stored,     \* stored[e]: the version in Redis, 0: no such key
  todo,       \* the events that the pass of the loop has still to refresh
  task,       \* task[k]: what the loop, or the call of client k, is doing
  serving,    \* whether the start-up is over
  restarts,   \* how many restarts there have been
  overtaken   \* history: the tasks for whose event another task has stored
              \* an answer since they fetched theirs

eventVars == <<catalogue, stored, todo, task, serving, restarts, overtaken>>

Tasks == {"loop"} \union Callers

Versions(e) == 1 .. Len(Contents[e])

Known == {e \in Events : stored[e] # 0}

(* Two fields are history: before is the version that the catalogue had    *)
(* when a refresh came in, and had are the versions, or 0 for none, that   *)
(* Redis has had of the event since a call came in.                        *)
Idle ==
  [stage |-> "idle", event |-> "none", version |-> 0, answer |-> "none", before |-> 0, had |-> {}]

(* Redis may have events of an earlier time. *)
EventInit ==
  /\ catalogue \in [Events -> {0, 1}]
  /\ stored \in [Events -> {0, 1}]
  /\ \A e \in Events : stored[e] <= catalogue[e]
  /\ todo = Initial
  /\ task = [k \in Tasks |-> Idle]
  /\ serving = FALSE
  /\ restarts = 0
  /\ overtaken = {}

-----------------------------------------------------------------------------
(* The answer of the catalogue as it goes to Redis.                        *)

ClobTokenIds(market) == IF market.tokens = Unparsable THEN <<>> ELSE market.tokens

(* EventData::from_event: the markets, and the tokens of each, which       *)
(* extract_token_mappings has in one list, every token with its market.    *)
EventData(e, v) ==
  [i \in DOMAIN Contents[e][v] |->
     [id |-> Contents[e][v][i].id, question |-> Contents[e][v][i].question,
      tokens |-> ToSet(ClobTokenIds(Contents[e][v][i]))]]

TokensOf(e, v) == UNION {EventData(e, v)[i].tokens : i \in DOMAIN EventData(e, v)}

-----------------------------------------------------------------------------
(* Fetching and storing, which the start-up, the loop and the endpoint all *)
(* do in this order.                                                       *)

Step(k, t) ==
  /\ task' = [task EXCEPT ![k] = t]
  /\ UNCHANGED <<catalogue, serving, restarts>>

(* Bug: the HTTP client may answer from a cache of its own. *)
FetchThroughCache(k) ==
  /\ task[k].stage = "fetching"
  /\ \E v \in 1 .. catalogue[task[k].event] :
       Step(k, [task[k] EXCEPT !.stage = "storing", !.version = v])
  /\ overtaken' = overtaken \ {k}
  /\ UNCHANGED <<stored, todo>>

(* Bug: that there is no such event counts as an answer. *)
FetchOrEmpty(k) ==
  /\ task[k].stage = "fetching"
  /\ Step(k, [task[k] EXCEPT !.stage = "storing", !.version = catalogue[task[k].event]])
  /\ overtaken' = overtaken \ {k}
  /\ UNCHANGED <<stored, todo>>

(* fetch_event_data, with its answer in hand. *)
Fetch(k) ==
  /\ task[k].stage = "fetching"
  /\ catalogue[task[k].event] # 0
  /\ Step(k, [task[k] EXCEPT !.stage = "storing", !.version = catalogue[task[k].event]])
  /\ overtaken' = overtaken \ {k}
  /\ UNCHANGED <<stored, todo>>

Errors == {"bad_request", "bad_gateway", "store_failed", "redis_failed"}

(* Task t of k is over.  An error says nothing of the event, and the loop  *)
(* logs it and goes on with the next one.                                  *)
Ended(k, t, answer) ==
  IF k = "loop" THEN Idle
  ELSE IF answer \in Errors THEN [Idle EXCEPT !.answer = answer]
  ELSE [t EXCEPT !.stage = "idle", !.answer = answer]

End(k, answer) == Step(k, Ended(k, task[k], answer))

(* The request or its answer is lost, the status is not a success, or      *)
(* there is no such event.                                                 *)
FetchFails(k) ==
  /\ task[k].stage = "fetching"
  /\ End(k, "bad_gateway")
  /\ UNCHANGED <<stored, todo, overtaken>>

(* store_event: a SET without a condition and without a time to live. *)
Put(k, answer) ==
  LET e == task[k].event
      v == task[k].version
      shown == [j \in Tasks |->
                  IF task[j].stage # "idle" /\ task[j].event = e
                  THEN [task[j] EXCEPT !.had = @ \union {v}] ELSE task[j]]
  IN  /\ stored' = [stored EXCEPT ![e] = v]
      /\ overtaken' = overtaken \union {j \in Tasks \ {k} : /\ task[j].stage = "storing"
                                                            /\ task[j].event = e}
      /\ task' = [shown EXCEPT ![k] = Ended(k, shown[k], answer)]
      /\ UNCHANGED <<catalogue, todo, serving, restarts>>

Store(k) == task[k].stage = "storing" /\ Put(k, "refreshed")

(* The SET does not reach Redis, or its answer is lost. *)
StoreFails(k) ==
  /\ task[k].stage = "storing"
  /\ \/ Put(k, "store_failed")
     \/ End(k, "store_failed") /\ UNCHANGED <<stored, todo, overtaken>>

-----------------------------------------------------------------------------
(* The start-up and the loop.                                              *)

Pick(e) ==
  /\ task["loop"].stage = "idle"
  /\ e \in todo
  /\ todo' = todo \ {e}
  /\ Step("loop", [Idle EXCEPT !.stage = "fetching", !.event = e])
  /\ UNCHANGED <<stored, overtaken>>

LoopIsIdle == task["loop"].stage = "idle" /\ todo = {}

Serve ==
  /\ ~serving
  /\ LoopIsIdle
  /\ serving' = TRUE
  /\ UNCHANGED <<catalogue, stored, todo, task, restarts, overtaken>>

(* Bug: only the event of the start-up is refreshed. *)
ListInitial ==
  /\ serving
  /\ LoopIsIdle
  /\ todo' = Known \intersect Initial
  /\ UNCHANGED <<catalogue, stored, task, serving, restarts, overtaken>>

(* refresh_all_events.  When the listing fails the pass is over, which     *)
(* changes nothing.                                                        *)
ListStored ==
  /\ serving
  /\ LoopIsIdle
  /\ todo' = Known
  /\ UNCHANGED <<catalogue, stored, task, serving, restarts, overtaken>>

-----------------------------------------------------------------------------
(* The HTTP API.                                                           *)

NewCall(e) == [Idle EXCEPT !.event = e, !.had = {stored[e]}]

(* refresh_event_handler *)
Refresh(k, e) ==
  /\ serving
  /\ task[k].stage = "idle"
  /\ Step(k, IF e \in Events
             THEN [NewCall(e) EXCEPT !.stage = "fetching", !.before = catalogue[e]]
             ELSE [Idle EXCEPT !.answer = "bad_request"])
  /\ UNCHANGED <<stored, todo, overtaken>>

(* get_tokens_handler, which reads the event, and asks once more whether   *)
(* there is one when it has no tokens.  (get_event_handler and             *)
(* list_events_handler make one read each.)                                *)
GetTokens(k, e) ==
  /\ serving
  /\ task[k].stage = "idle"
  /\ e \in Events
  /\ Step(k, [NewCall(e) EXCEPT !.stage = "reading"])
  /\ UNCHANGED <<stored, todo, overtaken>>

(* Bug: an event without tokens counts as missing. *)
ReadTokensOnly(k) ==
  /\ task[k].stage = "reading"
  /\ LET e == task[k].event
         t == [task[k] EXCEPT !.stage = "idle", !.version = stored[e]]
     IN  Step(k, IF stored[e] # 0 /\ TokensOf(e, stored[e]) # {} THEN [t EXCEPT !.answer = "tokens"]
                 ELSE [t EXCEPT !.answer = "not_found"])
  /\ UNCHANGED <<stored, todo, overtaken>>

ReadTokens(k) ==
  /\ task[k].stage = "reading"
  /\ LET e == task[k].event
         t == [task[k] EXCEPT !.version = stored[e]]
     IN  Step(k, IF stored[e] # 0 /\ TokensOf(e, stored[e]) # {}
                 THEN [t EXCEPT !.stage = "idle", !.answer = "tokens"]
                 ELSE [t EXCEPT !.stage = "checking"])
  /\ UNCHANGED <<stored, todo, overtaken>>

CheckExists(k) ==
  /\ task[k].stage = "checking"
  /\ End(k, IF stored[task[k].event] # 0 THEN "no_tokens" ELSE "not_found")
  /\ UNCHANGED <<stored, todo, overtaken>>

RedisFails(k) ==
  /\ task[k].stage \in {"reading", "checking"}
  /\ End(k, "redis_failed")
  /\ UNCHANGED <<stored, todo, overtaken>>

-----------------------------------------------------------------------------
(* The exchange publishes an event, or changes one. *)
CatalogueMoves(e) ==
  /\ catalogue[e] < Len(Contents[e])
  /\ catalogue' = [catalogue EXCEPT ![e] = @ + 1]
  /\ UNCHANGED <<stored, todo, task, serving, restarts, overtaken>>

(* The service dies and starts anew. *)
Restart ==
  /\ restarts < MaxRestarts
  /\ restarts' = restarts + 1
  /\ todo' = Initial
  /\ task' = [k \in Tasks |-> Idle]
  /\ serving' = FALSE
  /\ overtaken' = {}
  /\ UNCHANGED <<catalogue, stored>>

FetchAndStore(k) == Fetch(k) \/ FetchFails(k) \/ Store(k) \/ StoreFails(k)

Handle(k) ==
  \/ \E e \in Events \union Foreign : Refresh(k, e)
  \/ \E e \in Events : GetTokens(k, e)
  \/ ReadTokens(k) \/ CheckExists(k) \/ RedisFails(k)

EventNext ==
  \/ \E e \in Events : Pick(e) \/ CatalogueMoves(e)
  \/ \E k \in Tasks : FetchAndStore(k)
  \/ \E k \in Callers : Handle(k)
  \/ Serve \/ ListStored \/ Restart

LoopStep ==
  \/ Serve \/ ListStored \/ FetchAndStore("loop")
  \/ \E e \in Events : Pick(e)

(* The start-up and the loop are one task of the runtime, which goes on    *)
(* for ever; a request that is made again and again succeeds at some time. *)
LoopFairness ==
  /\ WF_eventVars(LoopStep)
  /\ \A e \in Events :
       /\ SF_eventVars(task["loop"].event = e /\ Fetch("loop"))
       /\ SF_eventVars(task["loop"].event = e /\ Store("loop"))

EventSpec == EventInit /\ [][EventNext]_eventVars /\ LoopFairness

-----------------------------------------------------------------------------
(* Every variable has its type, and Redis has no event that the catalogue  *)
(* has not had.                                                            *)
EventTypeOK ==
  /\ \A e \in Events : catalogue[e] \in 0 .. Len(Contents[e]) /\ stored[e] \in 0 .. catalogue[e]
  /\ todo \subseteq Events
  /\ overtaken \subseteq Tasks
  /\ \A k \in Tasks :
       /\ task[k].stage \in {"idle", "fetching", "storing", "reading", "checking"}
       /\ task[k].stage = "storing" => task[k].version \in 1 .. catalogue[task[k].event]

WasTrue(t) ==
  LET had == t.had \ {0}
  IN  /\ t.answer = "refreshed" => t.version >= t.before /\ t.version \in had
      /\ t.answer = "tokens" => t.version \in had /\ TokensOf(t.event, t.version) # {}
      /\ t.answer = "not_found" => 0 \in t.had
      /\ t.answer = "no_tokens" =>
           had # {} /\ (0 \in t.had \/ \E v \in had : TokensOf(t.event, v) = {})

(* What the API answers was so at some time during the call: "refreshed"   *)
(* that Redis had a version not older than the catalogue's when the call   *)
(* came in, "tokens" that it had an event with these tokens, "not_found"   *)
(* that it had no such event, and "no_tokens" that it had one without any. *)
(* The last has an exception: the handler reads twice, and an event that   *)
(* is missing at first and then stored is answered with an empty list,     *)
(* whatever its tokens; so it may also be that there was no event at all.  *)
AnswersWereTrue == \A k \in Callers : WasTrue(task[k])

(* Redis goes back to an older version of an event only where two tasks    *)
(* refreshed it at the same time and the one that asked first stores last. *)
GoesBackOnlyWhenOvertaken ==
  [][\A e \in Events : stored'[e] < stored[e] =>
       \E k \in overtaken : task[k].event = e /\ (Store(k) \/ StoreFails(k))]_eventVars

(* Whatever fails or is overtaken, and however often the service restarts, *)
(* what Redis has of the events it knows comes to be, and to stay, what    *)
(* the catalogue has: the next pass of the loop repairs it.                *)
CatalogueReachesStore ==
  <>[](\A e \in Known : stored[e] = catalogue[e])
=============================================================================
