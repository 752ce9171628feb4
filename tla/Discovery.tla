----------------------------- MODULE Discovery -----------------------------
(***************************************************************************)
(* The services that find the events of EventService in Redis: the         *)
(* aggregator reads their tokens once, when it starts                      *)
(* (crates/aggregator/src/main.rs), and orderbook_service looks up the     *)
(* name of a market when it handles a message of one whose name it does    *)
(* not have (service.rs).  Both list the keys and then read one after the  *)
(* other, while the event service goes on storing.                         *)
(***************************************************************************)
EXTENDS EventService

CONSTANTS
  Traded,   \* the messages that come in, as [market, token]
  NoName    \* no metadata of a market in the cache

ASSUME DiscoveryAssumption == Traded \subseteq [market : STRING, token : STRING]

VARIABLES
  aggregator,  \* the start-up of the aggregator, and the tokens it subscribes to
  lookup,      \* the handling of a message by orderbook_service
  names        \* names[m]: market_metadata_cache of the store

readerVars == <<aggregator, lookup, names>>

discoveryVars == <<eventVars, readerVars>>

Markets == {m.market : m \in Traded}

(* Of the fields, listed, failed and subscribed are history, the last the  *)
(* tokens that this aggregator or an earlier one has subscribed to.        *)
Starting ==
  [stage |-> "listing", todo |-> {}, listed |-> {}, failed |-> {}, tokens |-> {}, subscribed |-> {}]

NoLookup == [stage |-> "idle", message |-> <<>>, todo |-> {}]

DiscoveryInit ==
  /\ EventInit
  /\ aggregator = Starting
  /\ lookup = NoLookup
  /\ names = [m \in Markets |-> NoName]

-----------------------------------------------------------------------------
(* The aggregator.                                                         *)

AggregatorStep(a) ==
  /\ aggregator' = a
  /\ UNCHANGED <<eventVars, lookup, names>>

(* list_events of fetch_all_token_mappings_from_redis. *)
ListEvents ==
  /\ aggregator.stage = "listing"
  /\ AggregatorStep([aggregator EXCEPT !.stage = "reading", !.todo = Known, !.listed = Known])

(* main returns the error, and the process ends. *)
ListEventsFails ==
  /\ aggregator.stage = "listing"
  /\ AggregatorStep([aggregator EXCEPT !.stage = "exited"])

ReadEvent(e) ==
  /\ aggregator.stage = "reading"
  /\ e \in aggregator.todo
  /\ AggregatorStep([aggregator EXCEPT !.todo = @ \ {e}, !.tokens = @ \union TokensOf(e, stored[e])])

(* Bug: the first event that cannot be read ends the reading. *)
ReadEventFailsForGood(e) ==
  /\ aggregator.stage = "reading"
  /\ e \in aggregator.todo
  /\ AggregatorStep([aggregator EXCEPT !.todo = {}, !.failed = @ \union {e}])

(* A warning, and the next event. *)
ReadEventFails(e) ==
  /\ aggregator.stage = "reading"
  /\ e \in aggregator.todo
  /\ AggregatorStep([aggregator EXCEPT !.todo = @ \ {e}, !.failed = @ \union {e}])

(* subscribe_with_mappings, unless there is nothing to subscribe to, and   *)
(* the supervisor's run, after which nobody looks at Redis again.          *)
Run ==
  /\ aggregator.stage = "reading"
  /\ aggregator.todo = {}
  /\ AggregatorStep([aggregator EXCEPT !.stage = "running", !.subscribed = @ \union aggregator.tokens])

RestartAggregator ==
  /\ aggregator.stage \in {"running", "exited"}
  /\ restarts < MaxRestarts
  /\ restarts' = restarts + 1
  /\ aggregator' = [Starting EXCEPT !.subscribed = aggregator.subscribed]
  /\ UNCHANGED <<catalogue, stored, todo, task, serving, overtaken, lookup, names>>

-----------------------------------------------------------------------------
(* orderbook_service: process_message up to the application.               *)

LookupStep(l) ==
  /\ lookup' = l
  /\ UNCHANGED <<eventVars, aggregator, names>>

(* A message of a market whose name is not in the cache.  It may have been *)
(* under way for longer than the aggregator that sent it has lived.        *)
Receive(m) ==
  /\ lookup.stage = "idle"
  /\ m.token \in aggregator.subscribed
  /\ names[m.market] = NoName
  /\ LookupStep([stage |-> "by_token", message |-> m, todo |-> Known])

(* When KEYS fails the search has no keys, and finds nothing.              *)
ReceiveWithoutKeys(m) ==
  /\ lookup.stage = "idle"
  /\ m.token \in aggregator.subscribed
  /\ names[m.market] = NoName
  /\ LookupStep([stage |-> "by_token", message |-> m, todo |-> {}])

(* What find finds in a list: the first element that passes, if any. *)
Find(list, Test(_)) ==
  {list[i] : i \in {j \in DOMAIN list : Test(list[j]) /\ \A k \in 1 .. (j - 1) : ~Test(list[k])}}

(* Bug: the name of the event's first market. *)
FoundFirst(e) ==
  IF lookup.message.token \in TokensOf(e, stored[e]) THEN {EventData(e, stored[e])[1]} ELSE {}

(* find_market_by_token_id and find_market_by_id, of one event: the market *)
(* whose id is beside the token, where it is first listed, or the one with *)
(* the message's market id.                                                *)
Found(e) ==
  LET data == EventData(e, stored[e])
      m == lookup.message
      Named(id) == Find(data, LAMBDA market : market.id = id)
  IN  IF lookup.stage = "by_id" THEN Named(m.market)
      ELSE UNION {Named(owner.id) : owner \in Find(data, LAMBDA market : m.token \in market.tokens)}

(* The slug is the event's. *)
Look(e) ==
  /\ lookup.stage \in {"by_token", "by_id"}
  /\ e \in lookup.todo
  /\ IF Found(e) = {}
     THEN LookupStep([lookup EXCEPT !.todo = @ \ {e}])
     ELSE /\ \E market \in Found(e) :
               names' = [names EXCEPT ![lookup.message.market] =
                           [slug |-> e, question |-> market.question]]
          /\ lookup' = NoLookup
          /\ UNCHANGED <<eventVars, aggregator>>

(* An event that cannot be read is passed over. *)
LookFails(e) ==
  /\ lookup.stage \in {"by_token", "by_id"}
  /\ e \in lookup.todo
  /\ LookupStep([lookup EXCEPT !.todo = @ \ {e}])

LookById ==
  /\ lookup.stage = "by_token"
  /\ lookup.todo = {}
  /\ \E keys \in {Known, {}} : LookupStep([lookup EXCEPT !.stage = "by_id", !.todo = keys])

(* Bug: a market that was not found is cached as one without a name. *)
GiveUpForGood ==
  /\ lookup.stage = "by_id"
  /\ lookup.todo = {}
  /\ names' = [names EXCEPT ![lookup.message.market] = [slug |-> "", question |-> ""]]
  /\ lookup' = NoLookup
  /\ UNCHANGED <<eventVars, aggregator>>

(* The next message of the market tries again. *)
GiveUp ==
  /\ lookup.stage = "by_id"
  /\ lookup.todo = {}
  /\ LookupStep(NoLookup)

RestartOrderbookService ==
  /\ restarts < MaxRestarts
  /\ restarts' = restarts + 1
  /\ lookup' = NoLookup
  /\ names' = [m \in Markets |-> NoName]
  /\ UNCHANGED <<catalogue, stored, todo, task, serving, overtaken, aggregator>>

-----------------------------------------------------------------------------
LookupGoesOn ==
  \/ \E e \in Events : Look(e) \/ LookFails(e)
  \/ LookById \/ GiveUp

LookupNext ==
  \/ \E m \in Traded : Receive(m) \/ ReceiveWithoutKeys(m)
  \/ LookupGoesOn

DiscoveryNext ==
  \/ EventNext /\ UNCHANGED readerVars
  \/ ListEvents \/ ListEventsFails \/ Run \/ RestartAggregator
  \/ \E e \in Events : ReadEvent(e) \/ ReadEventFails(e)
  \/ LookupNext \/ RestartOrderbookService

(* Messages of a token keep coming while the aggregator is subscribed to   *)
(* it, the task that handles them goes on, and a read that is made again   *)
(* and again succeeds at some time.                                        *)
ReaderFairness ==
  /\ WF_discoveryVars(LookupGoesOn)
  /\ \A m \in Traded :
       /\ SF_discoveryVars(/\ aggregator.stage = "running" /\ m.token \in aggregator.tokens
                           /\ Receive(m))
       /\ SF_discoveryVars(/\ lookup.message = m
                           /\ lookup.stage = "by_token"
                           /\ \E e \in lookup.todo : Found(e) # {} /\ Look(e))

DiscoverySpec == DiscoveryInit /\ [][DiscoveryNext]_discoveryVars /\ LoopFairness /\ ReaderFairness

-----------------------------------------------------------------------------
(* Every variable has its type, and no reader waits for an event that      *)
(* Redis does not have.                                                    *)
DiscoveryTypeOK ==
  /\ EventTypeOK
  /\ aggregator.stage \in {"listing", "exited", "reading", "running"}
  /\ aggregator.todo \union aggregator.failed \subseteq aggregator.listed
  /\ aggregator.listed \union lookup.todo \subseteq Known
  /\ lookup.stage \in {"idle", "by_token", "by_id"}
  /\ lookup.stage # "idle" => lookup.message \in Traded

(* The aggregator runs with the tokens of every event that it listed and   *)
(* could read, whatever else it could not read and was stored meanwhile;   *)
(* and it subscribes to nothing that no version of an event lists.         *)
NothingMissedAtStart ==
  aggregator.stage = "running" =>
    /\ \A e \in aggregator.listed \ aggregator.failed :
         \E v \in 1 .. catalogue[e] : TokensOf(e, v) \subseteq aggregator.tokens
    /\ \A t \in aggregator.tokens : \E e \in aggregator.listed :
         \E v \in 1 .. catalogue[e] : t \in TokensOf(e, v)

(* The name of a market is that of a market to whose id some version of an *)
(* event gave its token, or which has its id, though the event changed     *)
(* between the reads.                                                      *)
NamesAreTrue ==
  \A m \in Markets : names[m] # NoName =>
    \E e \in Events : \E v \in 1 .. catalogue[e] :
      /\ names[m].slug = e
      /\ \E i \in DOMAIN Contents[e][v] :
           /\ Contents[e][v][i].question = names[m].question
           /\ \/ Contents[e][v][i].id = m
              \/ \E t \in Traded, j \in DOMAIN Contents[e][v] :
                   /\ t.market = m /\ t.token \in ToSet(ClobTokenIds(Contents[e][v][j]))
                   /\ Contents[e][v][j].id = Contents[e][v][i].id

(* Redis can name the market of message m. *)
Nameable(m) == \E e \in Known : m.token \in TokensOf(e, stored[e])

(* A market that keeps trading, and that Redis goes on to list, comes to   *)
(* have its name in the cache, however many reads fail before.             *)
TradedMarketsGetNames ==
  \A m \in Traded :
    <>[](Nameable(m) /\ aggregator.stage = "running" /\ m.token \in aggregator.tokens)
      => <>[](names[m.market] # NoName /\ names[m.market].slug \in Events)
=============================================================================
