---------------------------- MODULE ChangeFeed ----------------------------
(***************************************************************************)
(* orderbook_service with PUBLISH_CHANGES on                               *)
(* (crates/orderbook_service/src/service.rs): after each message that it   *)
(* applies to the book it publishes the aggregated state of the affected   *)
(* price levels on orderbook.changes.{market}.{asset}.  One task handles   *)
(* the messages one after the other, so that the levels it reads for the   *)
(* event are those the message left.  Modules PriceView and SmartRouting   *)
(* put a subscriber at the other end.                                      *)
(***************************************************************************)
EXTENDS Orderbook

CONSTANT MaxInFlight   \* bound: events published and not yet delivered

ASSUME ChangeFeedAssumption == MaxInFlight \in Nat

VARIABLES
  feed,         \* the events in flight, oldest first (NATS keeps the order
                \* of one publisher on one subject)
  unannounced   \* history: the <<s, p>> whose last change no event carried

feedVars == <<levels, sizes, platforms, exchangeBest, systemBest,
              feed, unannounced>>

Slots == Sides \X Prices

NoOrders == [pl \in Platforms |-> 0]

(* A changed level of an event.  A platform without an order at the price  *)
(* is absent from the event's list of platforms: 0 here.                   *)
Change ==
  [side : Sides, price : Prices \union {Unparsable}, row : [Platforms -> Sizes]]

FeedInit ==
  /\ Init
  /\ feed = <<>>
  /\ unannounced = {}

-----------------------------------------------------------------------------
(* The level the store reports for one affected price.  A price string     *)
(* that does not parse is looked up in vain and published as removed.      *)
ChangeAt(book, s, price) ==
  [side |-> s, price |-> price,
   row |-> IF price \in Prices THEN AggregatedLevel(book, s, price) ELSE NoOrders]

(* The levels of a message, by side and position. *)
Places(m) ==
  ({"buy"} \X DOMAIN m.levels["buy"]) \union ({"sell"} \X DOMAIN m.levels["sell"])

(* The orders in which an event may list the levels of a message: first    *)
(* the bids and then the asks of a snapshot, but the updates of a delta as *)
(* they come, in which only the order of each side is known here.          *)
Listings ==
  [m \in Messages |->
     LET N == Len(m.levels["buy"]) + Len(m.levels["sell"])
     IN  {o \in [1 .. N -> Places(m)] :
            /\ \A x \in Places(m) : \E i \in 1 .. N : o[i] = x
            /\ \A i, j \in 1 .. N : i < j =>
                 /\ o[i][1] = o[j][1] => o[i][2] < o[j][2]
                 /\ m.type = "snapshot" => o[i][1] = "buy" \/ o[j][1] = "sell"}]

Listed(book, m, o) ==
  [i \in DOMAIN o |-> ChangeAt(book, o[i][1], m.levels[o[i][1]][o[i][2]].price)]

(* Bug: the removals of a delta are not announced. *)
ChangesWithoutRemovals(book, m) ==
  {Listed(book, m, SelectSeq(o, LAMBDA x : m.levels[x[1]][x[2]].size # 0)) : o \in Listings[m]}

(* Bug: the levels are read before the message has been applied. *)
ChangesBeforeApply(book, m) == {Listed(sizes, m, o) : o \in Listings[m]}

(* publish_change: the events that may go out for message m, with one      *)
(* change for each of its levels or updates.                               *)
Changes(book, m) == {Listed(book, m, o) : o \in Listings[m]}

Announced(event) == {<<event[i].side, event[i].price>> : i \in DOMAIN event}

Changed(before, after) == {x \in Slots : before[x[1]][x[2]] # after[x[1]][x[2]]}

(* process_message, when the event goes out. *)
Publish(m) ==
  /\ Len(feed) < MaxInFlight
  /\ Apply(m)
  /\ \E event \in Changes(sizes', m) :
       /\ feed' = Append(feed, event)
       /\ unannounced' = (unannounced \union Changed(sizes, sizes')) \ Announced(event)

(* process_message, when publish_change fails: a warning, and no retry. *)
PublishFails(m) ==
  /\ Apply(m)
  /\ unannounced' = unannounced \union Changed(sizes, sizes')
  /\ UNCHANGED feed

Process(m) == Publish(m) \/ PublishFails(m)

(* The subscriber takes the next event. *)
Take ==
  /\ feed # <<>>
  /\ feed' = Tail(feed)
  /\ UNCHANGED <<levels, sizes, platforms, exchangeBest, systemBest, unannounced>>

-----------------------------------------------------------------------------
(* Every variable has its type. *)
FeedTypeOK ==
  /\ TypeOK
  /\ feed \in Seq(Seq(Change))
  /\ Len(feed) <= MaxInFlight
  /\ unannounced \subseteq Slots
=============================================================================
