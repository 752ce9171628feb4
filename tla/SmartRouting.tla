---------------------------- MODULE SmartRouting ----------------------------
(***************************************************************************)
(* The executor's side of the change feed: BboCache                        *)
(* (crates/executor/src/bbo_cache.rs), which a background task updates     *)
(* from orderbook.changes.>, and what SmartRouter (router.rs) chooses from *)
(* it.  One asset.  Module Orders adds the orders.                         *)
(***************************************************************************)
EXTENDS ChangeFeed

CONSTANTS
  Registered,   \* platforms with a registered executor
  NoPlatform    \* Option::None of a platform

ASSUME SmartRoutingAssumption ==
  /\ Registered \subseteq Platforms
  /\ NoPlatform \notin Platforms

VARIABLES
  cached,   \* cached[s][pl]: best_bids (s = "buy") and best_asks ("sell")
  unheard,  \* history: the <<s, p>> whose last change the cache does not get
  quoted    \* history: quoted[s][pl], the prices at which pl ever had an order

routingVars == <<feedVars, cached, unheard, quoted>>

RoutingInit ==
  /\ FeedInit
  /\ cached = [s \in Sides |-> [pl \in Platforms |-> NoPrice]]
  /\ unheard = {}
  /\ quoted = [s \in Sides |-> [pl \in Platforms |-> {}]]

-----------------------------------------------------------------------------
(* The changes of an event that the loop of handle_change reaches: it      *)
(* returns at the first price that does not parse, and keeps what it has   *)
(* done so far.                                                            *)
Handled(event) ==
  {i \in DOMAIN event : \A j \in 1 .. i : event[j].price # Unparsable}

(* Bug: the price of a level counts for every platform. *)
OfferedByAnyone(event, s, pl) ==
  {event[i].price : i \in {j \in Handled(event) :
                             event[j].side = s /\ event[j].row # NoOrders}}

(* The prices at which an event says that pl has an order. *)
Offered(event, s, pl) ==
  {event[i].price : i \in {j \in Handled(event) :
                             event[j].side = s /\ event[j].row[pl] # 0}}

(* Bug: a new price replaces the cached one even when it is worse. *)
LatestCached(event) ==
  [s \in Sides |-> [pl \in Platforms |->
     IF Offered(event, s, pl) = {} THEN cached[s][pl]
     ELSE BestPrice(s, Offered(event, s, pl))]]

(* handle_change: each platform listed at a level improves its cached best *)
(* price.  The branch that removes a best price needs an entry of size     *)
(* zero; the events list none, because a platform without an order is not  *)
(* in the level's map.                                                     *)
CacheAfter(event) ==
  [s \in Sides |-> [pl \in Platforms |->
     BestPrice(s, Offered(event, s, pl) \union ({cached[s][pl]} \ {NoPrice}))]]

HandleChange ==
  /\ Take
  /\ cached' = CacheAfter(Head(feed))
  /\ UNCHANGED <<unheard, quoted>>

(* orderbook_service handles a message, with the history of both sides. *)
ProcessMessage(m) ==
  /\ Process(m)
  /\ LET event == feed'[Len(feed')]
         heard == {<<event[i].side, event[i].price>> : i \in Handled(event)}
     IN  unheard' = (unheard \union Changed(sizes, sizes'))
                      \ (IF feed' = feed THEN {} ELSE heard)
  /\ quoted' = [s \in Sides |-> [pl \in Platforms |->
       quoted[s][pl] \union {p \in Prices : sizes'[s][p][pl] # 0}]]
  /\ UNCHANGED cached

(* BboCache::best_ask and best_bid: the platforms with the best price, of  *)
(* which the iteration order of the map decides for one.                   *)
BestPlatforms(s) ==
  {pl \in Platforms :
     /\ cached[s][pl] # NoPrice
     /\ \A q \in Platforms : cached[s][q] # NoPrice => AsGood(s, cached[s][pl], cached[s][q])}

Opposite(s) == IF s = "buy" THEN "sell" ELSE "buy"

(* find_best_platform, for the side of the book that the order takes from: *)
(* the best over all platforms, given up when it has no executor.          *)
FindBestPlatform(s) ==
  {<<pl, cached[s][pl]>> : pl \in BestPlatforms(s) \intersect Registered}
  \union (IF BestPlatforms(s) \subseteq Registered /\ BestPlatforms(s) # {}
          THEN {} ELSE {<<NoPlatform, NoPrice>>})

RoutingNext ==
  \/ \E m \in Messages : ProcessMessage(m)
  \/ HandleChange

RoutingSpec == RoutingInit /\ [][RoutingNext]_routingVars

-----------------------------------------------------------------------------
(* Every variable has its type. *)
RoutingTypeOK ==
  /\ FeedTypeOK
  /\ cached \in [Sides -> [Platforms -> Prices \union {NoPrice}]]
  /\ unheard \subseteq Slots
  /\ quoted \in [Sides -> [Platforms -> SUBSET Prices]]

(* The prices of pl that the cache has or is about to get. *)
Reaching(s, pl) ==
  ({cached[s][pl]} \ {NoPrice})
     \union UNION {Offered(feed[i], s, pl) : i \in DOMAIN feed}

(* The cache never takes a platform for worse than it is: some price it    *)
(* has, or gets with the events in flight, is as good as every order of    *)
(* the platform, but for the levels whose last change was published in     *)
(* part or not at all.                                                     *)
CacheNeverPessimistic ==
  \A s \in Sides, p \in Prices, pl \in Platforms :
     (sizes[s][p][pl] # 0 /\ <<s, p>> \notin unheard) =>
        \E q \in Reaching(s, pl) : AsGood(s, q, p)

(* The cache invents no price: the best price of a platform, from which    *)
(* an order is routed, is one at which that very platform had an order.    *)
CachedPricesWereQuoted ==
  \A s \in Sides, pl \in Platforms : Reaching(s, pl) \subseteq quoted[s][pl]

(* What bbo_cache.rs says it keeps: the best bid and ask of a platform     *)
(* that the cache has heard everything about.                              *)
CacheIsBbo ==
  (feed = <<>> /\ unheard = {}) =>
     \A s \in Sides, pl \in Platforms :
        cached[s][pl] = BestPrice(s, {p \in Prices : sizes[s][p][pl] # 0})
=============================================================================
