------------------------------- MODULE Orders -------------------------------
(***************************************************************************)
(* The executor service's orders: the handlers of crates/executor/src/     *)
(* api.rs, SmartRouter (router.rs), PolymarketExecutor and the client that *)
(* wraps the exchange's SDK (platforms/polymarket/).  A handler awaits the *)
(* exchange several times, and cache and exchange move meanwhile.  One     *)
(* call is handled at a time: calls share nothing but the cache, which     *)
(* they only read, and the exchange, whose orders move by themselves.      *)
(***************************************************************************)
EXTENDS SmartRouting, FiniteSets

CONSTANTS
  Requests,      \* the orders that clients may ask for
  Missing,       \* Option::None of an amount, a price or a size
  MaxBuyAmount,  \* the largest amount of a smart buy (5)
  MaxOrders,     \* bound: orders that the exchange takes
  PageSize       \* orders on the first page of a listing

Request ==
  [endpoint : {"smart", "direct"}, platform : Platforms \union {NoPlatform},
   side : Sides, type : {"market", "limit"}, amount : Nat \union {Missing},
   price : Prices \union {Missing}, size : Nat \union {Missing}]

ASSUME OrdersAssumption ==
  /\ Missing \notin Nat
  /\ Requests \subseteq Request
  /\ \A r \in Requests : r.endpoint = "direct" => r.platform # NoPlatform
  /\ MaxBuyAmount \in Nat /\ MaxOrders \in Nat /\ PageSize \in Nat \ {0}

VARIABLES
  dryRun,   \* PolymarketExecutor::dry_run, set when the service starts
  call,     \* the call being handled, or the last one with its answer
  held      \* the orders that the exchange has taken; their ids are 1, 2, ...

callVars == <<dryRun, call, held>>

ordersVars == <<routingVars, callVars>>

Ids == 1 .. MaxOrders

(* What the exchange gets of a request. *)
Terms(r) ==
  [side |-> r.side, type |-> r.type,
   size |-> IF r.type = "market" THEN r.amount ELSE r.size,
   price |-> IF r.type = "market" THEN Missing ELSE r.price]

(* A call that has yet to do everything.  Of its fields, placed (the ids   *)
(* of the orders it placed), page (what the exchange listed) and refused   *)
(* (whether it refused to cancel) are history.                             *)
NoCall ==
  [stage |-> "answered", answer |-> "none", request |-> <<>>, platform |-> NoPlatform,
   price |-> NoPrice, status |-> "none", placed |-> {}, id |-> 0,
   refused |-> FALSE, page |-> <<>>, rows |-> <<>>]

OrdersInit ==
  /\ RoutingInit
  /\ dryRun \in BOOLEAN
  /\ call = NoCall
  /\ held = <<>>

Answered(c, answer) == [c EXCEPT !.stage = "answered", !.answer = answer]

Answer(answer) ==
  /\ call' = Answered(call, answer)
  /\ UNCHANGED <<routingVars, dryRun, held>>

-----------------------------------------------------------------------------
(* Submitting.                                                             *)

(* smart_order_handler: an absent amount counts as zero. *)
TooLarge(r) ==
  /\ r.endpoint = "smart"
  /\ r.side = "buy"
  /\ r.amount # Missing
  /\ r.amount > MaxBuyAmount

(* Bug: the order is priced by the side it stands on. *)
RoutesBySameSide(r) ==
  IF r.platform # NoPlatform THEN {<<r.platform, NoPrice>>}
  ELSE FindBestPlatform(r.side)

(* SmartRouter::submit_order: the platform of the request, which           *)
(* direct_order_handler always sets, or the one with the best price on the *)
(* side of the book that the order takes from.                             *)
Routes(r) ==
  IF r.platform # NoPlatform THEN {<<r.platform, NoPrice>>}
  ELSE FindBestPlatform(Opposite(r.side))

(* client.rs submit_order: what a market or a limit order must have. *)
IsComplete(r) ==
  IF r.type = "market" THEN r.amount # Missing ELSE r.price # Missing /\ r.size # Missing

(* A handler up to its first await. *)
AfterRouting(c, r, pl) ==
  CASE pl = NoPlatform                   -> Answered(c, "no_available_platform")
    [] pl # NoPlatform /\ pl \notin Registered -> Answered(c, "unknown_platform")
    [] pl \in Registered /\ dryRun       -> Answered([c EXCEPT !.status = "pending"], "ok")
    [] pl \in Registered /\ ~dryRun /\ ~IsComplete(r) -> Answered(c, "invalid_order")
    [] OTHER                             -> [c EXCEPT !.stage = "signing"]

Submit(r) ==
  /\ call.stage = "answered"
  /\ LET c == [NoCall EXCEPT !.request = r]
     IN  IF TooLarge(r) THEN call' = Answered(c, "invalid_amount")
         ELSE \E best \in Routes(r) :
                call' = AfterRouting([c EXCEPT !.platform = best[1], !.price = best[2]],
                                     r, best[1])
  /\ UNCHANGED <<routingVars, dryRun, held>>

(* Building awaits the exchange's parameters of the market, signing the    *)
(* signer; either may fail, the request that posts the order may not       *)
(* arrive, and the exchange may refuse it, which the SDK makes an error.   *)
NotPosted == call.stage = "signing" /\ Answer("order_failed")

(* The order reaches the exchange, which takes none of size zero: a market *)
(* order is filled at once, a limit order is matched, delayed or put on    *)
(* the book.                                                               *)
Post ==
  /\ call.stage = "signing"
  /\ Len(held) < MaxOrders
  /\ Terms(call.request).size # 0
  /\ \E status \in IF call.request.type = "market" THEN {"matched"}
                   ELSE {"live", "matched", "delayed"} :
       /\ held' = Append(held, [terms |-> Terms(call.request), platform |-> call.platform,
                                status |-> status,
                                matched |-> IF status = "matched"
                                            THEN Terms(call.request).size ELSE 0])
       /\ call' = [call EXCEPT !.stage = "posted", !.status = status,
                               !.placed = @ \union {Len(held) + 1}]
  /\ UNCHANGED <<routingVars, dryRun>>

(* From<OrderStatusType>. *)
Converted(status) ==
  [live |-> "open", matched |-> "matched", delayed |-> "pending", canceled |-> "cancelled"][status]

PostAnswered ==
  /\ call.stage = "posted"
  /\ call' = Answered([call EXCEPT !.status = Converted(@)], "ok")
  /\ UNCHANGED <<routingVars, dryRun, held>>

(* Bug: an order whose answer is lost is posted again. *)
PostRetried ==
  /\ call.stage = "posted"
  /\ call' = [call EXCEPT !.stage = "signing"]
  /\ UNCHANGED <<routingVars, dryRun, held>>

(* The answer is lost: Error::ApiError, though the exchange has the order. *)
PostAnswerLost == call.stage = "posted" /\ Answer("order_failed")

-----------------------------------------------------------------------------
(* Cancelling.                                                             *)

(* Bug: the answer does not wait for the exchange. *)
CancelAtOnce(pl, id) ==
  /\ call.stage = "answered"
  /\ call' = Answered([NoCall EXCEPT !.platform = pl, !.id = id],
                      IF pl \in Registered THEN "cancelled" ELSE "unknown_platform")
  /\ UNCHANGED <<routingVars, dryRun, held>>

(* cancel_order_handler, which dry-run mode does not stop. *)
Cancel(pl, id) ==
  /\ call.stage = "answered"
  /\ LET c == [NoCall EXCEPT !.platform = pl, !.id = id]
     IN  call' = IF pl \in Registered THEN [c EXCEPT !.stage = "cancelling"]
                 ELSE Answered(c, "unknown_platform")
  /\ UNCHANGED <<routingVars, dryRun, held>>

IsOpen(id) == id \in DOMAIN held /\ held[id].status \in {"live", "delayed"}

(* The exchange cancels the order, or reports it as failed in a response   *)
(* that the client does not look at.                                       *)
CancelArrives ==
  /\ call.stage = "cancelling"
  /\ \/ /\ IsOpen(call.id)
        /\ held' = [held EXCEPT ![call.id].status = "canceled"]
        /\ call' = [call EXCEPT !.stage = "cancel_sent"]
     \/ /\ call' = [call EXCEPT !.stage = "cancel_sent", !.refused = TRUE]
        /\ UNCHANGED held
  /\ UNCHANGED <<routingVars, dryRun>>

CancelAnswered == call.stage = "cancel_sent" /\ Answer("cancelled")

CancelFails == call.stage \in {"cancelling", "cancel_sent"} /\ Answer("cancel_failed")

-----------------------------------------------------------------------------
(* Listing.                                                                *)

List(pl) ==
  /\ call.stage = "answered"
  /\ LET c == [NoCall EXCEPT !.platform = pl]
     IN  call' = IF pl \in Registered THEN [c EXCEPT !.stage = "listing"]
                 ELSE Answered(c, "unknown_platform")
  /\ UNCHANGED <<routingVars, dryRun, held>>

(* The exchange's first page of open orders; the client asks for no other. *)
ReadPage ==
  /\ call.stage = "listing"
  /\ LET open == SelectSeq([i \in DOMAIN held |-> i], IsOpen)
     IN  call' = [call EXCEPT !.stage = "listed",
                    !.page = [i \in 1 .. (IF Len(open) < PageSize THEN Len(open) ELSE PageSize) |->
                                [id |-> open[i], original |-> held[open[i]].terms.size,
                                 matched |-> held[open[i]].matched]]]
  /\ UNCHANGED <<routingVars, dryRun, held>>

(* get_open_orders puts the matched size where OpenOrder has the remaining *)
(* one, and From<OpenOrder> computes the filled size from it.              *)
OrderResponse(order) ==
  LET size_remaining == order.matched
  IN  [id |-> order.id, remaining |-> size_remaining,
       filled |-> order.original - size_remaining]

ListAnswered ==
  /\ call.stage = "listed"
  /\ call' = Answered([call EXCEPT !.rows = [i \in DOMAIN call.page |-> OrderResponse(call.page[i])]],
                      "ok")
  /\ UNCHANGED <<routingVars, dryRun, held>>

ListFails == call.stage \in {"listing", "listed"} /\ Answer("list_failed")

-----------------------------------------------------------------------------
(* The client goes away, and its handler is dropped at an await. *)
Abandon == call.stage # "answered" /\ Answer("none")

(* The exchange on its own: a delayed order goes to the book, an open one  *)
(* is matched by one share, or expires.                                    *)
ExchangeMoves(id) ==
  /\ IsOpen(id)
  /\ LET o == held[id]
         Matched == [o EXCEPT !.matched = @ + 1,
                              !.status = IF o.matched + 1 = o.terms.size THEN "matched" ELSE "live"]
     IN  \E moved \in {Matched, [o EXCEPT !.status = "live"], [o EXCEPT !.status = "canceled"]} :
           held' = [held EXCEPT ![id] = moved]
  /\ UNCHANGED <<routingVars, dryRun, call>>

CallNext ==
  \/ \E r \in Requests : Submit(r)
  \/ NotPosted \/ Post \/ PostAnswered \/ PostAnswerLost
  \/ \E pl \in Platforms, id \in Ids : Cancel(pl, id)
  \/ CancelArrives \/ CancelAnswered \/ CancelFails
  \/ \E pl \in Platforms : List(pl)
  \/ ReadPage \/ ListAnswered \/ ListFails
  \/ Abandon
  \/ \E id \in Ids : ExchangeMoves(id)

OrdersNext ==
  \/ CallNext
  \/ RoutingNext /\ UNCHANGED callVars

OrdersSpec == OrdersInit /\ [][OrdersNext]_ordersVars

-----------------------------------------------------------------------------
Order ==
  [terms : {Terms(r) : r \in Requests}, platform : Registered,
   status : {"live", "delayed", "matched", "canceled"}, matched : Nat]

(* Every variable has its type; of an order at most its size is matched. *)
OrdersTypeOK ==
  /\ RoutingTypeOK
  /\ dryRun \in BOOLEAN
  /\ call.stage \in {"answered", "signing", "posted", "cancelling", "cancel_sent", "listing", "listed"}
  /\ call.placed \subseteq DOMAIN held
  /\ held \in Seq(Order)
  /\ \A id \in DOMAIN held :
       /\ held[id].matched <= held[id].terms.size
       /\ held[id].matched = held[id].terms.size => held[id].status # "live"

(* The answer of an order tells what the exchange has of it, though the    *)
(* exchange and the cache moved while the handler waited: an accepted      *)
(* order is on the exchange, once, on the platform it was routed to and    *)
(* with the terms of the request; a rejected one is not there at all; and  *)
(* only order_failed, or no answer, leaves it open.  No call places two    *)
(* orders, and none places one in dry-run mode.                            *)
AnswersTellTheTruth ==
  /\ Cardinality(call.placed) <= 1
  /\ dryRun => held = <<>>
  /\ call.answer = "ok" /\ call.request # <<>> /\ ~dryRun =>
       \E id \in call.placed :
          held[id].terms = Terms(call.request) /\ held[id].platform = call.platform
  /\ call.answer \in {"invalid_amount", "no_available_platform", "unknown_platform", "invalid_order"} =>
       call.placed = {}

(* An order goes to a platform with an executor, and a routed one is       *)
(* reported with a price which that platform quoted on the side that the   *)
(* order takes from, however the cache moves while the order is placed.    *)
OrdersGoToExecutors ==
  call.request # <<>> =>
    /\ call.stage # "answered" \/ call.answer \in {"ok", "order_failed"} =>
         call.platform \in Registered
    /\ call.price # NoPrice =>
         call.price \in quoted[Opposite(call.request.side)][call.platform]

(* "cancelled" is answered once the exchange has decided: the order is no  *)
(* longer open, or the exchange refused to cancel it.                      *)
CancelledWasDecided ==
  call.answer = "cancelled" => ~IsOpen(call.id) \/ call.refused

(* What find_best_platform says, that it only considers platforms with an  *)
(* executor: an order finds no platform only when no platform with an      *)
(* executor has a price.                                                   *)
RoutesAmongExecutors ==
  [][\A r \in Requests :
       Submit(r) /\ call'.answer = "no_available_platform" =>
          \A pl \in Registered : cached[Opposite(r.side)][pl] = NoPrice]_ordersVars

(* What OrderResponse says of its sizes, the filled and the remaining part *)
(* of the order: of a listed order they are those of the exchange.         *)
ListedSizesAreHeld ==
  \A i \in DOMAIN call.rows :
     /\ call.rows[i].filled = call.page[i].matched
     /\ call.rows[i].remaining = call.page[i].original - call.page[i].matched
=============================================================================
