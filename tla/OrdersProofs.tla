----------------------------- MODULE OrdersProofs -----------------------------
(***************************************************************************)
(* For any requests, platforms, prices and number of orders: whatever      *)
(* cache, feed and exchange do while a handler waits, its answer tells     *)
(* what the exchange has, an order goes to a platform with an executor,    *)
(* and a cancellation is reported once it is decided.                      *)
(***************************************************************************)
EXTENDS Executor, ChangeFeedProofs, FiniteSetTheorems

CallFields ==
  {"stage", "answer", "request", "platform", "price", "status", "placed", "id",
   "refused", "page", "rows"}

Stages ==
  {"answered", "signing", "posted", "cancelling", "cancel_sent", "listing", "listed"}

Rejections == {"invalid_amount", "no_available_platform", "unknown_platform", "invalid_order"}

(* What the handler has made sure of when it comes to each of its awaits.  *)
StageInv ==
  /\ DOMAIN call = CallFields
  /\ call.stage \in Stages
  /\ call.stage # "answered" => call.answer = "none"
  /\ call.stage \in {"signing", "posted"} =>
       /\ ~dryRun
       /\ call.request \in Requests /\ IsComplete(call.request)
       /\ call.platform \in Registered
  /\ call.stage \in {"cancelling", "cancel_sent", "listing", "listed"} =>
       call.request = <<>>
  /\ call.request # <<>> /\ call.answer \in {"ok", "order_failed"} =>
       call.platform \in Registered

(* A call placed no order or one, with its own terms.                      *)
PlacedInv ==
  /\ \/ call.placed = {}
     \/ \E k \in DOMAIN held : /\ call.placed = {k}
                               /\ held[k].terms = Terms(call.request)
                               /\ held[k].platform = call.platform
  /\ (call.stage = "posted" \/ (call.answer = "ok" /\ call.request # <<>> /\ ~dryRun)) =>
       call.placed # {}
  /\ (call.stage = "signing" \/ call.answer \in Rejections) => call.placed = {}

(* The price that is reported was quoted when the order was routed.        *)
PriceInv ==
  call.price # NoPrice =>
    /\ call.request \in Requests /\ call.platform \in Platforms
    /\ call.price \in quoted[Opposite(call.request.side)][call.platform]

(* The exchange has decided before its answer is on the way.               *)
CancelInv ==
  (call.stage = "cancel_sent" \/ call.answer = "cancelled") =>
     ~IsOpen(call.id) \/ call.refused

(* The exchange's orders: an open one has something left to match.         *)
HeldInv ==
  /\ held \in Seq(Order)
  /\ dryRun => held = <<>>
  /\ \A id \in DOMAIN held :
       /\ held[id].terms.size \in Nat
       /\ held[id].matched <= held[id].terms.size
       /\ IsOpen(id) => held[id].matched < held[id].terms.size

OrdersInv ==
  /\ RoutingInv
  /\ dryRun \in BOOLEAN
  /\ StageInv /\ PlacedInv /\ PriceInv /\ CancelInv /\ HeldInv

-----------------------------------------------------------------------------
(* The invariant says what the properties say.                             *)

(* The three properties, and the types, are parts of it or follow at once. *)
LEMMA InvariantSuffices ==
  ASSUME OrdersInv
  PROVE  OrdersTypeOK /\ AnswersTellTheTruth /\ OrdersGoToExecutors /\ CancelledWasDecided
<1>1. Cardinality(call.placed) <= 1 /\ call.placed \subseteq DOMAIN held
  <2>1. CASE call.placed = {}
    BY <2>1, FS_EmptySet
  <2>2. CASE \E k \in DOMAIN held : call.placed = {k}
    BY <2>2, FS_Singleton
  <2>. QED
    BY <2>1, <2>2 DEF OrdersInv, PlacedInv
<1>2. OrdersTypeOK
  <2>1. ASSUME NEW id \in DOMAIN held
        PROVE  /\ held[id].matched <= held[id].terms.size
               /\ held[id].matched = held[id].terms.size => held[id].status # "live"
    BY <2>1 DEF OrdersInv, HeldInv, IsOpen
  <2>. QED
    BY <1>1, <2>1 DEF OrdersTypeOK, OrdersInv, StageInv, Stages, HeldInv, RoutingInv
<1>3. AnswersTellTheTruth
  BY <1>1 DEF AnswersTellTheTruth, OrdersInv, HeldInv, PlacedInv, Rejections
<1>4. OrdersGoToExecutors
  BY DEF OrdersGoToExecutors, OrdersInv, StageInv, Stages, PriceInv
<1>5. CancelledWasDecided
  BY DEF CancelledWasDecided, OrdersInv, CancelInv
<1>. QED
  BY <1>2, <1>3, <1>4, <1>5

(* The service starts without a call and without orders.                   *)
LEMMA OrdersInitially == ASSUME OrdersInit PROVE OrdersInv
<1>1. RoutingInv /\ dryRun \in BOOLEAN /\ call = NoCall /\ held = <<>>
  BY RoutingInitially DEF OrdersInit
<1>. QED
  BY <1>1 DEF OrdersInv, StageInv, PlacedInv, PriceInv, CancelInv, HeldInv, NoCall, CallFields,
              Stages, Rejections

-----------------------------------------------------------------------------
(* The steps of a handler that leave the exchange as it is.                *)

(* A step of the handler alone: what the invariant says of cache and       *)
(* orders stays.                                                           *)
LEMMA ExchangeUnchanged ==
  ASSUME OrdersInv, UNCHANGED <<routingVars, dryRun, held>>,
         StageInv', PlacedInv', PriceInv', CancelInv'
  PROVE  OrdersInv'
<1>1. RoutingInv'
  BY RoutingStep DEF OrdersInv
<1>2. HeldInv'
  BY DEF OrdersInv, HeldInv, IsOpen
<1>. QED
  BY <1>1, <1>2 DEF OrdersInv

(* A call that ends without success leaves what it placed as it is.        *)
LEMMA AnswerKeeps ==
  ASSUME OrdersInv, NEW answer \in {"order_failed", "cancel_failed", "list_failed", "none"},
         call.stage # "answered", Answer(answer)
  PROVE  OrdersInv'
<1>1. UNCHANGED <<routingVars, dryRun, held>>
  BY DEF Answer
<1>2. /\ DOMAIN call' = CallFields /\ call'.stage = "answered" /\ call'.answer = answer
      /\ call'.request = call.request /\ call'.platform = call.platform /\ call'.price = call.price
      /\ call'.placed = call.placed /\ call'.id = call.id /\ call'.refused = call.refused
  BY DEF Answer, Answered, OrdersInv, StageInv, CallFields
<1>3. StageInv'
  BY <1>1, <1>2 DEF OrdersInv, StageInv, Stages
<1>4. PlacedInv'
  BY <1>1, <1>2 DEF OrdersInv, PlacedInv, Rejections
<1>5. PriceInv'
  BY <1>1, <1>2 DEF OrdersInv, PriceInv, routingVars
<1>6. CancelInv'
  BY <1>1, <1>2 DEF OrdersInv, CancelInv, IsOpen
<1>. QED
  BY <1>1, <1>3, <1>4, <1>5, <1>6, ExchangeUnchanged

(* The price of the platform that the router chooses is in the cache, so   *)
(* that the platform quoted it.                                            *)
LEMMA RoutesAreQuoted ==
  ASSUME OrdersInv, NEW r \in Requests, NEW best \in Routes(r)
  PROVE  best[2] # NoPrice =>
           best[1] \in Platforms /\ best[2] \in quoted[Opposite(r.side)][best[1]]
<1>. SUFFICES ASSUME best[2] # NoPrice
              PROVE  best[1] \in Platforms /\ best[2] \in quoted[Opposite(r.side)][best[1]]
  OBVIOUS
<1>. DEFINE s == Opposite(r.side)
<1>1. s \in Sides
  BY OrdersAssumption DEF Opposite, Sides
<1>2. PICK pl \in BestPlatforms(s) : best = <<pl, cached[s][pl]>>
  BY DEF Routes, FindBestPlatform
<1>3. pl \in Platforms /\ cached[s][pl] # NoPrice
  BY <1>2 DEF BestPlatforms
<1>4. cached[s][pl] \in quoted[s][pl]
  BY <1>1, <1>3 DEF OrdersInv, RoutingInv, CachedPricesWereQuoted, Reaching
<1>. QED
  BY <1>2, <1>3, <1>4

(* A call that has just been routed, as far as its first await. *)
LEMMA RoutedCall ==
  ASSUME NEW r \in Requests, NEW pl, NEW price,
         call' = AfterRouting([NoCall EXCEPT !.request = r, !.platform = pl, !.price = price], r, pl)
  PROVE  /\ DOMAIN call' = CallFields
         /\ call'.request = r /\ call'.platform = pl /\ call'.price = price /\ call'.placed = {}
         /\ \/ /\ call'.stage = "answered"
               /\ call'.answer \in {"no_available_platform", "unknown_platform", "invalid_order"}
            \/ call'.stage = "answered" /\ call'.answer = "ok" /\ pl \in Registered /\ dryRun
            \/ /\ call'.stage = "signing" /\ call'.answer = "none"
               /\ pl \in Registered /\ ~dryRun /\ IsComplete(r)
<1>. DEFINE c == [NoCall EXCEPT !.request = r, !.platform = pl, !.price = price]
<1>1. /\ DOMAIN c = CallFields /\ c.request = r /\ c.platform = pl /\ c.price = price
      /\ c.placed = {} /\ c.answer = "none"
  BY DEF NoCall, CallFields
<1>. HIDE DEF c
<1>2. CASE pl = NoPlatform
  BY <1>1, <1>2 DEF AfterRouting, Answered, CallFields, c
<1>3. CASE pl # NoPlatform /\ pl \notin Registered
  BY <1>1, <1>3 DEF AfterRouting, Answered, CallFields, c
<1>4. CASE pl # NoPlatform /\ pl \in Registered /\ dryRun
  BY <1>1, <1>4 DEF AfterRouting, Answered, CallFields, c
<1>5. CASE pl # NoPlatform /\ pl \in Registered /\ ~dryRun /\ ~IsComplete(r)
  BY <1>1, <1>5 DEF AfterRouting, Answered, CallFields, c
<1>6. CASE pl # NoPlatform /\ pl \in Registered /\ ~dryRun /\ IsComplete(r)
  BY <1>1, <1>6 DEF AfterRouting, CallFields, c
<1>. QED
  BY <1>2, <1>3, <1>4, <1>5, <1>6

(* An order is turned away, or routed to a platform with an executor.      *)
LEMMA SubmitKeeps ==
  ASSUME OrdersInv, NEW r \in Requests, Submit(r)
  PROVE  OrdersInv'
<1>. DEFINE c == [NoCall EXCEPT !.request = r]
<1>1. UNCHANGED <<routingVars, dryRun, held>> /\ dryRun \in BOOLEAN
  BY DEF Submit, OrdersInv
<1>2. CASE TooLarge(r)
  <2>1. /\ DOMAIN call' = CallFields /\ call'.stage = "answered" /\ call'.answer = "invalid_amount"
        /\ call'.placed = {} /\ call'.price = NoPrice
    BY <1>2 DEF Submit, NoCall, Answered, CallFields
  <2>2. StageInv' /\ PlacedInv' /\ PriceInv' /\ CancelInv'
    BY <2>1 DEF StageInv, Stages, PlacedInv, PriceInv, CancelInv
  <2>. QED
    BY <1>1, <2>2, ExchangeUnchanged
<1>3. CASE ~TooLarge(r)
  <2>1. PICK best \in Routes(r) :
          call' = AfterRouting([c EXCEPT !.platform = best[1], !.price = best[2]], r, best[1])
    BY <1>3 DEF Submit
  <2>2. [c EXCEPT !.platform = best[1], !.price = best[2]]
          = [NoCall EXCEPT !.request = r, !.platform = best[1], !.price = best[2]]
    BY DEF NoCall
  <2>3. /\ DOMAIN call' = CallFields
        /\ call'.request = r /\ call'.platform = best[1] /\ call'.price = best[2]
        /\ call'.placed = {}
        /\ \/ /\ call'.stage = "answered"
              /\ call'.answer \in {"no_available_platform", "unknown_platform", "invalid_order"}
           \/ /\ call'.stage = "answered" /\ call'.answer = "ok"
              /\ best[1] \in Registered /\ dryRun
           \/ /\ call'.stage = "signing" /\ call'.answer = "none"
              /\ best[1] \in Registered /\ ~dryRun /\ IsComplete(r)
    BY <2>1, <2>2, RoutedCall
  <2>4. StageInv'
    BY <1>1, <2>3 DEF StageInv, Stages
  <2>5. PlacedInv'
    BY <1>1, <2>3 DEF PlacedInv
  <2>6. PriceInv'
    BY <1>1, <2>3, RoutesAreQuoted DEF PriceInv, routingVars
  <2>7. CancelInv'
    BY <2>3 DEF CancelInv
  <2>. QED
    BY <1>1, <2>4, <2>5, <2>6, <2>7, ExchangeUnchanged
<1>. QED
  BY <1>2, <1>3

(* A call that starts, or is turned away, without an order. *)
LEMMA OtherCallKeeps ==
  ASSUME OrdersInv, NEW pl, NEW c, NEW stage \in {"cancelling", "listing"},
         UNCHANGED <<routingVars, dryRun, held>>,
         DOMAIN c = CallFields, c.request = <<>>, c.placed = {}, c.price = NoPrice,
         c.answer = "none",
         call' = IF pl \in Registered THEN [c EXCEPT !.stage = stage]
                 ELSE Answered(c, "unknown_platform")
  PROVE  OrdersInv'
<1>1. /\ DOMAIN call' = CallFields /\ call'.request = <<>> /\ call'.placed = {}
      /\ call'.price = NoPrice
      /\ \/ call'.stage = stage /\ call'.answer = "none"
         \/ call'.stage = "answered" /\ call'.answer = "unknown_platform"
  BY DEF Answered, CallFields
<1>2. StageInv' /\ PlacedInv' /\ PriceInv' /\ CancelInv'
  BY <1>1 DEF StageInv, Stages, PlacedInv, PriceInv, CancelInv
<1>. QED
  BY <1>2, ExchangeUnchanged

(* cancel_order_handler up to its await.                                   *)
LEMMA CancelKeeps == ASSUME OrdersInv, NEW pl, NEW id, Cancel(pl, id) PROVE OrdersInv'
<1>. DEFINE c == [NoCall EXCEPT !.platform = pl, !.id = id]
<1>1. /\ DOMAIN c = CallFields /\ c.request = <<>> /\ c.placed = {} /\ c.price = NoPrice
      /\ c.answer = "none"
  BY DEF NoCall, CallFields
<1>. QED
  BY <1>1, OtherCallKeeps DEF Cancel

(* The listing up to its await.                                            *)
LEMMA ListKeeps == ASSUME OrdersInv, NEW pl, List(pl) PROVE OrdersInv'
<1>. DEFINE c == [NoCall EXCEPT !.platform = pl]
<1>1. /\ DOMAIN c = CallFields /\ c.request = <<>> /\ c.placed = {} /\ c.price = NoPrice
      /\ c.answer = "none"
  BY DEF NoCall, CallFields
<1>. QED
  BY <1>1, OtherCallKeeps DEF List

(* The acceptance of an order is reported for the one that was placed.     *)
LEMMA PostAnsweredKeeps == ASSUME OrdersInv, PostAnswered PROVE OrdersInv'
<1>1. UNCHANGED <<routingVars, dryRun, held>> /\ call.stage = "posted"
  BY DEF PostAnswered
<1>2. /\ DOMAIN call' = CallFields /\ call'.stage = "answered" /\ call'.answer = "ok"
      /\ call'.request = call.request /\ call'.platform = call.platform /\ call'.price = call.price
      /\ call'.placed = call.placed
  BY DEF PostAnswered, Answered, OrdersInv, StageInv, CallFields
<1>3. StageInv'
  BY <1>1, <1>2 DEF OrdersInv, StageInv, Stages
<1>4. PlacedInv'
  BY <1>1, <1>2 DEF OrdersInv, PlacedInv, Rejections
<1>5. PriceInv'
  BY <1>1, <1>2 DEF OrdersInv, PriceInv, routingVars
<1>6. CancelInv'
  BY <1>2 DEF CancelInv
<1>. QED
  BY <1>1, <1>3, <1>4, <1>5, <1>6, ExchangeUnchanged

(* The exchange has decided before the answer comes.                       *)
LEMMA CancelAnsweredKeeps == ASSUME OrdersInv, CancelAnswered PROVE OrdersInv'
<1>1. UNCHANGED <<routingVars, dryRun, held>> /\ call.stage = "cancel_sent"
  BY DEF CancelAnswered, Answer
<1>2. /\ DOMAIN call' = CallFields /\ call'.stage = "answered" /\ call'.answer = "cancelled"
      /\ call'.request = <<>> /\ call'.price = call.price /\ call'.platform = call.platform
      /\ call'.placed = call.placed /\ call'.id = call.id /\ call'.refused = call.refused
      /\ call.request = <<>>
  BY <1>1 DEF CancelAnswered, Answer, Answered, OrdersInv, StageInv, CallFields
<1>3. StageInv'
  BY <1>1, <1>2 DEF OrdersInv, StageInv, Stages
<1>4. PlacedInv'
  BY <1>1, <1>2 DEF OrdersInv, PlacedInv, Rejections
<1>5. PriceInv'
  BY <1>1, <1>2 DEF OrdersInv, PriceInv, routingVars
<1>6. CancelInv'
  BY <1>1, <1>2 DEF OrdersInv, CancelInv, IsOpen
<1>. QED
  BY <1>1, <1>3, <1>4, <1>5, <1>6, ExchangeUnchanged

(* Listing moves from one stage to the next, and touches nothing else that *)
(* the invariant speaks of.                                                *)
LEMMA ListingKeeps == ASSUME OrdersInv, ReadPage \/ ListAnswered PROVE OrdersInv'
<1>1. UNCHANGED <<routingVars, dryRun, held>> /\ call.stage \in {"listing", "listed"}
  BY DEF ReadPage, ListAnswered
<1>2. /\ DOMAIN call' = CallFields
      /\ \/ call'.stage = "listed" /\ call'.answer = "none"
         \/ call'.stage = "answered" /\ call'.answer = "ok"
      /\ call'.request = <<>> /\ call'.price = call.price /\ call'.platform = call.platform
      /\ call'.placed = call.placed /\ call'.id = call.id /\ call'.refused = call.refused
      /\ call.request = <<>>
  <2>1. CASE ReadPage
    BY <1>1, <2>1 DEF ReadPage, OrdersInv, StageInv, CallFields
  <2>2. CASE ListAnswered
    BY <1>1, <2>2 DEF ListAnswered, Answered, OrdersInv, StageInv, CallFields
  <2>. QED
    BY <2>1, <2>2
<1>3. StageInv'
  BY <1>1, <1>2 DEF OrdersInv, StageInv, Stages
<1>4. PlacedInv'
  BY <1>1, <1>2 DEF OrdersInv, PlacedInv, Rejections
<1>5. PriceInv'
  BY <1>1, <1>2 DEF OrdersInv, PriceInv, routingVars
<1>6. CancelInv'
  BY <1>1, <1>2 DEF OrdersInv, CancelInv, IsOpen
<1>. QED
  BY <1>1, <1>3, <1>4, <1>5, <1>6, ExchangeUnchanged
-----------------------------------------------------------------------------
(* The steps in which the exchange moves.                                  *)

(* The exchange takes the order: the only one of its call.                 *)
LEMMA PostKeeps == ASSUME OrdersInv, Post PROVE OrdersInv'
<1>. DEFINE n == Len(held) + 1
<1>1. /\ UNCHANGED <<routingVars, dryRun>> /\ call.stage = "signing" /\ Terms(call.request).size # 0
      /\ ~dryRun /\ call.request \in Requests /\ IsComplete(call.request)
      /\ call.platform \in Registered /\ call.placed = {} /\ DOMAIN call = CallFields
      /\ held \in Seq(Order) /\ Len(held) \in Nat
  BY DEF Post, OrdersInv, StageInv, PlacedInv, HeldInv
<1>2. PICK status \in {"live", "matched", "delayed"} :
        /\ held' = Append(held, [terms |-> Terms(call.request), platform |-> call.platform,
                                 status |-> status,
                                 matched |-> IF status = "matched"
                                             THEN Terms(call.request).size ELSE 0])
        /\ call' = [call EXCEPT !.stage = "posted", !.status = status, !.placed = @ \union {n}]
  BY DEF Post
<1>. DEFINE order == [terms |-> Terms(call.request), platform |-> call.platform, status |-> status,
                     matched |-> IF status = "matched" THEN Terms(call.request).size ELSE 0]
<1>3. Terms(call.request).size \in Nat
  BY <1>1, OrdersAssumption DEF Terms, IsComplete, Request
<1>4. /\ order \in Order /\ order.matched <= Terms(call.request).size
      /\ order.terms = Terms(call.request) /\ order.platform = call.platform
      /\ order.status = status /\ (status # "matched" => order.matched < Terms(call.request).size)
  BY <1>1, <1>3 DEF Order
<1>. HIDE DEF order
<1>5. /\ held' \in Seq(Order) /\ DOMAIN held' = DOMAIN held \union {n}
      /\ n \in Nat /\ n \notin DOMAIN held
      /\ held'[n] = order /\ \A id \in DOMAIN held : held'[id] = held[id]
  <2>1. held' = Append(held, order)
    BY <1>2 DEF order
  <2>. QED
    BY <1>1, <1>4, <2>1
<1>6. /\ DOMAIN call' = CallFields /\ call'.stage = "posted" /\ call'.answer = "none"
      /\ call'.request = call.request /\ call'.platform = call.platform /\ call'.price = call.price
      /\ call'.placed = {n}
  BY <1>1, <1>2 DEF OrdersInv, StageInv, CallFields
<1>. HIDE DEF n
<1>7. StageInv'
  BY <1>1, <1>6 DEF StageInv, Stages
<1>8. PlacedInv'
  BY <1>4, <1>5, <1>6 DEF PlacedInv, Rejections
<1>9. PriceInv'
  BY <1>1, <1>6 DEF OrdersInv, PriceInv, routingVars
<1>10. CancelInv'
  BY <1>6 DEF CancelInv
<1>11. HeldInv'
  <2>1. ASSUME NEW id \in DOMAIN held'
        PROVE  /\ held'[id].terms.size \in Nat
               /\ held'[id].matched <= held'[id].terms.size
               /\ IsOpen(id)' => held'[id].matched < held'[id].terms.size
    <3>1. CASE id = n
      BY <1>3, <1>4, <1>5, <3>1 DEF IsOpen
    <3>2. CASE id \in DOMAIN held
      BY <1>5, <3>2 DEF OrdersInv, HeldInv, IsOpen
    <3>. QED
      BY <1>5, <2>1, <3>1, <3>2
  <2>. QED
    BY <1>1, <1>5, <2>1 DEF HeldInv
<1>12. RoutingInv'
  BY <1>1, RoutingStep DEF OrdersInv
<1>. QED
  BY <1>1, <1>7, <1>8, <1>9, <1>10, <1>11, <1>12 DEF OrdersInv

(* One open order moves: its terms stay, and no closed one is opened.      *)
LEMMA MovedOrder ==
  ASSUME HeldInv, NEW id \in DOMAIN held, IsOpen(id), NEW moved \in Order,
         held' = [held EXCEPT ![id] = moved], UNCHANGED dryRun,
         moved.terms = held[id].terms, moved.platform = held[id].platform,
         moved.matched <= moved.terms.size,
         moved.status \in {"live", "delayed"} => moved.matched < moved.terms.size
  PROVE  /\ HeldInv' /\ DOMAIN held' = DOMAIN held
         /\ \A k \in DOMAIN held : /\ held'[k].terms = held[k].terms
                                   /\ held'[k].platform = held[k].platform
         /\ \A k : IsOpen(k)' => IsOpen(k)
<1>1. held \in Seq(Order) /\ ~dryRun
  BY DEF HeldInv
<1>2. /\ held' \in Seq(Order) /\ DOMAIN held' = DOMAIN held /\ held'[id] = moved
      /\ \A k \in DOMAIN held : k # id => held'[k] = held[k]
  BY <1>1
<1>3. \A k : IsOpen(k)' => IsOpen(k)
  BY <1>2 DEF IsOpen
<1>4. ASSUME NEW k \in DOMAIN held'
      PROVE  /\ held'[k].terms.size \in Nat
             /\ held'[k].matched <= held'[k].terms.size
             /\ IsOpen(k)' => held'[k].matched < held'[k].terms.size
  BY <1>2 DEF HeldInv, IsOpen
<1>5. HeldInv'
  BY <1>1, <1>2, <1>4 DEF HeldInv
<1>. QED
  BY <1>2, <1>3, <1>5

(* An order moves by itself.                                               *)
LEMMA ExchangeMovesKeeps == ASSUME OrdersInv, NEW id, ExchangeMoves(id) PROVE OrdersInv'
<1>1. UNCHANGED <<routingVars, dryRun, call>> /\ IsOpen(id) /\ id \in DOMAIN held /\ HeldInv
  BY DEF ExchangeMoves, IsOpen, OrdersInv
<1>. DEFINE o == held[id]
<1>2. /\ o \in Order /\ o.matched < o.terms.size /\ o.terms.size \in Nat
  BY <1>1 DEF HeldInv
<1>3. PICK moved \in {[o EXCEPT !.matched = @ + 1,
                                !.status = IF o.matched + 1 = o.terms.size THEN "matched" ELSE "live"],
                      [o EXCEPT !.status = "live"], [o EXCEPT !.status = "canceled"]} :
        held' = [held EXCEPT ![id] = moved]
  BY DEF ExchangeMoves
<1>. HIDE DEF o
<1>4. /\ moved \in Order /\ moved.terms = o.terms /\ moved.platform = o.platform
      /\ moved.matched <= moved.terms.size
      /\ moved.status \in {"live", "delayed"} => moved.matched < moved.terms.size
  <2>1. o.matched \in Nat /\ o.matched + 1 \in Nat /\ o.matched + 1 <= o.terms.size
    BY <1>2 DEF Order
  <2>2. CASE moved = [o EXCEPT !.matched = @ + 1,
                              !.status = IF o.matched + 1 = o.terms.size THEN "matched" ELSE "live"]
    <3>1. moved \in Order /\ moved.terms = o.terms /\ moved.platform = o.platform
      BY <1>2, <2>1, <2>2 DEF Order
    <3>2. /\ moved.matched = o.matched + 1
          /\ moved.status = IF o.matched + 1 = o.terms.size THEN "matched" ELSE "live"
      BY <1>2, <2>2 DEF Order
    <3>. QED
      BY <1>2, <2>1, <3>1, <3>2
  <2>3. CASE moved = [o EXCEPT !.status = "live"]
    BY <1>2, <2>1, <2>3 DEF Order
  <2>4. CASE moved = [o EXCEPT !.status = "canceled"]
    BY <1>2, <2>1, <2>4 DEF Order
  <2>. QED
    BY <1>3, <2>2, <2>3, <2>4
<1>5. /\ HeldInv' /\ DOMAIN held' = DOMAIN held
      /\ \A k \in DOMAIN held : /\ held'[k].terms = held[k].terms
                                /\ held'[k].platform = held[k].platform
      /\ \A k : IsOpen(k)' => IsOpen(k)
  BY <1>1, <1>3, <1>4, MovedOrder DEF o
<1>6. StageInv' /\ PriceInv'
  BY <1>1 DEF OrdersInv, StageInv, PriceInv, routingVars
<1>7. PlacedInv'
  BY <1>1, <1>5 DEF OrdersInv, PlacedInv
<1>8. CancelInv'
  BY <1>1, <1>5 DEF OrdersInv, CancelInv
<1>9. RoutingInv'
  BY <1>1, RoutingStep DEF OrdersInv
<1>. QED
  BY <1>1, <1>5, <1>6, <1>7, <1>8, <1>9 DEF OrdersInv

(* The exchange cancels the order or refuses to.                           *)
LEMMA CancelArrivesKeeps == ASSUME OrdersInv, CancelArrives PROVE OrdersInv'
<1>1. /\ UNCHANGED <<routingVars, dryRun>> /\ call.stage = "cancelling" /\ call.request = <<>>
      /\ HeldInv /\ DOMAIN call = CallFields
  BY DEF CancelArrives, OrdersInv, StageInv
<1>2. /\ DOMAIN call' = CallFields /\ call'.stage = "cancel_sent" /\ call'.answer = "none"
      /\ call'.request = <<>> /\ call'.price = call.price /\ call'.platform = call.platform
      /\ call'.placed = call.placed /\ call'.id = call.id
  BY <1>1 DEF CancelArrives, OrdersInv, StageInv, CallFields
<1>3. /\ HeldInv' /\ DOMAIN held' = DOMAIN held
      /\ \A k \in DOMAIN held : /\ held'[k].terms = held[k].terms
                                /\ held'[k].platform = held[k].platform
      /\ ~IsOpen(call.id)' \/ call'.refused
  <2>1. CASE IsOpen(call.id) /\ held' = [held EXCEPT ![call.id].status = "canceled"]
    <3>. DEFINE moved == [held[call.id] EXCEPT !.status = "canceled"]
    <3>1. held[call.id] \in Order /\ call.id \in DOMAIN held
      BY <1>1, <2>1 DEF HeldInv, IsOpen
    <3>2. /\ moved \in Order /\ moved.terms = held[call.id].terms
          /\ moved.platform = held[call.id].platform /\ moved.matched = held[call.id].matched
          /\ moved.status = "canceled" /\ held' = [held EXCEPT ![call.id] = moved]
      BY <2>1, <3>1 DEF Order
    <3>. HIDE DEF moved
    <3>3. moved.matched <= moved.terms.size
      BY <1>1, <3>1, <3>2 DEF HeldInv
    <3>4. ~IsOpen(call.id)'
      BY <1>2, <3>1, <3>2 DEF IsOpen
    <3>. QED
      BY <1>1, <2>1, <3>1, <3>2, <3>3, <3>4, MovedOrder
  <2>2. CASE UNCHANGED held /\ call' = [call EXCEPT !.stage = "cancel_sent", !.refused = TRUE]
    BY <1>1, <2>2 DEF HeldInv, IsOpen, CallFields
  <2>. QED
    BY <2>1, <2>2 DEF CancelArrives
<1>4. StageInv'
  BY <1>1, <1>2 DEF OrdersInv, StageInv, Stages
<1>5. PlacedInv'
  BY <1>1, <1>2, <1>3 DEF OrdersInv, PlacedInv, Rejections
<1>6. PriceInv'
  BY <1>1, <1>2 DEF OrdersInv, PriceInv, routingVars
<1>7. CancelInv'
  BY <1>2, <1>3 DEF CancelInv
<1>8. RoutingInv'
  BY <1>1, RoutingStep DEF OrdersInv
<1>. QED
  BY <1>1, <1>3, <1>4, <1>5, <1>6, <1>7, <1>8 DEF OrdersInv

(* The feed and the cache move: what was quoted stays quoted. *)
LEMMA RoutingKeeps == ASSUME OrdersInv, RoutingNext, UNCHANGED callVars PROVE OrdersInv'
<1>1. RoutingInv' /\ UNCHANGED <<dryRun, call, held>>
  BY RoutingStep DEF OrdersInv, callVars
<1>2. \A s \in Sides, pl \in Platforms : quoted[s][pl] \subseteq quoted'[s][pl]
  BY DEF RoutingNext, ProcessMessage, HandleChange
<1>3. PriceInv'
  <2>1. \A r \in Requests : Opposite(r.side) \in Sides
    BY DEF Opposite, Sides
  <2>. QED
    BY <1>1, <1>2, <2>1 DEF OrdersInv, PriceInv
<1>4. StageInv' /\ PlacedInv' /\ CancelInv' /\ HeldInv'
  BY <1>1 DEF OrdersInv, StageInv, PlacedInv, CancelInv, HeldInv, IsOpen
<1>. QED
  BY <1>1, <1>3, <1>4 DEF OrdersInv

-----------------------------------------------------------------------------
(* The invariant, one lemma for each step.                                 *)
THEOREM OrdersInvariant == OrdersSpec => []OrdersInv
<1>1. ASSUME OrdersInv, [OrdersNext]_ordersVars PROVE OrdersInv'
  <2>1. CASE CallNext
    <3>1. CASE NotPosted \/ PostAnswerLost \/ CancelFails \/ ListFails \/ Abandon
      BY <1>1, <3>1, AnswerKeeps DEF NotPosted, PostAnswerLost, CancelFails, ListFails, Abandon
    <3>2. CASE \E r \in Requests : Submit(r)
      BY <1>1, <3>2, SubmitKeeps
    <3>3. CASE \E pl \in Platforms, id \in Ids : Cancel(pl, id)
      BY <1>1, <3>3, CancelKeeps
    <3>4. CASE \E pl \in Platforms : List(pl)
      BY <1>1, <3>4, ListKeeps
    <3>5. CASE \E id \in Ids : ExchangeMoves(id)
      BY <1>1, <3>5, ExchangeMovesKeeps
    <3>. QED
      BY <1>1, <2>1, <3>1, <3>2, <3>3, <3>4, <3>5, PostKeeps, PostAnsweredKeeps, CancelArrivesKeeps,
         CancelAnsweredKeeps, ListingKeeps DEF CallNext
  <2>2. CASE RoutingNext /\ UNCHANGED callVars
    BY <1>1, <2>2, RoutingKeeps
  <2>3. CASE UNCHANGED ordersVars
    <3>1. UNCHANGED <<routingVars, dryRun, call, held>>
      BY <2>3 DEF ordersVars, callVars
    <3>2. StageInv' /\ PlacedInv' /\ PriceInv' /\ CancelInv'
      BY <1>1, <3>1 DEF OrdersInv, StageInv, PlacedInv, PriceInv, CancelInv, IsOpen, routingVars
    <3>. QED
      BY <1>1, <3>1, <3>2, ExchangeUnchanged
  <2>. QED
    BY <1>1, <2>1, <2>2, <2>3 DEF OrdersNext
<1>. QED
  BY <1>1, OrdersInitially, PTL DEF OrdersSpec

(* Every variable keeps its type, and of no order more than its size is    *)
(* matched.                                                                *)
THEOREM OrdersTypeCorrect == OrdersSpec => []OrdersTypeOK
BY OrdersInvariant, InvariantSuffices, PTL

(* The answer of an order tells what the exchange has of it.               *)
THEOREM AnswersAreTrue == OrdersSpec => []AnswersTellTheTruth
BY OrdersInvariant, InvariantSuffices, PTL

(* An order goes to a platform with an executor, at a price that this      *)
(* platform quoted.                                                        *)
THEOREM OrdersAreRouted == OrdersSpec => []OrdersGoToExecutors
BY OrdersInvariant, InvariantSuffices, PTL

(* A cancellation is confirmed only once the exchange has decided.         *)
THEOREM CancellationsAreDecided == OrdersSpec => []CancelledWasDecided
BY OrdersInvariant, InvariantSuffices, PTL

-----------------------------------------------------------------------------
(* The composition.  A call leaves feed, cache and history alone, so that  *)
(* every step of the whole is a step, or a stutter, of each of its parts.  *)
LEMMA CallsOnlyRead == ASSUME CallNext PROVE UNCHANGED routingVars
<1>1. ASSUME NEW r \in Requests, Submit(r) PROVE UNCHANGED routingVars
  BY <1>1 DEF Submit
<1>2. ASSUME NEW pl, NEW id, Cancel(pl, id) \/ List(pl) \/ ExchangeMoves(id)
      PROVE UNCHANGED routingVars
  BY <1>2 DEF Cancel, List, ExchangeMoves
<1>3. CASE NotPosted \/ PostAnswerLost \/ CancelAnswered \/ CancelFails \/ ListFails \/ Abandon
  BY <1>3 DEF NotPosted, PostAnswerLost, CancelAnswered, CancelFails, ListFails, Abandon, Answer
<1>4. CASE Post \/ PostAnswered \/ CancelArrives \/ ReadPage \/ ListAnswered
  BY <1>4 DEF Post, PostAnswered, CancelArrives, ReadPage, ListAnswered
<1>. QED
  BY <1>1, <1>2, <1>3, <1>4 DEF CallNext

(* What the executor promises of its orders and its cache does not depend  *)
(* on the other subscriber of the feed: the whole implements Orders.       *)
THEOREM ExecutorIsOrders == ExecutorSpec => OrdersSpec
<1>1. ASSUME ExecutorInit PROVE OrdersInit
  BY <1>1 DEF ExecutorInit
<1>2. ASSUME [ExecutorNext]_executorVars PROVE [OrdersNext]_ordersVars
  <2>1. ASSUME NEW m \in Messages, HandleMessage(m) PROVE OrdersNext
    BY <2>1 DEF HandleMessage, OrdersNext, RoutingNext
  <2>2. CASE HearEvent
    BY <2>2 DEF HearEvent, OrdersNext, RoutingNext
  <2>3. CASE ServeCall
    BY <2>3 DEF ServeCall, OrdersNext
  <2>4. CASE UNCHANGED executorVars
    BY <2>4 DEF executorVars
  <2>. QED
    BY <1>2, <2>1, <2>2, <2>3, <2>4 DEF ExecutorNext
<1>. QED
  BY <1>1, <1>2, PTL DEF ExecutorSpec, OrdersSpec

(* Nor does what a client of the gateway shows depend on the executor, its *)
(* calls and the exchange: the whole implements PriceView.                 *)
THEOREM ExecutorIsView == ExecutorSpec => ViewSpec
<1>1. ASSUME ExecutorInit PROVE ViewInit
  BY <1>1 DEF ExecutorInit, OrdersInit, RoutingInit, ViewInit
<1>2. ASSUME [ExecutorNext]_executorVars PROVE [ViewNext]_viewVars
  <2>1. ASSUME NEW m \in Messages, HandleMessage(m) PROVE ViewNext
    BY <2>1 DEF HandleMessage, ProcessMessage, ViewNext
  <2>2. CASE HearEvent
    BY <2>2 DEF HearEvent, ViewNext
  <2>3. CASE ServeCall
    BY <2>3, CallsOnlyRead DEF ServeCall, viewVars, routingVars
  <2>4. CASE UNCHANGED executorVars
    BY <2>4 DEF executorVars, ordersVars, routingVars, viewVars
  <2>. QED
    BY <1>2, <2>1, <2>2, <2>3, <2>4 DEF ExecutorNext
<1>. QED
  BY <1>1, <1>2, PTL DEF ExecutorSpec, ViewSpec

(* Feed, subscribers and orders keep their types, together.                *)
THEOREM ExecutorTypeCorrect == ExecutorSpec => []ExecutorTypeOK
BY ExecutorIsOrders, ExecutorIsView, OrdersTypeCorrect, ViewTypeCorrect, PTL DEF ExecutorTypeOK
===============================================================================
