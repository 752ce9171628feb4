---------------------------- MODULE BookReaders ----------------------------
(***************************************************************************)
(* What the REST endpoints of orderbook_service read out of a book         *)
(* (crates/orderbook_service/src/orderbook.rs, store.rs, api.rs).  A       *)
(* handler holds the read guard of the book's map entry while it builds    *)
(* its response, so that a response is a function of one state of the      *)
(* book.  A response takes some of its fields from the map of levels and   *)
(* some from the best prices that are kept beside it.                      *)
(***************************************************************************)
EXTENDS Orderbook, SequencesExt

CONSTANT NoBook   \* the answer 404, for a book that no message has created

(* The platforms of a level are the keys of a HashMap. *)
ASSUME ReadersAssumption == IsFiniteSet(Platforms)

Unlimited == MaxPrice + 1   \* usize::MAX: more levels than any side has

-----------------------------------------------------------------------------
(* PlatformSizes::total_size. *)
TotalSize(s, p) == SumFunction(sizes[s][p])

ListedPrices(s) == {p \in levels[s] : ~IsEmpty(sizes, s, p)}

(* Bug: the bids are walked without rev, worst price first. *)
AscendingOnBothSides(s) == SetToSortSeq(ListedPrices(s), LAMBDA p, q : p < q)

(* The iteration over a side: the map is ordered by price, bids.iter() is  *)
(* walked backwards.                                                       *)
BestFirst(s) ==
  CHOOSE walk \in [1 .. Cardinality(ListedPrices(s)) -> ListedPrices(s)] :
    \A i, j \in DOMAIN walk :
       i < j => walk[i] # walk[j] /\ AsGood(s, walk[i], walk[j])

(* top_bids, top_asks and their variants with platforms: the first n       *)
(* levels that are not empty.                                              *)
TopLevels(s, n) ==
  LET prices == BestFirst(s)
  IN  [i \in 1 .. Min({n, Len(prices)}) |->
         [price |-> prices[i], total |-> TotalSize(s, prices[i]),
          row |-> sizes[s][prices[i]]]]

(* bid_depth, ask_depth: over all levels, however many are listed. *)
Depth(s) == SumFunction([p \in levels[s] |-> TotalSize(s, p)])

(* bid_levels, ask_levels. *)
LevelCount(s) == Cardinality(ListedPrices(s))

BothSides == systemBest["buy"] # NoPrice /\ systemBest["sell"] # NoPrice

(* mid_price, doubled so that it stays an integer, and spread. *)
TwiceMidPrice == IF BothSides THEN systemBest["buy"] + systemBest["sell"] ELSE NoPrice

Spread == IF BothSides THEN systemBest["sell"] - systemBest["buy"] ELSE NoPrice

(* Orderbook::to_response, to_bbo_response and to_summary. *)
Response(n) ==
  [platforms |-> platforms,
   levels |-> [s \in Sides |-> TopLevels(s, n)],
   exchange_best |-> exchangeBest, system_best |-> systemBest,
   twice_mid_price |-> TwiceMidPrice, spread |-> Spread,
   depth |-> [s \in Sides |-> Depth(s)],
   level_count |-> [s \in Sides |-> LevelCount(s)]]

BboResponse ==
  [exchange_best |-> exchangeBest, system_best |-> systemBest,
   twice_mid_price |-> TwiceMidPrice, spread |-> Spread]

Summary ==
  [platforms |-> platforms, system_best |-> systemBest,
   level_count |-> [s \in Sides |-> LevelCount(s)]]

(* The book is in the map since its first message. *)
IfCreated(response) == IF platforms = {} THEN NoBook ELSE response

(* OrderbookStore::get (get_market answers it for each asset of the        *)
(* market), get_bbo and list_all.                                          *)
Get(n) == IfCreated(Response(n))

GetBbo == IfCreated(BboResponse)

ListAll == IfCreated(Summary)

-----------------------------------------------------------------------------
Heads(response, s) == {response.levels[s][i].price : i \in DOMAIN response.levels[s] \cap {1}}

(* The depth that a client computes from the levels it was sent.           *)
SumOfTotals(rows) == FoldLeft(LAMBDA sum, row : sum + row.total, 0, rows)

(* What part, an answer of limited depth, says of a side is what full, the *)
(* answer without a limit, says of it.                                     *)
SideAgrees(part, full, s) ==
  LET Row(i) == full.levels[s][i]
  IN  /\ part.levels[s] = SubSeq(full.levels[s], 1, Len(part.levels[s]))
      /\ Heads(full, s) = {part.system_best[s]} \ {NoPrice}
      /\ part.level_count[s] = Len(full.levels[s])
      /\ part.depth[s] = SumOfTotals(full.levels[s])
      /\ \A i \in DOMAIN full.levels[s] :
           /\ Row(i).total > 0
           /\ Row(i).row = AggregatedLevel(sizes, s, Row(i).price)
           /\ i > 1 => /\ Row(i - 1).price # Row(i).price
                       /\ AsGood(s, Row(i - 1).price, Row(i).price)

(* A response hangs together, although half of it is computed from the     *)
(* levels and half was computed when the last message was applied: its     *)
(* levels are strictly best first, each with an order, and the best of the *)
(* book; the first one is the system's best price; the whole book, asked   *)
(* for without a depth, has the counts and the depth that a truncated one  *)
(* and the other endpoints report; and a row is what the change feed sends *)
(* for the same price, so that a client may merge the two.  n is the depth *)
(* asked for: with depth 0 no level is listed.                             *)
ReadersAgree ==
  \A n \in 0 .. Unlimited :
    LET part == Get(n)
        full == Get(Unlimited)
    IN  full # NoBook =>
          /\ \A s \in Sides :
               /\ SideAgrees(part, full, s)
               /\ Len(part.levels[s]) = Min({n, Len(full.levels[s])})
          /\ \A f \in DOMAIN GetBbo : part[f] = GetBbo[f]
          /\ \A f \in DOMAIN ListAll : part[f] = ListAll[f]
=============================================================================
