----------------------------- MODULE Orderbook -----------------------------
(***************************************************************************)
(* The aggregated order book of one asset: orderbook_service's Orderbook   *)
(* (crates/orderbook_service/src/orderbook.rs), to which OrderbookStore    *)
(* applies every message of the asset under the write guard of its map     *)
(* entry (store.rs), so that one apply is one step.                        *)
(*                                                                         *)
(* A BTreeMap<Decimal, PlatformSizes> is two variables: levels[s], its     *)
(* keys, and sizes[s][p][pl], the entry of platform pl in the value under  *)
(* key p, 0 when the inner HashMap has none (PlatformSizes::set never      *)
(* stores a zero).  Prices are ticks.  Timestamps and the counters of      *)
(* applied messages are left out.                                          *)
(***************************************************************************)
EXTENDS Integers, Sequences

CONSTANTS
  Platforms,   \* names of the exchanges that contribute to the book
  MaxPrice,    \* prices are ticks 0..MaxPrice
  Sizes,       \* sizes the messages carry
  NoPrice,     \* Option::None of a best price
  Unparsable,  \* a price or size string that Decimal::from_str rejects
  Messages     \* the normalized messages that may arrive

Sides  == {"buy", "sell"}
Prices == 0 .. MaxPrice

(* A price level of a snapshot, or an update of a delta.  The two sides of *)
(* a message touch different maps, so that a delta's updates are kept per  *)
(* side, in the order of the message.                                      *)
Level == [price : Prices \union {Unparsable}, size : Sizes \union {Unparsable}]

(* Option best_bid, best_ask; the string is kept as it comes. *)
BestReported == Prices \union {NoPrice, Unparsable}

Message ==
  [type : {"snapshot", "delta"}, platform : Platforms,
   levels : [Sides -> Seq(Level)],
   best : [Sides -> BestReported]]

ASSUME OrderbookAssumption ==
  /\ MaxPrice \in Nat
  /\ Sizes \subseteq Nat
  /\ 0 \in Sizes
  /\ NoPrice \notin Prices
  /\ Unparsable \notin Prices \union Sizes
  /\ Messages \subseteq Message

VARIABLES
  levels,         \* levels[s]: the keys of bids (s = "buy") and asks ("sell")
  sizes,          \* sizes[s][p][pl]: pl's size at price p of side s
  platforms,      \* the platforms that have contributed
  exchangeBest,   \* exchangeBest[s][pl]: the best price pl itself reported
  systemBest      \* systemBest[s]: the best price computed from the book

bookVars == <<levels, sizes, platforms, exchangeBest, systemBest>>

EmptySizes == [s \in Sides |-> [p \in Prices |-> [pl \in Platforms |-> 0]]]

Init ==
  /\ levels = [s \in Sides |-> {}]
  /\ sizes = EmptySizes
  /\ platforms = {}
  /\ exchangeBest = [s \in Sides |-> [pl \in Platforms |-> NoPrice]]
  /\ systemBest = [s \in Sides |-> NoPrice]

-----------------------------------------------------------------------------
(* The pieces of Orderbook::apply.  An operator whose comment begins with  *)
(* "Bug:" is used by no action: it is changed code, with which a property  *)
(* is shown to fail.                                                       *)

(* Bug: a size that does not parse is taken as it is. *)
AcceptsAnySize(type, level) ==
  level.price \in Prices /\ (type = "snapshot" => level.size # 0)

(* Whether a level has an effect.  insert_level_platform (snapshots) skips *)
(* a zero size, apply_update_platform (deltas) stores it as a removal;     *)
(* both return at a number they cannot parse.                              *)
Accepts(type, level) ==
  /\ level.price \in Prices
  /\ level.size \in Sizes
  /\ type = "snapshot" => level.size # 0

(* The positions of the levels of m that write price p of side s. *)
Writes(m, s, p) ==
  {i \in DOMAIN m.levels[s] :
      Accepts(m.type, m.levels[s][i]) /\ m.levels[s][i].price = p}

LastOf(I) == CHOOSE i \in I : \A j \in I : j <= i

(* Bug: clearing a level forgets every platform, not only the sender. *)
ClearedForEverybody(before, m, s, p, pl) ==
  IF m.type = "snapshot" THEN 0 ELSE before[s][p][pl]

(* Bug: the asks of the platform survive its snapshot. *)
ClearedBidsOnly(before, m, s, p, pl) ==
  IF m.type = "snapshot" /\ pl = m.platform /\ s = "buy"
  THEN 0 ELSE before[s][p][pl]

(* clear_platform, first step of a snapshot: the sender's sizes go, on     *)
(* both sides.                                                             *)
Cleared(before, m, s, p, pl) ==
  IF m.type = "snapshot" /\ pl = m.platform THEN 0 ELSE before[s][p][pl]

(* Bug: of two levels with one price the first wins. *)
FirstWriteWins(before, m) ==
  [s \in Sides |-> [p \in Prices |-> [pl \in Platforms |->
     IF pl = m.platform /\ Writes(m, s, p) # {}
     THEN m.levels[s][CHOOSE i \in Writes(m, s, p) :
                        \A j \in Writes(m, s, p) : i <= j].size
     ELSE Cleared(before, m, s, p, pl)]]]

(* The sizes once every level of the message has been handled in order: at *)
(* each price the last effective write of the sender stays.                *)
SizesAfter(before, m) ==
  [s \in Sides |-> [p \in Prices |-> [pl \in Platforms |->
     IF pl = m.platform /\ Writes(m, s, p) # {}
     THEN m.levels[s][LastOf(Writes(m, s, p))].size
     ELSE Cleared(before, m, s, p, pl)]]]

(* The loops of the source, level by level, for the sender's sizes of one  *)
(* side: clear_platform, then the first n levels, each of which            *)
(* PlatformSizes::set writes if it has an effect.                          *)
LoopRow(before, m, s) ==
  LET row[n \in 0 .. Len(m.levels[s])] ==
        IF n = 0 THEN [p \in Prices |-> Cleared(before, m, s, p, m.platform)]
        ELSE LET level == m.levels[s][n]
             IN  IF Accepts(m.type, level)
                 THEN [row[n - 1] EXCEPT ![level.price] = level.size]
                 ELSE row[n - 1]
  IN  row

(* The keys before the clean-up: entry(price).or_insert_with adds one for  *)
(* each effective write, a zero-sized update of a delta included.          *)
KeysAfter(keys, m) ==
  [s \in Sides |-> keys[s] \union {p \in Prices : Writes(m, s, p) # {}}]

(* PlatformSizes::is_empty. *)
IsEmpty(book, s, p) == \A pl \in Platforms : book[s][p][pl] = 0

(* Bug: empty levels are only dropped from the bids. *)
CleanupBidsOnly(keys, book) ==
  [s \in Sides |-> {p \in keys[s] : s = "sell" \/ ~IsEmpty(book, s, p)}]

(* cleanup_empty_levels. *)
CleanupEmptyLevels(keys, book) ==
  [s \in Sides |-> {p \in keys[s] : ~IsEmpty(book, s, p)}]

AsGood(s, p, q) == IF s = "buy" THEN p >= q ELSE p <= q

BestPrice(s, P) ==
  IF P = {} THEN NoPrice ELSE CHOOSE p \in P : \A q \in P : AsGood(s, p, q)

(* Bug: emptied levels, which the clean-up has yet to drop, count. *)
BboOfAllKeys(keys, book) == [s \in Sides |-> BestPrice(s, keys[s])]

(* recalculate_system_bbo: the best key whose level is not empty. *)
RecalculateSystemBbo(keys, book) ==
  [s \in Sides |-> BestPrice(s, {p \in keys[s] : ~IsEmpty(book, s, p)})]

(* Bug: only a platform that sends a snapshot is recorded. *)
KnownFromSnapshots(m) ==
  IF m.type = "snapshot" THEN platforms \union {m.platform} ELSE platforms

KnownAfter(m) == platforms \union {m.platform}

(* Orderbook::apply, called by OrderbookStore::apply. *)
Apply(m) ==
  LET after == SizesAfter(sizes, m)
      keys  == KeysAfter(levels, m)
  IN  /\ platforms' = KnownAfter(m)
      /\ exchangeBest' = [s \in Sides |->
           IF m.best[s] = NoPrice THEN exchangeBest[s]
           ELSE [exchangeBest[s] EXCEPT ![m.platform] = m.best[s]]]
      /\ sizes' = after
      /\ systemBest' = RecalculateSystemBbo(keys, after)
      /\ levels' = CleanupEmptyLevels(keys, after)

Next == \E m \in Messages : Apply(m)

Spec == Init /\ [][Next]_bookVars

-----------------------------------------------------------------------------
(* What the readers compute from the book.                                 *)

Live(book, s) == {p \in Prices : ~IsEmpty(book, s, p)}

(* get_aggregated_bid_level, get_aggregated_ask_level: the platforms with  *)
(* an order at p, each with its size; total_size is their sum and is zero  *)
(* exactly when there is none.                                             *)
AggregatedLevel(book, s, p) == book[s][p]

-----------------------------------------------------------------------------
(* Every variable has its type. *)
TypeOK ==
  /\ levels \in [Sides -> SUBSET Prices]
  /\ sizes \in [Sides -> [Prices -> [Platforms -> Sizes]]]
  /\ platforms \in SUBSET Platforms
  /\ exchangeBest \in [Sides -> [Platforms -> BestReported]]
  /\ systemBest \in [Sides -> Prices \union {NoPrice}]

(* The maps hold a key exactly where some platform has an order: no empty  *)
(* level is left behind for the readers to report, and none with orders    *)
(* has been dropped.                                                       *)
KeysAreLiveLevels == \A s \in Sides : levels[s] = Live(sizes, s)

(* The cached system best prices are the best prices at which somebody has *)
(* an order, although they are computed before the empty levels go.        *)
SystemBboIsBest == \A s \in Sides : systemBest[s] = BestPrice(s, Live(sizes, s))

(* An order, or a best price an exchange reported, is only held for a      *)
(* platform that the response lists.                                       *)
ContributorsAreKnown ==
  \A pl \in Platforms \ platforms : \A s \in Sides :
     /\ exchangeBest[s][pl] = NoPrice
     /\ \A p \in Prices : sizes[s][p][pl] = 0

IInv == TypeOK /\ KeysAreLiveLevels /\ SystemBboIsBest /\ ContributorsAreKnown

(* The feeds of two platforms reach the service through one queue in an    *)
(* arbitrary interleaving: whichever of two messages of different          *)
(* platforms comes first, the resulting orders are the same.               *)
CrossPlatformOrderIrrelevant ==
  \A m, n \in Messages :
     m.platform # n.platform =>
        SizesAfter(SizesAfter(sizes, m), n) = SizesAfter(SizesAfter(sizes, n), m)

(* A snapshot resynchronises its platform, whatever was lost or applied    *)
(* out of order before it: what the platform then has in this book is what *)
(* it would have in an empty one.  Reconnection relies on this.            *)
SnapshotForgetsHistory ==
  \A m \in Messages : m.type = "snapshot" =>
     \A s \in Sides, p \in Prices :
        SizesAfter(sizes, m)[s][p][m.platform]
           = SizesAfter(EmptySizes, m)[s][p][m.platform]

(* SizesAfter, which is stated without recursion so that it can be         *)
(* reasoned about, is what the loops over the levels compute.              *)
LoopsComputeSizesAfter ==
  \A m \in Messages : \A s \in Sides :
     LoopRow(sizes, m, s)[Len(m.levels[s])]
        = [p \in Prices |-> SizesAfter(sizes, m)[s][p][m.platform]]

(* The book implements independent books of the platforms. *)
Abstract ==
  INSTANCE PlatformBooks WITH
    own  <- [pl \in Platforms |-> [s \in Sides |-> [p \in Prices |-> sizes[s][p][pl]]]],
    best <- systemBest

ImplementsPlatformBooks == Abstract!AbstractSpec
=============================================================================
