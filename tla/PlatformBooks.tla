--------------------------- MODULE PlatformBooks ---------------------------
(***************************************************************************)
(* What the aggregated order book of one asset promises: it behaves as one *)
(* independent book per platform, of which a message moves exactly one,    *)
(* and its best prices are the best prices anybody quotes.  Module         *)
(* Orderbook, which models the code, implements this specification.        *)
(***************************************************************************)
EXTENDS Integers

CONSTANTS
  Platforms,   \* names of the exchanges that contribute to the book
  MaxPrice,    \* prices are ticks 0..MaxPrice
  Sizes,       \* sizes a level can have; 0 stands for "no order here"
  NoPrice      \* the price of a side with no order

Sides  == {"buy", "sell"}
Prices == 0 .. MaxPrice

VARIABLES
  own,    \* own[pl][s][p]: what platform pl has at price p of side s
  best    \* best[s]: the best price of side s over all the platforms

abstractVars == <<own, best>>

OneBook == [Sides -> [Prices -> Sizes]]

(* p is at least as good a price for side s as q. *)
AsGood(s, p, q) == IF s = "buy" THEN p >= q ELSE p <= q

(* The best of a set of prices. *)
BestPrice(s, P) ==
  IF P = {} THEN NoPrice ELSE CHOOSE p \in P : \A q \in P : AsGood(s, p, q)

Quoted(books, s) == {p \in Prices : \E pl \in Platforms : books[pl][s][p] # 0}

AbstractInit ==
  /\ own = [pl \in Platforms |-> [s \in Sides |-> [p \in Prices |-> 0]]]
  /\ best = [s \in Sides |-> NoPrice]

(* A message of platform pl: whatever it does, it does to pl's own book. *)
Move(pl) ==
  /\ \E book \in OneBook : own' = [own EXCEPT ![pl] = book]
  /\ best' = [s \in Sides |-> BestPrice(s, Quoted(own', s))]

AbstractNext == \E pl \in Platforms : Move(pl)

AbstractSpec == AbstractInit /\ [][AbstractNext]_abstractVars
=============================================================================
