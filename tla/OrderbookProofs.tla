-------------------------- MODULE OrderbookProofs --------------------------
(***************************************************************************)
(* Theorems about Orderbook, for any set of platforms, any range of prices *)
(* and any set of messages.                                                *)
(***************************************************************************)
EXTENDS Orderbook, WellFoundedInduction, TLAPS

(* A non-empty set of natural numbers has a least element. *)
LEMMA LeastElement ==
  ASSUME NEW I, I \subseteq Nat, I # {}
  PROVE  \E i \in I : \A j \in I : i <= j
<1>1. PICK i \in I : \A j \in I : <<j, i>> \notin OpToRel(<, Nat)
  BY NatLessThanWellFounded, WFMin
<1>2. ASSUME NEW j \in I PROVE i <= j
  <2>1. i \in Nat /\ j \in Nat
    OBVIOUS
  <2>2. ~(j < i)
    BY <1>1, <2>1 DEF OpToRel
  <2> QED
    BY <2>1, <2>2
<1> QED
  BY <1>2

(* Induction up to n for a set of numbers, with which the values of a      *)
(* recursive function are reached.                                         *)
LEMMA UpTo ==
  ASSUME NEW n \in Nat, NEW I, 0 \in I,
         \A k \in 0 .. (n - 1) : k \in I => k + 1 \in I
  PROVE  0 .. n \subseteq I
<1> DEFINE Missed == (0 .. n) \ I
<1>1. ASSUME Missed # {} PROVE FALSE
  <2>1. Missed \subseteq Nat
    OBVIOUS
  <2>2. PICK i \in Missed : \A j \in Missed : i <= j
    <3> HIDE DEF Missed
    <3> QED
      BY <1>1, <2>1, LeastElement
  <2>3. i \in 1 .. n /\ i - 1 \in 0 .. (n - 1) /\ (i - 1) + 1 = i
    <3>1. i \in 0 .. n /\ i # 0
      OBVIOUS
    <3> QED
      BY <3>1
  <2>4. i - 1 \notin Missed
    <3> HIDE DEF Missed
    <3> QED
      BY <2>2, <2>3
  <2>5. i - 1 \in I
    BY <2>3, <2>4
  <2> QED
    BY <2>2, <2>3, <2>5
<1> QED
  BY <1>1

Solves(f, n, base, step) ==
  f[0] = base /\ \A k \in 1 .. n : f[k] = step[f[k - 1]][k]

(* A recursion over the first numbers, whose steps stay in a set, has a    *)
(* solution.                                                               *)
LEMMA Recursion ==
  ASSUME NEW X, NEW n \in Nat, NEW base \in X, NEW step \in [X -> [1 .. n -> X]]
  PROVE  \E f \in [0 .. n -> X] : Solves(f, n, base, step)
<1> DEFINE Solved(i) == \E f \in [0 .. i -> X] :
                          f[0] = base /\ \A k \in 1 .. i : f[k] = step[f[k - 1]][k]
           I == {i \in 0 .. n : Solved(i)}
<1>1. Solved(0)
  <2>1. /\ [k \in 0 .. 0 |-> base] \in [0 .. 0 -> X]
        /\ [k \in 0 .. 0 |-> base][0] = base /\ 1 .. 0 = {}
    OBVIOUS
  <2> QED
    BY <2>1
<1>2. ASSUME NEW i \in 0 .. (n - 1), Solved(i) PROVE Solved(i + 1)
  <2>1. PICK f \in [0 .. i -> X] :
           f[0] = base /\ \A k \in 1 .. i : f[k] = step[f[k - 1]][k]
    BY <1>2
  <2>2. PICK last : last = step[f[i]][i + 1]
    OBVIOUS
  <2>3. last \in X
    BY <2>1, <2>2
  <2> DEFINE g == [k \in 0 .. (i + 1) |-> IF k = i + 1 THEN last ELSE f[k]]
  <2>4. g \in [0 .. (i + 1) -> X] /\ g[0] = base
    BY <2>1, <2>3
  <2>5. ASSUME NEW k \in 1 .. (i + 1) PROVE g[k] = step[g[k - 1]][k]
    <3>1. CASE k = i + 1
      <4>1. g[k] = last /\ g[k - 1] = f[i]
        BY <3>1
      <4> QED
        BY <2>2, <3>1, <4>1
    <3>2. CASE k # i + 1
      <4>1. k \in 1 .. i /\ g[k] = f[k] /\ g[k - 1] = f[k - 1]
        BY <3>2
      <4> QED
        BY <2>1, <4>1
    <3> QED
      BY <3>1, <3>2
  <2> HIDE DEF g
  <2> QED
    BY <2>4, <2>5
<1>3. 0 .. n \subseteq I
  <2>1. 0 \in I /\ \A i \in 0 .. (n - 1) : i \in I => i + 1 \in I
    <3> HIDE DEF Solved
    <3> QED
      BY <1>1, <1>2
  <2> HIDE DEF I
  <2> QED
    BY <2>1, UpTo
<1> QED
  BY <1>3 DEF Solves

(* A non-empty set of numbers up to a bound has a greatest element. *)
LEMMA GreatestElement ==
  ASSUME NEW n \in Nat, NEW I, I \subseteq 0 .. n, I # {}
  PROVE  \E i \in I : \A j \in I : j <= i
<1> DEFINE D == {d \in Nat : n - d \in I}
<1>1. D \subseteq Nat /\ D # {}
  <2>1. PICK i \in I : TRUE
    OBVIOUS
  <2>2. n - i \in D
    BY <2>1
  <2> QED
    BY <2>2
<1>2. PICK d \in D : \A e \in D : d <= e
  <2> HIDE DEF D
  <2> QED
    BY <1>1, LeastElement
<1>3. n - d \in I
  BY <1>2
<1>4. ASSUME NEW j \in I PROVE j <= n - d
  <2>1. j \in 0 .. n /\ n - j \in D
    OBVIOUS
  <2>2. d <= n - j
    BY <1>2, <2>1
  <2> QED
    BY <2>1, <2>2, <1>1, <1>2
<1> QED
  BY <1>3, <1>4

(* LastOf names an element of a non-empty set of positions. *)
LEMMA LastOfIsMember ==
  ASSUME NEW n \in Nat, NEW I, I \subseteq 0 .. n, I # {}
  PROVE  LastOf(I) \in I
BY GreatestElement DEF LastOf

(* A position behind all others is the last.                               *)
LEMMA LastOfAppended ==
  ASSUME NEW n \in Nat, NEW I, I \subseteq 1 .. n
  PROVE  LastOf(I \union {n + 1}) = n + 1
<1>1. \A j \in I \union {n + 1} : j <= n + 1 /\ j \in Nat
  OBVIOUS
<1>2. \A i \in I \union {n + 1} :
        (\A j \in I \union {n + 1} : j <= i) => i = n + 1
  BY <1>1
<1> QED
  BY <1>1, <1>2 DEF LastOf

(* A non-empty set of prices has a best element, which BestPrice returns. *)
LEMMA BestPriceIsBest ==
  ASSUME NEW s, NEW P, P \subseteq Prices, P # {}
  PROVE  BestPrice(s, P) \in P /\ \A q \in P : AsGood(s, BestPrice(s, P), q)
<1>1. \E p \in P : \A q \in P : AsGood(s, p, q)
  <2>1. MaxPrice \in Nat /\ P \subseteq 0 .. MaxPrice /\ P \subseteq Nat
    BY OrderbookAssumption DEF Prices
  <2>2. CASE s = "buy"
    BY <2>1, <2>2, GreatestElement DEF AsGood
  <2>3. CASE s # "buy"
    BY <2>1, <2>3, LeastElement DEF AsGood
  <2> QED
    BY <2>2, <2>3
<1> QED
  BY <1>1 DEF BestPrice

(* A side of no or some prices has a best price of the right type. *)
LEMMA BestPriceType ==
  ASSUME NEW s, NEW P, P \subseteq Prices
  PROVE  BestPrice(s, P) \in Prices \union {NoPrice}
<1>1. CASE P = {}
  BY <1>1 DEF BestPrice
<1>2. CASE P # {}
  BY <1>2, BestPriceIsBest
<1> QED
  BY <1>1, <1>2
-----------------------------------------------------------------------------
(* Facts about one message.                                                *)

(* What an effective level writes is a size. *)
LEMMA WrittenSizeType ==
  ASSUME NEW m \in Message, NEW s \in Sides, NEW p \in Prices, Writes(m, s, p) # {}
  PROVE  m.levels[s][LastOf(Writes(m, s, p))].size \in Sizes
<1>1. m.levels[s] \in Seq(Level)
  BY DEF Message
<1>2. Writes(m, s, p) \subseteq 0 .. Len(m.levels[s]) /\ Len(m.levels[s]) \in Nat
  BY <1>1 DEF Writes
<1>3. LastOf(Writes(m, s, p)) \in Writes(m, s, p)
  BY <1>2, LastOfIsMember
<1> QED
  BY <1>3 DEF Writes, Accepts

(* Handling a message keeps the sizes of the right type. *)
LEMMA SizesAfterType ==
  ASSUME NEW m \in Message, NEW before \in [Sides -> [Prices -> [Platforms -> Sizes]]]
  PROVE  SizesAfter(before, m) \in [Sides -> [Prices -> [Platforms -> Sizes]]]
<1>1. ASSUME NEW s \in Sides, NEW p \in Prices, NEW pl \in Platforms
      PROVE  Cleared(before, m, s, p, pl) \in Sizes
  BY OrderbookAssumption DEF Cleared
<1> QED
  BY <1>1, WrittenSizeType DEF SizesAfter

(* A price at which somebody has an order after the message is a key then: *)
(* the sender's write created it, or it was one before.                    *)
LEMMA LiveIsKey ==
  ASSUME NEW m \in Message, NEW s \in Sides, NEW p \in Prices,
         KeysAreLiveLevels, ~IsEmpty(SizesAfter(sizes, m), s, p)
  PROVE  p \in KeysAfter(levels, m)[s]
<1>1. PICK pl \in Platforms : SizesAfter(sizes, m)[s][p][pl] # 0
  BY DEF IsEmpty
<1>2. CASE Writes(m, s, p) # {}
  BY <1>2 DEF KeysAfter
<1>3. CASE Writes(m, s, p) = {}
  <2>1. Cleared(sizes, m, s, p, pl) # 0
    BY <1>1, <1>3 DEF SizesAfter
  <2>2. sizes[s][p][pl] # 0
    BY <2>1 DEF Cleared
  <2>3. p \in levels[s]
    BY <2>2 DEF KeysAreLiveLevels, Live, IsEmpty
  <2> QED
    BY <2>3 DEF KeysAfter
<1> QED
  BY <1>2, <1>3

(* So the non-empty keys are exactly the live prices, whether they are     *)
(* taken for the best price or for the clean-up.                           *)
LEMMA NonEmptyKeysAreLive ==
  ASSUME NEW m \in Message, NEW s \in Sides, TypeOK, KeysAreLiveLevels
  PROVE  {p \in KeysAfter(levels, m)[s] : ~IsEmpty(SizesAfter(sizes, m), s, p)}
            = Live(SizesAfter(sizes, m), s)
<1>1. KeysAfter(levels, m)[s] \subseteq Prices
  BY DEF KeysAfter, TypeOK
<1> QED
  BY <1>1, LiveIsKey DEF Live

-----------------------------------------------------------------------------
(* The invariant.                                                          *)

(* Empty books satisfy the invariant. *)
LEMMA InitInvariant == Init => IInv
<1> SUFFICES ASSUME Init PROVE IInv
  OBVIOUS
<1>1. TypeOK
  BY OrderbookAssumption DEF Init, TypeOK, EmptySizes, BestReported
<1>2. \A s \in Sides : Live(sizes, s) = {}
  BY DEF Init, EmptySizes, Live, IsEmpty
<1>3. KeysAreLiveLevels
  BY <1>2 DEF Init, KeysAreLiveLevels
<1>4. SystemBboIsBest
  BY <1>2 DEF Init, SystemBboIsBest, BestPrice
<1>5. ContributorsAreKnown
  BY DEF Init, ContributorsAreKnown, EmptySizes
<1> QED
  BY <1>1, <1>3, <1>4, <1>5 DEF IInv

(* A message for one book leaves the others alone. *)
LEMMA ApplyInvariant ==
  ASSUME NEW m \in Message, IInv, Apply(m)
  PROVE  IInv'
<1> DEFINE after == SizesAfter(sizes, m)
           keys  == KeysAfter(levels, m)
<1>0. TypeOK /\ KeysAreLiveLevels /\ SystemBboIsBest /\ ContributorsAreKnown
  BY DEF IInv
<1>1. m.platform \in Platforms /\ m.best \in [Sides -> BestReported]
  BY DEF Message
<1>2. sizes' = after /\ after \in [Sides -> [Prices -> [Platforms -> Sizes]]]
  BY <1>0, SizesAfterType DEF Apply, TypeOK
<1>3. \A s \in Sides : {p \in keys[s] : ~IsEmpty(after, s, p)} = Live(after, s)
  BY <1>0, NonEmptyKeysAreLive
<1>4. \A s \in Sides : levels'[s] = Live(sizes', s)
  BY <1>2, <1>3 DEF Apply, CleanupEmptyLevels
<1>5. \A s \in Sides : systemBest'[s] = BestPrice(s, Live(sizes', s))
  BY <1>2, <1>3 DEF Apply, RecalculateSystemBbo
<1>6. TypeOK'
  <2>1. levels' \in [Sides -> SUBSET Prices]
    BY <1>4 DEF Apply, CleanupEmptyLevels, Live
  <2>2. platforms' \in SUBSET Platforms
    BY <1>0, <1>1 DEF Apply, KnownAfter, TypeOK, Message
  <2>3. exchangeBest' \in [Sides -> [Platforms -> BestReported]]
    BY <1>0, <1>1 DEF Apply, TypeOK, Message, BestReported
  <2>4. systemBest' \in [Sides -> Prices \union {NoPrice}]
    BY <1>5, BestPriceType DEF Apply, RecalculateSystemBbo, Live
  <2> QED
    BY <1>2, <2>1, <2>2, <2>3, <2>4 DEF TypeOK
<1>7. ContributorsAreKnown'
  <2> SUFFICES ASSUME NEW pl \in Platforms \ platforms', NEW s \in Sides
               PROVE  /\ exchangeBest'[s][pl] = NoPrice
                      /\ \A p \in Prices : sizes'[s][p][pl] = 0
    BY DEF ContributorsAreKnown
  <2>1. pl \in Platforms \ platforms /\ pl # m.platform
    BY DEF Apply, KnownAfter
  <2>2. exchangeBest'[s][pl] = exchangeBest[s][pl]
    BY <2>1, <1>0 DEF Apply, TypeOK
  <2>3. \A p \in Prices : sizes'[s][p][pl] = sizes[s][p][pl]
    BY <2>1 DEF Apply, SizesAfter, Cleared
  <2> QED
    BY <1>0, <2>1, <2>2, <2>3 DEF ContributorsAreKnown
<1> QED
  BY <1>4, <1>5, <1>6, <1>7 DEF IInv, KeysAreLiveLevels, SystemBboIsBest

(* Every reachable book is well-typed, holds exactly the live levels as    *)
(* keys, caches the true best prices and lists its contributors.           *)
THEOREM BookInvariant == Spec => []IInv
<1>1. IInv /\ [Next]_bookVars => IInv'
  <2> SUFFICES ASSUME IInv, [Next]_bookVars PROVE IInv'
    OBVIOUS
  <2>1. ASSUME NEW m \in Messages, Apply(m) PROVE IInv'
    BY <2>1, ApplyInvariant, OrderbookAssumption
  <2>2. CASE UNCHANGED bookVars
    BY <2>2 DEF bookVars, IInv, TypeOK, KeysAreLiveLevels, SystemBboIsBest,
                ContributorsAreKnown, Live, IsEmpty
  <2> QED
    BY <2>1, <2>2 DEF Next
<1> QED
  BY <1>1, InitInvariant, PTL DEF Spec

(* Every variable keeps its type. *)
THEOREM TypeCorrect == Spec => []TypeOK
BY BookInvariant, PTL DEF IInv

(* The best prices the service reports are the best at which anybody has   *)
(* an order.                                                               *)
THEOREM SystemBboCorrect == Spec => []SystemBboIsBest
BY BookInvariant, PTL DEF IInv

(* No empty level stays in the maps and no live one is dropped from them. *)
THEOREM NoGhostKeys == Spec => []KeysAreLiveLevels
BY BookInvariant, PTL DEF IInv

(* Nothing is held for a platform that the response does not list.         *)
THEOREM HoldersAreListed == Spec => []ContributorsAreKnown
BY BookInvariant, PTL DEF IInv

-----------------------------------------------------------------------------
(* What one message does to a platform's orders.                           *)

(* Messages of two platforms commute: they write different entries, and    *)
(* what each writes does not depend on what was there.                     *)
THEOREM CrossPlatformCommutes == Spec => []CrossPlatformOrderIrrelevant
<1>1. CrossPlatformOrderIrrelevant
  <2> SUFFICES ASSUME NEW m \in Messages, NEW n \in Messages, m.platform # n.platform
               PROVE  SizesAfter(SizesAfter(sizes, m), n) = SizesAfter(SizesAfter(sizes, n), m)
    BY DEF CrossPlatformOrderIrrelevant
  <2> DEFINE mn == SizesAfter(SizesAfter(sizes, m), n)
             nm == SizesAfter(SizesAfter(sizes, n), m)
  <2>1. ASSUME NEW s \in Sides, NEW p \in Prices, NEW pl \in Platforms
        PROVE  mn[s][p][pl] = nm[s][p][pl]
    <3>1. CASE pl = m.platform
      BY <3>1 DEF SizesAfter, Cleared
    <3>2. CASE pl = n.platform
      BY <3>2 DEF SizesAfter, Cleared
    <3>3. CASE pl # m.platform /\ pl # n.platform
      BY <3>3 DEF SizesAfter, Cleared
    <3> QED
      BY <3>1, <3>2, <3>3
  <2>2. mn = [s \in Sides |-> [p \in Prices |-> [pl \in Platforms |-> mn[s][p][pl]]]]
    BY DEF SizesAfter
  <2>3. nm = [s \in Sides |-> [p \in Prices |-> [pl \in Platforms |-> nm[s][p][pl]]]]
    BY DEF SizesAfter
  <2> HIDE DEF mn, nm
  <2>4. mn = nm
    BY <2>1, <2>2, <2>3
  <2> QED
    BY <2>4 DEF mn, nm
<1> QED
  BY <1>1, PTL

(* A snapshot erases what its platform had, so that it resynchronises the  *)
(* platform from any book.                                                 *)
THEOREM SnapshotResynchronises == Spec => []SnapshotForgetsHistory
<1>1. SnapshotForgetsHistory
  <2> SUFFICES ASSUME NEW m \in Messages, m.type = "snapshot",
                      NEW s \in Sides, NEW p \in Prices
               PROVE  SizesAfter(sizes, m)[s][p][m.platform]
                        = SizesAfter(EmptySizes, m)[s][p][m.platform]
    BY DEF SnapshotForgetsHistory
  <2>1. m.platform \in Platforms
    BY OrderbookAssumption DEF Message
  <2> QED
    BY <2>1 DEF SizesAfter, Cleared
<1> QED
  BY <1>1, PTL

-----------------------------------------------------------------------------
(* The loops of the source.                                                *)

Row == [Prices -> Sizes]

LoopBody(before, m, s, row, n) ==
  IF n = 0 THEN [p \in Prices |-> Cleared(before, m, s, p, m.platform)]
  ELSE LET level == m.levels[s][n]
       IN  IF Accepts(m.type, level)
           THEN [row[n - 1] EXCEPT ![level.price] = level.size]
           ELSE row[n - 1]

(* The recursion over the levels has a solution, which LoopRow is.         *)
LEMMA LoopRowSteps ==
  ASSUME NEW m \in Message, NEW s \in Sides,
         NEW before \in [Sides -> [Prices -> [Platforms -> Sizes]]],
         NEW row, row = LoopRow(before, m, s), NEW N, N = Len(m.levels[s])
  PROVE  \A n \in 0 .. N : row[n] = LoopBody(before, m, s, row, n)
<1>1. m.levels[s] \in Seq(Level) /\ m.platform \in Platforms
  BY DEF Message
<1>2. N \in Nat
  BY <1>1
<1>3. PICK first : first = [p \in Prices |-> Cleared(before, m, s, p, m.platform)]
  OBVIOUS
<1>4. first \in Row
  BY <1>1, <1>3, OrderbookAssumption DEF Row, Cleared
<1> DEFINE Step(r, n) == IF Accepts(m.type, m.levels[s][n])
                         THEN [r EXCEPT ![m.levels[s][n].price] = m.levels[s][n].size]
                         ELSE r
           step == [r \in Row |-> [n \in 1 .. N |-> Step(r, n)]]
<1>5. ASSUME NEW r \in Row, NEW n \in 1 .. N PROVE Step(r, n) \in Row
  BY DEF Row, Accepts
<1>6. step \in [Row -> [1 .. N -> Row]]
  <2> HIDE DEF Step
  <2> QED
    BY <1>5
<1>7. PICK f \in [0 .. N -> Row] : Solves(f, N, first, step)
  <2> HIDE DEF step
  <2> QED
    BY <1>2, <1>4, <1>6, Recursion
<1>8. ASSUME NEW n \in 0 .. N PROVE f[n] = LoopBody(before, m, s, f, n)
  <2>1. CASE n = 0
    BY <1>3, <1>7, <2>1 DEF Solves, LoopBody
  <2>2. CASE n # 0
    <3>1. n \in 1 .. N /\ n - 1 \in 0 .. N
      BY <1>2, <2>2
    <3>2. f[n - 1] \in Row
      BY <3>1
    <3>3. f[n] = step[f[n - 1]][n]
      <4> HIDE DEF step
      <4> QED
        BY <1>7, <3>1 DEF Solves
    <3>4. f[n] = Step(f[n - 1], n)
      <4> HIDE DEF Step
      <4> QED
        BY <3>1, <3>2, <3>3
    <3> QED
      BY <2>2, <3>4 DEF LoopBody
  <2> QED
    BY <2>1, <2>2
<1>9. f = [n \in 0 .. N |-> LoopBody(before, m, s, f, n)]
  BY <1>8
<1>10. row = [n \in 0 .. N |-> LoopBody(before, m, s, row, n)]
  <2> HIDE DEF step
  <2> QED
    BY <1>9 DEF LoopRow, LoopBody
<1> QED
  BY <1>10

(* After the first n levels, each price has what the last effective of     *)
(* them writes, or what the clearing left.                                 *)
LEMMA LoopRowIs ==
  ASSUME NEW m \in Message, NEW s \in Sides,
         NEW before \in [Sides -> [Prices -> [Platforms -> Sizes]]]
  PROVE  \A n \in 0 .. Len(m.levels[s]) :
           LoopRow(before, m, s)[n] =
             [p \in Prices |->
                LET written == Writes(m, s, p) \cap 1 .. n
                IN  IF written # {} THEN m.levels[s][LastOf(written)].size
                    ELSE Cleared(before, m, s, p, m.platform)]
<1>1. PICK N : N = Len(m.levels[s])
  OBVIOUS
<1>2. m.levels[s] \in Seq(Level) /\ N \in Nat
  BY <1>1 DEF Message
<1> DEFINE Entry(n, p) ==
             IF Writes(m, s, p) \cap 1 .. n # {}
             THEN m.levels[s][LastOf(Writes(m, s, p) \cap 1 .. n)].size
             ELSE Cleared(before, m, s, p, m.platform)
           I == {n \in 0 .. N : LoopRow(before, m, s)[n] = [p \in Prices |-> Entry(n, p)]}
<1>3. 0 \in I
  <2>1. \A p \in Prices : Writes(m, s, p) \cap 1 .. 0 = {}
    OBVIOUS
  <2>2. LoopRow(before, m, s)[0] = [p \in Prices |-> Cleared(before, m, s, p, m.platform)]
    <3>1. PICK row : row = LoopRow(before, m, s)
      OBVIOUS
    <3>2. row[0] = LoopBody(before, m, s, row, 0)
      BY <1>1, <1>2, <3>1, LoopRowSteps
    <3> QED
      BY <3>1, <3>2 DEF LoopBody
  <2>3. \A p \in Prices : Entry(0, p) = Cleared(before, m, s, p, m.platform)
    BY <2>1
  <2> HIDE DEF Entry
  <2> QED
    BY <1>2, <2>2, <2>3
<1>4. ASSUME NEW n \in 0 .. (N - 1), n \in I PROVE n + 1 \in I
  <2>1. n \in Nat /\ n + 1 \in 1 .. N /\ (n + 1) - 1 = n /\ n + 1 \in 0 .. N
    BY <1>2
  <2>2. PICK level : level = m.levels[s][n + 1]
    OBVIOUS
  <2>3. PICK row : row = LoopRow(before, m, s)
    OBVIOUS
  <2>4. row[n + 1] = IF Accepts(m.type, level)
                     THEN [row[n] EXCEPT ![level.price] = level.size]
                     ELSE row[n]
    <3>1. row[n + 1] = LoopBody(before, m, s, row, n + 1)
      BY <1>1, <2>1, <2>3, LoopRowSteps
    <3> QED
      BY <2>1, <2>2, <3>1 DEF LoopBody
  <2>5. row[n] = [p \in Prices |-> Entry(n, p)]
    BY <1>4, <2>3
  <2>6. ASSUME NEW p \in Prices, Accepts(m.type, level), level.price = p
        PROVE  Entry(n + 1, p) = level.size
    <3>1. Writes(m, s, p) \cap 1 .. (n + 1) = (Writes(m, s, p) \cap 1 .. n) \union {n + 1}
      BY <1>1, <1>2, <2>1, <2>2, <2>6 DEF Writes
    <3>2. LastOf(Writes(m, s, p) \cap 1 .. (n + 1)) = n + 1
      BY <2>1, <3>1, LastOfAppended
    <3> QED
      BY <2>2, <3>1, <3>2
  <2>7. ASSUME NEW p \in Prices, ~(Accepts(m.type, level) /\ level.price = p)
        PROVE  Entry(n + 1, p) = Entry(n, p)
    <3>1. Writes(m, s, p) \cap 1 .. (n + 1) = Writes(m, s, p) \cap 1 .. n
      BY <1>1, <1>2, <2>1, <2>2, <2>7 DEF Writes
    <3> QED
      BY <3>1
  <2>8. row[n + 1] = [p \in Prices |-> Entry(n + 1, p)]
    <3> HIDE DEF Entry
    <3>1. CASE Accepts(m.type, level)
      <4>1. level.price \in Prices
        BY <3>1 DEF Accepts
      <4>2. row[n + 1] = [p \in Prices |-> IF p = level.price THEN level.size ELSE Entry(n, p)]
        BY <2>4, <2>5, <3>1, <4>1
      <4>3. \A p \in Prices : Entry(n + 1, p) = IF p = level.price THEN level.size ELSE Entry(n, p)
        BY <2>6, <2>7, <3>1
      <4> QED
        BY <4>2, <4>3
    <3>2. CASE ~Accepts(m.type, level)
      BY <2>4, <2>5, <2>7, <3>2
    <3> QED
      BY <3>1, <3>2
  <2> HIDE DEF Entry
  <2> QED
    BY <2>1, <2>3, <2>8
<1>5. 0 .. N \subseteq I
  <2> HIDE DEF I
  <2> QED
    BY <1>2, <1>3, <1>4, UpTo
<1>6. \A n \in 0 .. N : LoopRow(before, m, s)[n] = [p \in Prices |-> Entry(n, p)]
  <2> HIDE DEF Entry
  <2> QED
    BY <1>5
<1> QED
  BY <1>1, <1>6

(* The loops write what SizesAfter says, for every message and book.       *)
THEOREM LoopsAreSizesAfter == Spec => []LoopsComputeSizesAfter
<1>1. TypeOK => LoopsComputeSizesAfter
  <2> SUFFICES ASSUME TypeOK, NEW m \in Messages, NEW s \in Sides
               PROVE  LoopRow(sizes, m, s)[Len(m.levels[s])]
                        = [p \in Prices |-> SizesAfter(sizes, m)[s][p][m.platform]]
    BY DEF LoopsComputeSizesAfter
  <2>1. m \in Message
    BY OrderbookAssumption
  <2>2. /\ m.levels[s] \in Seq(Level) /\ m.platform \in Platforms
        /\ Len(m.levels[s]) \in Nat /\ DOMAIN m.levels[s] = 1 .. Len(m.levels[s])
    BY <2>1 DEF Message
  <2>3. \A p \in Prices : Writes(m, s, p) \cap 1 .. Len(m.levels[s]) = Writes(m, s, p)
    BY <2>2 DEF Writes
  <2>4. sizes \in [Sides -> [Prices -> [Platforms -> Sizes]]]
    BY DEF TypeOK
  <2>5. LoopRow(sizes, m, s)[Len(m.levels[s])] =
          [p \in Prices |->
             LET written == Writes(m, s, p) \cap 1 .. Len(m.levels[s])
             IN  IF written # {} THEN m.levels[s][LastOf(written)].size
                 ELSE Cleared(sizes, m, s, p, m.platform)]
    <3>1. \A n \in 0 .. Len(m.levels[s]) :
            LoopRow(sizes, m, s)[n] =
              [p \in Prices |->
                 LET written == Writes(m, s, p) \cap 1 .. n
                 IN  IF written # {} THEN m.levels[s][LastOf(written)].size
                     ELSE Cleared(sizes, m, s, p, m.platform)]
      BY <2>1, <2>4, LoopRowIs
    <3>2. Len(m.levels[s]) \in 0 .. Len(m.levels[s])
      BY <2>2
    <3> QED
      BY <3>1, <3>2
  <2>6. \A p \in Prices : SizesAfter(sizes, m)[s][p][m.platform] =
          IF Writes(m, s, p) # {} THEN m.levels[s][LastOf(Writes(m, s, p))].size
          ELSE Cleared(sizes, m, s, p, m.platform)
    BY <2>2 DEF SizesAfter
  <2> QED
    BY <2>3, <2>5, <2>6
<1> QED
  BY <1>1, TypeCorrect, PTL

-----------------------------------------------------------------------------
(* The refinement.                                                         *)

(* The projection of the sizes to one book per platform. *)
BooksOf(book) ==
  [pl \in Platforms |-> [s \in Sides |-> [p \in Prices |-> book[s][p][pl]]]]

(* The aggregated book implements independent books of the platforms, with *)
(* the best price over all of them.                                        *)
THEOREM BookRefinement == Spec => ImplementsPlatformBooks
<1> USE DEF Abstract!Sides, Abstract!Prices, Sides, Prices
<1>1. Init => Abstract!AbstractInit
  BY DEF Init, EmptySizes, Abstract!AbstractInit
<1>2. IInv /\ IInv' /\ [Next]_bookVars => [Abstract!AbstractNext]_(Abstract!abstractVars)
  <2> SUFFICES ASSUME IInv, IInv', [Next]_bookVars
               PROVE  [Abstract!AbstractNext]_(Abstract!abstractVars)
    OBVIOUS
  <2>1. CASE UNCHANGED bookVars
    BY <2>1 DEF bookVars, Abstract!abstractVars
  <2>2. ASSUME NEW m \in Messages, Apply(m)
        PROVE  Abstract!AbstractNext
    <3> DEFINE pl == m.platform
               mine == [s \in Sides |-> [p \in Prices |-> sizes'[s][p][pl]]]
    <3>1. pl \in Platforms
      BY OrderbookAssumption DEF Message
    <3>2. mine \in Abstract!OneBook
      <4>1. sizes' \in [Sides -> [Prices -> [Platforms -> Sizes]]]
        BY DEF IInv, TypeOK
      <4>2. \A s \in Sides, p \in Prices : sizes'[s][p][pl] \in Sizes
        BY <3>1, <4>1
      <4> QED
        BY <4>2 DEF Abstract!OneBook
    <3>3. ASSUME NEW q \in Platforms, q # pl, NEW s \in Sides, NEW p \in Prices
          PROVE  sizes'[s][p][q] = sizes[s][p][q]
      BY <3>3, <2>2 DEF Apply, SizesAfter, Cleared
    <3>4. BooksOf(sizes)' = [BooksOf(sizes) EXCEPT ![pl] = mine]
      BY <3>1, <3>3 DEF BooksOf
    <3>5. ASSUME NEW s \in Sides
          PROVE  systemBest'[s] = Abstract!BestPrice(s, Abstract!Quoted(BooksOf(sizes)', s))
      <4>1. Live(sizes', s) = Abstract!Quoted(BooksOf(sizes)', s)
        BY DEF Live, IsEmpty, Abstract!Quoted, BooksOf
      <4>2. systemBest'[s] = BestPrice(s, Live(sizes', s))
        BY DEF IInv, SystemBboIsBest
      <4> QED
        BY <4>1, <4>2 DEF BestPrice, AsGood, Abstract!BestPrice, Abstract!AsGood
    <3>6. systemBest' \in [Sides -> Prices \union {NoPrice}]
      BY DEF IInv, TypeOK
    <3>7. systemBest' = [s \in Sides |->
                           Abstract!BestPrice(s, Abstract!Quoted(BooksOf(sizes)', s))]
      BY <3>5, <3>6
    <3>8. Abstract!Move(pl)
      BY <3>2, <3>4, <3>7 DEF Abstract!Move, BooksOf
    <3> QED
      BY <3>1, <3>8 DEF Abstract!AbstractNext
  <2> QED
    BY <2>1, <2>2 DEF Next
<1> QED
  BY <1>1, <1>2, BookInvariant, PTL DEF Spec, ImplementsPlatformBooks, Abstract!AbstractSpec
=============================================================================
