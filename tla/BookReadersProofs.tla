------------------------- MODULE BookReadersProofs -------------------------
(***************************************************************************)
(* Theorem about BookReaders, for any finite set of platforms, any prices  *)
(* and any messages: the answers agree.  A response sums over maps in an   *)
(* order that nobody knows, and lists levels in order of price, so that    *)
(* the lemmas are about sums and about sorting.                            *)
(***************************************************************************)
EXTENDS BookReaders, OrderbookProofs, FiniteSetTheorems

-----------------------------------------------------------------------------
(* Sums over a finite set.                                                 *)

(* t has the sum of f over every subset of D, whichever element is taken   *)
(* last.                                                                   *)
IsTotal(f, D, t) ==
  /\ t \in [SUBSET D -> Nat]
  /\ t[{}] = 0
  /\ \A P \in SUBSET D : \A x \in P : t[P] = f[x] + t[P \ {x}]

(* The sum over P of a recursion that takes pick[P] last. *)
SumBody(f, pick, t, P) == IF P = {} THEN 0 ELSE f[pick[P]] + t[P \ {pick[P]}]

Picks(pick, D) == \A P \in SUBSET D : P # {} => pick[P] \in P

(* t solves it with a number for every subset; u does if it has a number   *)
(* for what is left without the last element.                              *)
Solution(f, D, pick, t) ==
  t \in [SUBSET D -> Nat] /\ \A P \in SUBSET D : t[P] = SumBody(f, pick, t, P)

Adds(f, D, pick, u) ==
  /\ u[{}] = 0
  /\ \A P \in SUBSET D :
       P # {} /\ u[P \ {pick[P]}] \in Nat => u[P] = SumBody(f, pick, u, P)

(* A subset with one element less is smaller. *)
LEMMA Smaller ==
  ASSUME NEW D, IsFiniteSet(D), NEW P \in SUBSET D, NEW x \in P
  PROVE  /\ P \ {x} \in SUBSET D /\ IsFiniteSet(P)
         /\ Cardinality(P) \in Nat /\ Cardinality(P) # 0
         /\ Cardinality(P) <= Cardinality(D)
         /\ Cardinality(P \ {x}) = Cardinality(P) - 1
<1>1. IsFiniteSet(P) /\ Cardinality(P) <= Cardinality(D) /\ Cardinality(D) \in Nat
  BY FS_Subset, FS_CardinalityType
<1>2. Cardinality(P) \in Nat /\ Cardinality(P) # 0
  BY <1>1, FS_CardinalityType, FS_EmptySet
<1>3. Cardinality(P \ {x}) = Cardinality(P) - 1
  BY <1>1, FS_RemoveElement
<1>. QED
  BY <1>1, <1>2, <1>3

(* The recursion has a solution. *)
LEMMA SumExists ==
  ASSUME NEW D, IsFiniteSet(D), NEW f \in [D -> Nat], NEW pick, Picks(pick, D)
  PROVE  \E t : Solution(f, D, pick, t)
<1>1. PICK N : N = Cardinality(D)
  OBVIOUS
<1>2. N \in Nat
  BY <1>1, FS_CardinalityType
<1>. DEFINE Solved(n) == \E t \in [SUBSET D -> Nat] : \A P \in SUBSET D :
                            Cardinality(P) <= n => t[P] = SumBody(f, pick, t, P)
            I == {n \in 0 .. N : Solved(n)}
<1>3. Solved(0)
  <2>1. [P \in SUBSET D |-> 0] \in [SUBSET D -> Nat]
    OBVIOUS
  <2>2. ASSUME NEW P \in SUBSET D, Cardinality(P) <= 0 PROVE P = {}
    <3>1. IsFiniteSet(P) /\ Cardinality(P) \in Nat
      BY FS_Subset, FS_CardinalityType
    <3>. QED
      BY <2>2, <3>1, FS_EmptySet
  <2>3. \A P \in SUBSET D : Cardinality(P) <= 0 =>
           [Q \in SUBSET D |-> 0][P] = SumBody(f, pick, [Q \in SUBSET D |-> 0], P)
    BY <2>2 DEF SumBody
  <2>. QED
    BY <2>1, <2>3
<1>4. ASSUME NEW n \in 0 .. (N - 1), Solved(n) PROVE Solved(n + 1)
  <2>1. PICK t \in [SUBSET D -> Nat] : \A P \in SUBSET D :
           Cardinality(P) <= n => t[P] = SumBody(f, pick, t, P)
    BY <1>4
  <2>. DEFINE u == [P \in SUBSET D |-> SumBody(f, pick, t, P)]
  <2>2. ASSUME NEW P \in SUBSET D, P # {}
        PROVE  pick[P] \in P /\ P \ {pick[P]} \in SUBSET D /\ f[pick[P]] \in Nat
    BY <2>2 DEF Picks
  <2>3. u \in [SUBSET D -> Nat]
    BY <2>1, <2>2 DEF SumBody
  <2>4. ASSUME NEW P \in SUBSET D, Cardinality(P) <= n PROVE u[P] = t[P]
    BY <2>1, <2>4
  <2>5. ASSUME NEW P \in SUBSET D, Cardinality(P) <= n + 1
        PROVE  u[P] = SumBody(f, pick, u, P)
    <3>1. u[P] = SumBody(f, pick, t, P)
      OBVIOUS
    <3>2. CASE P = {}
      BY <3>1, <3>2 DEF SumBody
    <3>3. CASE P # {}
      <4>1. PICK y, rest : y = pick[P] /\ rest = P \ {y}
        OBVIOUS
      <4>2. y \in P
        BY <2>2, <3>3, <4>1
      <4>3. /\ rest \in SUBSET D /\ Cardinality(P) \in Nat
            /\ Cardinality(rest) = Cardinality(P) - 1
        BY <4>1, <4>2, Smaller
      <4>4. Cardinality(rest) <= n
        BY <1>2, <2>5, <4>3
      <4>5. u[rest] = t[rest]
        BY <2>4, <4>3, <4>4
      <4>. HIDE DEF u
      <4>. QED
        BY <3>1, <3>3, <4>1, <4>5 DEF SumBody
    <3>. QED
      BY <3>2, <3>3
  <2>. HIDE DEF u
  <2>. QED
    BY <2>3, <2>5
<1>5. 0 .. N \subseteq I
  <2>1. 0 \in I /\ \A n \in 0 .. (N - 1) : n \in I => n + 1 \in I
    <3>. HIDE DEF Solved
    <3>. QED
      BY <1>2, <1>3, <1>4
  <2>. HIDE DEF I
  <2>. QED
    BY <1>2, <2>1, UpTo
<1>6. Solved(N)
  <2>1. N \in I
    <3>. HIDE DEF I
    <3>. QED
      BY <1>2, <1>5
  <2>. QED
    BY <2>1
<1>7. \A P \in SUBSET D : Cardinality(P) <= N
  BY <1>1, FS_Subset
<1>. QED
  BY <1>6, <1>7 DEF Solution

(* The order of a recursion does not matter. *)
LEMMA SolutionIsTotal ==
  ASSUME NEW D, IsFiniteSet(D), NEW f \in [D -> Nat], NEW pick, Picks(pick, D),
         NEW t, Solution(f, D, pick, t)
  PROVE  IsTotal(f, D, t)
<1>0. t \in [SUBSET D -> Nat] /\ \A P \in SUBSET D : t[P] = SumBody(f, pick, t, P)
  BY DEF Solution
<1>1. PICK N : N = Cardinality(D)
  OBVIOUS
<1>2. N \in Nat
  BY <1>1, FS_CardinalityType
<1>. DEFINE AnyLast(n) == \A P \in SUBSET D : Cardinality(P) = n =>
                             \A x \in P : t[P] = f[x] + t[P \ {x}]
            I == {n \in 0 .. N : AnyLast(n)}
<1>3. AnyLast(0)
  <2>1. ASSUME NEW P \in SUBSET D, NEW x \in P PROVE Cardinality(P) # 0
    BY Smaller
  <2>. QED
    BY <2>1
<1>4. ASSUME NEW n \in 0 .. (N - 1), AnyLast(n) PROVE AnyLast(n + 1)
  <2>. SUFFICES ASSUME NEW P \in SUBSET D, Cardinality(P) = n + 1, NEW x \in P
                PROVE  t[P] = f[x] + t[P \ {x}]
    OBVIOUS
  <2>1. PICK y : y = pick[P]
    OBVIOUS
  <2>2. y \in P /\ t[P] = f[y] + t[P \ {y}]
    BY <1>0, <2>1 DEF Picks, SumBody
  <2>3. CASE x = y
    BY <2>2, <2>3
  <2>4. CASE x # y
    <3>1. PICK A, B, both : A = P \ {x} /\ B = P \ {y} /\ both = P \ {x, y}
      OBVIOUS
    <3>2. /\ A \in SUBSET D /\ B \in SUBSET D /\ both \in SUBSET D
          /\ y \in A /\ x \in B /\ A \ {y} = both /\ B \ {x} = both
      BY <2>2, <2>4, <3>1
    <3>3. Cardinality(A) = n /\ Cardinality(B) = n
      <4>1. Cardinality(P \ {x}) = Cardinality(P) - 1 /\ Cardinality(P \ {y}) = Cardinality(P) - 1
        BY <2>2, Smaller
      <4>. QED
        BY <3>1, <4>1
    <3>4. t[A] = f[y] + t[both] /\ t[B] = f[x] + t[both]
      BY <1>4, <3>2, <3>3
    <3>5. t[both] \in Nat /\ f[x] \in Nat /\ f[y] \in Nat
      BY <1>0, <2>2, <3>2
    <3>. QED
      BY <2>2, <3>1, <3>4, <3>5
  <2>. QED
    BY <2>3, <2>4
<1>5. 0 .. N \subseteq I
  <2>1. 0 \in I /\ \A n \in 0 .. (N - 1) : n \in I => n + 1 \in I
    <3>. HIDE DEF AnyLast
    <3>. QED
      BY <1>2, <1>3, <1>4
  <2>. HIDE DEF I
  <2>. QED
    BY <1>2, <2>1, UpTo
<1>6. ASSUME NEW P \in SUBSET D, NEW x \in P PROVE t[P] = f[x] + t[P \ {x}]
  <2>1. Cardinality(P) \in Nat /\ Cardinality(P) <= Cardinality(D)
    BY Smaller
  <2>2. Cardinality(P) \in 0 .. N
    BY <1>1, <1>2, <2>1
  <2>. QED
    BY <1>5, <2>2
<1>7. t[{}] = 0
  BY <1>0 DEF SumBody
<1>. QED
  BY <1>0, <1>6, <1>7 DEF IsTotal

(* Every recursion computes the same total. *)
LEMMA TotalIsUnique ==
  ASSUME NEW D, IsFiniteSet(D), NEW f, NEW pick, Picks(pick, D),
         NEW t, IsTotal(f, D, t),
         NEW u, Adds(f, D, pick, u)
  PROVE  \A P \in SUBSET D : u[P] = t[P]
<1>1. PICK N : N = Cardinality(D)
  OBVIOUS
<1>2. N \in Nat
  BY <1>1, FS_CardinalityType
<1>. DEFINE Same(n) == \A P \in SUBSET D : Cardinality(P) = n => u[P] = t[P]
            I == {n \in 0 .. N : Same(n)}
<1>3. Same(0)
  <2>1. ASSUME NEW P \in SUBSET D, Cardinality(P) = 0 PROVE P = {}
    BY <2>1, FS_Subset, FS_EmptySet
  <2>. QED
    BY <2>1 DEF Adds, IsTotal
<1>4. ASSUME NEW n \in 0 .. (N - 1), Same(n) PROVE Same(n + 1)
  <2>. SUFFICES ASSUME NEW P \in SUBSET D, Cardinality(P) = n + 1 PROVE u[P] = t[P]
    OBVIOUS
  <2>1. P # {}
    <3>1. n + 1 # 0
      BY <1>2
    <3>2. Cardinality({}) = 0
      BY FS_EmptySet
    <3>. QED
      BY <3>1, <3>2
  <2>2. PICK y : y = pick[P]
    OBVIOUS
  <2>3. y \in P
    BY <2>1, <2>2 DEF Picks
  <2>4. Cardinality(P \ {y}) = n /\ P \ {y} \in SUBSET D
    BY <1>2, <2>3, Smaller
  <2>5. u[P \ {y}] = t[P \ {y}] /\ t[P \ {y}] \in Nat
    BY <1>4, <2>4 DEF IsTotal
  <2>6. u[P] = f[y] + u[P \ {y}]
    BY <2>1, <2>2, <2>5 DEF Adds, SumBody
  <2>. QED
    BY <2>3, <2>5, <2>6 DEF IsTotal
<1>5. 0 .. N \subseteq I
  <2>1. 0 \in I /\ \A n \in 0 .. (N - 1) : n \in I => n + 1 \in I
    <3>. HIDE DEF Same
    <3>. QED
      BY <1>2, <1>3, <1>4
  <2>. HIDE DEF I
  <2>. QED
    BY <1>2, <2>1, UpTo
<1>6. ASSUME NEW P \in SUBSET D PROVE Cardinality(P) \in 0 .. N
  BY <1>1, <1>2, FS_Subset, FS_CardinalityType
<1>. QED
  BY <1>5, <1>6

(* A total exists.                                                         *)
LEMMA TotalExists ==
  ASSUME NEW D, IsFiniteSet(D), NEW f \in [D -> Nat]
  PROVE  \E t : IsTotal(f, D, t)
<1>1. PICK pick : pick = [P \in SUBSET D |-> CHOOSE x \in P : TRUE]
  OBVIOUS
<1>2. Picks(pick, D)
  BY <1>1 DEF Picks
<1>3. PICK t : Solution(f, D, pick, t)
  BY <1>2, SumExists
<1>4. IsTotal(f, D, t)
  BY <1>2, <1>3, SolutionIsTotal
<1>. QED
  BY <1>4

(* It is what the library's sums compute: that of a function ...           *)
LEMMA SumFunctionIs ==
  ASSUME NEW D, IsFiniteSet(D), NEW f, DOMAIN f = D, NEW t, IsTotal(f, D, t)
  PROVE  SumFunction(f) = t[D]
<1>1. PICK pick : pick = [P \in SUBSET D |-> CHOOSE x \in P : TRUE]
  OBVIOUS
<1>2. Picks(pick, D)
  BY <1>1 DEF Picks
<1>. DEFINE Body(g, P) == IF P = {} THEN 0
                          ELSE LET x == CHOOSE x \in P : TRUE IN f[x] + g[P \ {x}]
<1>3. ASSUME NEW g, NEW P \in SUBSET D PROVE Body(g, P) = SumBody(f, pick, g, P)
  BY <1>1 DEF SumBody
<1>4. t = [P \in SUBSET D |-> Body(t, P)]
  <2>1. ASSUME NEW P \in SUBSET D PROVE t[P] = SumBody(f, pick, t, P)
    <3>1. P # {} => pick[P] \in P
      BY <1>2 DEF Picks
    <3>. QED
      BY <3>1 DEF SumBody, IsTotal
  <2>2. \A P \in SUBSET D : t[P] = Body(t, P)
    <3>. HIDE DEF Body
    <3>. QED
      BY <1>3, <2>1
  <2>. HIDE DEF Body
  <2>. QED
    BY <2>2 DEF IsTotal
<1>5. PICK u : u = (CHOOSE w : w = [P \in SUBSET D |-> Body(w, P)])
  OBVIOUS
<1>6. SumFunction(f) = u[D]
  BY <1>5 DEF SumFunction, SumFunctionOnSet, FoldFunctionOnSet, MapThenFoldSet
<1>7. u = [P \in SUBSET D |-> Body(u, P)]
  <2>. HIDE DEF Body
  <2>. QED
    BY <1>4, <1>5
<1>8. \A P \in SUBSET D : u[P] = SumBody(f, pick, u, P)
  <2>. HIDE DEF Body
  <2>. QED
    BY <1>3, <1>7
<1>9. Adds(f, D, pick, u)
  BY <1>8 DEF Adds, SumBody
<1>10. u[D] = t[D]
  BY <1>2, <1>9, TotalIsUnique
<1>. QED
  BY <1>6, <1>10

(* ... and that of the rows of a side.                                     *)
LEMMA RowsSumIs ==
  ASSUME NEW rows, NEW n \in Nat, DOMAIN rows = 1 .. n,
         NEW f \in [1 .. n -> Nat], \A i \in 1 .. n : f[i] = rows[i].total,
         NEW t, IsTotal(f, 1 .. n, t)
  PROVE  SumOfTotals(rows) = t[1 .. n]
<1>. DEFINE D == 1 .. n
<1>0. IsFiniteSet(D)
  BY FS_Interval
<1>1. PICK pick : pick = [P \in SUBSET D |-> Max(P)]
  OBVIOUS
<1>2. Picks(pick, D)
  <2>1. ASSUME NEW P \in SUBSET D, P # {} PROVE Max(P) \in P
    <3>1. P \subseteq 0 .. n
      OBVIOUS
    <3>2. PICK i \in P : \A j \in P : j <= i
      BY <2>1, <3>1, GreatestElement
    <3>3. \A j \in P : i >= j
      BY <3>1, <3>2
    <3>. QED
      BY <3>3 DEF Max
  <2>. QED
    BY <1>1, <2>1 DEF Picks
<1>. DEFINE Body(g, P) == IF P = {} THEN 0
                          ELSE LET x == Max(P) IN g[P \ {x}] + rows[x].total
<1>3. ASSUME NEW g, NEW P \in SUBSET D, P # {}
      PROVE  Body(g, P) = g[P \ {pick[P]}] + f[pick[P]]
  <2>1. PICK x : x = Max(P)
    OBVIOUS
  <2>2. x = pick[P] /\ x \in D
    BY <1>1, <1>2, <1>3, <2>1 DEF Picks
  <2>3. f[x] = rows[x].total
    BY <2>2
  <2>. QED
    BY <1>3, <2>1, <2>2, <2>3
<1>4. t = [P \in SUBSET D |-> Body(t, P)]
  <2>1. ASSUME NEW P \in SUBSET D PROVE t[P] = Body(t, P)
    <3>1. CASE P = {}
      BY <3>1 DEF IsTotal
    <3>2. CASE P # {}
      <4>1. PICK x : x = pick[P]
        OBVIOUS
      <4>2. x \in P
        BY <1>2, <3>2, <4>1 DEF Picks
      <4>3. t[P] = f[x] + t[P \ {x}] /\ t[P \ {x}] \in Nat
        BY <4>2 DEF IsTotal
      <4>4. f[x] \in Nat
        BY <4>2
      <4>5. Body(t, P) = t[P \ {x}] + f[x]
        <5>. HIDE DEF Body
        <5>. QED
          BY <1>3, <3>2, <4>1
      <4>. HIDE DEF Body
      <4>. QED
        BY <4>3, <4>4, <4>5
    <3>. QED
      BY <3>1, <3>2
  <2>. HIDE DEF Body
  <2>. QED
    BY <2>1 DEF IsTotal
<1>5. PICK u : u = (CHOOSE w : w = [P \in SUBSET D |-> Body(w, P)])
  OBVIOUS
<1>6. SumOfTotals(rows) = u[D]
  BY <1>5 DEF SumOfTotals, FoldLeft, MapThenFoldSet
<1>7. u = [P \in SUBSET D |-> Body(u, P)]
  <2>. HIDE DEF Body
  <2>. QED
    BY <1>4, <1>5
<1>8. ASSUME NEW P \in SUBSET D, P # {}, u[P \ {pick[P]}] \in Nat
      PROVE  u[P] = SumBody(f, pick, u, P)
  <2>1. u[P] = Body(u, P)
    <3>. HIDE DEF Body
    <3>. QED
      BY <1>7
  <2>2. u[P] = u[P \ {pick[P]}] + f[pick[P]]
    <3>. HIDE DEF Body
    <3>. QED
      BY <1>3, <1>8, <2>1
  <2>3. PICK a, b : a = f[pick[P]] /\ b = u[P \ {pick[P]}]
    OBVIOUS
  <2>4. a \in Nat /\ b \in Nat
    BY <1>2, <1>8, <2>3 DEF Picks
  <2>5. SumBody(f, pick, u, P) = a + b
    BY <1>8, <2>3 DEF SumBody
  <2>6. u[P] = b + a
    BY ONLY <2>2, <2>3
  <2>. QED
    BY ONLY <2>4, <2>5, <2>6
<1>9. Adds(f, D, pick, u)
  <2>1. u[{}] = 0
    BY <1>7
  <2>. HIDE DEF Body
  <2>. QED
    BY <1>8, <2>1 DEF Adds
<1>10. u[D] = t[D]
  <2>1. IsTotal(f, D, t)
    OBVIOUS
  <2>2. D \in SUBSET D
    OBVIOUS
  <2>3. \A P \in SUBSET D : u[P] = t[P]
    <3>. HIDE DEF Body, D
    <3>. QED
      BY <1>0, <1>2, <1>9, <2>1, TotalIsUnique
  <2>. QED
    BY ONLY <2>2, <2>3
<1>. QED
  BY <1>6, <1>10

(* q has each element of L once.                                           *)
OnceEach(n, L, q) ==
  /\ q \in [1 .. n -> L]
  /\ \A i, j \in 1 .. n : q[i] = q[j] => i = j
  /\ \A p \in L : \E i \in 1 .. n : q[i] = p

(* The sum over the images of a sequence without repetitions is that over  *)
(* its positions.                                                          *)
LEMMA TotalOfImages ==
  ASSUME NEW L, NEW f \in [L -> Nat], NEW t, IsTotal(f, L, t),
         NEW n \in Nat, NEW q, OnceEach(n, L, q),
         NEW g, \A i \in 1 .. n : g[i] = f[q[i]]
  PROVE  \E u : IsTotal(g, 1 .. n, u) /\ u[1 .. n] = t[L]
<1>0. /\ q \in [1 .. n -> L] /\ \A i, j \in 1 .. n : q[i] = q[j] => i = j
      /\ \A p \in L : \E i \in 1 .. n : q[i] = p
  BY DEF OnceEach
<1>. DEFINE Image(I) == {q[i] : i \in I}
            u == [I \in SUBSET (1 .. n) |-> t[Image(I)]]
<1>1. \A I \in SUBSET (1 .. n) : Image(I) \in SUBSET L
  BY <1>0
<1>2. u \in [SUBSET (1 .. n) -> Nat]
  <2>. HIDE DEF Image
  <2>. QED
    BY <1>1 DEF IsTotal
<1>3. u[{}] = 0
  <2>1. Image({}) = {}
    OBVIOUS
  <2>. HIDE DEF Image
  <2>. QED
    BY <2>1 DEF IsTotal
<1>4. ASSUME NEW I \in SUBSET (1 .. n), NEW x \in I PROVE u[I] = g[x] + u[I \ {x}]
  <2>1. Image(I \ {x}) = Image(I) \ {q[x]} /\ q[x] \in Image(I)
    BY <1>0
  <2>2. t[Image(I)] = f[q[x]] + t[Image(I) \ {q[x]}]
    <3>. HIDE DEF Image
    <3>. QED
      BY <1>1, <2>1 DEF IsTotal
  <2>3. I \ {x} \in SUBSET (1 .. n) /\ g[x] = f[q[x]]
    OBVIOUS
  <2>. HIDE DEF Image
  <2>. QED
    BY <2>1, <2>2, <2>3
<1>5. u[1 .. n] = t[L]
  <2>1. Image(1 .. n) = L
    BY <1>0
  <2>. HIDE DEF Image
  <2>. QED
    BY <2>1
<1>6. IsTotal(g, 1 .. n, u)
  <2>. HIDE DEF u
  <2>. QED
    BY <1>2, <1>3, <1>4 DEF IsTotal
<1>. QED
  BY <1>5, <1>6

-----------------------------------------------------------------------------
(* The order of the levels.                                                *)

(* Prices are ordered by how good they are.                                *)
LEMMA AsGoodOrders ==
  ASSUME NEW s, NEW p \in Prices, NEW q \in Prices, NEW r \in Prices
  PROVE  /\ AsGood(s, p, p)
         /\ AsGood(s, p, q) \/ AsGood(s, q, p)
         /\ AsGood(s, p, q) /\ AsGood(s, q, p) => p = q
         /\ AsGood(s, p, q) /\ AsGood(s, q, r) => AsGood(s, p, r)
<1>1. p \in Int /\ q \in Int /\ r \in Int
  BY OrderbookAssumption DEF Prices
<1>. QED
  BY <1>1 DEF AsGood

Walks(s, n, P, walk) ==
  /\ walk \in [1 .. n -> P]
  /\ \A i, j \in 1 .. n : i < j => walk[i] # walk[j] /\ AsGood(s, walk[i], walk[j])

(* Some prices have an order from the best to the worst: each stands where *)
(* the number of those that are as good says.                              *)
LEMMA WalkExists ==
  ASSUME NEW s, NEW P, P \subseteq Prices, IsFiniteSet(P)
  PROVE  \E walk : Walks(s, Cardinality(P), P, walk)
<1>1. PICK n : n = Cardinality(P)
  OBVIOUS
<1>2. n \in Nat
  BY <1>1, FS_CardinalityType
<1>. DEFINE Before(p) == {x \in P : AsGood(s, x, p)}
            rank == [p \in P |-> Cardinality(Before(p))]
<1>3. ASSUME NEW p \in P
      PROVE  IsFiniteSet(Before(p)) /\ rank[p] \in 1 .. n
  <2>1. Before(p) \in SUBSET P /\ p \in Before(p)
    BY AsGoodOrders
  <2>2. IsFiniteSet(Before(p)) /\ Cardinality(Before(p)) <= n /\ Cardinality(Before(p)) \in Nat
    <3>. HIDE DEF Before
    <3>. QED
      BY <1>1, <2>1, FS_Subset, FS_CardinalityType
  <2>3. Cardinality(Before(p)) # 0
    <3>. HIDE DEF Before
    <3>. QED
      BY <2>1, <2>2, FS_EmptySet
  <2>. HIDE DEF Before
  <2>. QED
    BY <1>2, <2>2, <2>3
<1>4. ASSUME NEW p \in P, NEW q \in P, AsGood(s, p, q)
      PROVE  rank[p] <= rank[q] /\ (rank[p] = rank[q] => p = q)
  <2>1. Before(p) \in SUBSET Before(q)
    BY <1>4, AsGoodOrders
  <2>2. Cardinality(Before(p)) <= Cardinality(Before(q))
        /\ (Cardinality(Before(q)) = Cardinality(Before(p)) => Before(q) = Before(p))
    <3>. HIDE DEF Before
    <3>. QED
      BY <1>3, <2>1, FS_Subset
  <2>3. Before(q) = Before(p) => p = q
    BY <1>4, AsGoodOrders
  <2>. HIDE DEF Before
  <2>. QED
    BY <2>2, <2>3
<1>5. ASSUME NEW p \in P, NEW q \in P, rank[p] = rank[q] PROVE p = q
  <2>1. AsGood(s, p, q) \/ AsGood(s, q, p)
    BY AsGoodOrders
  <2>. HIDE DEF rank
  <2>. QED
    BY <1>4, <1>5, <2>1
<1>6. \A i \in 1 .. n : \E p \in P : rank[p] = i
  <2>. HIDE DEF Before
  <2>1. rank \in [P -> 1 .. n]
    BY <1>3
  <2>. HIDE DEF rank
  <2>2. rank \in Injection(P, 1 .. n)
    BY <1>5, <2>1 DEF Injection, IsInjective
  <2>3. IsFiniteSet(1 .. n) /\ Cardinality(1 .. n) = n
    BY <1>2, FS_Interval
  <2>4. rank \in Surjection(P, 1 .. n)
    BY <1>1, <2>2, <2>3, FS_Injection
  <2>. QED
    BY <2>4 DEF Surjection
<1>. DEFINE walk == [i \in 1 .. n |-> CHOOSE p \in P : rank[p] = i]
<1>7. \A i \in 1 .. n : walk[i] \in P /\ rank[walk[i]] = i
  <2>. HIDE DEF rank
  <2>. QED
    BY <1>6
<1>8. ASSUME NEW i \in 1 .. n, NEW j \in 1 .. n, i < j
      PROVE  walk[i] # walk[j] /\ AsGood(s, walk[i], walk[j])
  <2>. HIDE DEF walk, rank
  <2>1. walk[i] \in P /\ walk[j] \in P /\ rank[walk[i]] = i /\ rank[walk[j]] = j
    BY <1>7
  <2>2. ~AsGood(s, walk[j], walk[i])
    BY <1>2, <1>4, <1>8, <2>1
  <2>. QED
    BY <1>8, <2>1, <2>2, AsGoodOrders
<1>9. walk \in [1 .. n -> P]
  <2>. HIDE DEF rank
  <2>. QED
    BY <1>7
<1>. HIDE DEF walk
<1>. QED
  BY <1>1, <1>8, <1>9 DEF Walks

(* The walk over a side's levels meets each listed price once.             *)
LEMMA BestFirstIs ==
  ASSUME NEW s \in Sides, ListedPrices(s) \subseteq Prices,
         NEW n, n = Cardinality(ListedPrices(s)), NEW q, q = BestFirst(s)
  PROVE  /\ n \in 0 .. Unlimited
         /\ Walks(s, n, ListedPrices(s), q)
         /\ OnceEach(n, ListedPrices(s), q)
<1>1. PICK P : P = ListedPrices(s)
  OBVIOUS
<1>2. IsFiniteSet(P) /\ n \in Nat /\ n <= Unlimited
  <2>1. /\ IsFiniteSet(Prices) /\ Cardinality(Prices) = Unlimited /\ Unlimited \in Nat
    BY OrderbookAssumption, FS_Interval DEF Prices, Unlimited
  <2>. QED
    BY <1>1, <2>1, FS_Subset, FS_CardinalityType
<1>3. n \in 0 .. Unlimited
  BY <1>2, OrderbookAssumption DEF Unlimited
<1>4. \E walk : Walks(s, n, P, walk)
  BY <1>1, <1>2, WalkExists
<1>5. q = CHOOSE walk \in [1 .. n -> P] :
            \A i, j \in DOMAIN walk : i < j => walk[i] # walk[j] /\ AsGood(s, walk[i], walk[j])
  BY <1>1 DEF BestFirst
<1>6. Walks(s, n, P, q)
  <2>1. PICK walk : Walks(s, n, P, walk)
    BY <1>4
  <2>2. walk \in [1 .. n -> P] /\ DOMAIN walk = 1 .. n
    BY <2>1 DEF Walks
  <2>3. \A i, j \in DOMAIN walk : i < j => walk[i] # walk[j] /\ AsGood(s, walk[i], walk[j])
    BY <2>1, <2>2 DEF Walks
  <2>4. /\ q \in [1 .. n -> P]
        /\ \A i, j \in DOMAIN q : i < j => q[i] # q[j] /\ AsGood(s, q[i], q[j])
    BY <1>5, <2>2, <2>3
  <2>. QED
    BY <2>4 DEF Walks
<1>7. ASSUME NEW i \in 1 .. n, NEW j \in 1 .. n, q[i] = q[j] PROVE i = j
  <2>1. i \in Int /\ j \in Int /\ ~(i < j) /\ ~(j < i)
    BY <1>2, <1>6, <1>7 DEF Walks
  <2>. QED
    BY <2>1
<1>8. \A p \in P : \E i \in 1 .. n : q[i] = p
  <2>1. q \in Injection(1 .. n, P)
    BY <1>6, <1>7 DEF Walks, Injection, IsInjective
  <2>2. Cardinality(1 .. n) = n
    BY <1>2, FS_Interval
  <2>3. q \in Surjection(1 .. n, P)
    BY <1>1, <1>2, <2>1, <2>2, FS_Injection
  <2>. QED
    BY <2>3 DEF Surjection
<1>. QED
  BY <1>1, <1>3, <1>6, <1>7, <1>8 DEF OnceEach, Walks

-----------------------------------------------------------------------------
(* What a response lists.                                                  *)

(* The total of a level is positive where somebody has an order.           *)
LEMMA TotalSizeIs ==
  ASSUME TypeOK, NEW s \in Sides, NEW p \in Prices
  PROVE  TotalSize(s, p) \in Nat /\ (~IsEmpty(sizes, s, p) => TotalSize(s, p) > 0)
<1>1. PICK row : row = sizes[s][p]
  OBVIOUS
<1>2. row \in [Platforms -> Nat]
  <2>1. row \in [Platforms -> Sizes]
    BY <1>1 DEF TypeOK
  <2>. QED
    BY <2>1, OrderbookAssumption
<1>3. PICK t : IsTotal(row, Platforms, t)
  BY <1>2, TotalExists, ReadersAssumption
<1>4. TotalSize(s, p) = t[Platforms]
  BY <1>1, <1>2, <1>3, SumFunctionIs, ReadersAssumption DEF TotalSize
<1>5. t[Platforms] \in Nat
  BY <1>3 DEF IsTotal
<1>6. ASSUME ~IsEmpty(sizes, s, p) PROVE t[Platforms] > 0
  <2>1. PICK pl \in Platforms : row[pl] # 0
    BY <1>1, <1>6 DEF IsEmpty
  <2>2. row[pl] \in Nat /\ t[Platforms \ {pl}] \in Nat
        /\ t[Platforms] = row[pl] + t[Platforms \ {pl}]
    BY <1>2, <1>3 DEF IsTotal
  <2>. QED
    BY <2>1, <2>2
<1>. QED
  BY <1>4, <1>5, <1>6

LEMMA MinIs ==
  ASSUME NEW a \in Nat, NEW b \in Nat
  PROVE  Min({a, b}) = IF a <= b THEN a ELSE b
<1>1. PICK m : m = IF a <= b THEN a ELSE b
  OBVIOUS
<1>2. /\ m \in {a, b} /\ \A y \in {a, b} : m <= y
      /\ \A x \in {a, b} : (\A y \in {a, b} : x <= y) => x = m
  BY <1>1
<1>3. Min({a, b}) = m
  BY <1>2 DEF Min
<1>. QED
  BY <1>1, <1>3

(* The listed levels are all levels.                                       *)
LEMMA ListedAreLevels ==
  ASSUME IInv, NEW s \in Sides
  PROVE  /\ ListedPrices(s) = levels[s] /\ ListedPrices(s) = Live(sizes, s)
         /\ levels[s] \subseteq Prices
BY DEF IInv, TypeOK, KeysAreLiveLevels, ListedPrices, Live

Lists(s, n, q, rows) ==
  /\ rows \in Seq([price : Prices, total : Nat, row : [Platforms -> Sizes]])
  /\ Len(rows) = n /\ DOMAIN rows = 1 .. n
  /\ \A i \in 1 .. n :
       /\ q[i] \in ListedPrices(s)
       /\ rows[i] = [price |-> q[i], total |-> TotalSize(s, q[i]), row |-> sizes[s][q[i]]]

(* How many levels are listed, and what each of them says.                 *)
LEMMA TopLevelsAre ==
  ASSUME IInv, NEW s \in Sides, NEW n \in 0 .. Unlimited,
         NEW C, C = LevelCount(s), NEW q, q = BestFirst(s),
         NEW rows, rows = TopLevels(s, n)
  PROVE  Lists(s, IF n <= C THEN n ELSE C, q, rows)
<1>1. /\ C \in 0 .. Unlimited /\ C \in Nat /\ n \in Nat
      /\ q \in [1 .. C -> ListedPrices(s)]
  BY ListedAreLevels, BestFirstIs, OrderbookAssumption DEF LevelCount, Walks, Unlimited
<1>2. Len(q) = C
  BY <1>1
<1>3. PICK N : N = IF n <= C THEN n ELSE C
  OBVIOUS
<1>4. Min({n, Len(q)}) = N
  BY <1>1, <1>2, <1>3, MinIs
<1>5. rows = [i \in 1 .. N |-> [price |-> q[i], total |-> TotalSize(s, q[i]),
                                row |-> sizes[s][q[i]]]]
  BY <1>4 DEF TopLevels
<1>6. N \in Nat /\ 1 .. N \subseteq 1 .. C
  BY <1>1, <1>3
<1>7. ASSUME NEW i \in 1 .. N
      PROVE  /\ q[i] \in ListedPrices(s)
             /\ rows[i] \in [price : Prices, total : Nat, row : [Platforms -> Sizes]]
  <2>1. q[i] \in ListedPrices(s) /\ q[i] \in Prices
    BY <1>1, <1>6, ListedAreLevels
  <2>2. TotalSize(s, q[i]) \in Nat
    BY <2>1, TotalSizeIs DEF IInv
  <2>3. sizes[s][q[i]] \in [Platforms -> Sizes]
    BY <2>1 DEF IInv, TypeOK
  <2>. QED
    BY <1>5, <2>1, <2>2, <2>3
<1>8. Len(rows) = N
  BY <1>5, <1>6
<1>9. rows \in Seq([price : Prices, total : Nat, row : [Platforms -> Sizes]])
  BY <1>5, <1>6, <1>7
<1>. QED
  BY <1>3, <1>5, <1>7, <1>8, <1>9 DEF Lists

(* The depth is the sum of the totals that are listed when all are.        *)
LEMMA DepthIs ==
  ASSUME IInv, NEW s \in Sides, NEW rows, rows = TopLevels(s, Unlimited)
  PROVE  Depth(s) = SumOfTotals(rows)
<1>1. PICK C, q : C = LevelCount(s) /\ q = BestFirst(s)
  OBVIOUS
<1>2. PICK L : L = levels[s]
  OBVIOUS
<1>3. /\ C \in 0 .. Unlimited /\ C \in Nat /\ Unlimited \in 1 .. Unlimited
      /\ OnceEach(C, L, q)
  BY <1>1, <1>2, ListedAreLevels, BestFirstIs, OrderbookAssumption DEF LevelCount, Unlimited
<1>4. IsFiniteSet(L) /\ L \subseteq Prices
  <2>1. IsFiniteSet(Prices)
    BY OrderbookAssumption, FS_Interval DEF Prices
  <2>2. L \subseteq Prices
    BY <1>2, ListedAreLevels
  <2>. QED
    BY <2>1, <2>2, FS_Subset
<1>5. PICK f : f = [p \in L |-> TotalSize(s, p)]
  OBVIOUS
<1>6. f \in [L -> Nat]
  BY <1>4, <1>5, TotalSizeIs DEF IInv
<1>7. PICK t : IsTotal(f, L, t)
  BY <1>4, <1>6, TotalExists
<1>8. Depth(s) = t[L]
  <2>1. SumFunction(f) = t[L]
    BY <1>4, <1>6, <1>7, SumFunctionIs
  <2>. QED
    BY <1>2, <1>5, <2>1 DEF Depth
<1>9. PICK g : g = [i \in 1 .. C |-> f[q[i]]]
  OBVIOUS
<1>10. PICK u : IsTotal(g, 1 .. C, u) /\ u[1 .. C] = t[L]
  <2>1. \A i \in 1 .. C : g[i] = f[q[i]]
    BY <1>9
  <2>. QED
    BY <1>3, <1>6, <1>7, <2>1, TotalOfImages
<1>11. DOMAIN rows = 1 .. C /\ \A i \in 1 .. C : g[i] = rows[i].total
  <2>1. Lists(s, IF Unlimited <= C THEN Unlimited ELSE C, q, rows)
    BY <1>1, <1>3, TopLevelsAre
  <2>2. (IF Unlimited <= C THEN Unlimited ELSE C) = C
    BY <1>3
  <2>3. Lists(s, C, q, rows)
    BY <2>1, <2>2
  <2>4. ASSUME NEW i \in 1 .. C PROVE g[i] = rows[i].total
    <3>1. rows[i].total = TotalSize(s, q[i])
      BY <2>3 DEF Lists
    <3>2. q[i] \in L
      BY <1>3 DEF OnceEach
    <3>. QED
      BY <1>5, <1>9, <3>1, <3>2
  <2>. QED
    BY <2>3, <2>4 DEF Lists
<1>12. g \in [1 .. C -> Nat]
  BY <1>3, <1>6, <1>9 DEF OnceEach
<1>13. SumOfTotals(rows) = u[1 .. C]
  BY <1>3, <1>10, <1>11, <1>12, RowsSumIs
<1>. QED
  BY <1>8, <1>10, <1>13

(* The first listed price is the system's best.                            *)
LEMMA FirstIsBest ==
  ASSUME IInv, NEW s \in Sides, NEW q, q = BestFirst(s)
  PROVE  /\ LevelCount(s) = 0 => systemBest[s] = NoPrice
         /\ LevelCount(s) # 0 => systemBest[s] = q[1] /\ systemBest[s] # NoPrice
<1>1. PICK P, C : P = ListedPrices(s) /\ C = LevelCount(s)
  OBVIOUS
<1>2. /\ C \in Nat /\ C = Cardinality(P) /\ P \subseteq Prices /\ Walks(s, C, P, q)
      /\ \A p \in P : \E i \in 1 .. C : q[i] = p
  BY <1>1, ListedAreLevels, BestFirstIs, OrderbookAssumption DEF LevelCount, Unlimited, OnceEach
<1>3. systemBest[s] = BestPrice(s, P)
  BY <1>1, ListedAreLevels DEF IInv, SystemBboIsBest
<1>4. CASE C = 0
  <2>1. P = {}
    BY <1>2, <1>4
  <2>. QED
    BY <1>1, <1>3, <1>4, <2>1 DEF BestPrice
<1>5. CASE C # 0
  <2>1. 1 \in 1 .. C /\ q[1] \in P
    BY <1>2, <1>5 DEF Walks
  <2>2. PICK best : best = BestPrice(s, P)
    OBVIOUS
  <2>3. best \in P /\ AsGood(s, best, q[1])
    BY <1>2, <2>1, <2>2, BestPriceIsBest
  <2>4. PICK i \in 1 .. C : q[i] = best
    BY <1>2, <2>3
  <2>5. AsGood(s, q[1], best)
    <3>1. CASE i = 1
      BY <1>2, <2>3, <2>4, <3>1, AsGoodOrders
    <3>2. CASE i # 1
      <4>1. 1 < i
        BY <1>2, <3>2
      <4>. QED
        BY <1>2, <2>1, <2>4, <4>1 DEF Walks
    <3>. QED
      BY <3>1, <3>2
  <2>6. best = q[1]
    BY <1>2, <2>1, <2>3, <2>5, AsGoodOrders
  <2>. QED
    BY <1>1, <1>2, <1>3, <1>5, <2>1, <2>2, <2>6, OrderbookAssumption
<1>. QED
  BY <1>4, <1>5

-----------------------------------------------------------------------------
(* The agreement.                                                          *)

LEMMA SidesAgree ==
  ASSUME IInv, NEW s \in Sides, NEW n \in 0 .. Unlimited,
         NEW few, few = Response(n), NEW all, all = Response(Unlimited)
  PROVE  /\ SideAgrees(few, all, s)
         /\ Len(few.levels[s]) = Min({n, Len(all.levels[s])})
<1>1. PICK part, full, q, C : /\ part = TopLevels(s, n) /\ full = TopLevels(s, Unlimited)
                              /\ q = BestFirst(s) /\ C = LevelCount(s)
  OBVIOUS
<1>2. /\ C \in 0 .. Unlimited /\ C \in Nat /\ n \in Nat
      /\ Unlimited \in 0 .. Unlimited
      /\ Walks(s, C, ListedPrices(s), q)
  BY <1>1, ListedAreLevels, BestFirstIs, OrderbookAssumption DEF LevelCount, Unlimited
<1>3. PICK N : N = IF n <= C THEN n ELSE C
  OBVIOUS
<1>4. Lists(s, N, q, part)
  BY <1>1, <1>3, TopLevelsAre
<1>5. Lists(s, C, q, full)
  <2>1. Lists(s, IF Unlimited <= C THEN Unlimited ELSE C, q, full)
    BY <1>1, <1>2, TopLevelsAre
  <2>2. (IF Unlimited <= C THEN Unlimited ELSE C) = C
    BY <1>2
  <2>. QED
    BY <2>1, <2>2
<1>6. N \in Nat /\ N <= C
  BY <1>2, <1>3
<1>7. part = SubSeq(full, 1, Len(part))
  <2>1. Len(part) = N /\ Len(full) = C /\ DOMAIN part = 1 .. N
    BY <1>4, <1>5 DEF Lists
  <2>2. ASSUME NEW i \in 1 .. N PROVE part[i] = full[i]
    <3>1. i \in 1 .. C
      BY <1>2, <1>6
    <3>2. PICK row : row = [price |-> q[i], total |-> TotalSize(s, q[i]), row |-> sizes[s][q[i]]]
      OBVIOUS
    <3>3. part[i] = row
      BY <1>4, <3>2 DEF Lists
    <3>4. full[i] = row
      BY <1>5, <3>1, <3>2 DEF Lists
    <3>. QED
      BY ONLY <3>3, <3>4
  <2>3. part = [i \in 1 .. N |-> part[i]]
    BY <1>4, <1>6 DEF Lists
  <2>4. SubSeq(full, 1, N) = [i \in 1 .. N |-> full[i]]
    BY <1>2, <1>5, <1>6, <2>1 DEF Lists
  <2>. QED
    BY <2>1, <2>2, <2>3, <2>4
<1>8. Len(part) = Min({n, Len(full)})
  BY <1>2, <1>3, <1>4, <1>5, MinIs DEF Lists
<1>9. {full[i].price : i \in DOMAIN full \cap {1}} = {systemBest[s]} \ {NoPrice}
  <2>1. DOMAIN full = 1 .. C
    BY <1>5 DEF Lists
  <2>2. CASE C = 0
    <3>1. systemBest[s] = NoPrice
      BY <1>1, <2>2, FirstIsBest
    <3>2. DOMAIN full \cap {1} = {}
      BY <2>1, <2>2
    <3>. QED
      BY <3>1, <3>2
  <2>3. CASE C # 0
    <3>1. systemBest[s] = q[1] /\ systemBest[s] # NoPrice
      BY <1>1, <2>3, FirstIsBest
    <3>2. DOMAIN full \cap {1} = {1} /\ 1 \in 1 .. C
      BY <1>2, <2>1, <2>3
    <3>3. full[1].price = q[1]
      BY <1>5, <3>2 DEF Lists
    <3>. QED
      BY <3>1, <3>2, <3>3
  <2>. QED
    BY <2>2, <2>3
<1>10. LevelCount(s) = Len(full) /\ Depth(s) = SumOfTotals(full)
  BY <1>1, <1>5, DepthIs DEF Lists
<1>11. ASSUME NEW i \in DOMAIN full
       PROVE  /\ full[i].total > 0
              /\ full[i].row = AggregatedLevel(sizes, s, full[i].price)
              /\ i > 1 => /\ full[i - 1].price # full[i].price
                          /\ AsGood(s, full[i - 1].price, full[i].price)
  <2>1. i \in 1 .. C /\ q[i] \in ListedPrices(s)
    BY <1>5 DEF Lists
  <2>2. full[i] = [price |-> q[i], total |-> TotalSize(s, q[i]), row |-> sizes[s][q[i]]]
    BY <1>5, <2>1 DEF Lists
  <2>3. full[i].price = q[i] /\ full[i].total = TotalSize(s, q[i])
        /\ full[i].row = sizes[s][q[i]]
    BY <2>2
  <2>4. q[i] \in Prices /\ ~IsEmpty(sizes, s, q[i])
    BY <2>1, ListedAreLevels DEF ListedPrices
  <2>5. TotalSize(s, q[i]) > 0
    BY <2>4, TotalSizeIs DEF IInv
  <2>6. ASSUME i > 1 PROVE full[i - 1].price # full[i].price
                           /\ AsGood(s, full[i - 1].price, full[i].price)
    <3>1. i - 1 \in 1 .. C /\ i - 1 < i
      BY <1>2, <2>1, <2>6
    <3>2. full[i - 1].price = q[i - 1]
      BY <1>5, <3>1 DEF Lists
    <3>. QED
      BY <1>2, <2>1, <2>3, <3>1, <3>2 DEF Walks
  <2>. QED
    BY <2>3, <2>5, <2>6 DEF AggregatedLevel
<1>12. /\ few.levels[s] = part /\ all.levels[s] = full
       /\ few.system_best[s] = systemBest[s]
       /\ few.level_count[s] = LevelCount(s) /\ few.depth[s] = Depth(s)
  BY <1>1 DEF Response
<1>13. Heads(all, s) = {few.system_best[s]} \ {NoPrice}
  BY <1>9, <1>12 DEF Heads
<1>14. SideAgrees(few, all, s)
  BY ONLY <1>7, <1>10, <1>11, <1>12, <1>13 DEF SideAgrees
<1>. QED
  BY <1>8, <1>12, <1>14

(* All answers about a book agree, in every reachable state.               *)
THEOREM ReadersAlwaysAgree == Spec => []ReadersAgree
<1>1. IInv => ReadersAgree
  <2>. SUFFICES ASSUME IInv, NEW n \in 0 .. Unlimited, Get(Unlimited) # NoBook
                PROVE  /\ \A s \in Sides :
                            /\ SideAgrees(Get(n), Get(Unlimited), s)
                            /\ Len(Get(n).levels[s]) = Min({n, Len(Get(Unlimited).levels[s])})
                       /\ \A f \in DOMAIN GetBbo : Get(n)[f] = GetBbo[f]
                       /\ \A f \in DOMAIN ListAll : Get(n)[f] = ListAll[f]
    BY DEF ReadersAgree
  <2>1. platforms # {}
    BY DEF Get, IfCreated
  <2>2. /\ Get(n) = Response(n) /\ Get(Unlimited) = Response(Unlimited)
        /\ GetBbo = BboResponse /\ ListAll = Summary
    BY <2>1 DEF Get, GetBbo, ListAll, IfCreated
  <2>3. \A f \in DOMAIN GetBbo : Get(n)[f] = GetBbo[f]
    <3>1. DOMAIN GetBbo = {"exchange_best", "system_best", "twice_mid_price", "spread"}
      BY <2>2 DEF BboResponse
    <3>. QED
      BY <2>2, <3>1 DEF BboResponse, Response
  <2>4. \A f \in DOMAIN ListAll : Get(n)[f] = ListAll[f]
    <3>1. DOMAIN ListAll = {"platforms", "system_best", "level_count"}
      BY <2>2 DEF Summary
    <3>. QED
      BY <2>2, <3>1 DEF Summary, Response
  <2>5. ASSUME NEW s \in Sides
        PROVE  /\ SideAgrees(Get(n), Get(Unlimited), s)
               /\ Len(Get(n).levels[s]) = Min({n, Len(Get(Unlimited).levels[s])})
    BY <2>2, SidesAgree
  <2>. QED
    BY <2>3, <2>4, <2>5
<1>. QED
  BY <1>1, BookInvariant, PTL
=============================================================================
