-------------------------- MODULE IngestionProofs --------------------------
(***************************************************************************)
(* The path from the exchange to the book, for any platform, assets,       *)
(* prices, sizes and bounds, and whatever the exchange's messages change:  *)
(* as long as nothing of an asset has been lost since its last snapshot,   *)
(* what is under way turns the book into the exchange's own.               *)
(***************************************************************************)
EXTENDS Ingestion, OrderbookProofs, SequenceTheorems, FiniteSetTheorems

(* The normalized messages of the platform, and its own book.              *)
Own == {m \in Message : m.platform = Platform}

Normalized == [asset : Assets, message : Own]

OwnBooks == [Sides -> [Prices -> Sizes]]

(* What one message does to the platform's own book of the traced asset.   *)
Written(own, m) ==
  [s \in Sides |-> [p \in Prices |->
     IF Writes(m, s, p) # {} THEN m.levels[s][LastOf(Writes(m, s, p))].size
     ELSE IF m.type = "snapshot" THEN 0 ELSE own[s][p]]]

Handled(own, x) == IF x.asset = Traced THEN Written(own, x.message) ELSE own

(* And what the first n messages of a sequence do.                         *)
OwnAfter(own, messages) ==
  LET after[n \in 0 .. Len(messages)] ==
        IF n = 0 THEN own ELSE Handled(after[n - 1], messages[n])
  IN  after

Result(own, messages) == OwnAfter(own, messages)[Len(messages)]

(* A message leaves an own book.                                           *)
LEMMA HandledType ==
  ASSUME NEW own \in OwnBooks, NEW x \in Normalized
  PROVE  Handled(own, x) \in OwnBooks
<1>1. x.message \in Message
  BY DEF Normalized, Own
<1>2. \A s \in Sides, p \in Prices : own[s][p] \in Sizes
  BY DEF OwnBooks
<1>3. 0 \in Sizes
  BY OrderbookAssumption
<1>4. ASSUME NEW s \in Sides, NEW p \in Prices
      PROVE  (IF Writes(x.message, s, p) # {}
              THEN x.message.levels[s][LastOf(Writes(x.message, s, p))].size
              ELSE IF x.message.type = "snapshot" THEN 0 ELSE own[s][p]) \in Sizes
  BY <1>1, <1>2, <1>3, WrittenSizeType
<1>5. Written(own, x.message) \in OwnBooks
  BY <1>4 DEF Written, OwnBooks
<1>. QED
  BY <1>5 DEF Handled

OwnBody(own, messages, after, n) ==
  IF n = 0 THEN own ELSE Handled(after[n - 1], messages[n])

(* The recursion of OwnAfter has a solution.                               *)
LEMMA OwnAfterBody ==
  ASSUME NEW own \in OwnBooks, NEW messages \in Seq(Normalized),
         NEW after, after = OwnAfter(own, messages), NEW N, N = Len(messages)
  PROVE  \A n \in 0 .. N : after[n] = OwnBody(own, messages, after, n)
<1>1. N \in Nat
  OBVIOUS
<1>. DEFINE step == [o \in OwnBooks |-> [n \in 1 .. N |-> Handled(o, messages[n])]]
<1>2. step \in [OwnBooks -> [1 .. N -> OwnBooks]]
  <2>1. \A n \in 1 .. N : messages[n] \in Normalized
    OBVIOUS
  <2>. QED
    BY <2>1, HandledType
<1>3. PICK f \in [0 .. N -> OwnBooks] : Solves(f, N, own, step)
  <2>. HIDE DEF step
  <2>. QED
    BY <1>1, <1>2, Recursion
<1>4. ASSUME NEW n \in 0 .. N PROVE f[n] = OwnBody(own, messages, f, n)
  <2>1. CASE n = 0
    BY <1>3, <2>1 DEF Solves, OwnBody
  <2>2. CASE n # 0
    <3>1. n \in 1 .. N /\ n - 1 \in 0 .. N
      BY <1>1, <2>2
    <3>2. f[n - 1] \in OwnBooks
      BY <3>1
    <3>3. f[n] = step[f[n - 1]][n]
      <4>. HIDE DEF step
      <4>. QED
        BY <1>3, <3>1 DEF Solves
    <3>. QED
      BY <2>2, <3>1, <3>2, <3>3 DEF OwnBody
  <2>. QED
    BY <2>1, <2>2
<1>5. f = [n \in 0 .. N |-> OwnBody(own, messages, f, n)]
  BY <1>4
<1>6. after = [n \in 0 .. N |-> OwnBody(own, messages, after, n)]
  <2>. HIDE DEF step
  <2>. QED
    BY <1>5 DEF OwnAfter, OwnBody
<1>. QED
  BY <1>6

(* Its steps, and the type of its values.                                  *)
LEMMA OwnAfterSteps ==
  ASSUME NEW own \in OwnBooks, NEW messages \in Seq(Normalized)
  PROVE  /\ OwnAfter(own, messages)[0] = own
         /\ \A n \in 1 .. Len(messages) :
              OwnAfter(own, messages)[n] = Handled(OwnAfter(own, messages)[n - 1], messages[n])
         /\ \A n \in 0 .. Len(messages) : OwnAfter(own, messages)[n] \in OwnBooks
<1>1. PICK after, N : after = OwnAfter(own, messages) /\ N = Len(messages)
  OBVIOUS
<1>2. N \in Nat /\ \A n \in 1 .. N : messages[n] \in Normalized
  BY <1>1
<1>3. \A n \in 0 .. N : after[n] = OwnBody(own, messages, after, n)
  BY <1>1, OwnAfterBody
<1>4. after[0] = own
  BY <1>2, <1>3 DEF OwnBody
<1>5. ASSUME NEW n \in 1 .. N PROVE after[n] = Handled(after[n - 1], messages[n])
  BY <1>2, <1>3 DEF OwnBody
<1>. DEFINE I == {n \in 0 .. N : after[n] \in OwnBooks}
<1>6. 0 \in I
  BY <1>2, <1>4
<1>7. ASSUME NEW n \in 0 .. (N - 1), n \in I PROVE n + 1 \in I
  <2>1. n + 1 \in 1 .. N /\ (n + 1) - 1 = n /\ n + 1 \in 0 .. N
    BY <1>2
  <2>2. after[n + 1] = Handled(after[n], messages[n + 1])
    BY <1>5, <2>1
  <2>3. after[n + 1] \in OwnBooks
    BY <1>2, <1>7, <2>1, <2>2, HandledType
  <2>. QED
    BY <2>1, <2>3
<1>8. 0 .. N \subseteq I
  <2>. HIDE DEF I
  <2>. QED
    BY <1>2, <1>6, <1>7, UpTo
<1>. QED
  BY <1>1, <1>4, <1>5, <1>8

-----------------------------------------------------------------------------
(* What is handled after what.                                             *)

LEMMA ResultType ==
  ASSUME NEW own \in OwnBooks, NEW messages \in Seq(Normalized)
  PROVE  Result(own, messages) \in OwnBooks
<1>1. Len(messages) \in 0 .. Len(messages)
  BY DEF Seq
<1>. QED
  BY <1>1, OwnAfterSteps DEF Result

(* Nothing changes nothing.                                                *)
LEMMA ResultOfNothing ==
  ASSUME NEW own \in OwnBooks
  PROVE  Result(own, <<>>) = own
<1>1. <<>> \in Seq(Normalized) /\ Len(<<>>) = 0
  OBVIOUS
<1>. QED
  BY <1>1, OwnAfterSteps DEF Result

(* One message does what handling it does.                                 *)
LEMMA ResultOfOne ==
  ASSUME NEW own \in OwnBooks, NEW x \in Normalized
  PROVE  Result(own, <<x>>) = Handled(own, x)
<1>1. PICK one : one = <<x>>
  OBVIOUS
<1>2. one \in Seq(Normalized) /\ Len(one) = 1 /\ one[1] = x /\ 1 \in 1 .. 1 /\ 1 - 1 = 0
  BY <1>1
<1>3. OwnAfter(own, one)[1] = Handled(OwnAfter(own, one)[1 - 1], one[1])
  BY <1>2, OwnAfterSteps
<1>4. OwnAfter(own, one)[0] = own
  BY <1>2, OwnAfterSteps
<1>. QED
  BY <1>1, <1>2, <1>3, <1>4 DEF Result

(* Of two sequences in a row the second starts where the first ends.       *)
LEMMA ResultOfBoth ==
  ASSUME NEW own \in OwnBooks, NEW a \in Seq(Normalized), NEW c \in Seq(Normalized)
  PROVE  Result(own, a \o c) = Result(Result(own, a), c)
<1>1. PICK b, A, C, mid : /\ b = a \o c /\ A = Len(a) /\ C = Len(c)
                          /\ mid = Result(own, a)
  OBVIOUS
<1>2. /\ b \in Seq(Normalized) /\ Len(b) = A + C /\ A \in Nat /\ C \in Nat
      /\ \A n \in 1 .. A : b[n] = a[n]
      /\ \A n \in 1 .. C : b[A + n] = c[n]
  BY <1>1
<1>3. mid \in OwnBooks
  BY <1>1, ResultType
<1>. DEFINE I == {n \in 0 .. A : OwnAfter(own, b)[n] = OwnAfter(own, a)[n]}
            J == {n \in 0 .. C : OwnAfter(own, b)[A + n] = OwnAfter(mid, c)[n]}
<1>0. \A n \in 1 .. Len(b) : OwnAfter(own, b)[n] = Handled(OwnAfter(own, b)[n - 1], b[n])
  BY <1>2, OwnAfterSteps
<1>4. 0 \in I
  BY <1>2, OwnAfterSteps
<1>5. ASSUME NEW n \in 0 .. (A - 1), n \in I PROVE n + 1 \in I
  <2>1. /\ n + 1 \in 1 .. A /\ n + 1 \in 1 .. Len(b) /\ (n + 1) - 1 = n /\ n + 1 \in 0 .. A
        /\ b[n + 1] = a[n + 1] /\ n + 1 \in 1 .. Len(a)
    BY <1>1, <1>2
  <2>2. OwnAfter(own, b)[n + 1] = Handled(OwnAfter(own, b)[n], b[n + 1])
    BY <1>0, <2>1
  <2>3. OwnAfter(own, a)[n + 1] = Handled(OwnAfter(own, a)[n], a[n + 1])
    BY <2>1, OwnAfterSteps
  <2>. QED
    BY <1>5, <2>1, <2>2, <2>3
<1>6. 0 .. A \subseteq I
  <2>. HIDE DEF I
  <2>. QED
    BY <1>2, <1>4, <1>5, UpTo
<1>7. 0 \in J
  <2>1. A \in I /\ A + 0 = A
    BY <1>2, <1>6
  <2>2. OwnAfter(own, b)[A + 0] = mid
    BY <1>1, <2>1 DEF Result
  <2>. QED
    BY <1>2, <1>3, <2>2, OwnAfterSteps
<1>8. ASSUME NEW n \in 0 .. (C - 1), n \in J PROVE n + 1 \in J
  <2>1. /\ n + 1 \in 1 .. C /\ A + (n + 1) \in 1 .. Len(b) /\ (A + (n + 1)) - 1 = A + n
        /\ (n + 1) - 1 = n /\ n + 1 \in 0 .. C
        /\ b[A + (n + 1)] = c[n + 1] /\ n + 1 \in 1 .. Len(c)
    BY <1>1, <1>2
  <2>2. OwnAfter(own, b)[A + (n + 1)] = Handled(OwnAfter(own, b)[A + n], b[A + (n + 1)])
    BY <1>0, <2>1
  <2>3. OwnAfter(mid, c)[n + 1] = Handled(OwnAfter(mid, c)[n], c[n + 1])
    BY <1>3, <2>1, OwnAfterSteps
  <2>. QED
    BY <1>8, <2>1, <2>2, <2>3
<1>9. 0 .. C \subseteq J
  <2>. HIDE DEF J
  <2>. QED
    BY <1>2, <1>7, <1>8, UpTo
<1>10. C \in J
  BY <1>2, <1>9
<1>. QED
  BY <1>1, <1>2, <1>10 DEF Result

(* Messages of other assets do nothing.                                    *)
LEMMA ResultOfOthers ==
  ASSUME NEW own \in OwnBooks, NEW messages \in Seq(Normalized), ~Concerned(messages)
  PROVE  Result(own, messages) = own
<1>1. PICK N : N = Len(messages)
  OBVIOUS
<1>2. /\ N \in Nat /\ \A n \in 1 .. N : messages[n].asset # Traced
  BY <1>1 DEF Concerned
<1>3. \A n \in 1 .. N : OwnAfter(own, messages)[n] = OwnAfter(own, messages)[n - 1]
  BY <1>1, <1>2, OwnAfterSteps DEF Handled
<1>. DEFINE I == {n \in 0 .. N : OwnAfter(own, messages)[n] = own}
<1>4. 0 \in I
  BY <1>2, OwnAfterSteps
<1>5. ASSUME NEW n \in 0 .. (N - 1), n \in I PROVE n + 1 \in I
  <2>1. n + 1 \in 1 .. N /\ (n + 1) - 1 = n /\ n + 1 \in 0 .. N
    BY <1>2
  <2>. QED
    BY <1>3, <1>5, <2>1
<1>6. 0 .. N \subseteq I
  <2>. HIDE DEF I
  <2>. QED
    BY <1>2, <1>4, <1>5, UpTo
<1>7. N \in I
  BY <1>2, <1>6
<1>. QED
  BY <1>1, <1>7 DEF Result

(* A snapshot makes the start irrelevant.                                  *)
LEMMA ResultOfResync ==
  ASSUME NEW own \in OwnBooks, NEW other \in OwnBooks,
         NEW messages \in Seq(Normalized), Resyncs(messages)
  PROVE  Result(own, messages) = Result(other, messages)
<1>1. PICK N : N = Len(messages)
  OBVIOUS
<1>2. PICK i \in 1 .. N : messages[i].asset = Traced /\ messages[i].message.type = "snapshot"
  BY <1>1 DEF Resyncs
<1>3. N \in Nat /\ \A n \in 1 .. N : messages[n] \in Normalized
  BY <1>1
<1>4. PICK f, g : f = OwnAfter(own, messages) /\ g = OwnAfter(other, messages)
  OBVIOUS
<1>5. \A n \in 1 .. N : f[n] = Handled(f[n - 1], messages[n])
  BY <1>1, <1>4, OwnAfterSteps
<1>6. \A n \in 1 .. N : g[n] = Handled(g[n - 1], messages[n])
  BY <1>1, <1>4, OwnAfterSteps
<1>7. f[i] = g[i]
  <2>1. Handled(f[i - 1], messages[i]) = Handled(g[i - 1], messages[i])
    BY <1>2 DEF Handled, Written
  <2>. QED
    BY <1>5, <1>6, <2>1
<1>. DEFINE I == {n \in 0 .. N : n >= i => f[n] = g[n]}
<1>8. 0 \in I
  BY <1>3
<1>9. ASSUME NEW n \in 0 .. (N - 1), n \in I PROVE n + 1 \in I
  <2>1. n + 1 \in 1 .. N /\ (n + 1) - 1 = n /\ n + 1 \in 0 .. N
    BY <1>3
  <2>2. n >= i => f[n + 1] = g[n + 1]
    BY <1>5, <1>6, <1>9, <2>1
  <2>3. ~(n >= i) /\ n + 1 >= i => n + 1 = i
    BY <1>3
  <2>. QED
    BY <1>7, <2>1, <2>2, <2>3
<1>10. 0 .. N \subseteq I
  <2>. HIDE DEF I
  <2>. QED
    BY <1>3, <1>8, <1>9, UpTo
<1>11. N \in I /\ N >= i
  BY <1>3, <1>10
<1>12. f[N] = g[N]
  BY <1>11
<1>. QED
  BY <1>1, <1>4, <1>12 DEF Result

(* Which of the two kinds a sequence is.                                   *)
LEMMA KindsOfBoth ==
  ASSUME NEW a \in Seq(Normalized), NEW c \in Seq(Normalized)
  PROVE  /\ Concerned(a \o c) <=> (Concerned(a) \/ Concerned(c))
         /\ Resyncs(a \o c) <=> (Resyncs(a) \/ Resyncs(c))
<1>1. PICK b : b = a \o c
  OBVIOUS
<1>2. /\ Len(a) \in Nat /\ Len(c) \in Nat /\ Len(b) = Len(a) + Len(c)
      /\ DOMAIN a = 1 .. Len(a) /\ DOMAIN c = 1 .. Len(c) /\ DOMAIN b = 1 .. Len(b)
      /\ \A i \in DOMAIN a : i \in DOMAIN b /\ b[i] = a[i]
      /\ \A i \in DOMAIN c : Len(a) + i \in DOMAIN b /\ b[Len(a) + i] = c[i]
  BY <1>1
<1>3. \A i \in DOMAIN b : i \in DOMAIN a \/ (i - Len(a) \in DOMAIN c /\ b[i] = c[i - Len(a)])
  <2> SUFFICES ASSUME NEW i \in DOMAIN b, i \notin DOMAIN a
               PROVE  i - Len(a) \in DOMAIN c /\ b[i] = c[i - Len(a)]
    OBVIOUS
  <2>1. i - Len(a) \in DOMAIN c /\ Len(a) + (i - Len(a)) = i
    BY <1>2
  <2>. QED
    BY <1>2, <2>1
<1>4. Concerned(b) <=> (Concerned(a) \/ Concerned(c))
  BY <1>2, <1>3 DEF Concerned
<1>5. Resyncs(b) <=> (Resyncs(a) \/ Resyncs(c))
  BY <1>2, <1>3 DEF Resyncs
<1>. QED
  BY <1>1, <1>4, <1>5

LEMMA KindsOfNothing == ~Concerned(<<>>) /\ ~Resyncs(<<>>)
BY DEF Concerned, Resyncs

-----------------------------------------------------------------------------
(* The whole book.                                                         *)

Books == [Sides -> [Prices -> [Platforms -> Sizes]]]

OwnOf(book) == [s \in Sides |-> [p \in Prices |-> book[s][p][Platform]]]

LEMMA OwnOfType == ASSUME NEW book \in Books PROVE OwnOf(book) \in OwnBooks
<1>1. Platform \in Platforms
  BY IngestionAssumption
<1>. QED
  BY <1>1 DEF Books, OwnOf, OwnBooks

(* The platform's messages do to its part of the book what they do to its  *)
(* own book.                                                               *)
LEMMA AppliedIsHandled ==
  ASSUME NEW book \in Books, NEW m \in Own
  PROVE  /\ SizesAfter(book, m) \in Books
         /\ OwnOf(SizesAfter(book, m)) = Written(OwnOf(book), m)
<1>1. m \in Message /\ m.platform = Platform /\ Platform \in Platforms
  BY IngestionAssumption DEF Own
<1>2. SizesAfter(book, m) \in Books
  BY <1>1, SizesAfterType DEF Books
<1>3. ASSUME NEW s \in Sides, NEW p \in Prices
      PROVE  SizesAfter(book, m)[s][p][Platform] =
               IF Writes(m, s, p) # {} THEN m.levels[s][LastOf(Writes(m, s, p))].size
               ELSE IF m.type = "snapshot" THEN 0 ELSE OwnOf(book)[s][p]
  BY <1>1 DEF SizesAfter, Cleared, OwnOf
<1>. QED
  BY <1>2, <1>3 DEF OwnOf, Written

BookBody(book, messages, after, n) ==
  IF n = 0 THEN book
  ELSE IF messages[n].asset = Traced THEN SizesAfter(after[n - 1], messages[n].message)
  ELSE after[n - 1]

(* The recursion of BookAfter has a solution, too.                         *)
LEMMA BookAfterBody ==
  ASSUME NEW book \in Books, NEW messages \in Seq(Normalized),
         NEW after, after = BookAfter(book, messages), NEW N, N = Len(messages)
  PROVE  \A n \in 0 .. N : after[n] = BookBody(book, messages, after, n)
<1>1. N \in Nat
  OBVIOUS
<1>. DEFINE Step(b, n) == IF messages[n].asset = Traced
                          THEN SizesAfter(b, messages[n].message) ELSE b
            step == [b \in Books |-> [n \in 1 .. N |-> Step(b, n)]]
<1>2. step \in [Books -> [1 .. N -> Books]]
  <2>1. ASSUME NEW b \in Books, NEW n \in 1 .. N PROVE Step(b, n) \in Books
    <3>1. messages[n] \in Normalized
      BY <1>1
    <3>2. messages[n].message \in Own
      BY <3>1 DEF Normalized
    <3>. QED
      BY <3>2, AppliedIsHandled
  <2>. HIDE DEF Step
  <2>. QED
    BY <2>1
<1>3. PICK f \in [0 .. N -> Books] : Solves(f, N, book, step)
  <2>. HIDE DEF step
  <2>. QED
    BY <1>1, <1>2, Recursion
<1>4. ASSUME NEW n \in 0 .. N PROVE f[n] = BookBody(book, messages, f, n)
  <2>1. CASE n = 0
    BY <1>3, <2>1 DEF Solves, BookBody
  <2>2. CASE n # 0
    <3>1. n \in 1 .. N /\ n - 1 \in 0 .. N
      BY <1>1, <2>2
    <3>2. f[n - 1] \in Books
      BY <3>1
    <3>3. f[n] = step[f[n - 1]][n]
      <4>. HIDE DEF step
      <4>. QED
        BY <1>3, <3>1 DEF Solves
    <3>. QED
      BY <2>2, <3>1, <3>2, <3>3 DEF BookBody
  <2>. QED
    BY <2>1, <2>2
<1>5. f = [n \in 0 .. N |-> BookBody(book, messages, f, n)]
  BY <1>4
<1>6. after = [n \in 0 .. N |-> BookBody(book, messages, after, n)]
  <2>. HIDE DEF step
  <2>. QED
    BY <1>5 DEF BookAfter, BookBody
<1>. QED
  BY <1>6

(* What messages of the platform do to the book is told by the own book.   *)
LEMMA BookAfterIs ==
  ASSUME NEW book \in Books, NEW messages \in Seq(Normalized)
  PROVE  OwnOf(BookAfter(book, messages)[Len(messages)]) = Result(OwnOf(book), messages)
<1>1. PICK after, N, own : /\ after = BookAfter(book, messages) /\ N = Len(messages)
                           /\ own = OwnOf(book)
  OBVIOUS
<1>2. N \in Nat /\ own \in OwnBooks /\ \A n \in 1 .. N : messages[n] \in Normalized
  BY <1>1, OwnOfType
<1>3. \A n \in 0 .. N : after[n] = BookBody(book, messages, after, n)
  BY <1>1, BookAfterBody
<1>. DEFINE I == {n \in 0 .. N : /\ after[n] \in Books
                                 /\ OwnOf(after[n]) = OwnAfter(own, messages)[n]}
<1>4. 0 \in I
  <2>1. after[0] = book
    BY <1>2, <1>3 DEF BookBody
  <2>2. OwnAfter(own, messages)[0] = own
    BY <1>2, OwnAfterSteps
  <2>. QED
    BY <1>1, <1>2, <2>1, <2>2
<1>5. ASSUME NEW n \in 0 .. (N - 1), n \in I PROVE n + 1 \in I
  <2>1. n + 1 \in 1 .. N /\ (n + 1) - 1 = n /\ n + 1 \in 0 .. N
    BY <1>2
  <2>2. /\ messages[n + 1].asset = Traced =>
             after[n + 1] = SizesAfter(after[n], messages[n + 1].message)
        /\ messages[n + 1].asset # Traced => after[n + 1] = after[n]
    BY <1>3, <2>1 DEF BookBody
  <2>3. OwnAfter(own, messages)[n + 1] = Handled(OwnAfter(own, messages)[n], messages[n + 1])
    <3>1. \A k \in 1 .. N :
            OwnAfter(own, messages)[k] = Handled(OwnAfter(own, messages)[k - 1], messages[k])
      BY <1>1, <1>2, OwnAfterSteps
    <3>. QED
      BY <2>1, <3>1
  <2>4. messages[n + 1].message \in Own
    BY <1>2, <2>1 DEF Normalized
  <2>5. /\ after[n + 1] \in Books
        /\ OwnOf(after[n + 1]) = OwnAfter(own, messages)[n + 1]
    BY <1>5, <2>2, <2>3, <2>4, AppliedIsHandled DEF Handled
  <2>. QED
    BY <2>1, <2>5
<1>6. 0 .. N \subseteq I
  <2>. HIDE DEF I
  <2>. QED
    BY <1>2, <1>4, <1>5, UpTo
<1>7. N \in I
  BY <1>2, <1>6
<1>. QED
  BY <1>1, <1>7 DEF Result

-----------------------------------------------------------------------------
(* Sequences of sequences.                                                 *)

(* A function over the first numbers is a sequence.                        *)
LEMMA FunctionIsSeq ==
  ASSUME NEW S, NEW n \in Nat, NEW f \in [1 .. n -> S]
  PROVE  f \in Seq(S) /\ Len(f) = n
<1>1. f \in Seq(S)
  BY SeqDef
<1>. QED
  BY <1>1

FlatBody(seqs, flat, i) == IF i = 1 THEN seqs[i] ELSE flat[i - 1] \o seqs[i]

(* FlattenSeq puts one sequence after the other.                           *)
LEMMA FlattenIs ==
  ASSUME NEW S, NEW seqs \in Seq(Seq(S))
  PROVE  \E flat \in [0 .. Len(seqs) -> Seq(S)] :
           /\ flat[0] = <<>>
           /\ \A n \in 1 .. Len(seqs) : flat[n] = flat[n - 1] \o seqs[n]
           /\ FlattenSeq(seqs) = flat[Len(seqs)]
<1>1. PICK N : N = Len(seqs)
  OBVIOUS
<1>2. N \in Nat /\ \A n \in 1 .. N : seqs[n] \in Seq(S)
  BY <1>1
<1>. DEFINE step == [q \in Seq(S) |-> [n \in 1 .. N |-> q \o seqs[n]]]
<1>3. step \in [Seq(S) -> [1 .. N -> Seq(S)]]
  BY <1>2
<1>4. PICK f \in [0 .. N -> Seq(S)] : Solves(f, N, <<>>, step)
  <2>1. <<>> \in Seq(S)
    OBVIOUS
  <2>. HIDE DEF step
  <2>. QED
    BY <1>2, <1>3, <2>1, Recursion
<1>5. f[0] = <<>>
  BY <1>4 DEF Solves
<1>6. ASSUME NEW n \in 1 .. N PROVE f[n] = f[n - 1] \o seqs[n]
  <2>1. n - 1 \in 0 .. N
    BY <1>2
  <2>2. f[n - 1] \in Seq(S)
    BY <2>1
  <2>3. f[n] = step[f[n - 1]][n]
    <3>. HIDE DEF step
    <3>. QED
      BY <1>4 DEF Solves
  <2>. QED
    BY <2>2, <2>3
<1>. HIDE DEF step
<1>7. FlattenSeq(seqs) = f[N]
  <2>1. CASE N = 0
    <3>1. seqs = <<>>
      BY <1>1, <2>1, EmptySeq
    <3>. QED
      BY <1>1, <1>5, <2>1, <3>1 DEF FlattenSeq
  <2>2. CASE N # 0
    <3>1. PICK g : g = [i \in 1 .. N |-> f[i]]
      OBVIOUS
    <3>2. ASSUME NEW i \in 1 .. N PROVE g[i] = FlatBody(seqs, g, i)
      <4>1. CASE i = 1
        <5>1. f[1] = f[0] \o seqs[1] /\ seqs[1] \in Seq(S)
          <6>1. 1 \in 1 .. N /\ 1 - 1 = 0
            BY <1>2, <2>2
          <6>. QED
            BY <1>2, <1>6, <6>1
        <5>2. f[1] = seqs[1]
          BY <1>5, <5>1, ConcatEmptySeq
        <5>. QED
          BY <3>1, <4>1, <5>2 DEF FlatBody
      <4>2. CASE i # 1
        <5>0. i - 1 \in 1 .. N
          BY <1>2, <4>2
        <5>1. i - 1 \in 1 .. N /\ f[i] = f[i - 1] \o seqs[i]
          BY <1>6, <5>0
        <5>. QED
          BY <3>1, <4>2, <5>1 DEF FlatBody
      <4>. QED
        BY <4>1, <4>2
    <3>3. g = [i \in 1 .. N |-> FlatBody(seqs, g, i)]
      BY <3>1, <3>2
    <3>4. PICK h : h = CHOOSE q : q = [i \in 1 .. N |-> FlatBody(seqs, q, i)]
      OBVIOUS
    <3>5. h = [i \in 1 .. N |-> FlatBody(seqs, h, i)]
      BY <3>3, <3>4
    <3>6. FlattenSeq(seqs) = h[N]
      BY <1>1, <2>2, <3>4 DEF FlattenSeq, FlatBody
    <3>. DEFINE I == {n \in 0 .. N : n # 0 => h[n] = f[n]}
    <3>7. 0 \in I
      BY <1>2
    <3>8. ASSUME NEW n \in 0 .. (N - 1), n \in I PROVE n + 1 \in I
      <4>1. n + 1 \in 1 .. N /\ (n + 1) - 1 = n /\ n + 1 \in 0 .. N
        BY <1>2
      <4>2. h[n + 1] = FlatBody(seqs, h, n + 1) /\ g[n + 1] = FlatBody(seqs, g, n + 1)
        BY <3>2, <3>5, <4>1
      <4>3. FlatBody(seqs, h, n + 1) = FlatBody(seqs, g, n + 1)
        <5>1. CASE n = 0
          BY <5>1 DEF FlatBody
        <5>2. CASE n # 0
          <6>1. h[n] = f[n] /\ g[n] = f[n]
            BY <1>2, <3>1, <3>8, <5>2
          <6>. QED
            BY <4>1, <6>1 DEF FlatBody
        <5>. QED
          BY <5>1, <5>2
      <4>. QED
        BY <3>1, <4>1, <4>2, <4>3
    <3>9. 0 .. N \subseteq I
      <4>. HIDE DEF I
      <4>. QED
        BY <1>2, <3>7, <3>8, UpTo
    <3>10. N \in I
      BY <1>2, <3>9
    <3>. QED
      BY <2>2, <3>6, <3>10
  <2>. QED
    BY <2>1, <2>2
<1>. QED
  BY <1>1, <1>5, <1>6, <1>7

LEMMA FlattenType ==
  ASSUME NEW S, NEW seqs \in Seq(Seq(S))
  PROVE  FlattenSeq(seqs) \in Seq(S)
<1>1. PICK flat \in [0 .. Len(seqs) -> Seq(S)] : FlattenSeq(seqs) = flat[Len(seqs)]
  BY FlattenIs
<1>2. Len(seqs) \in 0 .. Len(seqs)
  OBVIOUS
<1>. QED
  BY <1>1, <1>2

LEMMA FlattenNothing == FlattenSeq(<<>>) = <<>>
BY DEF FlattenSeq

(* A sequence behind the others comes last.                                *)
LEMMA FlattenAppend ==
  ASSUME NEW S, NEW seqs \in Seq(Seq(S)), NEW q \in Seq(S)
  PROVE  FlattenSeq(Append(seqs, q)) = FlattenSeq(seqs) \o q
<1>1. PICK more, N : more = Append(seqs, q) /\ N = Len(seqs)
  OBVIOUS
<1>2. /\ more \in Seq(Seq(S)) /\ Len(more) = N + 1 /\ N \in Nat /\ more[N + 1] = q
      /\ \A n \in 1 .. N : more[n] = seqs[n]
  BY <1>1
<1>3. PICK f \in [0 .. N -> Seq(S)] :
         /\ f[0] = <<>> /\ \A n \in 1 .. N : f[n] = f[n - 1] \o seqs[n]
         /\ FlattenSeq(seqs) = f[N]
  BY <1>1, FlattenIs
<1>4. PICK g \in [0 .. Len(more) -> Seq(S)] :
         /\ g[0] = <<>> /\ \A n \in 1 .. Len(more) : g[n] = g[n - 1] \o more[n]
         /\ FlattenSeq(more) = g[Len(more)]
  BY <1>2, FlattenIs
<1>. DEFINE I == {n \in 0 .. N : f[n] = g[n]}
<1>5. 0 \in I
  BY <1>2, <1>3, <1>4
<1>6. ASSUME NEW n \in 0 .. (N - 1), n \in I PROVE n + 1 \in I
  <2>1. n + 1 \in 1 .. N /\ n + 1 \in 1 .. Len(more) /\ (n + 1) - 1 = n /\ n + 1 \in 0 .. N
    BY <1>2
  <2>2. f[n + 1] = f[n] \o seqs[n + 1] /\ g[n + 1] = g[n] \o more[n + 1]
    BY <1>3, <1>4, <2>1
  <2>. QED
    BY <1>2, <1>6, <2>1, <2>2
<1>7. 0 .. N \subseteq I
  <2>. HIDE DEF I
  <2>. QED
    BY <1>2, <1>5, <1>6, UpTo
<1>8. N \in I
  BY <1>2, <1>7
<1>9. g[N + 1] = g[N] \o more[N + 1]
  <2>1. N + 1 \in 1 .. Len(more) /\ (N + 1) - 1 = N
    BY <1>2
  <2>. QED
    BY <1>4, <2>1
<1>. QED
  BY <1>1, <1>2, <1>3, <1>4, <1>8, <1>9

(* The first sequence comes first.                                         *)
LEMMA FlattenHead ==
  ASSUME NEW S, NEW seqs \in Seq(Seq(S)), seqs # <<>>
  PROVE  FlattenSeq(seqs) = Head(seqs) \o FlattenSeq(Tail(seqs))
<1>1. PICK rest, N, first : rest = Tail(seqs) /\ N = Len(rest) /\ first = Head(seqs)
  OBVIOUS
<1>2. /\ rest \in Seq(Seq(S)) /\ Len(seqs) = N + 1 /\ N \in Nat
      /\ first = seqs[1] /\ first \in Seq(S)
      /\ \A n \in 1 .. N : rest[n] = seqs[n + 1] /\ rest[n] \in Seq(S)
  BY <1>1
<1>3. PICK f \in [0 .. Len(seqs) -> Seq(S)] :
         /\ f[0] = <<>> /\ \A n \in 1 .. Len(seqs) : f[n] = f[n - 1] \o seqs[n]
         /\ FlattenSeq(seqs) = f[Len(seqs)]
  BY FlattenIs
<1>4. PICK g \in [0 .. N -> Seq(S)] :
         /\ g[0] = <<>> /\ \A n \in 1 .. N : g[n] = g[n - 1] \o rest[n]
         /\ FlattenSeq(rest) = g[N]
  BY <1>1, <1>2, FlattenIs
<1>. DEFINE I == {n \in 0 .. N : f[n + 1] = first \o g[n]}
<1>5. 0 \in I
  <2>1. f[0 + 1] = f[0] \o seqs[1]
    <3>1. 1 \in 1 .. Len(seqs) /\ 1 - 1 = 0 /\ 0 + 1 = 1
      BY <1>2
    <3>. QED
      BY <1>3, <3>1
  <2>2. f[0 + 1] = first /\ first \o g[0] = first
    BY <1>2, <1>3, <1>4, <2>1, ConcatEmptySeq
  <2>3. f[0 + 1] = first \o g[0] /\ 0 \in 0 .. N
    BY <1>2, <2>2
  <2>. QED
    BY <2>3
<1>6. ASSUME NEW n \in 0 .. (N - 1), n \in I PROVE n + 1 \in I
  <2>1. /\ n + 1 \in 1 .. N /\ (n + 1) + 1 \in 1 .. Len(seqs) /\ (n + 1) - 1 = n
        /\ n + 1 \in 0 .. N /\ ((n + 1) + 1) - 1 = n + 1 /\ n \in 0 .. N
    BY <1>2
  <2>2. f[(n + 1) + 1] = f[n + 1] \o seqs[(n + 1) + 1] /\ g[n + 1] = g[n] \o rest[n + 1]
    BY <1>3, <1>4, <2>1
  <2>3. f[n + 1] = first \o g[n] /\ rest[n + 1] = seqs[(n + 1) + 1] /\ rest[n + 1] \in Seq(S)
        /\ g[n] \in Seq(S)
    BY <1>2, <1>6, <2>1
  <2>4. (first \o g[n]) \o rest[n + 1] = first \o (g[n] \o rest[n + 1])
    <3>. PICK q, r : q = g[n] /\ r = rest[n + 1]
      OBVIOUS
    <3>1. q \in Seq(S) /\ r \in Seq(S) /\ first \in Seq(S)
      BY <1>2, <2>3
    <3>2. (first \o q) \o r = first \o (q \o r)
      BY ONLY <3>1, ConcatAssociative
    <3>. QED
      BY <3>2
  <2>. QED
    BY <2>1, <2>2, <2>3, <2>4
<1>7. 0 .. N \subseteq I
  <2>. HIDE DEF I
  <2>. QED
    BY <1>2, <1>5, <1>6, UpTo
<1>8. N \in I
  BY <1>2, <1>7
<1>. QED
  BY <1>1, <1>2, <1>3, <1>4, <1>8

-----------------------------------------------------------------------------
(* Sets as sequences.                                                      *)

(* An enumeration of a finite set without repetition has all its members.  *)
LEMMA EnumerationCovers ==
  ASSUME NEW S, IsFiniteSet(S), NEW f \in [1 .. Cardinality(S) -> S], IsInjective(f)
  PROVE  f \in Seq(S) /\ Len(f) = Cardinality(S) /\ \A x \in S : \E i \in DOMAIN f : f[i] = x
<1>1. Cardinality(S) \in Nat
  BY FS_CardinalityType
<1>2. f \in Injection(1 .. Cardinality(S), S)
  BY DEF Injection
<1>3. Cardinality(1 .. Cardinality(S)) = Cardinality(S)
  BY <1>1, FS_Interval
<1>4. f \in Surjection(1 .. Cardinality(S), S)
  BY <1>2, <1>3, FS_Injection
<1>. QED
  BY <1>1, <1>4, FunctionIsSeq DEF Surjection

(* There is one.                                                           *)
LEMMA EnumerationExists ==
  ASSUME NEW S, IsFiniteSet(S)
  PROVE  \E f \in [1 .. Cardinality(S) -> S] : IsInjective(f)
BY FS_CardinalityType DEF ExistsBijection, Bijection, Injection

LEMMA SetToSeqCovers ==
  ASSUME NEW S, IsFiniteSet(S)
  PROVE  /\ SetToSeq(S) \in Seq(S) /\ IsInjective(SetToSeq(S))
         /\ \A x \in S : \E i \in DOMAIN SetToSeq(S) : SetToSeq(S)[i] = x
<1>1. PICK f : f = SetToSeq(S)
  OBVIOUS
<1>2. f \in [1 .. Cardinality(S) -> S] /\ IsInjective(f)
  BY <1>1, EnumerationExists DEF SetToSeq
<1>. QED
  BY <1>1, <1>2, EnumerationCovers

LEMMA SetToSeqsCover ==
  ASSUME NEW S, IsFiniteSet(S)
  PROVE  /\ SetToSeqs(S) # {}
         /\ \A order \in SetToSeqs(S) :
              /\ order \in Seq(S) /\ IsInjective(order)
              /\ \A x \in S : \E i \in DOMAIN order : order[i] = x
<1>1. SetToSeqs(S) = {f \in [1 .. Cardinality(S) -> S] : IsInjective(f)}
  BY DEF SetToSeqs, IsInjective
<1>. QED
  BY <1>1, EnumerationExists, EnumerationCovers

-----------------------------------------------------------------------------
(* The books that the exchange sends.                                      *)

Update == [price : Prices, size : Sizes]

(* A list of the orders of one side, each once.                            *)
Lists(list, row) ==
  /\ list \in Seq(Update)
  /\ \A i \in DOMAIN list : list[i].size = row[list[i].price] /\ list[i].size # 0
  /\ \A i, j \in DOMAIN list : list[i].price = list[j].price => i = j
  /\ \A p \in Prices : row[p] # 0 => \E i \in DOMAIN list : list[i].price = p

(* A book message has such lists.                                          *)
LEMMA BookLevels ==
  ASSUME NEW book \in OwnBooks, NEW a, NEW s \in Sides, NEW list,
         list = BookMessage(a, book).levels[s]
  PROVE  Lists(list, book[s])
<1>0. \A p \in Prices : book[s][p] \in Sizes
  BY DEF OwnBooks
<1>. DEFINE S == {[price |-> p, size |-> book[s][p]] : p \in {q \in Prices : book[s][q] # 0}}
<1>1. /\ S \subseteq Update
      /\ \A r \in S : r.size = book[s][r.price] /\ r.size # 0
      /\ \A q, r \in S : q.price = r.price => q = r
      /\ \A p \in Prices : book[s][p] # 0 => \E r \in S : r.price = p
  <2>1. ASSUME NEW r \in S
        PROVE  /\ r.price \in Prices /\ r.size = book[s][r.price] /\ r.size # 0
               /\ r = [price |-> r.price, size |-> book[s][r.price]]
    OBVIOUS
  <2>2. ASSUME NEW p \in Prices, book[s][p] # 0 PROVE \E r \in S : r.price = p
    <3>1. [price |-> p, size |-> book[s][p]] \in S
      BY <2>2
    <3>. HIDE DEF S
    <3>. QED
      BY <3>1
  <2>. HIDE DEF S
  <2>3. S \subseteq Update
    BY <1>0, <2>1 DEF Update
  <2>4. \A q, r \in S : q.price = r.price => q = r
    BY <2>1
  <2>. QED
    BY <2>1, <2>2, <2>3, <2>4
<1>2. list = SetToSeq(S)
  BY DEF BookMessage
<1>. HIDE DEF S
<1>3. IsFiniteSet(S)
  <2>1. IsFiniteSet(Prices)
    BY OrderbookAssumption, FS_Interval DEF Prices
  <2>2. PICK f : f = [r \in S |-> r.price]
    OBVIOUS
  <2>3. f \in [S -> Prices] /\ DOMAIN f = S
    BY <1>1, <2>2 DEF Update
  <2>4. IsInjective(f)
    BY <1>1, <2>2, <2>3 DEF IsInjective
  <2>5. f \in Injection(S, Prices)
    BY <2>3, <2>4 DEF Injection
  <2>. QED
    BY <2>1, <2>5, FS_Injection
<1>4. /\ list \in Seq(S) /\ IsInjective(list)
      /\ \A x \in S : \E i \in DOMAIN list : list[i] = x
  BY <1>2, <1>3, SetToSeqCovers
<1>5. \A i \in DOMAIN list : list[i] \in S
  BY <1>4
<1>6. list \in Seq(Update)
  BY <1>1, <1>4
<1>7. ASSUME NEW i \in DOMAIN list, NEW j \in DOMAIN list, list[i].price = list[j].price
      PROVE  i = j
  BY <1>1, <1>4, <1>5, <1>7 DEF IsInjective
<1>8. ASSUME NEW p \in Prices, book[s][p] # 0
      PROVE  \E i \in DOMAIN list : list[i].price = p
  BY <1>1, <1>4, <1>8
<1>9. \A i \in DOMAIN list : list[i].size = book[s][list[i].price] /\ list[i].size # 0
  BY <1>1, <1>5
<1>. QED
  BY <1>6, <1>7, <1>8, <1>9 DEF Lists

(* transform_book makes a message of the platform, which leaves the book   *)
(* that was sent.                                                          *)
LEMMA TransformBookDoes ==
  ASSUME NEW book \in OwnBooks, NEW a \in Assets, NEW x,
         x = TransformBook(BookMessage(a, book))
  PROVE  /\ x \in Normalized /\ x.asset = a /\ x.message.type = "snapshot"
         /\ \A own \in OwnBooks : Written(own, x.message) = book
<1>1. PICK lists : lists = BookMessage(a, book).levels
  OBVIOUS
<1>2. lists \in [Sides -> Seq(Update)] /\ \A s \in Sides : Lists(lists[s], book[s])
  <2>1. lists = [s \in Sides |-> lists[s]]
    BY <1>1 DEF BookMessage
  <2>2. \A s \in Sides : Lists(lists[s], book[s])
    BY <1>1, BookLevels
  <2>3. \A s \in Sides : lists[s] \in Seq(Update)
    BY <2>2 DEF Lists
  <2>. QED
    BY <2>1, <2>2, <2>3
<1>3. PICK m : m = x.message
  OBVIOUS
<1>4. /\ m.type = "snapshot" /\ m.platform = Platform /\ m.levels = lists
      /\ m = [type |-> "snapshot", platform |-> Platform, levels |-> lists,
              best |-> [s \in Sides |-> IF lists[s] = <<>> THEN NoPrice ELSE lists[s][1].price]]
      /\ x = [asset |-> a, message |-> m]
  BY <1>1, <1>3 DEF TransformBook, BookMessage
<1>5. m \in Own
  <2>1. \A s \in Sides : (IF lists[s] = <<>> THEN NoPrice ELSE lists[s][1].price) \in BestReported
    <3>1. ASSUME NEW s \in Sides, lists[s] # <<>> PROVE lists[s][1].price \in Prices
      <4>1. lists[s] \in Seq(Update) /\ 1 \in 1 .. Len(lists[s])
        BY <1>2, <3>1
      <4>2. lists[s][1] \in Update
        BY <4>1
      <4>. QED
        BY <4>2 DEF Update
    <3>. QED
      BY <3>1 DEF BestReported
  <2>2. Seq(Update) \subseteq Seq(Level)
    <3>1. Update \subseteq Level
      BY DEF Update, Level
    <3>. QED
      BY <3>1
  <2>3. lists \in [Sides -> Seq(Level)]
    BY <1>2, <2>2
  <2>4. Platform \in Platforms
    BY IngestionAssumption
  <2>. QED
    BY <1>4, <2>1, <2>3, <2>4 DEF Own, Message
<1>6. x \in Normalized /\ x.asset = a
  BY <1>4, <1>5 DEF Normalized
<1>7. ASSUME NEW own \in OwnBooks PROVE Written(own, m) = book
  <2>1. ASSUME NEW s \in Sides, NEW p \in Prices
        PROVE  Written(own, m)[s][p] = book[s][p]
    <3>. PICK list : list = lists[s]
      OBVIOUS
    <3>1. Lists(list, book[s]) /\ list \in Seq(Update)
      BY <1>2
    <3>2. ASSUME NEW i \in DOMAIN list PROVE list[i].price \in Prices /\ list[i].size \in Sizes
      <4>1. list[i] \in Update
        BY <3>1
      <4>. QED
        BY <4>1 DEF Update
    <3>3. Writes(m, s, p) = {i \in DOMAIN list : list[i].price = p}
      BY <1>4, <3>1, <3>2 DEF Writes, Accepts, Lists
    <3>4. Written(own, m)[s][p] = IF Writes(m, s, p) # {} THEN list[LastOf(Writes(m, s, p))].size
                                  ELSE 0
      BY <1>4 DEF Written
    <3>5. CASE book[s][p] # 0
      <4>1. PICK i \in DOMAIN list : list[i].price = p
        BY <3>1, <3>5 DEF Lists
      <4>2. Writes(m, s, p) = {i} /\ list[i].size = book[s][p]
        BY <3>1, <3>3, <4>1 DEF Lists
      <4>3. LastOf({i}) = i
        <5>1. i \in Nat
          BY <3>1
        <5>. QED
          BY <5>1 DEF LastOf
      <4>. QED
        BY <3>4, <4>2, <4>3
    <3>6. CASE book[s][p] = 0
      <4>1. Writes(m, s, p) = {}
        BY <3>1, <3>3, <3>6 DEF Lists
      <4>. QED
        BY <3>4, <3>6, <4>1
    <3>. QED
      BY <3>5, <3>6
  <2>. QED
    BY <2>1 DEF Written, OwnBooks
<1>. QED
  BY <1>3, <1>4, <1>6, <1>7

-----------------------------------------------------------------------------
(* The changes that the exchange sends.                                    *)

Change == [move : Move, best : [Sides -> BestReported]]

(* A list of updates leaves the size of the last one of a price.           *)
WrittenBy(list, p, z) ==
  LET own == {i \in DOMAIN list : list[i].price = p}
  IN  IF own # {} THEN list[LastOf(own)].size ELSE z

LEMMA WrittenByMore ==
  ASSUME NEW list \in Seq(Update), NEW r \in Update, NEW p, NEW z
  PROVE  WrittenBy(Append(list, r), p, z) = IF r.price = p THEN r.size ELSE WrittenBy(list, p, z)
<1>1. PICK more, N : more = Append(list, r) /\ N = Len(list)
  OBVIOUS
<1>2. /\ N \in Nat /\ DOMAIN list = 1 .. N /\ DOMAIN more = 1 .. (N + 1) /\ more[N + 1] = r
      /\ \A i \in 1 .. N : more[i] = list[i]
  BY <1>1
<1>3. PICK own : own = {i \in DOMAIN list : list[i].price = p}
  OBVIOUS
<1>4. PICK all : all = {i \in DOMAIN more : more[i].price = p}
  OBVIOUS
<1>5. own \subseteq 1 .. N
  BY <1>2, <1>3
<1>6. CASE r.price = p
  <2>1. all = own \union {N + 1}
    BY <1>2, <1>3, <1>4, <1>6
  <2>2. LastOf(all) = N + 1
    BY <1>2, <1>5, <2>1, LastOfAppended
  <2>3. all # {}
    BY <2>1
  <2>. QED
    BY <1>1, <1>2, <1>4, <1>6, <2>2, <2>3 DEF WrittenBy
<1>7. CASE r.price # p
  <2>1. all = own
    BY <1>2, <1>3, <1>4, <1>7
  <2>2. own # {} => LastOf(own) \in own
    <3>1. own \subseteq 0 .. N
      BY <1>2, <1>5
    <3>. QED
      BY <1>2, <3>1, LastOfIsMember
  <2>3. own # {} => more[LastOf(own)] = list[LastOf(own)]
    BY <1>2, <1>5, <2>2
  <2>. QED
    BY <1>1, <1>3, <1>4, <1>7, <2>1, <2>3 DEF WrittenBy
<1>. QED
  BY <1>6, <1>7

UpdatesBody(changes, a, s, own, n) ==
  IF n = 0 THEN <<>>
  ELSE LET move == changes[n].move
       IN  IF move.asset = a /\ move.side = s
           THEN Append(own[n - 1], [price |-> move.price, size |-> move.size])
           ELSE own[n - 1]

(* The recursion of UpdatesUpTo has a solution.                            *)
LEMMA UpdatesUpToBody ==
  ASSUME NEW changes \in Seq(Change), NEW a, NEW s,
         NEW own, own = UpdatesUpTo(changes, a, s), NEW N, N = Len(changes)
  PROVE  /\ \A n \in 0 .. N : own[n] = UpdatesBody(changes, a, s, own, n)
         /\ \A n \in 0 .. N : own[n] \in Seq(Update)
<1>1. N \in Nat /\ \A n \in 1 .. N : changes[n] \in Change
  OBVIOUS
<1>2. \A n \in 1 .. N : changes[n].move \in Move
  BY <1>1 DEF Change
<1>3. \A n \in 1 .. N : [price |-> changes[n].move.price, size |-> changes[n].move.size] \in Update
  BY <1>2 DEF Move, Update
<1>. DEFINE Step(q, n) == IF changes[n].move.asset = a /\ changes[n].move.side = s
                          THEN Append(q, [price |-> changes[n].move.price,
                                          size |-> changes[n].move.size])
                          ELSE q
            step == [q \in Seq(Update) |-> [n \in 1 .. N |-> Step(q, n)]]
<1>4. \A q \in Seq(Update), n \in 1 .. N : Step(q, n) \in Seq(Update)
  BY <1>3
<1>5. step \in [Seq(Update) -> [1 .. N -> Seq(Update)]]
  <2>. HIDE DEF Step
  <2>. QED
    BY <1>4
<1>6. PICK f \in [0 .. N -> Seq(Update)] : Solves(f, N, <<>>, step)
  <2>1. <<>> \in Seq(Update)
    OBVIOUS
  <2>. HIDE DEF step
  <2>. QED
    BY <1>1, <1>5, <2>1, Recursion
<1>7. ASSUME NEW n \in 0 .. N PROVE f[n] = UpdatesBody(changes, a, s, f, n)
  <2>1. CASE n = 0
    BY <1>6, <2>1 DEF Solves, UpdatesBody
  <2>2. CASE n # 0
    <3>1. n \in 1 .. N /\ n - 1 \in 0 .. N
      BY <1>1, <2>2
    <3>2. f[n - 1] \in Seq(Update)
      BY <3>1
    <3>3. f[n] = step[f[n - 1]][n]
      <4>. HIDE DEF step
      <4>. QED
        BY <1>6, <3>1 DEF Solves
    <3>4. f[n] = Step(f[n - 1], n)
      <4>. HIDE DEF Step
      <4>. QED
        BY <3>1, <3>2, <3>3
    <3>. QED
      BY <2>2, <3>4 DEF UpdatesBody
  <2>. QED
    BY <2>1, <2>2
<1>8. f = [n \in 0 .. N |-> UpdatesBody(changes, a, s, f, n)]
  BY <1>7
<1>. HIDE DEF step
<1>9. own = [n \in 0 .. N |-> UpdatesBody(changes, a, s, own, n)]
  BY <1>8 DEF UpdatesUpTo, UpdatesBody
<1>10. \A n \in 0 .. N : own[n] = UpdatesBody(changes, a, s, own, n)
  BY <1>9
<1>. DEFINE I == {n \in 0 .. N : own[n] \in Seq(Update)}
<1>11. 0 \in I
  <2>1. 0 \in 0 .. N
    BY <1>1
  <2>2. own[0] = UpdatesBody(changes, a, s, own, 0)
    BY <1>10, <2>1
  <2>3. own[0] = <<>> /\ <<>> \in Seq(Update)
    BY <2>2 DEF UpdatesBody
  <2>. QED
    BY <2>1, <2>3
<1>12. ASSUME NEW n \in 0 .. (N - 1), n \in I PROVE n + 1 \in I
  <2>1. n + 1 \in 1 .. N /\ (n + 1) - 1 = n /\ n + 1 \in 0 .. N
    BY <1>1
  <2>2. own[n + 1] = Step(own[n], n + 1)
    BY <1>10, <2>1 DEF UpdatesBody
  <2>3. own[n] \in Seq(Update)
    BY <1>12
  <2>. HIDE DEF Step
  <2>4. own[n + 1] \in Seq(Update)
    BY <1>4, <2>1, <2>2, <2>3
  <2>. QED
    BY <2>1, <2>4
<1>13. 0 .. N \subseteq I
  <2>. HIDE DEF I
  <2>. QED
    BY <1>1, <1>11, <1>12, UpTo
<1>. QED
  BY <1>10, <1>13

PlayedBody(book, batch, played, n) ==
  IF n = 0 THEN book
  ELSE LET move == batch[n]
       IN  IF move.asset = Traced
           THEN [played[n - 1] EXCEPT ![move.side][move.price] = move.size]
           ELSE played[n - 1]

(* So has that of Played.                                                  *)
LEMMA PlayedSteps ==
  ASSUME NEW book \in OwnBooks, NEW batch \in Seq(Move),
         NEW played, played = Played(book, batch), NEW N, N = Len(batch)
  PROVE  /\ \A n \in 0 .. N : played[n] = PlayedBody(book, batch, played, n)
         /\ \A n \in 0 .. N : played[n] \in OwnBooks
<1>1. N \in Nat /\ \A n \in 1 .. N : batch[n] \in Move
  OBVIOUS
<1>. DEFINE Step(b, n) == IF batch[n].asset = Traced
                          THEN [b EXCEPT ![batch[n].side][batch[n].price] = batch[n].size]
                          ELSE b
            step == [b \in OwnBooks |-> [n \in 1 .. N |-> Step(b, n)]]
<1>4. \A b \in OwnBooks, n \in 1 .. N : Step(b, n) \in OwnBooks
  BY <1>1 DEF OwnBooks, Move
<1>5. step \in [OwnBooks -> [1 .. N -> OwnBooks]]
  <2>. HIDE DEF Step
  <2>. QED
    BY <1>4
<1>6. PICK f \in [0 .. N -> OwnBooks] : Solves(f, N, book, step)
  <2>. HIDE DEF step
  <2>. QED
    BY <1>1, <1>5, Recursion
<1>7. ASSUME NEW n \in 0 .. N PROVE f[n] = PlayedBody(book, batch, f, n)
  <2>1. CASE n = 0
    BY <1>6, <2>1 DEF Solves, PlayedBody
  <2>2. CASE n # 0
    <3>1. n \in 1 .. N /\ n - 1 \in 0 .. N
      BY <1>1, <2>2
    <3>2. f[n - 1] \in OwnBooks
      BY <3>1
    <3>3. f[n] = step[f[n - 1]][n]
      <4>. HIDE DEF step
      <4>. QED
        BY <1>6, <3>1 DEF Solves
    <3>4. f[n] = Step(f[n - 1], n)
      <4>. HIDE DEF Step
      <4>. QED
        BY <3>1, <3>2, <3>3
    <3>. QED
      BY <2>2, <3>4 DEF PlayedBody
  <2>. QED
    BY <2>1, <2>2
<1>8. f = [n \in 0 .. N |-> PlayedBody(book, batch, f, n)]
  BY <1>7
<1>. HIDE DEF step
<1>9. played = [n \in 0 .. N |-> PlayedBody(book, batch, played, n)]
  BY <1>8 DEF Played, PlayedBody
<1>10. \A n \in 0 .. N : played[n] = PlayedBody(book, batch, played, n)
  BY <1>9
<1>. DEFINE I == {n \in 0 .. N : played[n] \in OwnBooks}
<1>11. 0 \in I
  <2>1. 0 \in 0 .. N
    BY <1>1
  <2>2. played[0] = PlayedBody(book, batch, played, 0)
    BY <1>10, <2>1
  <2>3. played[0] = book
    BY <2>2 DEF PlayedBody
  <2>. QED
    BY <2>1, <2>3
<1>12. ASSUME NEW n \in 0 .. (N - 1), n \in I PROVE n + 1 \in I
  <2>1. n + 1 \in 1 .. N /\ (n + 1) - 1 = n /\ n + 1 \in 0 .. N
    BY <1>1
  <2>2. played[n + 1] = Step(played[n], n + 1)
    <3>1. played[n + 1] = PlayedBody(book, batch, played, n + 1) /\ n + 1 # 0
      BY <1>1, <1>10, <2>1
    <3>. QED
      BY <2>1, <3>1 DEF PlayedBody
  <2>3. played[n] \in OwnBooks
    BY <1>12
  <2>. HIDE DEF Step
  <2>4. played[n + 1] \in OwnBooks
    BY <1>4, <2>1, <2>2, <2>3
  <2>. QED
    BY <2>1, <2>4
<1>13. 0 .. N \subseteq I
  <2>. HIDE DEF I
  <2>. QED
    BY <1>1, <1>11, <1>12, UpTo
<1>. QED
  BY <1>10, <1>13

(* The moves of the traced asset, made one after the other, leave what the *)
(* adapter's lists of updates write, side by side.                         *)
LEMMA PlayedIsWritten ==
  ASSUME NEW book \in OwnBooks, NEW batch \in Seq(Move), NEW changes \in Seq(Change),
         Len(changes) = Len(batch), \A i \in 1 .. Len(batch) : changes[i].move = batch[i],
         NEW s \in Sides, NEW p \in Prices
  PROVE  Played(book, batch)[Len(batch)][s][p] =
           WrittenBy(Updates(changes, Traced, s), p, book[s][p])
<1>1. PICK played, own, N : /\ played = Played(book, batch)
                            /\ own = UpdatesUpTo(changes, Traced, s)
                            /\ N = Len(batch)
  OBVIOUS
<1>2. N \in Nat /\ N = Len(changes) /\ \A n \in 1 .. N : batch[n] \in Move
  BY <1>1
<1>3. /\ \A n \in 0 .. N : played[n] = PlayedBody(book, batch, played, n)
      /\ \A n \in 0 .. N : played[n] \in OwnBooks
  BY <1>1, PlayedSteps
<1>4. /\ \A n \in 0 .. N : own[n] = UpdatesBody(changes, Traced, s, own, n)
      /\ \A n \in 0 .. N : own[n] \in Seq(Update)
  <2>1. own = UpdatesUpTo(changes, Traced, s) /\ N = Len(changes)
    BY <1>1, <1>2
  <2>. QED
    BY ONLY <2>1, changes \in Seq(Change), UpdatesUpToBody
<1>. DEFINE I == {n \in 0 .. N : played[n][s][p] = WrittenBy(own[n], p, book[s][p])}
<1>5. 0 \in I
  <2>0. 0 \in 0 .. N
    BY <1>2
  <2>1. played[0] = book /\ own[0] = <<>>
    <3>1. /\ played[0] = PlayedBody(book, batch, played, 0)
          /\ own[0] = UpdatesBody(changes, Traced, s, own, 0)
      BY <1>3, <1>4, <2>0
    <3>. QED
      BY <3>1 DEF PlayedBody, UpdatesBody
  <2>2. WrittenBy(<<>>, p, book[s][p]) = book[s][p]
    BY DEF WrittenBy
  <2>. QED
    BY <1>2, <2>1, <2>2
<1>6. ASSUME NEW n \in 0 .. (N - 1), n \in I PROVE n + 1 \in I
  <2>1. n + 1 \in 1 .. N /\ (n + 1) - 1 = n /\ n + 1 \in 0 .. N /\ n \in 0 .. N /\ n + 1 # 0
    BY <1>2
  <2>2. PICK move : move = batch[n + 1]
    OBVIOUS
  <2>3. move \in Move /\ changes[n + 1].move = move
    BY <1>1, <1>2, <2>1, <2>2
  <2>4. PICK before, list : before = played[n] /\ list = own[n]
    OBVIOUS
  <2>5. before \in OwnBooks /\ list \in Seq(Update) /\ before[s][p] = WrittenBy(list, p, book[s][p])
    BY <1>3, <1>4, <1>6, <2>1, <2>4
  <2>6. played[n + 1] = IF move.asset = Traced
                        THEN [before EXCEPT ![move.side][move.price] = move.size] ELSE before
    BY <1>3, <2>1, <2>2, <2>4 DEF PlayedBody
  <2>7. own[n + 1] = IF move.asset = Traced /\ move.side = s
                     THEN Append(list, [price |-> move.price, size |-> move.size]) ELSE list
    BY <1>4, <2>1, <2>3, <2>4 DEF UpdatesBody
  <2>8. CASE move.asset = Traced /\ move.side = s
    <3>1. PICK r : r = [price |-> move.price, size |-> move.size]
      OBVIOUS
    <3>2. r \in Update /\ r.price = move.price /\ r.size = move.size
      BY <2>3, <3>1 DEF Move, Update
    <3>3. WrittenBy(own[n + 1], p, book[s][p]) =
            IF move.price = p THEN move.size ELSE before[s][p]
      BY <2>5, <2>7, <2>8, <3>1, <3>2, WrittenByMore
    <3>4. played[n + 1][s][p] = IF move.price = p THEN move.size ELSE before[s][p]
      BY <2>3, <2>5, <2>6, <2>8 DEF OwnBooks, Move
    <3>. QED
      BY <2>1, <3>3, <3>4
  <2>9. CASE ~(move.asset = Traced /\ move.side = s)
    <3>1. played[n + 1][s][p] = before[s][p]
      BY <2>3, <2>5, <2>6, <2>9 DEF OwnBooks, Move
    <3>. QED
      BY <2>1, <2>5, <2>7, <2>9, <3>1
  <2>. QED
    BY <2>8, <2>9
<1>7. 0 .. N \subseteq I
  <2>. HIDE DEF I
  <2>. QED
    BY <1>2, <1>5, <1>6, UpTo
<1>8. N \in I
  BY <1>2, <1>7
<1>. QED
  BY <1>1, <1>2, <1>8 DEF Updates

(* Moves of other assets leave the book alone.                             *)
LEMMA PlayedByOthers ==
  ASSUME NEW book \in OwnBooks, NEW batch \in Seq(Move),
         ~ \E i \in DOMAIN batch : batch[i].asset = Traced
  PROVE  Played(book, batch)[Len(batch)] = book
<1>1. PICK played, N : played = Played(book, batch) /\ N = Len(batch)
  OBVIOUS
<1>2. N \in Nat /\ \A n \in 1 .. N : batch[n].asset # Traced
  BY <1>1
<1>3. \A n \in 0 .. N : played[n] = PlayedBody(book, batch, played, n)
  BY <1>1, PlayedSteps
<1>. DEFINE I == {n \in 0 .. N : played[n] = book}
<1>4. 0 \in I
  <2>1. 0 \in 0 .. N
    BY <1>2
  <2>2. played[0] = PlayedBody(book, batch, played, 0)
    BY <1>3, <2>1
  <2>3. played[0] = book
    BY <2>2 DEF PlayedBody
  <2>. QED
    BY <2>1, <2>3
<1>5. ASSUME NEW n \in 0 .. (N - 1), n \in I PROVE n + 1 \in I
  <2>1. n + 1 \in 1 .. N /\ (n + 1) - 1 = n /\ n + 1 \in 0 .. N /\ n + 1 # 0
    BY <1>2
  <2>2. played[n + 1] = played[n]
    BY <1>2, <1>3, <2>1 DEF PlayedBody
  <2>. QED
    BY <1>5, <2>1, <2>2
<1>6. 0 .. N \subseteq I
  <2>. HIDE DEF I
  <2>. QED
    BY <1>2, <1>4, <1>5, UpTo
<1>7. N \in I
  BY <1>2, <1>6
<1>. QED
  BY <1>1, <1>7

-----------------------------------------------------------------------------
(* What the adapter makes of an element.                                   *)

(* Only one message counts if the others are of other assets.              *)
LEMMA ResultOfOnly ==
  ASSUME NEW own \in OwnBooks, NEW messages \in Seq(Normalized), NEW k \in DOMAIN messages,
         messages[k].asset = Traced,
         \A i \in DOMAIN messages : i # k => messages[i].asset # Traced
  PROVE  Result(own, messages) = Written(own, messages[k].message)
<1>1. PICK N, after, new : /\ N = Len(messages) /\ after = OwnAfter(own, messages)
                           /\ new = Written(own, messages[k].message)
  OBVIOUS
<1>2. N \in Nat /\ DOMAIN messages = 1 .. N /\ k \in 1 .. N
  BY <1>1
<1>3. /\ after[0] = own
      /\ \A n \in 1 .. N : after[n] = Handled(after[n - 1], messages[n])
  BY <1>1, OwnAfterSteps
<1>4. /\ Handled(own, messages[k]) = new
      /\ \A o : \A n \in 1 .. N : n # k => Handled(o, messages[n]) = o
  BY <1>1, <1>2 DEF Handled
<1>. DEFINE I == {n \in 0 .. N : after[n] = IF n < k THEN own ELSE new}
<1>5. 0 \in I
  BY <1>2, <1>3
<1>6. ASSUME NEW n \in 0 .. (N - 1), n \in I PROVE n + 1 \in I
  <2>1. n + 1 \in 1 .. N /\ (n + 1) - 1 = n /\ n + 1 \in 0 .. N
    BY <1>2
  <2>2. after[n + 1] = Handled(after[n], messages[n + 1])
    BY <1>3, <2>1
  <2>3. CASE n + 1 = k
    <3>1. after[n] = own
      BY <1>2, <1>6, <2>3
    <3>2. after[n + 1] = new
      BY <1>4, <2>2, <2>3, <3>1
    <3>. QED
      BY <1>2, <2>1, <2>3, <3>2
  <2>4. CASE n + 1 # k
    <3>1. after[n + 1] = after[n]
      BY <1>4, <2>1, <2>2, <2>4
    <3>2. n < k <=> n + 1 < k
      BY <1>2, <2>4
    <3>. QED
      BY <1>6, <2>1, <3>1, <3>2
  <2>. QED
    BY <2>3, <2>4
<1>7. 0 .. N \subseteq I
  <2>. HIDE DEF I
  <2>. QED
    BY <1>2, <1>5, <1>6, UpTo
<1>8. N \in I /\ ~(N < k)
  BY <1>2, <1>7
<1>. QED
  BY <1>1, <1>8 DEF Result

OfAsset(changes, a) == {i \in DOMAIN changes : changes[i].move.asset = a}

DeltaOf(changes, a) ==
  [asset |-> a,
   message |-> [type |-> "delta", platform |-> Platform,
                levels |-> [s \in Sides |-> Updates(changes, a, s)],
                best |-> changes[LastOf(OfAsset(changes, a))].best]]

(* The message for one asset is one of the platform.                       *)
LEMMA DeltaType ==
  ASSUME NEW changes \in Seq(Change), NEW a \in Assets, OfAsset(changes, a) # {}
  PROVE  /\ DeltaOf(changes, a) \in Normalized /\ DeltaOf(changes, a).asset = a
         /\ DeltaOf(changes, a).message.type = "delta"
         /\ DeltaOf(changes, a).message.levels = [s \in Sides |-> Updates(changes, a, s)]
         /\ \A s \in Sides : Updates(changes, a, s) \in Seq(Update)
<1>1. ASSUME NEW s \in Sides PROVE Updates(changes, a, s) \in Seq(Update)
  <2>1. PICK own, N : own = UpdatesUpTo(changes, a, s) /\ N = Len(changes)
    OBVIOUS
  <2>2. N \in 0 .. N
    BY <2>1
  <2>3. \A n \in 0 .. N : own[n] \in Seq(Update)
    BY <2>1, UpdatesUpToBody
  <2>4. own[N] \in Seq(Update)
    BY <2>2, <2>3
  <2>. QED
    BY <2>1, <2>4 DEF Updates
<1>2. changes[LastOf(OfAsset(changes, a))].best \in [Sides -> BestReported]
  <2>1. PICK own : own = OfAsset(changes, a)
    OBVIOUS
  <2>2. own \subseteq DOMAIN changes /\ own \subseteq 0 .. Len(changes) /\ Len(changes) \in Nat
    BY <2>1 DEF OfAsset
  <2>3. LastOf(own) \in own
    BY <2>1, <2>2, LastOfIsMember
  <2>4. changes[LastOf(own)] \in Change
    BY <2>2, <2>3
  <2>. QED
    BY <2>1, <2>4 DEF Change
<1>3. \A s \in Sides : Updates(changes, a, s) \in Seq(Level)
  <2>1. Update \subseteq Level
    BY DEF Update, Level
  <2>2. Seq(Update) \subseteq Seq(Level)
    BY <2>1
  <2>. QED
    BY <1>1, <2>2
<1>4. Platform \in Platforms
  BY IngestionAssumption
<1>5. DeltaOf(changes, a).message \in Own
  BY <1>2, <1>3, <1>4 DEF DeltaOf, Own, Message
<1>6. DeltaOf(changes, a) = [asset |-> a, message |-> DeltaOf(changes, a).message]
  BY DEF DeltaOf
<1>7. DeltaOf(changes, a) \in Normalized
  BY <1>5, <1>6 DEF Normalized
<1>. QED
  BY <1>1, <1>7 DEF DeltaOf

(* That for the traced asset makes the exchange's moves.                   *)
LEMMA DeltaDoes ==
  ASSUME NEW own \in OwnBooks, NEW batch \in Seq(Move), NEW changes \in Seq(Change),
         Len(changes) = Len(batch), \A i \in 1 .. Len(batch) : changes[i].move = batch[i],
         OfAsset(changes, Traced) # {}
  PROVE  Written(own, DeltaOf(changes, Traced).message) = Played(own, batch)[Len(batch)]
<1>1. PICK m, N : m = DeltaOf(changes, Traced).message /\ N = Len(batch)
  OBVIOUS
<1>2. /\ m.type = "delta" /\ m.levels = [s \in Sides |-> Updates(changes, Traced, s)]
      /\ \A s \in Sides : Updates(changes, Traced, s) \in Seq(Update)
  BY <1>1, DeltaType, IngestionAssumption
<1>3. PICK new : new = Played(own, batch)[N]
  OBVIOUS
<1>4. new \in OwnBooks
  <2>1. N \in 0 .. N
    BY <1>1
  <2>2. PICK played : played = Played(own, batch)
    OBVIOUS
  <2>3. \A n \in 0 .. N : played[n] \in OwnBooks
    BY <1>1, <2>2, PlayedSteps
  <2>. QED
    BY <1>3, <2>1, <2>2, <2>3
<1>5. ASSUME NEW s \in Sides, NEW p \in Prices
      PROVE  Written(own, m)[s][p] = new[s][p]
  <2>1. PICK list : list = Updates(changes, Traced, s)
    OBVIOUS
  <2>2. list \in Seq(Update) /\ m.levels[s] = list
    BY <1>2, <2>1
  <2>3. ASSUME NEW i \in DOMAIN list PROVE list[i].price \in Prices /\ list[i].size \in Sizes
    <3>1. list[i] \in Update
      BY <2>2
    <3>. QED
      BY <3>1 DEF Update
  <2>4. Writes(m, s, p) = {i \in DOMAIN list : list[i].price = p}
    BY <1>2, <2>2, <2>3 DEF Writes, Accepts
  <2>5. Written(own, m)[s][p] = WrittenBy(list, p, own[s][p])
    BY <1>2, <2>2, <2>4 DEF Written, WrittenBy
  <2>6. new[s][p] = WrittenBy(list, p, own[s][p])
    BY <1>1, <1>3, <2>1, PlayedIsWritten
  <2>. QED
    BY <2>5, <2>6
<1>6. Written(own, m) = new
  <2>1. Written(own, m) = [s \in Sides |-> [p \in Prices |-> Written(own, m)[s][p]]]
    BY DEF Written
  <2>2. new = [s \in Sides |-> [p \in Prices |-> new[s][p]]]
    BY <1>4 DEF OwnBooks
  <2>. QED
    BY <1>5, <2>1, <2>2
<1>. QED
  BY <1>1, <1>3, <1>6

(* What a price change is made of.                                         *)
LEMMA PriceChangeIs ==
  ASSUME NEW batch \in Seq(Move), NEW book \in OwnBooks, NEW e, e = PriceChange(batch, book)
  PROVE  /\ e.type = "price_change" /\ e.changes \in Seq(Change)
         /\ Len(e.changes) = Len(batch)
         /\ \A i \in 1 .. Len(batch) : e.changes[i].move = batch[i]
<1>1. PICK N : N = Len(batch)
  OBVIOUS
<1>2. N \in Nat /\ DOMAIN batch = 1 .. N /\ \A i \in 1 .. N : batch[i] \in Move
  BY <1>1
<1>3. \A a, s : Quote(a, book, s) \in BestReported
  <2>1. ASSUME NEW a, NEW s PROVE Quote(a, book, s) \in BestReported
    <3>1. {p \in Prices : book[s][p] # 0} \subseteq Prices
      OBVIOUS
    <3>2. BestPrice(s, {p \in Prices : book[s][p] # 0}) \in Prices \union {NoPrice}
      BY <3>1, BestPriceType
    <3>. QED
      BY <3>2 DEF Quote, BestReported
  <2>. QED
    BY <2>1
<1>4. e.type = "price_change"
      /\ e.changes = [i \in 1 .. N |->
           [move |-> batch[i], best |-> [s \in Sides |-> Quote(batch[i].asset, book, s)]]]
  BY <1>2 DEF PriceChange
<1>5. e.changes \in [1 .. N -> Change]
  BY <1>2, <1>3, <1>4 DEF Change
<1>6. e.changes \in Seq(Change) /\ Len(e.changes) = N
  BY <1>2, <1>5, FunctionIsSeq
<1>. QED
  BY <1>1, <1>4, <1>6

(* Some messages do what some moves do, and need no snapshot.              *)
Makes(messages, batch) ==
  /\ messages \in Seq(Normalized)
  /\ ~Resyncs(messages)
  /\ Concerned(messages) <=> \E i \in DOMAIN batch : batch[i].asset = Traced
  /\ \A own \in OwnBooks : Result(own, messages) = Played(own, batch)[Len(batch)]

(* However the HashMap orders the assets, a price change makes its moves.  *)
LEMMA PriceChangeDoes ==
  ASSUME NEW batch \in Seq(Move), NEW book \in OwnBooks, NEW e, e = PriceChange(batch, book)
  PROVE  /\ Transformed(e) # {}
         /\ \A messages \in Transformed(e) : Makes(messages, batch)
<1>1. /\ e.type = "price_change" /\ e.changes \in Seq(Change)
      /\ Len(e.changes) = Len(batch)
      /\ \A i \in 1 .. Len(batch) : e.changes[i].move = batch[i]
  BY PriceChangeIs
<1>2. PICK changes, named : /\ changes = e.changes
                            /\ named = {a \in Assets : OfAsset(changes, a) # {}}
  OBVIOUS
<1>3. Transformed(e) = {[i \in DOMAIN order |-> DeltaOf(changes, order[i])] :
                          order \in SetToSeqs(named)}
  BY <1>1, <1>2 DEF Transformed, TransformPriceChange, DeltaOf, OfAsset
<1>4. IsFiniteSet(named)
  <2>1. named \subseteq Assets /\ IsFiniteSet(Assets)
    BY <1>2, IngestionAssumption
  <2>. QED
    BY <2>1, FS_Subset
<1>5. Transformed(e) # {}
  <2>1. PICK order : order \in SetToSeqs(named)
    BY <1>4, SetToSeqsCover
  <2>. QED
    BY <1>3, <2>1
<1>6. ASSUME NEW messages \in Transformed(e) PROVE Makes(messages, batch)
  <2>1. PICK order \in SetToSeqs(named) :
          messages = [i \in DOMAIN order |-> DeltaOf(changes, order[i])]
    BY <1>3
  <2>2. /\ order \in Seq(named) /\ IsInjective(order)
        /\ \A a \in named : \E i \in DOMAIN order : order[i] = a
    BY <1>4, SetToSeqsCover
  <2>3. PICK N : N = Len(order)
    OBVIOUS
  <2>4. N \in Nat /\ DOMAIN order = 1 .. N /\ \A i \in 1 .. N : order[i] \in named
    BY <2>2, <2>3
  <2>5. ASSUME NEW i \in 1 .. N
        PROVE  /\ messages[i] = DeltaOf(changes, order[i]) /\ messages[i] \in Normalized
               /\ messages[i].asset = order[i] /\ messages[i].message.type = "delta"
    BY <1>1, <1>2, <2>1, <2>4, DeltaType
  <2>6. messages \in [1 .. N -> Normalized]
    BY <2>1, <2>4, <2>5
  <2>7. messages \in Seq(Normalized) /\ Len(messages) = N /\ DOMAIN messages = 1 .. N
    BY <2>4, <2>6, FunctionIsSeq
  <2>8. ~Resyncs(messages)
    BY <2>5, <2>7 DEF Resyncs
  <2>9. Traced \in named <=> \E i \in DOMAIN batch : batch[i].asset = Traced
    <3>1. DOMAIN changes = 1 .. Len(batch) /\ DOMAIN batch = 1 .. Len(batch)
      BY <1>1, <1>2
    <3>. QED
      BY <1>1, <1>2, <3>1, IngestionAssumption DEF OfAsset
  <2>10. Concerned(messages) <=> Traced \in named
    BY <2>2, <2>4, <2>5, <2>7 DEF Concerned
  <2>11. ASSUME NEW own \in OwnBooks
         PROVE  Result(own, messages) = Played(own, batch)[Len(batch)]
    <3>1. CASE Traced \in named
      <4>1. PICK k \in 1 .. N : order[k] = Traced
        BY <2>2, <2>4, <3>1
      <4>2. \A i \in 1 .. N : i # k => messages[i].asset # Traced
        BY <2>2, <2>4, <2>5, <4>1 DEF IsInjective
      <4>3. messages[k] = DeltaOf(changes, Traced) /\ messages[k].asset = Traced
        BY <2>5, <4>1
      <4>4. Result(own, messages) = Written(own, DeltaOf(changes, Traced).message)
        BY <2>7, <4>2, <4>3, ResultOfOnly
      <4>5. OfAsset(changes, Traced) # {}
        BY <1>2, <3>1
      <4>. QED
        BY <1>1, <1>2, <4>4, <4>5, DeltaDoes
    <3>2. CASE Traced \notin named
      BY <2>7, <2>9, <2>10, <3>2, ResultOfOthers, PlayedByOthers
    <3>. QED
      BY <3>1, <3>2
  <2>. QED
    BY <2>7, <2>8, <2>9, <2>10, <2>11 DEF Makes
<1>. QED
  BY <1>5, <1>6

-----------------------------------------------------------------------------
(* Payloads.                                                               *)

Elements ==
  {Broken, Unknown}
  \union {BookMessage(a, book) : a \in Assets, book \in OwnBooks}
  \union {PriceChange(batch, book) : batch \in Seq(Move), book \in OwnBooks}

Payloads == Seq(Elements)

(* Two sequences of messages that nobody can tell apart by the book.       *)
Same(a, b) ==
  /\ a \in Seq(Normalized) /\ b \in Seq(Normalized)
  /\ Concerned(a) <=> Concerned(b)
  /\ Resyncs(a) <=> Resyncs(b)
  /\ \A own \in OwnBooks : Result(own, a) = Result(own, b)

LEMMA SameItself == ASSUME NEW a \in Seq(Normalized) PROVE Same(a, a)
BY DEF Same

LEMMA SameBoth ==
  ASSUME NEW a, NEW b, NEW c, NEW d, Same(a, b), Same(c, d)
  PROVE  Same(a \o c, b \o d)
<1>1. /\ a \in Seq(Normalized) /\ b \in Seq(Normalized)
      /\ c \in Seq(Normalized) /\ d \in Seq(Normalized)
  BY DEF Same
<1>2. PICK ac, bd : ac = a \o c /\ bd = b \o d
  OBVIOUS
<1>3. ac \in Seq(Normalized) /\ bd \in Seq(Normalized)
  BY <1>1, <1>2
<1>4. /\ Concerned(ac) <=> (Concerned(a) \/ Concerned(c))
      /\ Resyncs(ac) <=> (Resyncs(a) \/ Resyncs(c))
      /\ Concerned(bd) <=> (Concerned(b) \/ Concerned(d))
      /\ Resyncs(bd) <=> (Resyncs(b) \/ Resyncs(d))
  BY <1>1, <1>2, KindsOfBoth
<1>5. ASSUME NEW own \in OwnBooks PROVE Result(own, ac) = Result(own, bd)
  <2>1. Result(own, ac) = Result(Result(own, a), c) /\ Result(own, bd) = Result(Result(own, b), d)
    BY <1>1, <1>2, ResultOfBoth
  <2>2. Result(own, a) = Result(own, b) /\ Result(own, a) \in OwnBooks
    BY <1>1, ResultType DEF Same
  <2>. QED
    BY <2>1, <2>2 DEF Same
<1>6. Same(ac, bd)
  BY <1>3, <1>4, <1>5 DEF Same
<1>. QED
  BY <1>2, <1>6

(* Messages that concern other assets make no difference.                  *)
LEMMA SameBesides ==
  ASSUME NEW a \in Seq(Normalized), NEW x \in Seq(Normalized), ~Concerned(x)
  PROVE  Same(a \o x, a) /\ Same(x \o a, a)
<1>1. PICK ax, xa : ax = a \o x /\ xa = x \o a
  OBVIOUS
<1>2. ax \in Seq(Normalized) /\ xa \in Seq(Normalized)
  BY <1>1
<1>3. ~Resyncs(x)
  BY DEF Concerned, Resyncs
<1>4. /\ Concerned(ax) <=> Concerned(a)
      /\ Resyncs(ax) <=> Resyncs(a)
      /\ Concerned(xa) <=> Concerned(a)
      /\ Resyncs(xa) <=> Resyncs(a)
  <2>1. /\ Concerned(ax) <=> (Concerned(a) \/ Concerned(x))
        /\ Resyncs(ax) <=> (Resyncs(a) \/ Resyncs(x))
    BY <1>1, KindsOfBoth
  <2>2. /\ Concerned(xa) <=> (Concerned(x) \/ Concerned(a))
        /\ Resyncs(xa) <=> (Resyncs(x) \/ Resyncs(a))
    BY <1>1, KindsOfBoth
  <2>. QED
    BY <1>3, <2>1, <2>2
<1>5. ASSUME NEW own \in OwnBooks
      PROVE  Result(own, ax) = Result(own, a) /\ Result(own, xa) = Result(own, a)
  <2>1. Result(own, ax) = Result(Result(own, a), x) /\ Result(own, xa) = Result(Result(own, x), a)
    BY <1>1, ResultOfBoth
  <2>2. Result(own, a) \in OwnBooks
    BY ResultType
  <2>3. Result(Result(own, a), x) = Result(own, a) /\ Result(own, x) = own
    BY <2>2, ResultOfOthers
  <2>. QED
    BY <2>1, <2>3
<1>6. Same(ax, a) /\ Same(xa, a)
  BY <1>2, <1>4, <1>5 DEF Same
<1>. QED
  BY <1>1, <1>6

LEMMA SameChain ==
  ASSUME NEW a, NEW b, NEW c, Same(a, b), Same(b, c)
  PROVE  Same(a, c)
BY DEF Same

(* What the adapter makes of a book.                                       *)
LEMMA BookDoes ==
  ASSUME NEW a \in Assets, NEW book \in OwnBooks, NEW e, e = BookMessage(a, book)
  PROVE  \E one \in Seq(Normalized) :
           /\ Transformed(e) = {one}
           /\ Concerned(one) <=> a = Traced
           /\ Resyncs(one) <=> a = Traced
           /\ a = Traced => \A own \in OwnBooks : Result(own, one) = book
<1>1. PICK x, one : x = TransformBook(e) /\ one = <<x>>
  OBVIOUS
<1>2. /\ x \in Normalized /\ x.asset = a /\ x.message.type = "snapshot"
      /\ \A own \in OwnBooks : Written(own, x.message) = book
  BY <1>1, TransformBookDoes
<1>3. one \in Seq(Normalized) /\ DOMAIN one = {1} /\ one[1] = x
  BY <1>1, <1>2
<1>4. Transformed(e) = {one}
  <2>1. e.type = "book"
    BY DEF BookMessage
  <2>. QED
    BY <1>1, <2>1 DEF Transformed
<1>5. (Concerned(one) <=> a = Traced) /\ (Resyncs(one) <=> a = Traced)
  BY <1>2, <1>3 DEF Concerned, Resyncs
<1>6. ASSUME a = Traced, NEW own \in OwnBooks PROVE Result(own, one) = book
  <2>1. Result(own, one) = Handled(own, x)
    BY <1>1, <1>2, ResultOfOne
  <2>. QED
    BY <1>2, <1>6, <2>1 DEF Handled
<1>. QED
  BY <1>3, <1>4, <1>5, <1>6

LEMMA NoMessages ==
  ASSUME NEW e, e = Unknown \/ e = Broken
  PROVE  Transformed(e) = {<<>>}
<1>1. e.type # "book" /\ e.type # "price_change"
  BY DEF Unknown, Broken
<1>. QED
  BY <1>1 DEF Transformed

(* An element has some transformation, and it does not matter which.       *)
LEMMA TransformedSame ==
  ASSUME NEW e \in Elements
  PROVE  /\ Transformed(e) # {}
         /\ \A a, b \in Transformed(e) : Same(a, b)
<1>1. CASE e = Broken \/ e = Unknown
  <2>1. <<>> \in Seq(Normalized)
    OBVIOUS
  <2>2. Same(<<>>, <<>>)
    BY <2>1, SameItself
  <2>. QED
    BY <1>1, <2>2, NoMessages
<1>2. CASE e \in {BookMessage(a, book) : a \in Assets, book \in OwnBooks}
  <2>1. PICK a \in Assets, book \in OwnBooks : e = BookMessage(a, book)
    BY <1>2
  <2>2. PICK one \in Seq(Normalized) : Transformed(e) = {one}
    BY <2>1, BookDoes
  <2>. QED
    BY <2>2, SameItself
<1>3. CASE e \in {PriceChange(batch, book) : batch \in Seq(Move), book \in OwnBooks}
  <2>1. PICK batch \in Seq(Move), book \in OwnBooks : e = PriceChange(batch, book)
    BY <1>3
  <2>2. Transformed(e) # {} /\ \A messages \in Transformed(e) : Makes(messages, batch)
    BY <2>1, PriceChangeDoes
  <2>3. ASSUME NEW a \in Transformed(e), NEW b \in Transformed(e) PROVE Same(a, b)
    <3>1. Makes(a, batch) /\ Makes(b, batch)
      BY <2>2
    <3>. QED
      BY <3>1 DEF Makes, Same
  <2>. QED
    BY <2>2, <2>3
<1>. QED
  BY <1>1, <1>2, <1>3 DEF Elements

(* The ways in which a payload's elements may be transformed.              *)
PartsOf(payload) ==
  {f \in [DOMAIN payload -> UNION {Transformed(payload[i]) : i \in DOMAIN payload}] :
     \A i \in DOMAIN payload : f[i] \in Transformed(payload[i])}

LEMMA PartsType ==
  ASSUME NEW payload \in Payloads
  PROVE  /\ PartsOf(payload) # {}
         /\ \A parts \in PartsOf(payload) :
              /\ parts \in Seq(Seq(Normalized)) /\ Len(parts) = Len(payload)
              /\ \A i \in DOMAIN payload : parts[i] \in Transformed(payload[i])
<1>1. PICK N : N = Len(payload)
  OBVIOUS
<1>2. N \in Nat /\ DOMAIN payload = 1 .. N /\ \A i \in 1 .. N : payload[i] \in Elements
  BY <1>1 DEF Payloads
<1>3. \A i \in 1 .. N : Transformed(payload[i]) # {} /\ Transformed(payload[i]) \subseteq Seq(Normalized)
  BY <1>2, TransformedSame DEF Same
<1>4. PartsOf(payload) # {}
  <2>. DEFINE f == [i \in 1 .. N |-> CHOOSE x \in Transformed(payload[i]) : TRUE]
  <2>1. \A i \in 1 .. N : f[i] \in Transformed(payload[i])
    BY <1>3
  <2>2. f = [i \in 1 .. N |-> f[i]]
    OBVIOUS
  <2>. HIDE DEF f
  <2>3. f \in [1 .. N -> UNION {Transformed(payload[i]) : i \in 1 .. N}]
    BY <2>1, <2>2
  <2>4. f \in PartsOf(payload)
    BY <1>2, <2>1, <2>3 DEF PartsOf
  <2>. QED
    BY <2>4
<1>5. ASSUME NEW parts \in PartsOf(payload)
      PROVE  /\ parts \in Seq(Seq(Normalized)) /\ Len(parts) = N
             /\ \A i \in 1 .. N : parts[i] \in Transformed(payload[i])
  <2>1. /\ DOMAIN parts = 1 .. N /\ parts = [i \in 1 .. N |-> parts[i]]
        /\ \A i \in 1 .. N : parts[i] \in Transformed(payload[i])
    BY <1>2 DEF PartsOf
  <2>2. parts \in [1 .. N -> Seq(Normalized)]
    BY <1>3, <2>1
  <2>. QED
    BY <1>2, <2>1, <2>2, FunctionIsSeq
<1>. QED
  BY <1>1, <1>2, <1>4, <1>5

(* What is the same part by part is the same.                              *)
LEMMA FlattenSame ==
  ASSUME NEW a \in Seq(Seq(Normalized)), NEW b \in Seq(Seq(Normalized)),
         Len(a) = Len(b), \A i \in 1 .. Len(a) : Same(a[i], b[i])
  PROVE  Same(FlattenSeq(a), FlattenSeq(b))
<1>1. PICK N : N = Len(a)
  OBVIOUS
<1>2. N \in Nat /\ N = Len(b)
  BY <1>1
<1>3. PICK f \in [0 .. N -> Seq(Normalized)] :
         /\ f[0] = <<>> /\ \A n \in 1 .. N : f[n] = f[n - 1] \o a[n]
         /\ FlattenSeq(a) = f[N]
  BY <1>1, FlattenIs
<1>4. PICK g \in [0 .. N -> Seq(Normalized)] :
         /\ g[0] = <<>> /\ \A n \in 1 .. N : g[n] = g[n - 1] \o b[n]
         /\ FlattenSeq(b) = g[N]
  BY <1>2, FlattenIs
<1>. DEFINE I == {n \in 0 .. N : Same(f[n], g[n])}
<1>5. 0 \in I
  <2>1. <<>> \in Seq(Normalized)
    OBVIOUS
  <2>2. Same(<<>>, <<>>)
    BY <2>1, SameItself
  <2>. QED
    BY <1>2, <1>3, <1>4, <2>2
<1>6. ASSUME NEW n \in 0 .. (N - 1), n \in I PROVE n + 1 \in I
  <2>1. n + 1 \in 1 .. N /\ (n + 1) - 1 = n /\ n + 1 \in 0 .. N
    BY <1>2
  <2>2. f[n + 1] = f[n] \o a[n + 1] /\ g[n + 1] = g[n] \o b[n + 1]
    BY <1>3, <1>4, <2>1
  <2>3. Same(f[n], g[n]) /\ Same(a[n + 1], b[n + 1])
    BY <1>1, <1>6, <2>1
  <2>. QED
    BY <2>1, <2>2, <2>3, SameBoth
<1>7. 0 .. N \subseteq I
  <2>. HIDE DEF I
  <2>. QED
    BY <1>2, <1>5, <1>6, UpTo
<1>8. N \in I
  BY <1>2, <1>7
<1>. QED
  BY <1>3, <1>4, <1>8

(* Only one part counts if the others are of other assets.                 *)
LEMMA FlattenOnly ==
  ASSUME NEW a \in Seq(Seq(Normalized)), NEW k \in 1 .. Len(a),
         \A i \in 1 .. Len(a) : i # k => ~Concerned(a[i])
  PROVE  Same(FlattenSeq(a), a[k])
<1>1. PICK N : N = Len(a)
  OBVIOUS
<1>2. N \in Nat /\ k \in 1 .. N /\ \A i \in 1 .. N : a[i] \in Seq(Normalized)
  BY <1>1
<1>3. PICK f \in [0 .. N -> Seq(Normalized)] :
         /\ f[0] = <<>> /\ \A n \in 1 .. N : f[n] = f[n - 1] \o a[n]
         /\ FlattenSeq(a) = f[N]
  BY <1>1, FlattenIs
<1>. DEFINE I == {n \in 0 .. N : IF n < k THEN ~Concerned(f[n]) ELSE Same(f[n], a[k])}
<1>4. 0 \in I
  BY <1>2, <1>3, KindsOfNothing
<1>5. ASSUME NEW n \in 0 .. (N - 1), n \in I PROVE n + 1 \in I
  <2>1. n + 1 \in 1 .. N /\ (n + 1) - 1 = n /\ n + 1 \in 0 .. N /\ n \in 0 .. N
    BY <1>2
  <2>2. f[n + 1] = f[n] \o a[n + 1]
    BY <1>3, <2>1
  <2>3. f[n] \in Seq(Normalized) /\ a[n + 1] \in Seq(Normalized)
    BY <1>2, <2>1
  <2>4. CASE n + 1 < k
    <3>1. ~Concerned(f[n]) /\ ~Concerned(a[n + 1])
      BY <1>1, <1>2, <1>5, <2>1, <2>4
    <3>2. ~Concerned(f[n + 1])
      BY <2>2, <2>3, <3>1, KindsOfBoth
    <3>. QED
      BY <2>1, <2>4, <3>2
  <2>5. CASE n + 1 = k
    <3>1. ~Concerned(f[n])
      BY <1>2, <1>5, <2>5
    <3>2. Same(f[n + 1], a[k])
      BY <2>2, <2>3, <2>5, <3>1, SameBesides
    <3>. QED
      BY <1>2, <2>1, <2>5, <3>2
  <2>6. CASE n + 1 > k
    <3>1. Same(f[n], a[k]) /\ ~Concerned(a[n + 1])
      BY <1>1, <1>2, <1>5, <2>1, <2>6
    <3>2. Same(f[n + 1], f[n])
      BY <2>2, <2>3, <3>1, SameBesides
    <3>3. Same(f[n + 1], a[k])
      BY <3>1, <3>2, SameChain
    <3>. QED
      BY <1>2, <2>1, <2>6, <3>3
  <2>. QED
    BY <1>2, <2>4, <2>5, <2>6
<1>6. 0 .. N \subseteq I
  <2>. HIDE DEF I
  <2>. QED
    BY <1>2, <1>4, <1>5, UpTo
<1>7. N \in I /\ ~(N < k)
  BY <1>2, <1>6
<1>. QED
  BY <1>3, <1>7

(* It does not matter in which way a payload is transformed.               *)
LEMMA ParsedSame ==
  ASSUME NEW payload \in Payloads
  PROVE  /\ ParseAndTransform(payload) # {}
         /\ \A a, b \in ParseAndTransform(payload) : Same(a, b)
<1>1. CASE IsBroken(payload)
  <2>1. ParseAndTransform(payload) = {<<>>}
    BY <1>1 DEF ParseAndTransform
  <2>2. Same(<<>>, <<>>)
    <3>1. <<>> \in Seq(Normalized)
      OBVIOUS
    <3>. QED
      BY <3>1, SameItself
  <2>. QED
    BY <2>1, <2>2
<1>2. CASE ~IsBroken(payload)
  <2>1. ParseAndTransform(payload) = {FlattenSeq(parts) : parts \in PartsOf(payload)}
    BY <1>2 DEF ParseAndTransform, PartsOf
  <2>2. ASSUME NEW f \in PartsOf(payload), NEW g \in PartsOf(payload)
        PROVE  Same(FlattenSeq(f), FlattenSeq(g))
    <3>1. /\ f \in Seq(Seq(Normalized)) /\ g \in Seq(Seq(Normalized))
          /\ Len(f) = Len(payload) /\ Len(g) = Len(payload)
          /\ \A i \in DOMAIN payload : f[i] \in Transformed(payload[i])
          /\ \A i \in DOMAIN payload : g[i] \in Transformed(payload[i])
      BY PartsType
    <3>2. ASSUME NEW i \in 1 .. Len(f) PROVE Same(f[i], g[i])
      <4>1. i \in DOMAIN payload /\ payload[i] \in Elements
        BY <3>1 DEF Payloads
      <4>. QED
        BY <3>1, <4>1, TransformedSame
    <3>. QED
      BY <3>1, <3>2, FlattenSame
  <2>. QED
    BY <2>1, <2>2, PartsType
<1>. QED
  BY <1>1, <1>2

-----------------------------------------------------------------------------
(* The connection.                                                         *)

Chosen(payload) == CHOOSE messages \in ParseAndTransform(payload) : TRUE

LEMMA ChosenIs ==
  ASSUME NEW payload \in Payloads
  PROVE  /\ Chosen(payload) \in ParseAndTransform(payload)
         /\ Chosen(payload) \in Seq(Normalized)
<1>1. Chosen(payload) \in ParseAndTransform(payload)
  BY ParsedSame DEF Chosen
<1>2. Same(Chosen(payload), Chosen(payload))
  BY <1>1, ParsedSame
<1>. QED
  BY <1>1, <1>2 DEF Same

LEMMA ChosenParts ==
  ASSUME NEW w \in Seq(Payloads), NEW parts, parts = [i \in DOMAIN w |-> Chosen(w[i])]
  PROVE  /\ parts \in Seq(Seq(Normalized)) /\ Len(parts) = Len(w)
         /\ \A i \in 1 .. Len(w) : parts[i] = Chosen(w[i])
         /\ Coming(w) = FlattenSeq(parts)
<1>1. Len(w) \in Nat /\ DOMAIN w = 1 .. Len(w) /\ \A i \in 1 .. Len(w) : w[i] \in Payloads
  OBVIOUS
<1>2. parts \in [1 .. Len(w) -> Seq(Normalized)]
  BY <1>1, ChosenIs
<1>3. parts \in Seq(Seq(Normalized)) /\ Len(parts) = Len(w)
  BY <1>1, <1>2, FunctionIsSeq
<1>4. Coming(w) = FlattenSeq(parts)
  BY DEF Coming, Chosen
<1>. QED
  BY <1>1, <1>3, <1>4

LEMMA ComingType == ASSUME NEW w \in Seq(Payloads) PROVE Coming(w) \in Seq(Normalized)
BY ChosenParts, FlattenType

LEMMA ComingNothing == Coming(<<>>) = <<>>
<1>1. <<>> \in Seq(Payloads)
  OBVIOUS
<1>2. PICK parts : parts = [i \in DOMAIN <<>> |-> Chosen(<<>>[i])]
  OBVIOUS
<1>3. parts \in Seq(Seq(Normalized)) /\ Len(parts) = Len(<<>>) /\ Coming(<<>>) = FlattenSeq(parts)
  BY <1>1, <1>2, ChosenParts
<1>4. parts = <<>>
  BY <1>3, EmptySeq
<1>. QED
  BY <1>3, <1>4, FlattenNothing

(* A payload that is sent comes last.                                      *)
LEMMA ComingMore ==
  ASSUME NEW w \in Seq(Payloads), NEW payload \in Payloads
  PROVE  Coming(Append(w, payload)) = Coming(w) \o Chosen(payload)
<1>1. PICK more, a, b : /\ more = Append(w, payload)
                        /\ a = [i \in DOMAIN w |-> Chosen(w[i])]
                        /\ b = [i \in DOMAIN more |-> Chosen(more[i])]
  OBVIOUS
<1>2. /\ more \in Seq(Payloads) /\ Len(more) = Len(w) + 1 /\ Len(w) \in Nat
      /\ more[Len(w) + 1] = payload /\ \A i \in 1 .. Len(w) : more[i] = w[i]
  BY <1>1
<1>3. /\ a \in Seq(Seq(Normalized)) /\ Len(a) = Len(w) /\ Coming(w) = FlattenSeq(a)
      /\ \A i \in 1 .. Len(w) : a[i] = Chosen(w[i])
  BY <1>1, ChosenParts
<1>4. /\ b \in Seq(Seq(Normalized)) /\ Len(b) = Len(more) /\ Coming(more) = FlattenSeq(b)
      /\ \A i \in 1 .. Len(more) : b[i] = Chosen(more[i])
  BY <1>1, <1>2, ChosenParts
<1>5. PICK last : last = Chosen(payload)
  OBVIOUS
<1>6. last \in Seq(Normalized)
  BY <1>5, ChosenIs
<1>7. PICK c : c = Append(a, last)
  OBVIOUS
<1>8. /\ c \in Seq(Seq(Normalized)) /\ Len(c) = Len(b)
      /\ \A i \in 1 .. Len(c) : c[i] = b[i]
  BY <1>2, <1>3, <1>4, <1>5, <1>6, <1>7
<1>9. c = b
  BY <1>4, <1>8, SeqEqual
<1>. QED
  <2>1. FlattenSeq(Append(a, last)) = FlattenSeq(a) \o last
    BY <1>3, <1>6, FlattenAppend
  <2>. QED
    BY ONLY <1>1, <1>3, <1>4, <1>5, <1>7, <1>9, <2>1

(* The payload that is read next comes first.                              *)
LEMMA ComingHead ==
  ASSUME NEW w \in Seq(Payloads), w # <<>>
  PROVE  Coming(w) = Chosen(Head(w)) \o Coming(Tail(w))
<1>1. PICK rest, a, b : /\ rest = Tail(w)
                        /\ a = [i \in DOMAIN w |-> Chosen(w[i])]
                        /\ b = [i \in DOMAIN rest |-> Chosen(rest[i])]
  OBVIOUS
<1>2. /\ rest \in Seq(Payloads) /\ Len(w) = Len(rest) + 1 /\ Len(rest) \in Nat
      /\ Head(w) = w[1] /\ \A i \in 1 .. Len(rest) : rest[i] = w[i + 1]
  BY <1>1
<1>3. /\ a \in Seq(Seq(Normalized)) /\ Len(a) = Len(w) /\ Coming(w) = FlattenSeq(a)
      /\ \A i \in 1 .. Len(w) : a[i] = Chosen(w[i])
  BY <1>1, ChosenParts
<1>4. /\ b \in Seq(Seq(Normalized)) /\ Len(b) = Len(rest) /\ Coming(rest) = FlattenSeq(b)
      /\ \A i \in 1 .. Len(rest) : b[i] = Chosen(rest[i])
  BY <1>1, <1>2, ChosenParts
<1>5. PICK c : c = Tail(a)
  OBVIOUS
<1>6. a # <<>> /\ Head(a) = Chosen(Head(w))
  BY <1>2, <1>3
<1>7. /\ c \in Seq(Seq(Normalized)) /\ Len(c) = Len(b)
      /\ \A i \in 1 .. Len(c) : c[i] = b[i]
  BY <1>2, <1>3, <1>4, <1>5, <1>6
<1>8. c = b
  BY <1>4, <1>7, SeqEqual
<1>. QED
  <2>1. FlattenSeq(a) = Head(a) \o FlattenSeq(Tail(a))
    BY <1>3, <1>6, FlattenHead
  <2>. QED
    BY ONLY <1>1, <1>3, <1>4, <1>5, <1>6, <1>8, <2>1

-----------------------------------------------------------------------------
(* What the exchange sends.                                                *)

LEMMA CompanyIs ==
  ASSUME NEW company \in Company
  PROVE  /\ company \in Payloads
         /\ \A i \in DOMAIN company : company[i] = Unknown \/ company[i] = Broken
<1>. PICK unknown, broken : unknown = Unknown /\ broken = Broken
  OBVIOUS
<1>1. unknown \in Elements /\ broken \in Elements
  BY DEF Elements
<1>2. company = <<>> \/ company = <<unknown>> \/ company = <<broken>>
  BY DEF Company
<1>3. /\ company \in Seq(Elements)
      /\ \A i \in DOMAIN company : company[i] = unknown \/ company[i] = broken
  <2>1. <<>> \in Seq(Elements) /\ DOMAIN <<>> = {}
    OBVIOUS
  <2>2. ASSUME NEW x \in Elements
        PROVE  <<x>> \in Seq(Elements) /\ \A i \in DOMAIN <<x>> : <<x>>[i] = x
    OBVIOUS
  <2>3. CASE company = <<>>
    BY ONLY <2>1, <2>3
  <2>4. CASE company = <<unknown>>
    BY ONLY <1>1, <2>2, <2>4
  <2>5. CASE company = <<broken>>
    BY ONLY <1>1, <2>2, <2>5
  <2>. QED
    BY <1>2, <2>3, <2>4, <2>5
<1>. QED
  BY <1>3 DEF Payloads

(* A payload of which one element is broken comes to nothing.              *)
LEMMA BrokenIs ==
  ASSUME NEW payload \in Payloads, IsBroken(payload)
  PROVE  Chosen(payload) = <<>>
<1>1. ParseAndTransform(payload) = {<<>>}
  BY DEF ParseAndTransform
<1>. QED
  BY <1>1, ChosenIs

(* Of a payload with one element of the traced asset, that one counts.     *)
LEMMA PayloadOnly ==
  ASSUME NEW payload \in Payloads, ~IsBroken(payload), NEW k \in DOMAIN payload,
         \A i \in DOMAIN payload : i # k =>
            \A messages \in Transformed(payload[i]) : ~Concerned(messages)
  PROVE  \E one \in Transformed(payload[k]) : Same(Chosen(payload), one)
<1>1. ParseAndTransform(payload) = {FlattenSeq(parts) : parts \in PartsOf(payload)}
  BY DEF ParseAndTransform, PartsOf
<1>2. PICK parts \in PartsOf(payload) : Chosen(payload) = FlattenSeq(parts)
  BY <1>1, ChosenIs
<1>3. /\ parts \in Seq(Seq(Normalized)) /\ Len(parts) = Len(payload)
      /\ \A i \in DOMAIN payload : parts[i] \in Transformed(payload[i])
  BY PartsType
<1>4. DOMAIN payload = 1 .. Len(payload)
  BY DEF Payloads
<1>5. \A i \in 1 .. Len(parts) : i # k => ~Concerned(parts[i])
  BY <1>3, <1>4
<1>6. Same(FlattenSeq(parts), parts[k])
  BY <1>3, <1>4, <1>5, FlattenOnly
<1>. QED
  BY <1>2, <1>3, <1>6

(* A price change in any company makes its moves, unless it is broken.     *)
LEMMA PriceChangePayload ==
  ASSUME NEW batch \in Seq(Move), NEW book \in OwnBooks, NEW company \in Company,
         NEW payload, payload = <<PriceChange(batch, book)>> \o company
  PROVE  /\ payload \in Payloads
         /\ ~IsBroken(payload) => Makes(Chosen(payload), batch)
<1>1. PICK e : e = PriceChange(batch, book)
  OBVIOUS
<1>2. e \in Elements
  BY <1>1 DEF Elements
<1>3. /\ company \in Seq(Elements)
      /\ \A i \in DOMAIN company : company[i] = Unknown \/ company[i] = Broken
  BY CompanyIs DEF Payloads
<1>4. /\ payload \in Seq(Elements) /\ Len(payload) = 1 + Len(company) /\ payload[1] = e
      /\ \A i \in DOMAIN payload : i # 1 => i - 1 \in DOMAIN company /\ payload[i] = company[i - 1]
  <2>1. <<e>> \in Seq(Elements) /\ Len(<<e>>) = 1 /\ <<e>>[1] = e
    BY <1>2
  <2>2. payload = <<e>> \o company /\ Len(company) \in Nat
    BY <1>1, <1>3
  <2>. QED
    BY <1>3, <2>1, <2>2
<1>5. 1 \in DOMAIN payload
  BY <1>3, <1>4
<1>6. \A i \in DOMAIN payload : i # 1 =>
        \A messages \in Transformed(payload[i]) : ~Concerned(messages)
  BY <1>3, <1>4, NoMessages, KindsOfNothing
<1>7. ASSUME ~IsBroken(payload) PROVE Makes(Chosen(payload), batch)
  <2>1. payload \in Payloads
    BY <1>4 DEF Payloads
  <2>2. PICK one \in Transformed(e) : Same(Chosen(payload), one)
    BY <1>4, <1>5, <1>6, <1>7, <2>1, PayloadOnly
  <2>3. Makes(one, batch)
    BY <1>1, PriceChangeDoes
  <2>. QED
    BY <2>2, <2>3 DEF Makes, Same
<1>. QED
  BY <1>4, <1>7 DEF Payloads

(* All books in any order and company leave the exchange's, unless one     *)
(* element is broken.                                                      *)
LEMMA BooksPayload ==
  ASSUME exchangeBook \in OwnBooks, NEW books \in AllBooks, NEW company \in Company,
         NEW payload, payload = books \o company
  PROVE  /\ payload \in Payloads
         /\ ~IsBroken(payload) =>
              /\ Resyncs(Chosen(payload))
              /\ \A own \in OwnBooks : Result(own, Chosen(payload)) = exchangeBook
<1>1. NoSizes \in OwnBooks
  BY OrderbookAssumption DEF NoSizes, OwnBooks
<1>. DEFINE Sent(a) == IF a = Traced THEN exchangeBook ELSE NoSizes
<1>2. PICK order \in SetToSeqs(Assets) :
         books = [i \in DOMAIN order |-> BookMessage(order[i], Sent(order[i]))]
  BY DEF AllBooks
<1>3. \A a : Sent(a) \in OwnBooks
  BY <1>1
<1>4. Sent(Traced) = exchangeBook
  OBVIOUS
<1>. HIDE DEF Sent
<1>5. /\ order \in Seq(Assets) /\ IsInjective(order)
      /\ \A a \in Assets : \E i \in DOMAIN order : order[i] = a
  BY SetToSeqsCover, IngestionAssumption
<1>6. PICK N : N = Len(order)
  OBVIOUS
<1>7. N \in Nat /\ DOMAIN order = 1 .. N /\ \A i \in 1 .. N : order[i] \in Assets
  BY <1>5, <1>6
<1>8. /\ books \in [1 .. N -> Elements]
      /\ \A i \in 1 .. N : books[i] = BookMessage(order[i], Sent(order[i]))
  BY <1>2, <1>3, <1>7 DEF Elements
<1>9. books \in Seq(Elements) /\ Len(books) = N
  BY <1>7, <1>8, FunctionIsSeq
<1>10. /\ company \in Seq(Elements)
       /\ \A i \in DOMAIN company : company[i] = Unknown \/ company[i] = Broken
  BY CompanyIs DEF Payloads
<1>11. /\ payload \in Seq(Elements) /\ DOMAIN payload = 1 .. Len(payload)
       /\ \A i \in 1 .. N : i \in DOMAIN payload /\ payload[i] = books[i]
       /\ \A i \in DOMAIN payload : i \notin 1 .. N =>
             i - N \in DOMAIN company /\ payload[i] = company[i - N]
  BY <1>7, <1>9, <1>10
<1>12. PICK k \in 1 .. N : order[k] = Traced
  BY <1>5, <1>7, IngestionAssumption
<1>13. ASSUME NEW i \in DOMAIN payload, i # k, NEW messages \in Transformed(payload[i])
       PROVE  ~Concerned(messages)
  <2>1. CASE i \in 1 .. N
    <3>1. order[i] # Traced /\ order[i] \in Assets
      BY <1>5, <1>7, <1>12, <1>13, <2>1 DEF IsInjective
    <3>2. payload[i] = BookMessage(order[i], Sent(order[i])) /\ Sent(order[i]) \in OwnBooks
      BY <1>3, <1>8, <1>11, <2>1
    <3>3. PICK one \in Seq(Normalized) : Transformed(payload[i]) = {one} /\ ~Concerned(one)
      BY <3>1, <3>2, BookDoes
    <3>. QED
      BY <1>13, <3>3
  <2>2. CASE i \notin 1 .. N
    <3>1. payload[i] = Unknown \/ payload[i] = Broken
      BY <1>10, <1>11, <2>2
    <3>. QED
      BY <1>13, <3>1, NoMessages, KindsOfNothing
  <2>. QED
    BY <2>1, <2>2
<1>14. ASSUME ~IsBroken(payload)
       PROVE  /\ Resyncs(Chosen(payload))
              /\ \A own \in OwnBooks : Result(own, Chosen(payload)) = exchangeBook
  <2>1. payload \in Payloads /\ k \in DOMAIN payload
    BY <1>11, <1>12 DEF Payloads
  <2>2. PICK only \in Transformed(payload[k]) : Same(Chosen(payload), only)
    BY <1>13, <1>14, <2>1, PayloadOnly
  <2>3. payload[k] = BookMessage(Traced, exchangeBook) /\ Traced \in Assets
    BY <1>4, <1>8, <1>11, <1>12, IngestionAssumption
  <2>4. PICK one \in Seq(Normalized) :
           /\ Transformed(payload[k]) = {one} /\ Resyncs(one)
           /\ \A own \in OwnBooks : Result(own, one) = exchangeBook
    BY <2>3, BookDoes
  <2>5. only = one
    BY <2>4
  <2>. QED
    BY <2>2, <2>4, <2>5 DEF Same
<1>. QED
  BY <1>11, <1>14 DEF Payloads

-----------------------------------------------------------------------------
(* The invariant.                                                          *)

(* What is under way turns the platform's part of the book into the        *)
(* exchange's book, through NATS, the worker and the connection.           *)
OnTheWay ==
  Result(Result(Result(OwnOf(sizes), pending), outbox), Coming(wire)) = exchangeBook

IngestTypes ==
  /\ exchangeBook \in OwnBooks
  /\ up \in BOOLEAN /\ gap \in BOOLEAN
  /\ wire \in Seq(Payloads) /\ Len(wire) <= MaxWire
  /\ outbox \in Seq(Normalized)
  /\ pending \in Seq(Normalized) /\ Len(pending) <= MaxPending
  /\ ~up => wire = <<>> /\ outbox = <<>>

IngestInv == IInv /\ IngestTypes /\ (~gap => OnTheWay)

LEMMA BookUnchanged == ASSUME IInv, UNCHANGED bookVars PROVE IInv'
BY DEF bookVars, IInv, TypeOK, KeysAreLiveLevels, SystemBboIsBest, ContributorsAreKnown,
       Live, IsEmpty

(* What the invariant says of the values under way.                        *)
LEMMA UnderWay ==
  ASSUME IngestInv
  PROVE  /\ IInv /\ IngestTypes
         /\ sizes \in Books /\ OwnOf(sizes) \in OwnBooks
         /\ Coming(wire) \in Seq(Normalized)
         /\ Result(OwnOf(sizes), pending) \in OwnBooks
         /\ Result(Result(OwnOf(sizes), pending), outbox) \in OwnBooks
<1>1. sizes \in Books
  BY DEF IngestInv, IInv, TypeOK, Books
<1>2. OwnOf(sizes) \in OwnBooks
  BY <1>1, OwnOfType
<1>3. pending \in Seq(Normalized) /\ outbox \in Seq(Normalized) /\ wire \in Seq(Payloads)
  BY DEF IngestInv, IngestTypes
<1>. QED
  BY <1>1, <1>2, <1>3, ResultType, ComingType DEF IngestInv

LEMMA IngestInitHolds == ASSUME IngestInit PROVE IngestInv
<1>1. IInv
  BY InitInvariant DEF IngestInit
<1>2. NoSizes \in OwnBooks
  BY OrderbookAssumption DEF NoSizes, OwnBooks
<1>3. IngestTypes
  <2>1. /\ <<>> \in Seq(Payloads) /\ <<>> \in Seq(Normalized)
        /\ Len(<<>>) <= MaxWire /\ Len(<<>>) <= MaxPending
    BY IngestionAssumption
  <2>. QED
    BY <1>2, <2>1 DEF IngestInit, IngestTypes
<1>4. OwnOf(sizes) = NoSizes
  BY IngestionAssumption DEF IngestInit, Init, EmptySizes, OwnOf, NoSizes
<1>5. OnTheWay
  BY <1>2, <1>4, ResultOfNothing, ComingNothing DEF OnTheWay, IngestInit
<1>. QED
  BY <1>1, <1>3, <1>5 DEF IngestInv

(* A payload is put behind the others on the connection.                   *)
LEMMA SentIs ==
  ASSUME IngestInv, NEW payload \in Payloads, wire' = Append(wire, payload),
         UNCHANGED <<bookVars, outbox, pending>>, Len(wire) < MaxWire
  PROVE  /\ wire' \in Seq(Payloads) /\ Len(wire') <= MaxWire
         /\ Result(Result(Result(OwnOf(sizes), pending), outbox), Coming(wire))' =
              Result(Result(Result(Result(OwnOf(sizes), pending), outbox), Coming(wire)),
                     Chosen(payload))
<1>1. wire \in Seq(Payloads) /\ MaxWire \in Nat
  BY IngestionAssumption DEF IngestInv, IngestTypes
<1>2. wire' \in Seq(Payloads) /\ Len(wire') <= MaxWire
  BY <1>1
<1>3. PICK own, rest, last : /\ own = Result(Result(OwnOf(sizes), pending), outbox)
                             /\ rest = Coming(wire) /\ last = Chosen(payload)
  OBVIOUS
<1>4. own \in OwnBooks /\ rest \in Seq(Normalized) /\ last \in Seq(Normalized)
  BY <1>3, UnderWay, ChosenIs
<1>5. Coming(wire') = rest \o last
  BY <1>1, <1>3, ComingMore
<1>6. Result(own, rest \o last) = Result(Result(own, rest), last)
  BY <1>4, ResultOfBoth
<1>7. Result(Result(OwnOf(sizes'), pending'), outbox') = own
  BY <1>3 DEF bookVars
<1>. QED
  BY <1>2, <1>3, <1>5, <1>6, <1>7

LEMMA TradeHolds ==
  ASSUME IngestInv, NEW batch \in Batches, Trade(batch)
  PROVE  IngestInv'
<1>1. batch \in Seq(Move)
  BY IngestionAssumption
<1>2. exchangeBook \in OwnBooks /\ IInv /\ IngestTypes
  BY DEF IngestInv, IngestTypes
<1>3. exchangeBook' = Played(exchangeBook, batch)[Len(batch)]
      /\ UNCHANGED <<bookVars, up, outbox, pending>>
  BY DEF Trade
<1>4. exchangeBook' \in OwnBooks
  <2>1. PICK played, N : played = Played(exchangeBook, batch) /\ N = Len(batch)
    OBVIOUS
  <2>2. N \in 0 .. N /\ \A n \in 0 .. N : played[n] \in OwnBooks
    BY <1>1, <1>2, <2>1, PlayedSteps
  <2>. QED
    BY <1>3, <2>1, <2>2
<1>5. IInv'
  BY <1>2, <1>3, BookUnchanged
<1>6. ASSUME NEW company \in Company, NEW payload,
             payload = <<PriceChange(batch, exchangeBook')>> \o company,
             up, Len(wire) < MaxWire, wire' = Append(wire, payload),
             gap' = (gap \/ (IsBroken(payload) /\ \E i \in DOMAIN batch : batch[i].asset = Traced))
      PROVE  IngestInv'
  <2>1. /\ payload \in Payloads
        /\ ~IsBroken(payload) => Makes(Chosen(payload), batch)
    BY <1>1, <1>4, <1>6, PriceChangePayload
  <2>2. PICK now : now = Result(Result(Result(OwnOf(sizes), pending), outbox), Coming(wire))
    OBVIOUS
  <2>3. /\ wire' \in Seq(Payloads) /\ Len(wire') <= MaxWire
        /\ OnTheWay' <=> Result(now, Chosen(payload)) = exchangeBook'
    BY <1>3, <1>6, <2>1, <2>2, SentIs DEF OnTheWay
  <2>4. IngestTypes'
    BY <1>2, <1>3, <1>4, <1>6, <2>3 DEF IngestTypes
  <2>5. ASSUME ~gap' PROVE OnTheWay'
    <3>1. now = exchangeBook
      BY <1>6, <2>2, <2>5 DEF IngestInv, OnTheWay
    <3>2. CASE ~IsBroken(payload)
      BY <1>2, <1>3, <2>1, <2>3, <3>1, <3>2 DEF Makes
    <3>3. CASE IsBroken(payload)
      <4>1. exchangeBook' = exchangeBook
        BY <1>1, <1>2, <1>3, <1>6, <2>5, <3>3, PlayedByOthers
      <4>2. Chosen(payload) = <<>>
        BY <2>1, <3>3, BrokenIs
      <4>. QED
        BY <1>2, <2>3, <3>1, <4>1, <4>2, ResultOfNothing
    <3>. QED
      BY <3>2, <3>3
  <2>. QED
    BY <1>5, <2>4, <2>5 DEF IngestInv
<1>7. ASSUME ~up, gap' = (gap \/ \E i \in DOMAIN batch : batch[i].asset = Traced),
             UNCHANGED wire
      PROVE  IngestInv'
  <2>1. IngestTypes'
    BY <1>2, <1>3, <1>4, <1>7 DEF IngestTypes
  <2>2. ASSUME ~gap' PROVE OnTheWay'
    <3>1. exchangeBook' = exchangeBook
      BY <1>1, <1>2, <1>3, <1>7, <2>2, PlayedByOthers
    <3>2. OnTheWay
      BY <1>7, <2>2 DEF IngestInv
    <3>. QED
      BY <1>3, <1>7, <3>1, <3>2 DEF OnTheWay, bookVars
  <2>. QED
    BY <1>5, <2>1, <2>2 DEF IngestInv
<1>. QED
  BY <1>6, <1>7 DEF Trade

LEMMA SendBooksHolds == ASSUME IngestInv, SendBooks PROVE IngestInv'
<1>1. exchangeBook \in OwnBooks /\ IInv /\ IngestTypes
  BY DEF IngestInv, IngestTypes
<1>2. PICK books \in AllBooks, company \in Company :
         /\ wire' = Append(wire, books \o company)
         /\ gap' = IsBroken(books \o company)
  BY DEF SendBooks
<1>3. PICK payload : payload = books \o company
  OBVIOUS
<1>4. /\ payload \in Payloads
      /\ ~IsBroken(payload) =>
           \A own \in OwnBooks : Result(own, Chosen(payload)) = exchangeBook
  BY <1>1, <1>3, BooksPayload
<1>5. /\ Len(wire) < MaxWire /\ up' = TRUE
      /\ UNCHANGED <<bookVars, exchangeBook, outbox, pending>>
  BY DEF SendBooks
<1>6. PICK now : now = Result(Result(Result(OwnOf(sizes), pending), outbox), Coming(wire))
  OBVIOUS
<1>7. now \in OwnBooks
  BY <1>6, UnderWay, ResultType
<1>8. /\ wire' \in Seq(Payloads) /\ Len(wire') <= MaxWire
      /\ OnTheWay' <=> Result(now, Chosen(payload)) = exchangeBook'
  BY <1>2, <1>3, <1>4, <1>5, <1>6, SentIs DEF OnTheWay
<1>9. IngestTypes'
  BY <1>1, <1>2, <1>5, <1>8 DEF IngestTypes, IsBroken
<1>10. ~gap' => OnTheWay'
  BY <1>2, <1>3, <1>4, <1>5, <1>7, <1>8
<1>11. IInv'
  BY <1>1, <1>5, BookUnchanged
<1>. QED
  BY <1>9, <1>10, <1>11 DEF IngestInv

(* What is lost makes no difference, or is made up for by what follows.    *)
LEMMA LossIsMadeUpFor ==
  ASSUME NEW own \in OwnBooks, NEW lost \in Seq(Normalized), NEW behind \in Seq(Normalized),
         ~(Concerned(lost) /\ ~Resyncs(behind))
  PROVE  Result(Result(own, lost), behind) = Result(own, behind)
<1>1. Result(own, lost) \in OwnBooks
  BY ResultType
<1>. QED
  BY <1>1, ResultOfOthers, ResultOfResync

LEMMA DisconnectHolds == ASSUME IngestInv, Disconnect PROVE IngestInv'
<1>1. /\ outbox = <<>> /\ up' = FALSE /\ wire' = <<>>
      /\ gap' = (gap \/ (Concerned(Coming(wire)) /\ ~Resyncs(<<>>)))
      /\ UNCHANGED <<bookVars, exchangeBook, outbox, pending>>
  BY DEF Disconnect, Lost
<1>2. IInv /\ IngestTypes
  BY DEF IngestInv
<1>3. IInv'
  BY <1>1, <1>2, BookUnchanged
<1>4. IngestTypes'
  <2>1. <<>> \in Seq(Payloads) /\ Len(<<>>) <= MaxWire
    BY IngestionAssumption
  <2>. QED
    BY <1>1, <1>2, <2>1 DEF IngestTypes
<1>5. ASSUME ~gap' PROVE OnTheWay'
  <2>1. PICK own, rest : own = Result(Result(OwnOf(sizes), pending), outbox) /\ rest = Coming(wire)
    OBVIOUS
  <2>2. own \in OwnBooks /\ rest \in Seq(Normalized)
    BY <2>1, UnderWay
  <2>3. Result(own, rest) = exchangeBook /\ ~Concerned(rest)
    BY <1>1, <1>5, <2>1, KindsOfNothing DEF IngestInv, OnTheWay
  <2>4. Result(own, <<>>) = exchangeBook
    BY <2>2, <2>3, ResultOfOthers, ResultOfNothing
  <2>5. Result(Result(OwnOf(sizes'), pending'), outbox') = own
    BY <1>1, <2>1 DEF bookVars
  <2>. QED
    BY <1>1, <2>4, <2>5, ComingNothing DEF OnTheWay
<1>. QED
  BY <1>3, <1>4, <1>5 DEF IngestInv

LEMMA OnMessageHolds == ASSUME IngestInv, OnMessage PROVE IngestInv'
<1>1. /\ wire # <<>> /\ outbox = <<>> /\ wire' = Tail(wire)
      /\ outbox' \in ParseAndTransform(Head(wire))
      /\ UNCHANGED <<bookVars, exchangeBook, up, pending, gap>>
  BY DEF OnMessage
<1>2. IInv /\ IngestTypes
  BY DEF IngestInv
<1>3. wire \in Seq(Payloads) /\ Head(wire) \in Payloads /\ wire' \in Seq(Payloads)
      /\ Len(wire') <= MaxWire
  BY <1>1, <1>2, IngestionAssumption DEF IngestTypes
<1>4. PICK first, rest : first = Chosen(Head(wire)) /\ rest = Coming(wire')
  OBVIOUS
<1>5. Same(outbox', first) /\ Coming(wire) = first \o rest
  BY <1>1, <1>3, <1>4, ChosenIs, ParsedSame, ComingHead
<1>6. IngestTypes'
  <2>1. outbox' \in Seq(Normalized)
    BY <1>5 DEF Same
  <2>2. up
    BY <1>1, <1>2 DEF IngestTypes
  <2>. QED
    BY <1>1, <1>2, <1>3, <2>1, <2>2 DEF IngestTypes
<1>7. ASSUME ~gap' PROVE OnTheWay'
  <2>1. PICK own : own = Result(OwnOf(sizes), pending)
    OBVIOUS
  <2>2. own \in OwnBooks /\ first \in Seq(Normalized) /\ rest \in Seq(Normalized)
    BY <1>3, <1>4, <2>1, UnderWay, ChosenIs, ComingType
  <2>3. Result(own, first \o rest) = exchangeBook
    BY <1>1, <1>5, <1>7, <2>1, <2>2, ResultOfNothing DEF IngestInv, OnTheWay
  <2>4. Result(own, first \o rest) = Result(Result(own, first), rest)
    BY <2>2, ResultOfBoth
  <2>5. Result(own, outbox') = Result(own, first)
    BY <1>5, <2>2 DEF Same
  <2>6. Result(OwnOf(sizes'), pending') = own
    BY <1>1, <2>1 DEF bookVars
  <2>. QED
    BY <1>1, <1>4, <2>3, <2>4, <2>5, <2>6 DEF OnTheWay
<1>8. IInv'
  BY <1>1, <1>2, BookUnchanged
<1>. QED
  BY <1>6, <1>7, <1>8 DEF IngestInv

(* The first message of a sequence is handled first.                       *)
LEMMA ResultOfHead ==
  ASSUME NEW own \in OwnBooks, NEW a \in Seq(Normalized), a # <<>>
  PROVE  /\ Head(a) \in Normalized /\ Tail(a) \in Seq(Normalized)
         /\ Result(own, a) = Result(Handled(own, Head(a)), Tail(a))
<1>1. PICK x, rest : x = Head(a) /\ rest = Tail(a)
  OBVIOUS
<1>2. x \in Normalized /\ rest \in Seq(Normalized)
  BY <1>1
<1>3. <<x>> \in Seq(Normalized) /\ <<x>> \o rest = a
  BY <1>1, <1>2
<1>4. Result(own, <<x>> \o rest) = Result(Result(own, <<x>>), rest)
  BY <1>2, <1>3, ResultOfBoth
<1>5. Result(own, <<x>>) = Handled(own, x)
  BY <1>2, ResultOfOne
<1>. QED
  BY <1>1, <1>2, <1>3, <1>4, <1>5

(* The last one is handled last.                                           *)
LEMMA ResultOfLast ==
  ASSUME NEW own \in OwnBooks, NEW a \in Seq(Normalized), NEW x \in Normalized
  PROVE  /\ Append(a, x) \in Seq(Normalized) /\ <<x>> \in Seq(Normalized)
         /\ Result(own, Append(a, x)) = Result(Result(own, a), <<x>>)
<1>1. <<x>> \in Seq(Normalized) /\ Append(a, x) = a \o <<x>> /\ Append(a, x) \in Seq(Normalized)
  OBVIOUS
<1>2. PICK one : one = <<x>>
  OBVIOUS
<1>3. one \in Seq(Normalized)
  BY ONLY <1>1, <1>2
<1>4. Result(own, a \o one) = Result(Result(own, a), one)
  BY <1>3, ResultOfBoth
<1>. QED
  BY ONLY <1>1, <1>2, <1>4

LEMMA PublishHolds == ASSUME IngestInv, PublishNormalized PROVE IngestInv'
<1>1. /\ outbox # <<>> /\ Len(pending) < MaxPending
      /\ pending' = Append(pending, Head(outbox)) /\ outbox' = Tail(outbox)
      /\ UNCHANGED <<bookVars, exchangeBook, up, wire, gap>>
  BY DEF PublishNormalized
<1>2. IInv /\ IngestTypes
  BY DEF IngestInv
<1>3. PICK own, mid : own = OwnOf(sizes) /\ mid = Result(own, pending)
  OBVIOUS
<1>4. own \in OwnBooks /\ mid \in OwnBooks
  BY <1>3, UnderWay
<1>5. /\ Head(outbox) \in Normalized /\ outbox' \in Seq(Normalized)
      /\ Result(mid, outbox) = Result(Handled(mid, Head(outbox)), outbox')
  BY <1>1, <1>2, <1>4, ResultOfHead DEF IngestTypes
<1>6. /\ pending' \in Seq(Normalized)
      /\ Result(own, pending') = Handled(mid, Head(outbox))
  <2>1. PICK x : x = Head(outbox)
    OBVIOUS
  <2>2. x \in Normalized
    BY <1>5, <2>1
  <2>3. pending \in Seq(Normalized) /\ pending' = Append(pending, x)
    BY <1>1, <1>2, <2>1 DEF IngestTypes
  <2>4. /\ Append(pending, x) \in Seq(Normalized)
        /\ Result(own, Append(pending, x)) = Result(Result(own, pending), <<x>>)
    BY <1>4, <2>2, <2>3, ResultOfLast
  <2>5. Result(mid, <<x>>) = Handled(mid, x)
    BY <1>4, <2>2, ResultOfOne
  <2>6. Result(Result(own, pending), <<x>>) = Handled(mid, x)
    BY ONLY <1>3, <2>5
  <2>. QED
    BY ONLY <2>1, <2>3, <2>4, <2>6
<1>7. IngestTypes'
  <2>1. Len(pending') <= MaxPending
    BY <1>1, <1>2, IngestionAssumption DEF IngestTypes
  <2>2. up
    BY <1>1, <1>2 DEF IngestTypes
  <2>. QED
    BY <1>1, <1>2, <1>5, <1>6, <2>1, <2>2 DEF IngestTypes
<1>8. ASSUME ~gap' PROVE OnTheWay'
  <2>1. OnTheWay
    BY <1>1, <1>8 DEF IngestInv
  <2>2. OwnOf(sizes') = own
    BY <1>1, <1>3 DEF bookVars
  <2>. QED
    BY <1>1, <1>3, <1>5, <1>6, <2>1, <2>2 DEF OnTheWay
<1>9. IInv'
  BY <1>1, <1>2, BookUnchanged
<1>. QED
  BY <1>7, <1>8, <1>9 DEF IngestInv

LEMMA PublishFailsHolds == ASSUME IngestInv, PublishNormalizedFails PROVE IngestInv'
<1>1. /\ outbox' = <<>>
      /\ gap' = (gap \/ (Concerned(outbox) /\ ~Resyncs(Coming(wire))))
      /\ UNCHANGED <<bookVars, exchangeBook, up, wire, pending>>
  BY DEF PublishNormalizedFails, Lost
<1>2. IInv /\ IngestTypes
  BY DEF IngestInv
<1>3. IngestTypes'
  BY <1>1, <1>2 DEF IngestTypes
<1>4. ASSUME ~gap' PROVE OnTheWay'
  <2>1. PICK own, rest : own = Result(OwnOf(sizes), pending) /\ rest = Coming(wire)
    OBVIOUS
  <2>2. own \in OwnBooks /\ rest \in Seq(Normalized) /\ outbox \in Seq(Normalized)
    BY <1>2, <2>1, UnderWay DEF IngestTypes
  <2>3. Result(Result(own, outbox), rest) = exchangeBook
    BY <1>1, <1>4, <2>1 DEF IngestInv, OnTheWay
  <2>4. Result(own, rest) = exchangeBook
    BY <1>1, <1>4, <2>1, <2>2, <2>3, LossIsMadeUpFor
  <2>5. Result(own, <<>>) = own
    BY <2>2, ResultOfNothing
  <2>6. Result(OwnOf(sizes'), pending') = own /\ Coming(wire') = rest
    BY <1>1, <2>1 DEF bookVars
  <2>. QED
    BY <1>1, <2>4, <2>5, <2>6 DEF OnTheWay
<1>5. IInv'
  BY <1>1, <1>2, BookUnchanged
<1>. QED
  BY <1>3, <1>4, <1>5 DEF IngestInv

LEMMA DropHolds == ASSUME IngestInv, Drop PROVE IngestInv'
<1>1. /\ pending # <<>> /\ pending' = Front(pending)
      /\ gap' = (gap \/ (Concerned(<<Last(pending)>>) /\ ~Resyncs(outbox \o Coming(wire))))
      /\ UNCHANGED <<bookVars, exchangeBook, up, wire, outbox>>
  BY DEF Drop, Lost
<1>2. IInv /\ IngestTypes
  BY DEF IngestInv
<1>3. PICK x, before : x = Last(pending) /\ before = Front(pending)
  OBVIOUS
<1>4. /\ x \in Normalized /\ before \in Seq(Normalized) /\ pending = Append(before, x)
      /\ Len(before) <= MaxPending
  <2>1. pending \in Seq(Normalized) /\ Len(pending) \in Nat /\ Len(pending) # 0
        /\ MaxPending \in Nat /\ Len(pending) <= MaxPending
    BY <1>1, <1>2, IngestionAssumption DEF IngestTypes
  <2>2. x = pending[Len(pending)] /\ before = SubSeq(pending, 1, Len(pending) - 1)
    BY <1>3 DEF Last, Front
  <2>. QED
    BY <2>1, <2>2
<1>5. IngestTypes'
  BY <1>1, <1>2, <1>3, <1>4 DEF IngestTypes
<1>6. ASSUME ~gap' PROVE OnTheWay'
  <2>1. PICK own, rest : own = Result(OwnOf(sizes), before) /\ rest = Coming(wire)
    OBVIOUS
  <2>2. OwnOf(sizes) \in OwnBooks /\ rest \in Seq(Normalized) /\ outbox \in Seq(Normalized)
    BY <1>2, <2>1, UnderWay DEF IngestTypes
  <2>3. own \in OwnBooks /\ <<x>> \in Seq(Normalized)
    BY <1>4, <2>1, <2>2, ResultType
  <2>4. Result(OwnOf(sizes), pending) = Result(own, <<x>>)
    BY <1>4, <2>1, <2>2, ResultOfLast
  <2>5. PICK behind : behind = outbox \o rest
    OBVIOUS
  <2>6. behind \in Seq(Normalized) /\ Result(own, <<x>>) \in OwnBooks
    <3>1. behind \in Seq(Normalized)
      BY ONLY <2>2, <2>5
    <3>2. PICK one : one = <<x>>
      OBVIOUS
    <3>3. one \in Seq(Normalized)
      BY ONLY <2>3, <3>2
    <3>4. Result(own, one) \in OwnBooks
      BY <2>3, <3>3, ResultType
    <3>. QED
      BY ONLY <3>1, <3>2, <3>4
  <2>7. Result(Result(own, <<x>>), behind) = Result(Result(Result(own, <<x>>), outbox), rest)
    BY <2>2, <2>5, <2>6, ResultOfBoth
  <2>8. Result(own, behind) = Result(Result(own, outbox), rest)
    BY <2>2, <2>3, <2>5, ResultOfBoth
  <2>9. Result(Result(own, <<x>>), behind) = Result(own, behind)
    BY <1>1, <1>3, <1>6, <2>1, <2>3, <2>5, <2>6, LossIsMadeUpFor
  <2>10. Result(Result(Result(own, <<x>>), outbox), rest) = exchangeBook
    BY <1>1, <1>6, <2>1, <2>4 DEF IngestInv, OnTheWay
  <2>11. Result(OwnOf(sizes'), pending') = own /\ Coming(wire') = rest
    BY <1>1, <1>3, <2>1 DEF bookVars
  <2>. QED
    BY <1>1, <2>7, <2>8, <2>9, <2>10, <2>11 DEF OnTheWay
<1>7. IInv'
  BY <1>1, <1>2, BookUnchanged
<1>. QED
  BY <1>5, <1>6, <1>7 DEF IngestInv

LEMMA ApplyNextHolds == ASSUME IngestInv, ApplyNext PROVE IngestInv'
<1>1. /\ pending # <<>> /\ pending' = Tail(pending)
      /\ UNCHANGED <<exchangeBook, up, wire, outbox, gap>>
  BY DEF ApplyNext
<1>2. IInv /\ IngestTypes
  BY DEF IngestInv
<1>3. PICK x, own : x = Head(pending) /\ own = OwnOf(sizes)
  OBVIOUS
<1>4. own \in OwnBooks /\ sizes \in Books
  BY <1>3, UnderWay
<1>5. /\ x \in Normalized /\ pending' \in Seq(Normalized)
      /\ Result(own, pending) = Result(Handled(own, x), pending')
  BY <1>1, <1>2, <1>3, <1>4, ResultOfHead DEF IngestTypes
<1>6. x.message \in Own /\ x.message \in Message
  BY <1>5 DEF Normalized, Own
<1>7. IInv' /\ OwnOf(sizes') = Handled(own, x)
  <2>1. CASE x.asset = Traced
    <3>1. Apply(x.message)
      BY <1>3, <2>1 DEF ApplyNext
    <3>2. IInv'
      BY <1>2, <1>6, <3>1, ApplyInvariant
    <3>3. sizes' = SizesAfter(sizes, x.message)
      BY <3>1 DEF Apply
    <3>4. OwnOf(sizes') = Written(own, x.message)
      BY <1>3, <1>4, <1>6, <3>3, AppliedIsHandled
    <3>. QED
      BY <2>1, <3>2, <3>4 DEF Handled
  <2>2. CASE x.asset # Traced
    <3>1. UNCHANGED bookVars
      BY <1>3, <2>2 DEF ApplyNext
    <3>2. IInv' /\ sizes' = sizes
      BY <1>2, <3>1, BookUnchanged DEF bookVars
    <3>. QED
      BY <1>3, <2>2, <3>2 DEF Handled
  <2>. QED
    BY <2>1, <2>2
<1>8. IngestTypes'
  <2>1. Len(pending') <= MaxPending
    BY <1>1, <1>2, IngestionAssumption DEF IngestTypes
  <2>. QED
    BY <1>1, <1>2, <1>5, <2>1 DEF IngestTypes
<1>9. ~gap' => OnTheWay'
  BY <1>1, <1>3, <1>5, <1>7 DEF IngestInv, OnTheWay
<1>. QED
  BY <1>7, <1>8, <1>9 DEF IngestInv

LEMMA RestartHolds == ASSUME IngestInv, Restart PROVE IngestInv'
<1>1. /\ Init' /\ pending' = <<>>
      /\ gap' = (gap \/ ~Resyncs(outbox \o Coming(wire)))
      /\ UNCHANGED <<exchangeBook, up, wire, outbox>>
  BY DEF Restart, Init, EmptySizes
<1>2. IngestTypes
  BY DEF IngestInv
<1>3. IInv'
  <2>1. (Init => IInv)'
    BY InitInvariant, PTL
  <2>. QED
    BY <1>1, <2>1
<1>4. IngestTypes'
  <2>1. <<>> \in Seq(Normalized) /\ Len(<<>>) <= MaxPending
    BY IngestionAssumption
  <2>. QED
    BY <1>1, <1>2, <2>1 DEF IngestTypes
<1>5. ASSUME ~gap' PROVE OnTheWay'
  <2>1. PICK own, new, rest : /\ own = Result(OwnOf(sizes), pending)
                              /\ new = OwnOf(sizes') /\ rest = Coming(wire)
    OBVIOUS
  <2>2. own \in OwnBooks /\ rest \in Seq(Normalized) /\ outbox \in Seq(Normalized)
    BY <1>2, <2>1, UnderWay DEF IngestTypes
  <2>3. new \in OwnBooks
    <3>1. sizes' \in Books
      BY <1>3 DEF IInv, TypeOK, Books
    <3>. QED
      BY <2>1, <3>1, OwnOfType
  <2>4. PICK behind : behind = outbox \o rest
    OBVIOUS
  <2>5. behind \in Seq(Normalized) /\ Resyncs(behind)
    <3>1. behind \in Seq(Normalized)
      BY ONLY <2>2, <2>4
    <3>2. Resyncs(outbox \o Coming(wire))
      BY <1>1, <1>5
    <3>3. behind = outbox \o Coming(wire)
      BY ONLY <2>1, <2>4
    <3>. QED
      BY ONLY <3>1, <3>2, <3>3
  <2>6. Result(new, behind) = Result(own, behind)
    BY <2>2, <2>3, <2>5, ResultOfResync
  <2>7. Result(own, behind) = Result(Result(own, outbox), rest)
    BY <2>2, <2>4, ResultOfBoth
  <2>8. Result(new, behind) = Result(Result(new, outbox), rest)
    BY <2>2, <2>3, <2>4, ResultOfBoth
  <2>9. Result(Result(own, outbox), rest) = exchangeBook
    BY <1>1, <1>5, <2>1 DEF IngestInv, OnTheWay
  <2>10. Result(new, <<>>) = new
    BY <2>3, ResultOfNothing
  <2>. QED
    BY <1>1, <2>1, <2>6, <2>7, <2>8, <2>9, <2>10 DEF OnTheWay
<1>. QED
  BY <1>3, <1>4, <1>5 DEF IngestInv

(* The book's invariants hold on this path, and unless something of the    *)
(* asset was lost since its last snapshot, the messages in NATS, those the *)
(* worker is publishing and the payloads on the connection turn the book   *)
(* into the exchange's own.                                                *)
THEOREM IngestionInvariant == IngestSpec => []IngestInv
<1>1. ASSUME IngestInv, [IngestNext]_ingestVars PROVE IngestInv'
  <2>1. CASE UNCHANGED ingestVars
    <3>1. UNCHANGED <<bookVars, exchangeBook, up, wire, outbox, pending, gap>>
      BY <2>1 DEF ingestVars
    <3>2. IInv'
      BY <1>1, <3>1, BookUnchanged DEF IngestInv
    <3>. QED
      BY <1>1, <3>1, <3>2 DEF IngestInv, IngestTypes, OnTheWay, bookVars
  <2>2. ASSUME NEW batch \in Batches, Trade(batch) PROVE IngestInv'
    BY <1>1, <2>2, TradeHolds
  <2>3. CASE SendBooks
    BY <1>1, <2>3, SendBooksHolds
  <2>4. CASE Disconnect
    BY <1>1, <2>4, DisconnectHolds
  <2>5. CASE OnMessage
    BY <1>1, <2>5, OnMessageHolds
  <2>6. CASE PublishNormalized
    BY <1>1, <2>6, PublishHolds
  <2>7. CASE PublishNormalizedFails
    BY <1>1, <2>7, PublishFailsHolds
  <2>8. CASE Drop
    BY <1>1, <2>8, DropHolds
  <2>9. CASE ApplyNext
    BY <1>1, <2>9, ApplyNextHolds
  <2>10. CASE Restart
    BY <1>1, <2>10, RestartHolds
  <2>. QED
    BY <1>1, <2>1, <2>2, <2>3, <2>4, <2>5, <2>6, <2>7, <2>8, <2>9, <2>10 DEF IngestNext
<1>2. IngestInit => IngestInv
  BY IngestInitHolds
<1>. QED
  BY <1>1, <1>2, PTL DEF IngestSpec

(* Every variable has its type, and a payload is only handled while its    *)
(* connection lasts.                                                       *)
THEOREM IngestionTypeCorrect == IngestSpec => []IngestionTypeOK
<1>1. IngestInv => IngestionTypeOK
  BY DEF IngestInv, IInv, IngestTypes, OwnBooks, IngestionTypeOK
<1>. QED
  BY <1>1, IngestionInvariant, PTL

(* Since the last snapshot of an asset after which nothing of it was lost, *)
(* the book is on its way to the exchange's own.                           *)
THEOREM BookIsOnItsWay == IngestSpec => []BookFollowsExchange
<1>1. ASSUME IngestInv PROVE BookFollowsExchange
  <2> SUFFICES ASSUME ~gap, NEW s \in Sides, NEW p \in Prices, NEW underWay,
                      underWay = pending \o outbox \o Coming(wire)
               PROVE  BookAfter(sizes, underWay)[Len(underWay)][s][p][Platform] =
                        exchangeBook[s][p]
    BY DEF BookFollowsExchange
  <2>1. PICK own, rest : own = OwnOf(sizes) /\ rest = Coming(wire)
    OBVIOUS
  <2>2. /\ own \in OwnBooks /\ rest \in Seq(Normalized) /\ sizes \in Books
        /\ pending \in Seq(Normalized) /\ outbox \in Seq(Normalized)
    BY <1>1, <2>1, UnderWay DEF IngestTypes
  <2>3. PICK both : both = pending \o outbox
    OBVIOUS
  <2>4. both \in Seq(Normalized) /\ underWay = both \o rest /\ underWay \in Seq(Normalized)
    BY <2>1, <2>2, <2>3
  <2>5. Result(own, both) = Result(Result(own, pending), outbox)
    BY <2>2, <2>3, ResultOfBoth
  <2>6. Result(own, underWay) = Result(Result(own, both), rest)
    BY <2>2, <2>4, ResultOfBoth
  <2>7. Result(own, underWay) = exchangeBook
    BY <1>1, <2>1, <2>5, <2>6 DEF IngestInv, OnTheWay
  <2>8. PICK last : last = BookAfter(sizes, underWay)[Len(underWay)]
    OBVIOUS
  <2>9. OwnOf(last) = exchangeBook
    BY <2>1, <2>2, <2>4, <2>7, <2>8, BookAfterIs
  <2>10. OwnOf(last)[s][p] = last[s][p][Platform]
    BY DEF OwnOf
  <2>. QED
    BY <2>8, <2>9, <2>10
<1>. QED
  BY <1>1, IngestionInvariant, PTL
=============================================================================
