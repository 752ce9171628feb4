--------------------------- MODULE SupervisorProofs ---------------------------
(***************************************************************************)
(* For any workers, capacities, requests and channels, whatever dies and   *)
(* whenever connections are lost: a worker has no more ids than it may, a  *)
(* connection has all of them, no id is given more often than a request    *)
(* names it, and what the supervisor believes its commands will make true. *)
(***************************************************************************)
EXTENDS Supervisor, FiniteSetTheorems, WellFoundedInduction, TLAPS

(* A non-empty set of numbers has a least one. *)
LEMMA LeastNumber ==
  ASSUME NEW I, I \subseteq Nat, I # {}
  PROVE  \E i \in I : \A j \in I : i <= j
<1>1. PICK i \in I : \A j \in I : <<j, i>> \notin OpToRel(<, Nat)
  BY NatLessThanWellFounded, WFMin
<1>2. ASSUME NEW j \in I PROVE i <= j
  <2>1. i \in Nat /\ j \in Nat
    OBVIOUS
  <2>2. ~(j < i)
    BY <1>1, <2>1 DEF OpToRel
  <2>. QED
    BY <2>1, <2>2
<1>. QED
  BY <1>2

(* Induction up to n for a set of numbers, with which the values of a      *)
(* recursive function are reached.                                         *)
LEMMA UpTo ==
  ASSUME NEW n \in Nat, NEW I, 0 \in I,
         \A k \in 0 .. (n - 1) : k \in I => k + 1 \in I
  PROVE  0 .. n \subseteq I
<1> DEFINE Missed == (0 .. n) \ I
<1>1. ASSUME Missed # {} PROVE FALSE
  <2>1. Missed \subseteq Nat
    OBVIOUS
  <2>2. PICK i \in Missed : \A j \in Missed : i <= j
    <3>. HIDE DEF Missed
    <3>. QED
      BY <1>1, <2>1, LeastNumber
  <2>3. i \in 1 .. n /\ i - 1 \in 0 .. (n - 1) /\ (i - 1) + 1 = i
    <3>1. i \in 0 .. n /\ i # 0
      OBVIOUS
    <3>. QED
      BY <3>1
  <2>4. i - 1 \notin Missed
    <3>. HIDE DEF Missed
    <3>. QED
      BY <2>2, <2>3
  <2>5. i - 1 \in I
    BY <2>3, <2>4
  <2>. QED
    BY <2>2, <2>3, <2>5
<1>. QED
  BY <1>1

-----------------------------------------------------------------------------
(* Without.                                                                *)

KeptBody(list, batch, kept, n) ==
  IF n = 0 THEN <<>>
  ELSE IF list[n] \in batch THEN kept[n - 1] ELSE Append(kept[n - 1], list[n])

(* The recursion has a solution for every list, hence Kept solves it.      *)
LEMMA KeptDefined ==
  ASSUME NEW S, NEW list \in Seq(S), NEW batch
  PROVE  Kept(list, batch) =
           [n \in 0 .. Len(list) |-> KeptBody(list, batch, Kept(list, batch), n)]
<1> DEFINE Solved(n) == \E f : f = [k \in 0 .. n |-> KeptBody(list, batch, f, k)]
           I == {n \in 0 .. Len(list) : Solved(n)}
<1>1. Len(list) \in Nat
  OBVIOUS
<1>2. Solved(0)
  <2>1. [k \in 0 .. 0 |-> <<>>] =
          [k \in 0 .. 0 |-> KeptBody(list, batch, [i \in 0 .. 0 |-> <<>>], k)]
    BY DEF KeptBody
  <2>. QED
    BY <2>1
<1>3. ASSUME NEW n \in 0 .. (Len(list) - 1), Solved(n) PROVE Solved(n + 1)
  <2>1. PICK f : f = [k \in 0 .. n |-> KeptBody(list, batch, f, k)]
    BY <1>3
  <2> DEFINE g == [k \in 0 .. (n + 1) |-> IF k <= n THEN f[k] ELSE KeptBody(list, batch, f, k)]
  <2>2. ASSUME NEW k \in 0 .. (n + 1) PROVE g[k] = KeptBody(list, batch, g, k)
    <3>1. k # 0 => k - 1 \in 0 .. n /\ g[k - 1] = f[k - 1]
      OBVIOUS
    <3>2. g[k] = KeptBody(list, batch, f, k)
      <4>1. k <= n => f[k] = KeptBody(list, batch, f, k)
        BY <2>1
      <4>. QED
        BY <4>1
    <3>. HIDE DEF g
    <3>. QED
      BY <3>1, <3>2 DEF KeptBody
  <2>3. g = [k \in 0 .. (n + 1) |-> KeptBody(list, batch, g, k)]
    <3>1. g = [k \in 0 .. (n + 1) |-> g[k]]
      OBVIOUS
    <3>. HIDE DEF g
    <3>. QED
      BY <2>2, <3>1
  <2>. HIDE DEF g
  <2>. QED
    BY <2>3
<1>4. Solved(Len(list))
  <2>1. 0 \in I /\ \A n \in 0 .. (Len(list) - 1) : n \in I => n + 1 \in I
    <3>. HIDE DEF Solved
    <3>. QED
      BY <1>1, <1>2, <1>3
  <2>2. 0 .. Len(list) \subseteq I
    <3>. HIDE DEF I
    <3>. QED
      BY <1>1, <2>1, UpTo
  <2>. QED
    BY <1>1, <2>2
<1>. QED
  BY <1>4 DEF Kept, KeptBody

(* One step of the recursion. *)
LEMMA KeptAt ==
  ASSUME NEW S, NEW list \in Seq(S), NEW batch, NEW n \in 0 .. Len(list)
  PROVE  Kept(list, batch)[n] = KeptBody(list, batch, Kept(list, batch), n)
<1>1. PICK kept : kept = Kept(list, batch)
  OBVIOUS
<1>2. kept = [k \in 0 .. Len(list) |-> KeptBody(list, batch, kept, k)]
  BY <1>1, KeptDefined
<1>3. kept[n] = KeptBody(list, batch, kept, n)
  BY <1>2
<1>. QED
  BY <1>1, <1>3

(* The places of Kept are those of the list that are not in the batch.     *)
KeptRight(S, list, batch, n) ==
  LET kept == Kept(list, batch)[n]
  IN  /\ kept \in Seq(S) /\ Len(kept) <= n
      /\ \A i \in 1 .. n : list[i] \notin batch => \E j \in DOMAIN kept : kept[j] = list[i]
      /\ \E from \in [DOMAIN kept -> 1 .. n] :
           /\ \A i, j \in DOMAIN kept : from[i] = from[j] => i = j
           /\ \A i \in DOMAIN kept : kept[i] = list[from[i]] /\ kept[i] \notin batch

(* So it is of the first n, from those before.                             *)
LEMMA KeptPicks ==
  ASSUME NEW S, NEW list \in Seq(S), NEW batch
  PROVE  KeptRight(S, list, batch, Len(list))
<1> DEFINE I == {n \in 0 .. Len(list) : KeptRight(S, list, batch, n)}
<1>0. Len(list) \in Nat
  OBVIOUS
<1>1. KeptRight(S, list, batch, 0)
  <2>1. Kept(list, batch)[0] = <<>>
    BY <1>0, KeptAt DEF KeptBody
  <2> DEFINE from == [i \in 1 .. 0 |-> i]
  <2>2. PICK kept : kept = Kept(list, batch)[0]
    OBVIOUS
  <2>3. /\ kept \in Seq(S) /\ Len(kept) <= 0 /\ DOMAIN kept = 1 .. 0
        /\ from \in [1 .. 0 -> 1 .. 0] /\ \A i \in 1 .. 0 : FALSE
    BY <2>1, <2>2
  <2>. HIDE DEF from
  <2>4. \E g \in [DOMAIN kept -> 1 .. 0] :
           /\ \A i, j \in DOMAIN kept : g[i] = g[j] => i = j
           /\ \A i \in DOMAIN kept : kept[i] = list[g[i]] /\ kept[i] \notin batch
    BY <2>3
  <2>. QED
    BY <2>2, <2>3, <2>4 DEF KeptRight
<1>2. ASSUME NEW n \in 0 .. (Len(list) - 1), KeptRight(S, list, batch, n)
      PROVE  KeptRight(S, list, batch, n + 1)
  <2> DEFINE kept == Kept(list, batch)[n]
             next == Kept(list, batch)[n + 1]
             x == list[n + 1]
  <2>1. n \in Nat /\ n + 1 \in 0 .. Len(list) /\ (n + 1) - 1 = n /\ n + 1 # 0 /\ x \in S
    OBVIOUS
  <2>2. next = IF x \in batch THEN kept ELSE Append(kept, x)
    <3>1. next = KeptBody(list, batch, Kept(list, batch), n + 1)
      BY <2>1, KeptAt
    <3>. QED
      BY <2>1, <3>1 DEF KeptBody
  <2>3. PICK from \in [DOMAIN kept -> 1 .. n] :
           /\ \A i, j \in DOMAIN kept : from[i] = from[j] => i = j
           /\ \A i \in DOMAIN kept : kept[i] = list[from[i]] /\ kept[i] \notin batch
    BY <1>2 DEF KeptRight
  <2>4. /\ kept \in Seq(S) /\ Len(kept) <= n
        /\ \A i \in 1 .. n : list[i] \notin batch => \E j \in DOMAIN kept : kept[j] = list[i]
    BY <1>2 DEF KeptRight
  <2>. HIDE DEF kept, next
  <2>5. CASE x \in batch
    <3>1. from \in [DOMAIN next -> 1 .. (n + 1)] /\ next = kept
      BY <2>1, <2>2, <2>5
    <3>2. \A i \in 1 .. (n + 1) : list[i] \notin batch => \E j \in DOMAIN kept : kept[j] = list[i]
      BY <2>1, <2>4, <2>5
    <3>. QED
      BY <2>1, <2>3, <2>4, <3>1, <3>2 DEF KeptRight, next
  <2>6. CASE x \notin batch
    <3>1. /\ next \in Seq(S) /\ DOMAIN next = 1 .. (Len(kept) + 1) /\ Len(next) = Len(kept) + 1
          /\ next[Len(kept) + 1] = x /\ \A i \in DOMAIN kept : next[i] = kept[i]
          /\ DOMAIN kept = 1 .. Len(kept) /\ Len(kept) \in Nat
      BY <2>1, <2>2, <2>4, <2>6
    <3>2. \A i \in 1 .. (n + 1) : list[i] \notin batch => \E j \in DOMAIN next : next[j] = list[i]
      <4>1. ASSUME NEW i \in 1 .. (n + 1), list[i] \notin batch PROVE \E j \in DOMAIN next : next[j] = list[i]
        <5>1. CASE i = n + 1
          BY <3>1, <5>1
        <5>2. CASE i \in 1 .. n
          BY <2>4, <3>1, <4>1, <5>2
        <5>. QED
          BY <2>1, <5>1, <5>2
      <4>. QED
        BY <4>1
    <3> DEFINE longer == [i \in DOMAIN next |-> IF i = Len(kept) + 1 THEN n + 1 ELSE from[i]]
    <3>3. /\ longer \in [DOMAIN next -> 1 .. (n + 1)]
          /\ \A i \in DOMAIN kept : longer[i] = from[i] /\ longer[i] \in 1 .. n
          /\ longer[Len(kept) + 1] = n + 1
      BY <2>1, <2>3, <3>1
    <3>. HIDE DEF longer
    <3>4. \A i, j \in DOMAIN next : longer[i] = longer[j] => i = j
      BY <2>1, <2>3, <3>1, <3>3
    <3>5. \A i \in DOMAIN next : next[i] = list[longer[i]] /\ next[i] \notin batch
      BY <2>1, <2>3, <2>6, <3>1, <3>3
    <3>6. Len(next) <= n + 1
      BY <2>1, <2>4, <3>1
    <3>. QED
      BY <3>1, <3>2, <3>3, <3>4, <3>5, <3>6 DEF KeptRight, next
  <2>. QED
    BY <2>5, <2>6
<1>3. 0 .. Len(list) \subseteq I
  <2>1. 0 \in I /\ \A n \in 0 .. (Len(list) - 1) : n \in I => n + 1 \in I
    BY <1>0, <1>1, <1>2
  <2>. HIDE DEF I
  <2>. QED
    BY <1>0, <2>1, UpTo
<1>. QED
  BY <1>0, <1>3

(* A maps one to one into B. *)
Injects(A, B) == \E f \in [A -> B] : \A x, y \in A : f[x] = f[y] => x = y

(* What Without leaves, and where it was.                                  *)
LEMMA WithoutPicks ==
  ASSUME NEW S, NEW list \in Seq(S), NEW batch
  PROVE  \A fewer : fewer = Without(list, batch) =>
           /\ fewer \in Seq(S) /\ Len(fewer) <= Len(list)
           /\ ToSet(fewer) = ToSet(list) \ batch
           /\ \E from \in [DOMAIN fewer -> DOMAIN list] :
                /\ \A i, j \in DOMAIN fewer : from[i] = from[j] => i = j
                /\ \A i \in DOMAIN fewer : fewer[i] = list[from[i]]
<1>0. SUFFICES ASSUME NEW fewer, fewer = Without(list, batch)
               PROVE  /\ fewer \in Seq(S) /\ Len(fewer) <= Len(list)
                      /\ ToSet(fewer) = ToSet(list) \ batch
                      /\ \E from \in [DOMAIN fewer -> DOMAIN list] :
                           /\ \A i, j \in DOMAIN fewer : from[i] = from[j] => i = j
                           /\ \A i \in DOMAIN fewer : fewer[i] = list[from[i]]
  OBVIOUS
<1>1. KeptRight(S, list, batch, Len(list)) /\ fewer = Kept(list, batch)[Len(list)]
  BY <1>0, KeptPicks DEF Without
<1>2. DOMAIN list = 1 .. Len(list)
  OBVIOUS
<1>3. ToSet(fewer) = ToSet(list) \ batch
  BY <1>1, <1>2 DEF KeptRight, ToSet
<1>. QED
  BY <1>1, <1>2, <1>3 DEF KeptRight

-----------------------------------------------------------------------------
(* RememberedAfter.                                                        *)

AfterBody(known, channel, after, n) ==
  IF n = 0 THEN known ELSE Remembered(after[n - 1], channel[n])

(* This recursion, too, has a solution.                                    *)
LEMMA AfterDefined ==
  ASSUME NEW channel \in Seq(Command), NEW known
  PROVE  RememberedAfter(known, channel) =
           [n \in 0 .. Len(channel) |->
              AfterBody(known, channel, RememberedAfter(known, channel), n)]
<1> DEFINE Solved(n) == \E f : f = [k \in 0 .. n |-> AfterBody(known, channel, f, k)]
           I == {n \in 0 .. Len(channel) : Solved(n)}
<1>1. Len(channel) \in Nat
  OBVIOUS
<1>2. Solved(0)
  <2>1. [k \in 0 .. 0 |-> known] =
          [k \in 0 .. 0 |-> AfterBody(known, channel, [i \in 0 .. 0 |-> known], k)]
    BY DEF AfterBody
  <2>. QED
    BY <2>1
<1>3. ASSUME NEW n \in 0 .. (Len(channel) - 1), Solved(n) PROVE Solved(n + 1)
  <2>1. PICK f : f = [k \in 0 .. n |-> AfterBody(known, channel, f, k)]
    BY <1>3
  <2> DEFINE g == [k \in 0 .. (n + 1) |-> IF k <= n THEN f[k] ELSE AfterBody(known, channel, f, k)]
  <2>2. ASSUME NEW k \in 0 .. (n + 1) PROVE g[k] = AfterBody(known, channel, g, k)
    <3>1. k # 0 => k - 1 \in 0 .. n /\ g[k - 1] = f[k - 1]
      OBVIOUS
    <3>2. g[k] = AfterBody(known, channel, f, k)
      <4>1. k <= n => f[k] = AfterBody(known, channel, f, k)
        BY <2>1
      <4>. QED
        BY <4>1
    <3>. HIDE DEF g
    <3>. QED
      BY <3>1, <3>2 DEF AfterBody
  <2>3. g = [k \in 0 .. (n + 1) |-> AfterBody(known, channel, g, k)]
    <3>1. g = [k \in 0 .. (n + 1) |-> g[k]]
      OBVIOUS
    <3>. HIDE DEF g
    <3>. QED
      BY <2>2, <3>1
  <2>. HIDE DEF g
  <2>. QED
    BY <2>3
<1>4. Solved(Len(channel))
  <2>1. 0 \in I /\ \A n \in 0 .. (Len(channel) - 1) : n \in I => n + 1 \in I
    <3>. HIDE DEF Solved
    <3>. QED
      BY <1>1, <1>2, <1>3
  <2>2. 0 .. Len(channel) \subseteq I
    <3>. HIDE DEF I
    <3>. QED
      BY <1>1, <2>1, UpTo
  <2>. QED
    BY <1>1, <2>2
<1>. QED
  BY <1>4 DEF RememberedAfter, AfterBody

(* Its steps. *)
LEMMA AfterSteps ==
  ASSUME NEW channel \in Seq(Command), NEW known
  PROVE  /\ RememberedAfter(known, channel)[0] = known
         /\ \A n \in 1 .. Len(channel) :
              RememberedAfter(known, channel)[n] =
                Remembered(RememberedAfter(known, channel)[n - 1], channel[n])
<1>1. PICK after : after = RememberedAfter(known, channel)
  OBVIOUS
<1>2. after = [n \in 0 .. Len(channel) |-> AfterBody(known, channel, after, n)]
  BY <1>1, AfterDefined
<1>3. /\ after[0] = AfterBody(known, channel, after, 0)
      /\ \A n \in 1 .. Len(channel) : after[n] = AfterBody(known, channel, after, n)
  BY <1>2
<1>4. after[0] = known
  BY <1>3 DEF AfterBody
<1>5. ASSUME NEW n \in 1 .. Len(channel) PROVE after[n] = Remembered(after[n - 1], channel[n])
  BY <1>3 DEF AfterBody
<1>. QED
  BY <1>1, <1>4, <1>5

(* A command that is put behind the others is taken after them.            *)
LEMMA AfterAppend ==
  ASSUME NEW channel \in Seq(Command), NEW known, NEW command \in Command
  PROVE  LET longer == Append(channel, command)
         IN  /\ \A n \in 0 .. Len(channel) :
                  RememberedAfter(known, longer)[n] = RememberedAfter(known, channel)[n]
             /\ RememberedAfter(known, longer)[Len(longer)] =
                  Remembered(RememberedAfter(known, channel)[Len(channel)], command)
<1>1. PICK longer : longer = Append(channel, command)
  OBVIOUS
<1>2. /\ longer \in Seq(Command) /\ Len(longer) = Len(channel) + 1 /\ Len(channel) \in Nat
      /\ longer[Len(channel) + 1] = command
      /\ \A n \in 1 .. Len(channel) : longer[n] = channel[n]
  BY <1>1
<1> DEFINE I == {n \in 0 .. Len(channel) :
                   RememberedAfter(known, longer)[n] = RememberedAfter(known, channel)[n]}
<1>3. 0 \in I
  BY <1>2, AfterSteps
<1>4. ASSUME NEW n \in 0 .. (Len(channel) - 1), n \in I PROVE n + 1 \in I
  <2>1. n + 1 \in 1 .. Len(channel) /\ n + 1 \in 1 .. Len(longer) /\ (n + 1) - 1 = n
        /\ n + 1 \in 0 .. Len(channel)
    BY <1>2
  <2>2. RememberedAfter(known, longer)[n + 1] =
          Remembered(RememberedAfter(known, longer)[n], longer[n + 1])
    BY <1>2, <2>1, AfterSteps
  <2>3. RememberedAfter(known, channel)[n + 1] =
          Remembered(RememberedAfter(known, channel)[n], channel[n + 1])
    BY <1>2, <2>1, AfterSteps
  <2>. QED
    BY <1>2, <1>4, <2>1, <2>2, <2>3
<1>5. 0 .. Len(channel) \subseteq I
  <2>. HIDE DEF I
  <2>. QED
    BY <1>2, <1>3, <1>4, UpTo
<1>6. RememberedAfter(known, longer)[Len(longer)] =
        Remembered(RememberedAfter(known, longer)[Len(channel)], longer[Len(longer)])
  <2>1. Len(longer) \in 1 .. Len(longer) /\ Len(longer) - 1 = Len(channel)
    BY <1>2
  <2>. QED
    BY <1>2, <2>1, AfterSteps
<1>. QED
  BY <1>1, <1>2, <1>5, <1>6

(* A command that has been taken leaves the others with what it did.       *)
LEMMA AfterTail ==
  ASSUME NEW channel \in Seq(Command), channel # <<>>, NEW known
  PROVE  \A n \in 0 .. (Len(channel) - 1) :
           RememberedAfter(Remembered(known, Head(channel)), Tail(channel))[n] =
             RememberedAfter(known, channel)[n + 1]
<1>1. PICK rest, now : rest = Tail(channel) /\ now = Remembered(known, Head(channel))
  OBVIOUS
<1>2. /\ rest \in Seq(Command) /\ Len(rest) = Len(channel) - 1 /\ Len(rest) \in Nat
      /\ Head(channel) = channel[1] /\ 1 \in 1 .. Len(channel) /\ 1 - 1 = 0
      /\ \A n \in 1 .. Len(rest) : rest[n] = channel[n + 1]
  BY <1>1
<1> DEFINE I == {n \in 0 .. Len(rest) :
                   RememberedAfter(now, rest)[n] = RememberedAfter(known, channel)[n + 1]}
<1>3. 0 \in I
  <2>1. RememberedAfter(now, rest)[0] = now
    BY <1>2, AfterSteps
  <2>2. RememberedAfter(known, channel)[1] = Remembered(RememberedAfter(known, channel)[0], channel[1])
    BY <1>2, AfterSteps
  <2>3. RememberedAfter(known, channel)[0] = known
    BY AfterSteps
  <2>. QED
    BY <1>1, <1>2, <2>1, <2>2, <2>3
<1>4. ASSUME NEW n \in 0 .. (Len(rest) - 1), n \in I PROVE n + 1 \in I
  <2>1. /\ n + 1 \in 1 .. Len(rest) /\ (n + 1) - 1 = n /\ n + 1 \in 0 .. Len(rest)
        /\ (n + 1) + 1 \in 1 .. Len(channel) /\ ((n + 1) + 1) - 1 = n + 1
    BY <1>2
  <2>2. RememberedAfter(now, rest)[n + 1] = Remembered(RememberedAfter(now, rest)[n], rest[n + 1])
    BY <1>2, <2>1, AfterSteps
  <2>3. RememberedAfter(known, channel)[(n + 1) + 1] =
          Remembered(RememberedAfter(known, channel)[n + 1], channel[(n + 1) + 1])
    BY <1>2, <2>1, AfterSteps
  <2>. QED
    BY <1>2, <1>4, <2>1, <2>2, <2>3
<1>5. 0 .. Len(rest) \subseteq I
  <2>. HIDE DEF I
  <2>. QED
    BY <1>2, <1>3, <1>4, UpTo
<1>. QED
  BY <1>1, <1>2, <1>5

-----------------------------------------------------------------------------
(* One worker: its task, its channel, and what the supervisor gave it.     *)

Phases == {"unborn", "connecting", "sleeping", "connected", "stopped"}

Runs(ph) == ph \notin {"unborn", "stopped"}

(* The worker exceeds its limit at no time, now or after any of the        *)
(* commands that wait.                                                     *)
WithinLimit(known, channel) ==
  \A n \in 0 .. Len(channel) :
    /\ IsFiniteSet(RememberedAfter(known, channel)[n])
    /\ Cardinality(RememberedAfter(known, channel)[n]) <= MaxSubs

Consistent(ph, channel, known, sent, given) ==
  /\ ph \in Phases
  /\ channel \in Seq(Command) /\ Len(channel) <= ChannelSize
  /\ known \in SUBSET Ids /\ sent \in SUBSET Ids
  /\ given \in Seq(Ids) /\ Len(given) <= MaxSubs
  /\ ph = "connected" => known \subseteq sent
  /\ ~Runs(ph) => channel = <<>>
  /\ WithinLimit(known, channel)
  /\ Runs(ph) => RememberedAfter(known, channel)[Len(channel)] = ToSet(given)

(* A list has no more members than places.                                 *)
LEMMA MembersOfList ==
  ASSUME NEW list \in Seq(Ids)
  PROVE  /\ ToSet(list) \in SUBSET Ids /\ IsFiniteSet(ToSet(list))
         /\ Cardinality(ToSet(list)) <= Len(list)
<1> DEFINE f == [i \in 1 .. Len(list) |-> list[i]]
<1>0. Len(list) \in Nat /\ DOMAIN list = 1 .. Len(list)
  OBVIOUS
<1>1. f \in Surjection(1 .. Len(list), ToSet(list))
  BY <1>0 DEF Surjection, ToSet
<1>2. IsFiniteSet(1 .. Len(list)) /\ Cardinality(1 .. Len(list)) = Len(list)
  BY <1>0, FS_Interval
<1>3. IsFiniteSet(ToSet(list)) /\ Cardinality(ToSet(list)) <= Cardinality(1 .. Len(list))
  <2>. HIDE DEF f
  <2>. QED
    BY <1>1, <1>2, FS_Surjection
<1>4. ToSet(list) \in SUBSET Ids
  BY <1>0 DEF ToSet
<1>. QED
  BY <1>2, <1>3, <1>4

(* An empty channel leaves what is known. *)
LEMMA EmptyChannel ==
  ASSUME NEW known
  PROVE  RememberedAfter(known, <<>>)[0] = known /\ Len(<<>>) = 0 /\ <<>> \in Seq(Command)
<1>1. <<>> \in Seq(Command)
  OBVIOUS
<1>. QED
  BY <1>1, AfterSteps

(* A worker that starts. *)
LEMMA StartConsistent ==
  ASSUME NEW given \in Seq(Ids), Len(given) <= MaxSubs, NEW sent \in SUBSET Ids
  PROVE  Consistent("connecting", <<>>, ToSet(given), sent, given)
<1>0. ChannelSize \in Nat /\ MaxSubs \in Nat /\ Len(given) \in Nat
  BY WorkerAssumption, SupervisorAssumption
<1>1. /\ ToSet(given) \in SUBSET Ids /\ IsFiniteSet(ToSet(given))
      /\ Cardinality(ToSet(given)) \in Nat /\ Cardinality(ToSet(given)) <= MaxSubs
  BY <1>0, MembersOfList, FS_CardinalityType
<1>2. /\ RememberedAfter(ToSet(given), <<>>)[0] = ToSet(given) /\ Len(<<>>) = 0
      /\ <<>> \in Seq(Command)
  BY EmptyChannel
<1>3. WithinLimit(ToSet(given), <<>>)
  <2>1. \A n \in 0 .. Len(<<>>) : n = 0
    BY <1>2
  <2>. QED
    BY <1>1, <1>2, <2>1 DEF WithinLimit
<1>. QED
  BY <1>0, <1>1, <1>2, <1>3 DEF Consistent, Phases, Runs

(* A worker that is sent a command, of which the supervisor takes note.    *)
LEMMA SendConsistent ==
  ASSUME NEW ph, NEW channel, NEW known, NEW sent, NEW given,
         Consistent(ph, channel, known, sent, given), Runs(ph), Len(channel) < ChannelSize,
         NEW command \in Command, NEW next \in Seq(Ids), Len(next) <= MaxSubs,
         ToSet(next) = Remembered(ToSet(given), command)
  PROVE  Consistent(ph, Append(channel, command), known, sent, next)
<1>1. PICK longer : longer = Append(channel, command)
  OBVIOUS
<1>2. /\ channel \in Seq(Command) /\ WithinLimit(known, channel)
      /\ RememberedAfter(known, channel)[Len(channel)] = ToSet(given)
      /\ ChannelSize \in Nat /\ MaxSubs \in Nat
  BY WorkerAssumption, SupervisorAssumption DEF Consistent
<1>3. /\ longer \in Seq(Command) /\ Len(longer) = Len(channel) + 1 /\ Len(channel) \in Nat
      /\ Len(longer) <= ChannelSize
  BY <1>1, <1>2
<1>4. /\ \A n \in 0 .. Len(channel) :
            RememberedAfter(known, longer)[n] = RememberedAfter(known, channel)[n]
      /\ RememberedAfter(known, longer)[Len(longer)] = ToSet(next)
  BY <1>1, <1>2, AfterAppend
<1>5. /\ IsFiniteSet(ToSet(next)) /\ Cardinality(ToSet(next)) \in Nat
      /\ Cardinality(ToSet(next)) <= MaxSubs
  <2>1. Len(next) \in Nat
    OBVIOUS
  <2>. QED
    BY <1>2, <2>1, MembersOfList, FS_CardinalityType
<1>6. WithinLimit(known, longer)
  <2>1. ASSUME NEW n \in 0 .. Len(longer)
        PROVE  /\ IsFiniteSet(RememberedAfter(known, longer)[n])
               /\ Cardinality(RememberedAfter(known, longer)[n]) <= MaxSubs
    <3>1. CASE n = Len(longer)
      BY <1>4, <1>5, <3>1
    <3>2. CASE n \in 0 .. Len(channel)
      BY <1>2, <1>4, <3>2 DEF WithinLimit
    <3>. QED
      BY <1>3, <3>1, <3>2
  <2>. QED
    BY <2>1 DEF WithinLimit
<1>7. Consistent(ph, longer, known, sent, next)
  BY <1>3, <1>4, <1>6 DEF Consistent
<1>. QED
  BY <1>1, <1>7

(* A worker that takes a command, and keeps or loses its connection.       *)
LEMMA HandleConsistent ==
  ASSUME NEW ph, NEW channel, NEW known, NEW sent, NEW given,
         Consistent(ph, channel, known, sent, given), Runs(ph), channel # <<>>,
         NEW later \in {"connected", "sleeping"}, NEW has \in SUBSET Ids,
         later = "connected" => Remembered(known, Head(channel)) \subseteq has
  PROVE  Consistent(later, Tail(channel), Remembered(known, Head(channel)), has, given)
<1>1. PICK rest, now : rest = Tail(channel) /\ now = Remembered(known, Head(channel))
  OBVIOUS
<1>2. /\ channel \in Seq(Command) /\ WithinLimit(known, channel) /\ ChannelSize \in Nat
      /\ RememberedAfter(known, channel)[Len(channel)] = ToSet(given)
  BY WorkerAssumption DEF Consistent
<1>3. /\ rest \in Seq(Command) /\ Len(rest) = Len(channel) - 1 /\ Len(rest) \in Nat
      /\ Len(channel) \in Nat /\ Head(channel) \in Command
  BY <1>1, <1>2
<1>4. \A n \in 0 .. Len(rest) : RememberedAfter(now, rest)[n] = RememberedAfter(known, channel)[n + 1]
  BY <1>1, <1>2, <1>3, AfterTail
<1>5. RememberedAfter(now, rest)[Len(rest)] = ToSet(given)
  BY <1>2, <1>3, <1>4
<1>6. WithinLimit(now, rest)
  <2>1. \A n \in 0 .. Len(rest) : n + 1 \in 0 .. Len(channel)
    BY <1>3
  <2>. QED
    BY <1>2, <1>4, <2>1 DEF WithinLimit
<1>7. now \in SUBSET Ids
  BY <1>1, <1>3 DEF Consistent, Remembered, Command
<1>8. Consistent(later, rest, now, has, given)
  <2>1. Len(rest) <= ChannelSize
    BY <1>2, <1>3 DEF Consistent
  <2>. QED
    BY <1>1, <1>3, <1>5, <1>6, <1>7, <2>1 DEF Consistent, Phases, Runs
<1>. QED
  BY <1>1, <1>8

(* A worker whose connection comes or goes. *)
LEMMA ConnectionConsistent ==
  ASSUME NEW ph, NEW channel, NEW known, NEW sent, NEW given,
         Consistent(ph, channel, known, sent, given), Runs(ph),
         NEW later \in {"connecting", "connected", "sleeping"}, NEW has \in SUBSET Ids,
         later = "connected" => known \subseteq has
  PROVE  Consistent(later, channel, known, has, given)
BY DEF Consistent, Phases, Runs

(* A worker that ends. *)
LEMMA StopConsistent ==
  ASSUME NEW ph, NEW channel, NEW known, NEW sent, NEW given,
         Consistent(ph, channel, known, sent, given)
  PROVE  Consistent("stopped", <<>>, known, {}, given)
<1>1. ChannelSize \in Nat
  BY WorkerAssumption
<1>2. /\ RememberedAfter(known, <<>>)[0] = known /\ Len(<<>>) = 0 /\ <<>> \in Seq(Command)
  BY EmptyChannel
<1>3. IsFiniteSet(known) /\ Cardinality(known) <= MaxSubs
  <2>1. channel \in Seq(Command) /\ WithinLimit(known, channel)
    BY DEF Consistent
  <2>2. 0 \in 0 .. Len(channel) /\ RememberedAfter(known, channel)[0] = known
    BY <2>1, AfterSteps
  <2>. QED
    BY <2>1, <2>2 DEF WithinLimit
<1>4. WithinLimit(known, <<>>)
  <2>1. \A n \in 0 .. Len(<<>>) : n = 0
    BY <1>2
  <2>. QED
    BY <1>2, <1>3, <2>1 DEF WithinLimit
<1>. QED
  BY <1>1, <1>2, <1>4 DEF Consistent, Phases, Runs

-----------------------------------------------------------------------------
(* The inductive invariant.                                                *)

Ops == {"ready", "fill", "remove", "stop", "done"}

ShapeInv ==
  /\ phase \in [Workers -> Phases] /\ commands \in [Workers -> Seq(Command)]
  /\ ids \in [Workers -> SUBSET Ids] /\ exchange \in [Workers -> SUBSET Ids]
  /\ assigned \in [Workers -> Seq(Ids)]
  /\ spawned \in 0 .. MaxWorkers
  /\ call \in [op : Ops, left : Seq(Ids), todo : SUBSET Workers]

WorkerOK(w) ==
  /\ Consistent(phase[w], commands[w], ids[w], exchange[w], assigned[w])
  /\ phase[w] = "unborn" <=> w > spawned
  /\ phase[w] = "unborn" => assigned[w] = <<>>

(* Some request names an id at as many places as it is at. *)
CopiesInv ==
  \A id \in Ids :
    \/ Places(id) = {}
    \/ \E request \in Requests : Injects(Places(id), Positions(id, request))

SupervisorInv == ShapeInv /\ (\A w \in Workers : WorkerOK(w)) /\ CopiesInv

-----------------------------------------------------------------------------
(* What a worker's task does.                                              *)

(* A worker that is changed, alone, and stays consistent. *)
LEMMA OneWorker ==
  ASSUME ShapeInv, \A v \in Workers : WorkerOK(v), NEW w \in Workers,
         Consistent(phase'[w], commands'[w], ids'[w], exchange'[w], assigned'[w]),
         phase[w] # "unborn" /\ phase'[w] # "unborn", spawned' = spawned,
         \A v \in Workers \ {w} :
           /\ phase'[v] = phase[v] /\ commands'[v] = commands[v] /\ ids'[v] = ids[v]
           /\ exchange'[v] = exchange[v] /\ assigned'[v] = assigned[v]
  PROVE  \A v \in Workers : WorkerOK(v)'
<1>1. ASSUME NEW v \in Workers \ {w} PROVE WorkerOK(v)'
  <2>1. WorkerOK(v)
    OBVIOUS
  <2>. QED
    BY <1>1, <2>1 DEF WorkerOK
<1>2. WorkerOK(w)'
  <2>1. WorkerOK(w)
    OBVIOUS
  <2>. QED
    BY <2>1 DEF WorkerOK
<1>. QED
  BY <1>1, <1>2

(* Each of its steps keeps it consistent. *)
LEMMA WorkerActs ==
  ASSUME ShapeInv, \A v \in Workers : WorkerOK(v), NEW w \in Workers, WorkerStep(w), Apart
  PROVE  ShapeInv' /\ \A v \in Workers : WorkerOK(v)'
<1>0. /\ Consistent(phase[w], commands[w], ids[w], exchange[w], assigned[w])
      /\ phase[w] \in Phases /\ ids[w] \in SUBSET Ids /\ exchange[w] \in SUBSET Ids
      /\ commands[w] \in Seq(Command)
  BY DEF ShapeInv, WorkerOK
<1>1. CASE Connect(w)
  <2>1. /\ phase' = [phase EXCEPT ![w] = "connected"] /\ commands' = commands /\ ids' = ids
        /\ exchange' = [exchange EXCEPT ![w] = ids[w]] /\ phase[w] = "connecting"
    BY <1>1 DEF Connect
  <2>2. Consistent("connected", commands[w], ids[w], ids[w], assigned[w])
    BY <1>0, <2>1, ConnectionConsistent DEF Runs
  <2>. QED
    BY <1>0, <2>1, <2>2, OneWorker DEF ShapeInv, Apart, Phases
<1>2. CASE ConnectFails(w) \/ Retry(w)
  <2>1. PICK later \in {"sleeping", "connecting"} :
          /\ phase' = [phase EXCEPT ![w] = later] /\ commands' = commands /\ ids' = ids
          /\ exchange' = exchange /\ phase[w] \in {"connecting", "sleeping"}
    BY <1>2 DEF ConnectFails, Retry
  <2>2. Consistent(later, commands[w], ids[w], exchange[w], assigned[w])
    BY <1>0, <2>1, ConnectionConsistent DEF Runs
  <2>. QED
    BY <1>0, <2>1, <2>2, OneWorker DEF ShapeInv, Apart, Phases
<1>3. CASE Disconnect(w)
  <2>1. /\ phase' = [phase EXCEPT ![w] = "sleeping"] /\ commands' = commands /\ ids' = ids
        /\ exchange' = [exchange EXCEPT ![w] = {}] /\ phase[w] = "connected"
    BY <1>3 DEF Disconnect
  <2>2. Consistent("sleeping", commands[w], ids[w], {}, assigned[w])
    BY <1>0, <2>1, ConnectionConsistent DEF Runs
  <2>. QED
    BY <1>0, <2>1, <2>2, OneWorker DEF ShapeInv, Apart, Phases
<1>4. CASE HandleCommand(w)
  <2>0. PICK later \in {"connected", "sleeping"} :
          \E has : /\ phase' = [phase EXCEPT ![w] = later]
                  /\ exchange' = [exchange EXCEPT ![w] = has]
                  /\ \/ later = "connected" /\ has \in SentAfter(exchange[w], Head(commands[w]))
                     \/ later = "sleeping" /\ has = {}
    <3>1. CASE \E sent \in SentAfter(exchange[w], Head(commands[w])) :
                 exchange' = [exchange EXCEPT ![w] = sent] /\ phase' = phase
      <4>1. phase = [phase EXCEPT ![w] = "connected"]
        BY <1>4 DEF HandleCommand, ShapeInv
      <4>. QED
        BY <3>1, <4>1
    <3>. QED
      BY <1>4, <3>1 DEF HandleCommand
  <2>1. PICK has :
          /\ phase' = [phase EXCEPT ![w] = later]
          /\ exchange' = [exchange EXCEPT ![w] = has]
          /\ \/ later = "connected" /\ has \in SentAfter(exchange[w], Head(commands[w]))
             \/ later = "sleeping" /\ has = {}
    BY <2>0
  <2>2. /\ commands' = [commands EXCEPT ![w] = Tail(commands[w])]
        /\ ids' = [ids EXCEPT ![w] = Remembered(ids[w], Head(commands[w]))]
        /\ phase[w] = "connected" /\ commands[w] # <<>>
    BY <1>4 DEF HandleCommand
  <2>3. Head(commands[w]) \in Command /\ Tail(commands[w]) \in Seq(Command)
    BY <1>0, <2>2
  <2>4. ids[w] \subseteq exchange[w]
    BY <1>0, <2>2 DEF Consistent
  <2>5. has \in SUBSET Ids /\ (later = "connected" => Remembered(ids[w], Head(commands[w])) \subseteq has)
    BY <1>0, <2>1, <2>3, <2>4 DEF SentAfter, Remembered, Command
  <2>6. Consistent(later, Tail(commands[w]), Remembered(ids[w], Head(commands[w])), has, assigned[w])
    BY <1>0, <2>1, <2>2, <2>5, HandleConsistent DEF Runs
  <2>7. Remembered(ids[w], Head(commands[w])) \in SUBSET Ids
    BY <2>6 DEF Consistent
  <2>. QED
    BY <1>0, <2>1, <2>2, <2>3, <2>5, <2>6, <2>7, OneWorker DEF ShapeInv, Apart, Phases
<1>5. CASE HandleShutdown(w) \/ Panic(w)
  <2>1. /\ phase' = [phase EXCEPT ![w] = "stopped"] /\ ids' = ids
        /\ commands' = [commands EXCEPT ![w] = <<>>] /\ exchange' = [exchange EXCEPT ![w] = {}]
        /\ phase[w] # "unborn"
    BY <1>5 DEF HandleShutdown, Panic, Running
  <2>2. Consistent("stopped", <<>>, ids[w], {}, assigned[w])
    BY <1>0, StopConsistent
  <2>3. <<>> \in Seq(Command)
    OBVIOUS
  <2>. QED
    BY <1>0, <2>1, <2>2, <2>3, OneWorker DEF ShapeInv, Apart, Phases
<1>. QED
  BY <1>1, <1>2, <1>3, <1>4, <1>5 DEF WorkerStep, Attempt, Handle

(* A command that the supervisor sends, and its note of it, keep it so.    *)
LEMMA SendActs ==
  ASSUME ShapeInv, \A v \in Workers : WorkerOK(v), NEW w \in Workers,
         NEW command \in Command, Send(w, command),
         NEW next \in Seq(Ids), Len(next) <= MaxSubs,
         ToSet(next) = Remembered(ToSet(assigned[w]), command),
         assigned' = [assigned EXCEPT ![w] = next], spawned' = spawned,
         call' \in [op : Ops, left : Seq(Ids), todo : SUBSET Workers]
  PROVE  ShapeInv' /\ \A v \in Workers : WorkerOK(v)'
<1>0. /\ Consistent(phase[w], commands[w], ids[w], exchange[w], assigned[w])
      /\ commands[w] \in Seq(Command)
  BY DEF ShapeInv, WorkerOK
<1>1. /\ Runs(phase[w]) /\ Len(commands[w]) < ChannelSize
      /\ commands' = [commands EXCEPT ![w] = Append(commands[w], command)]
      /\ phase' = phase /\ ids' = ids /\ exchange' = exchange
  BY DEF Send, Running, Runs
<1>2. Consistent(phase[w], Append(commands[w], command), ids[w], exchange[w], next)
  BY <1>0, <1>1, SendConsistent
<1>3. ShapeInv'
  BY <1>0, <1>1 DEF ShapeInv
<1>4. /\ phase[w] # "unborn" /\ phase'[w] # "unborn"
      /\ Consistent(phase'[w], commands'[w], ids'[w], exchange'[w], assigned'[w])
  BY <1>1, <1>2 DEF ShapeInv, Runs
<1>. QED
  BY <1>1, <1>3, <1>4, OneWorker

(* The workers are as they were. *)
LEMMA QuietActs ==
  ASSUME ShapeInv, \A v \in Workers : WorkerOK(v),
         UNCHANGED <<workerVars, spawned, assigned>>,
         call' \in [op : Ops, left : Seq(Ids), todo : SUBSET Workers]
  PROVE  ShapeInv' /\ \A v \in Workers : WorkerOK(v)'
BY DEF ShapeInv, WorkerOK, workerVars

-----------------------------------------------------------------------------
(* What the supervisor does to the workers.                                *)

(* A list cut in two. *)
LEMMA Cut ==
  ASSUME NEW list \in Seq(Ids), NEW n \in Nat
  PROVE  /\ First(list, n) \in Seq(Ids) /\ Rest(list, n) \in Seq(Ids)
         /\ Len(First(list, n)) <= n
         /\ Len(list) = Len(First(list, n)) + Len(Rest(list, n))
         /\ \A i \in DOMAIN First(list, n) : First(list, n)[i] = list[i]
         /\ \A i \in DOMAIN Rest(list, n) : Rest(list, n)[i] = list[Len(First(list, n)) + i]
<1>1. PICK k \in 0 .. Len(list) : k = Least(n, Len(list)) /\ k <= n
  BY DEF Least
<1>2. /\ Len(list) \in Nat /\ First(list, n) = SubSeq(list, 1, k)
      /\ Rest(list, n) = SubSeq(list, k + 1, Len(list))
  BY <1>1 DEF First, Rest
<1>3. /\ SubSeq(list, 1, k) \in Seq(Ids) /\ Len(SubSeq(list, 1, k)) = k
      /\ \A i \in 1 .. k : SubSeq(list, 1, k)[i] = list[i]
  BY <1>1, <1>2
<1>4. /\ SubSeq(list, k + 1, Len(list)) \in Seq(Ids)
      /\ Len(SubSeq(list, k + 1, Len(list))) = Len(list) - k
      /\ \A i \in 1 .. (Len(list) - k) : SubSeq(list, k + 1, Len(list))[i] = list[k + i]
  BY <1>1, <1>2
<1>5. PICK f, r : f = First(list, n) /\ r = Rest(list, n)
  OBVIOUS
<1>6. /\ f \in Seq(Ids) /\ Len(f) = k /\ r \in Seq(Ids) /\ Len(r) = Len(list) - k
      /\ \A i \in 1 .. k : f[i] = list[i]
      /\ \A i \in 1 .. (Len(list) - k) : r[i] = list[k + i]
  BY <1>2, <1>3, <1>4, <1>5
<1>7. DOMAIN f = 1 .. k /\ DOMAIN r = 1 .. (Len(list) - k)
  BY <1>6
<1>8. Len(list) = Len(f) + Len(r) /\ Len(f) <= n
  BY <1>1, <1>2, <1>6
<1>. QED
  BY <1>5, <1>6, <1>7, <1>8

(* The members of two lists in a row are those of both. *)
LEMMA MembersOfBoth ==
  ASSUME NEW one \in Seq(Ids), NEW two \in Seq(Ids)
  PROVE  /\ one \o two \in Seq(Ids) /\ Len(one \o two) = Len(one) + Len(two)
         /\ ToSet(one \o two) = ToSet(one) \union ToSet(two)
         /\ \A i \in DOMAIN one : (one \o two)[i] = one[i]
         /\ \A i \in DOMAIN two : (one \o two)[Len(one) + i] = two[i]
<1>1. PICK both : both = one \o two
  OBVIOUS
<1>2. /\ both \in Seq(Ids) /\ Len(both) = Len(one) + Len(two) /\ Len(one) \in Nat /\ Len(two) \in Nat
      /\ \A i \in DOMAIN one : both[i] = one[i]
      /\ \A i \in DOMAIN two : both[Len(one) + i] = two[i]
      /\ DOMAIN one = 1 .. Len(one) /\ DOMAIN two = 1 .. Len(two)
      /\ DOMAIN both = 1 .. (Len(one) + Len(two))
  BY <1>1
<1>3. ASSUME NEW x \in ToSet(both) PROVE x \in ToSet(one) \union ToSet(two)
  <2>1. PICK i \in 1 .. (Len(one) + Len(two)) : x = both[i]
    BY <1>2, <1>3 DEF ToSet
  <2>2. CASE i \in 1 .. Len(one)
    BY <1>2, <2>1, <2>2 DEF ToSet
  <2>3. CASE i - Len(one) \in 1 .. Len(two)
    <3>1. both[Len(one) + (i - Len(one))] = two[i - Len(one)] /\ Len(one) + (i - Len(one)) = i
      BY <1>2, <2>1, <2>3
    <3>. QED
      BY <1>2, <2>1, <2>3, <3>1 DEF ToSet
  <2>. QED
    BY <1>2, <2>1, <2>2, <2>3
<1>4. ASSUME NEW x \in ToSet(one) \union ToSet(two) PROVE x \in ToSet(both)
  <2>1. CASE \E i \in DOMAIN one : x = one[i]
    BY <1>2, <2>1 DEF ToSet
  <2>2. CASE \E i \in DOMAIN two : x = two[i]
    <3>1. PICK i \in DOMAIN two : x = two[i]
      BY <2>2
    <3>2. Len(one) + i \in DOMAIN both /\ both[Len(one) + i] = x
      BY <1>2, <3>1
    <3>. QED
      BY <3>2 DEF ToSet
  <2>. QED
    BY <1>4, <2>1, <2>2 DEF ToSet
<1>. QED
  BY <1>1, <1>2, <1>3, <1>4

(* What an operation has left is a list of ids. *)
LEMMA DoingType ==
  ASSUME NEW op \in Ops, NEW left \in Seq(Ids), NEW todo \in SUBSET Workers
  PROVE  Doing(op, left, todo) \in [op : Ops, left : Seq(Ids), todo : SUBSET Workers]
BY DEF Doing

(* Filling a worker up. *)
LEMMA FillActs ==
  ASSUME ShapeInv, \A v \in Workers : WorkerOK(v), NEW w \in Workers, Fill(w)
  PROVE  ShapeInv' /\ \A v \in Workers : WorkerOK(v)'
<1> DEFINE chunk == First(call.left, Available(w))
           rest == Rest(call.left, Available(w))
<1>1. /\ call.left \in Seq(Ids) /\ call.todo \in SUBSET Workers /\ assigned[w] \in Seq(Ids)
      /\ Available(w) \in Nat /\ MaxSubs \in Nat /\ Len(assigned[w]) \in Nat
  BY SupervisorAssumption DEF ShapeInv, Available
<1>2. chunk \in Seq(Ids) /\ rest \in Seq(Ids) /\ Len(chunk) <= Available(w) /\ Len(chunk) \in Nat
  <2>1. chunk \in Seq(Ids) /\ rest \in Seq(Ids) /\ Len(chunk) <= Available(w)
    BY <1>1, Cut
  <2>. HIDE DEF chunk
  <2>. QED
    BY <2>1
<1>3. call.todo \ {w} \in SUBSET Workers /\ "fill" \in Ops
  BY <1>1 DEF Ops
<1>4. CASE Available(w) > 0 /\ Send(w, Subscribe(ToSet(chunk)))
           /\ assigned' = [assigned EXCEPT ![w] = assigned[w] \o chunk]
           /\ call' = Doing("fill", rest, call.todo \ {w})
  <2>1. /\ ToSet(chunk) \in SUBSET Ids /\ Subscribe(ToSet(chunk)) \in Command
    BY <1>2, MembersOfList DEF Subscribe, Command
  <2>2. /\ assigned[w] \o chunk \in Seq(Ids) /\ Len(assigned[w] \o chunk) = Len(assigned[w]) + Len(chunk)
        /\ ToSet(assigned[w] \o chunk) = ToSet(assigned[w]) \union ToSet(chunk)
    BY <1>1, <1>2, MembersOfBoth
  <2>3. Len(assigned[w] \o chunk) <= MaxSubs
    <3>1. Len(assigned[w]) + Available(w) <= MaxSubs
      <4>1. Available(w) > 0
        BY <1>4
      <4>2. Available(w) = MaxSubs - Len(assigned[w])
        <5>1. CASE Len(assigned[w]) < MaxSubs
          BY <5>1 DEF Available
        <5>2. CASE ~(Len(assigned[w]) < MaxSubs)
          <6>1. Available(w) = 0
            BY <5>2 DEF Available
          <6>. QED
            BY <4>1, <6>1
        <5>. QED
          BY <5>1, <5>2
      <4>. QED
        BY <1>1, <4>2
    <3>. HIDE DEF chunk
    <3>. QED
      BY <1>1, <1>2, <2>2, <3>1
  <2>4. ToSet(assigned[w] \o chunk) = Remembered(ToSet(assigned[w]), Subscribe(ToSet(chunk)))
    BY <2>2 DEF Remembered, Subscribe
  <2>5. call' \in [op : Ops, left : Seq(Ids), todo : SUBSET Workers]
    BY <1>2, <1>3, <1>4, DoingType
  <2>6. spawned' = spawned
    BY DEF Fill
  <2>. HIDE DEF chunk, rest
  <2>. QED
    BY <1>4, <2>1, <2>2, <2>3, <2>4, <2>5, <2>6, SendActs
<1>5. CASE call' = Doing("fill", rest \o chunk, call.todo \ {w}) /\ UNCHANGED <<workerVars, assigned>>
  <2>1. rest \o chunk \in Seq(Ids)
    BY <1>2, MembersOfBoth
  <2>2. call' \in [op : Ops, left : Seq(Ids), todo : SUBSET Workers]
    BY <1>3, <1>5, <2>1, DoingType
  <2>3. spawned' = spawned
    BY DEF Fill
  <2>. QED
    BY <1>5, <2>2, <2>3, QuietActs
<1>. QED
  BY <1>4, <1>5 DEF Fill

(* Spawning a worker. *)
LEMMA SpawnActs ==
  ASSUME ShapeInv, \A v \in Workers : WorkerOK(v), NEW w \in Workers, Spawn(w)
  PROVE  ShapeInv' /\ \A v \in Workers : WorkerOK(v)'
<1> DEFINE chunk == First(call.left, MaxSubs)
           rest == Rest(call.left, MaxSubs)
<1>1. /\ call.left \in Seq(Ids) /\ MaxSubs \in Nat /\ MaxWorkers \in Nat
      /\ spawned \in Nat /\ Workers = 1 .. MaxWorkers /\ exchange[w] \in SUBSET Ids
  BY SupervisorAssumption, WorkerAssumption DEF ShapeInv, Workers
<1>2. chunk \in Seq(Ids) /\ rest \in Seq(Ids) /\ Len(chunk) <= MaxSubs /\ ToSet(chunk) \in SUBSET Ids
  BY <1>1, Cut, MembersOfList
<1>3. /\ w = spawned + 1 /\ spawned' = w
      /\ phase' = [phase EXCEPT ![w] = "connecting"] /\ ids' = [ids EXCEPT ![w] = ToSet(chunk)]
      /\ commands' = commands /\ exchange' = exchange
      /\ assigned' = [assigned EXCEPT ![w] = chunk] /\ call' = Doing("fill", rest, {})
  BY DEF Spawn, Start
<1>4. WorkerOK(w) /\ phase[w] = "unborn" /\ commands[w] = <<>>
  <2>1. WorkerOK(w)
    OBVIOUS
  <2>2. phase[w] = "unborn"
    BY <1>1, <1>3, <2>1 DEF WorkerOK
  <2>. QED
    BY <2>1, <2>2 DEF WorkerOK, Consistent, Runs
<1>5. Consistent("connecting", <<>>, ToSet(chunk), exchange[w], chunk)
  BY <1>1, <1>2, StartConsistent
<1>6. ShapeInv'
  <2>1. call' \in [op : Ops, left : Seq(Ids), todo : SUBSET Workers]
    BY <1>2, <1>3, DoingType DEF Ops
  <2>2. spawned' \in 0 .. MaxWorkers
    BY <1>1, <1>3
  <2>. HIDE DEF chunk, rest
  <2>. QED
    BY <1>2, <1>3, <2>1, <2>2 DEF ShapeInv, Phases
<1>. HIDE DEF chunk, rest
<1>7. WorkerOK(w)'
  <2>1. Consistent(phase'[w], commands'[w], ids'[w], exchange'[w], assigned'[w]) /\ phase'[w] = "connecting"
    BY <1>3, <1>4, <1>5 DEF ShapeInv
  <2>2. ~(w > spawned')
    BY <1>1, <1>3
  <2>. QED
    BY <2>1, <2>2 DEF WorkerOK
<1>8. ASSUME NEW v \in Workers \ {w} PROVE WorkerOK(v)'
  <2>1. WorkerOK(v)
    OBVIOUS
  <2>2. v > spawned' <=> v > spawned
    BY <1>1, <1>3
  <2>. QED
    BY <1>3, <2>1, <2>2 DEF WorkerOK, ShapeInv
<1>. QED
  BY <1>6, <1>7, <1>8

(* Taking ids from a worker. *)
LEMMA WithdrawActs ==
  ASSUME ShapeInv, \A v \in Workers : WorkerOK(v), NEW w \in Workers, Withdraw(w)
  PROVE  ShapeInv' /\ \A v \in Workers : WorkerOK(v)'
<1> DEFINE removed == ToSet(call.left) \intersect ToSet(assigned[w])
           fewer == Without(assigned[w], removed)
<1>1. /\ call.left \in Seq(Ids) /\ call.todo \ {w} \in SUBSET Workers /\ assigned[w] \in Seq(Ids)
      /\ Len(assigned[w]) <= MaxSubs /\ MaxSubs \in Nat /\ Len(assigned[w]) \in Nat
  BY SupervisorAssumption DEF ShapeInv, WorkerOK, Consistent
<1>2. /\ fewer \in Seq(Ids) /\ Len(fewer) <= Len(assigned[w])
      /\ ToSet(fewer) = ToSet(assigned[w]) \ removed
  BY <1>1, WithoutPicks
<1>3. /\ call' \in [op : Ops, left : Seq(Ids), todo : SUBSET Workers]
      /\ spawned' = spawned
  BY <1>1, DoingType DEF Withdraw, Ops
<1>4. CASE Send(w, Unsubscribe(removed)) /\ assigned' = [assigned EXCEPT ![w] = fewer]
  <2>1. Unsubscribe(removed) \in Command
    BY <1>1, MembersOfList DEF Unsubscribe, Command
  <2>2. ToSet(fewer) = Remembered(ToSet(assigned[w]), Unsubscribe(removed))
    BY <1>2 DEF Remembered, Unsubscribe
  <2>3. Len(fewer) <= MaxSubs
    <3>. HIDE DEF fewer
    <3>1. Len(fewer) \in Nat
      BY <1>2
    <3>. QED
      BY <1>1, <1>2, <3>1
  <2>. HIDE DEF fewer, removed
  <2>. QED
    BY <1>2, <1>3, <1>4, <2>1, <2>2, <2>3, SendActs
<1>5. CASE UNCHANGED <<workerVars, assigned>>
  BY <1>3, <1>5, QuietActs
<1>. QED
  BY <1>4, <1>5 DEF Withdraw

(* Stopping a worker. *)
LEMMA StopActs ==
  ASSUME ShapeInv, \A v \in Workers : WorkerOK(v), NEW w \in Workers, StopWorker(w)
  PROVE  ShapeInv' /\ \A v \in Workers : WorkerOK(v)'
<1>1. /\ call.todo \ {w} \in SUBSET Workers /\ assigned[w] \in Seq(Ids)
      /\ Len(assigned[w]) <= MaxSubs /\ <<>> \in Seq(Ids)
  BY DEF ShapeInv, WorkerOK, Consistent
<1>2. /\ call' \in [op : Ops, left : Seq(Ids), todo : SUBSET Workers]
      /\ spawned' = spawned /\ assigned' = assigned
  BY <1>1, DoingType DEF StopWorker, Ops
<1>3. CASE Send(w, Shutdown)
  <2>1. Shutdown \in Command
    BY DEF Shutdown, Command
  <2>2. ToSet(assigned[w]) = Remembered(ToSet(assigned[w]), Shutdown)
    BY DEF Remembered, Shutdown
  <2>3. assigned' = [assigned EXCEPT ![w] = assigned[w]]
    BY <1>2 DEF ShapeInv
  <2>. QED
    BY <1>1, <1>2, <1>3, <2>1, <2>2, <2>3, SendActs
<1>4. CASE UNCHANGED workerVars
  BY <1>2, <1>4, QuietActs
<1>. QED
  BY <1>3, <1>4 DEF StopWorker

-----------------------------------------------------------------------------
(* Where the ids are.                                                      *)

Hands == {0} \union Workers

PlacesIn(id, lists) == UNION {{w} \X Positions(id, lists[w]) : w \in Hands}

(* A place is a hand and a position of its list. *)
LEMMA PlaceIs ==
  ASSUME NEW id, NEW lists
  PROVE  /\ \A w \in Hands : \A i \in DOMAIN lists[w] :
              lists[w][i] = id => <<w, i>> \in PlacesIn(id, lists)
         /\ \A z \in PlacesIn(id, lists) :
              /\ z = <<z[1], z[2]>> /\ z[1] \in Hands
              /\ z[2] \in DOMAIN lists[z[1]] /\ lists[z[1]][z[2]] = id
BY DEF PlacesIn, Positions

(* Workers are not the hand that gives. *)
LEMMA HandsAre == Hands \subseteq Nat /\ 0 \in Hands /\ Workers \subseteq Hands /\ 0 \notin Workers
BY WorkerAssumption DEF Hands, Workers

(* Ids that go from the front of the list being given to the end of a      *)
(* worker's are at no more places than they were.                          *)
LEMMA GiveAway ==
  ASSUME NEW id, NEW w \in Workers,
         NEW lists \in [Hands -> Seq(Ids)], NEW next \in [Hands -> Seq(Ids)],
         NEW chunk \in Seq(Ids), next[w] = lists[w] \o chunk,
         Len(lists[0]) = Len(chunk) + Len(next[0]),
         \A i \in DOMAIN chunk : chunk[i] = lists[0][i],
         \A i \in DOMAIN next[0] : next[0][i] = lists[0][Len(chunk) + i],
         \A v \in Workers \ {w} : next[v] = lists[v]
  PROVE  Injects(PlacesIn(id, next), PlacesIn(id, lists))
<1>0. PICK k \in Nat, n \in Nat, r \in Nat :
        /\ k = Len(chunk) /\ n = Len(lists[w]) /\ r = Len(next[0])
        /\ DOMAIN chunk = 1 .. k /\ DOMAIN lists[w] = 1 .. n /\ DOMAIN next[w] = 1 .. (n + k)
        /\ DOMAIN next[0] = 1 .. r /\ DOMAIN lists[0] = 1 .. (k + r)
        /\ \A i \in 1 .. n : next[w][i] = lists[w][i]
        /\ \A i \in 1 .. k : next[w][n + i] = chunk[i]
  <2>1. /\ lists[w] \in Seq(Ids) /\ lists[0] \in Seq(Ids) /\ next[0] \in Seq(Ids) /\ next[w] \in Seq(Ids)
    BY HandsAre
  <2>2. /\ Len(next[w]) = Len(lists[w]) + Len(chunk)
        /\ \A i \in DOMAIN lists[w] : next[w][i] = lists[w][i]
        /\ \A i \in DOMAIN chunk : next[w][Len(lists[w]) + i] = chunk[i]
    BY <2>1, MembersOfBoth
  <2>3. /\ Len(chunk) \in Nat /\ Len(lists[w]) \in Nat /\ Len(next[0]) \in Nat
        /\ DOMAIN chunk = 1 .. Len(chunk) /\ DOMAIN lists[w] = 1 .. Len(lists[w])
        /\ DOMAIN next[w] = 1 .. Len(next[w]) /\ DOMAIN next[0] = 1 .. Len(next[0])
        /\ DOMAIN lists[0] = 1 .. Len(lists[0])
    BY <2>1
  <2>4. /\ DOMAIN next[w] = 1 .. (Len(lists[w]) + Len(chunk))
        /\ DOMAIN lists[0] = 1 .. (Len(chunk) + Len(next[0]))
        /\ \A i \in 1 .. Len(lists[w]) : next[w][i] = lists[w][i]
        /\ \A i \in 1 .. Len(chunk) : next[w][Len(lists[w]) + i] = chunk[i]
    BY <2>2, <2>3
  <2>5. PICK k, n, r : k = Len(chunk) /\ n = Len(lists[w]) /\ r = Len(next[0])
    OBVIOUS
  <2>. QED
    BY <2>3, <2>4, <2>5
<1>1. \A v \in Hands : v \in Nat /\ (v = 0 \/ v = w \/ (v \in Workers \ {w} /\ v # 0)) /\ w # 0
  BY HandsAre DEF Hands
<1> DEFINE P == PlacesIn(id, lists)
           Q == PlacesIn(id, next)
           back(z) == IF z[1] = 0 THEN <<0, k + z[2]>>
                      ELSE IF z[1] = w /\ z[2] > n THEN <<0, z[2] - n>> ELSE z
           f == [z \in Q |-> back(z)]
<1>2. ASSUME NEW z \in Q
      PROVE  /\ z = <<z[1], z[2]>> /\ z[1] \in Hands /\ z[2] \in DOMAIN next[z[1]] /\ next[z[1]][z[2]] = id
             /\ z[1] \in Nat
             /\ z[1] = 0 => z[2] \in 1 .. r
             /\ z[1] = w => z[2] \in 1 .. (n + k)
  <2>1. z = <<z[1], z[2]>> /\ z[1] \in Hands /\ z[2] \in DOMAIN next[z[1]] /\ next[z[1]][z[2]] = id
    BY PlaceIs
  <2>. QED
    BY <1>0, <1>1, <2>1
<1>3. ASSUME NEW v \in Hands, NEW i \in DOMAIN lists[v], lists[v][i] = id PROVE <<v, i>> \in P
  BY <1>3, PlaceIs
<1>. HIDE DEF P, Q
<1>4. ASSUME NEW z \in Q PROVE back(z) \in P
  <2>1. CASE z[1] = 0
    <3>1. z[2] \in 1 .. r /\ next[0][z[2]] = id /\ 0 \in Hands
      BY <1>2, <2>1, HandsAre
    <3>2. k + z[2] \in DOMAIN lists[0] /\ lists[0][k + z[2]] = id
      BY <1>0, <3>1
    <3>. QED
      BY <1>3, <2>1, <3>1, <3>2
  <2>2. CASE z[1] = w /\ z[2] > n
    <3>1. z[2] \in 1 .. (n + k) /\ next[w][z[2]] = id /\ 0 \in Hands /\ w # 0
      BY <1>1, <1>2, <2>2, HandsAre
    <3>2. z[2] - n \in 1 .. k /\ n + (z[2] - n) = z[2] /\ z[2] - n \in 1 .. (k + r)
      BY <2>2, <3>1
    <3>3. lists[0][z[2] - n] = id
      <4>1. next[w][n + (z[2] - n)] = chunk[z[2] - n] /\ chunk[z[2] - n] = lists[0][z[2] - n]
        BY <1>0, <3>2
      <4>. QED
        BY <3>1, <3>2, <4>1
    <3>4. z[2] - n \in DOMAIN lists[0]
      BY <1>0, <3>2
    <3>5. <<0, z[2] - n>> \in P
      BY <1>3, <3>1, <3>3, <3>4
    <3>. QED
      BY <2>2, <3>1, <3>5
  <2>3. CASE z[1] = w /\ ~(z[2] > n)
    <3>1. z[2] \in 1 .. n /\ next[w][z[2]] = id /\ w \in Hands /\ w # 0 /\ z = <<w, z[2]>>
      BY <1>1, <1>2, <2>3, HandsAre
    <3>2. z[2] \in DOMAIN lists[w] /\ lists[w][z[2]] = id
      BY <1>0, <3>1
    <3>3. z \in P
      BY <1>3, <3>1, <3>2
    <3>. QED
      BY <2>3, <3>1, <3>3
  <2>4. CASE z[1] \in Workers \ {w} /\ z[1] # 0
    <3>1. next[z[1]] = lists[z[1]]
      BY <2>4
    <3>2. z \in P
      BY <1>2, <1>3, <3>1
    <3>. QED
      BY <2>4, <3>2
  <2>. QED
    BY <1>1, <1>2, <2>1, <2>2, <2>3, <2>4
<1>5. ASSUME NEW y \in Q, NEW z \in Q, back(y) = back(z) PROVE y = z
  <2>1. /\ y = <<y[1], y[2]>> /\ z = <<z[1], z[2]>> /\ w # 0
        /\ y[1] = 0 => y[2] \in 1 .. r
        /\ y[1] = w => y[2] \in 1 .. (n + k)
        /\ z[1] = 0 => z[2] \in 1 .. r
        /\ z[1] = w => z[2] \in 1 .. (n + k)
    BY <1>1, <1>2
  <2>2. CASE y[1] = 0 /\ z[1] = 0
    <3>1. k + y[2] = k + z[2]
      BY <1>5, <2>2
    <3>2. y[2] = z[2]
      BY <1>0, <2>1, <2>2, <3>1
    <3>. QED
      BY <2>1, <2>2, <3>2
  <2>3. CASE y[1] = w /\ y[2] > n /\ z[1] = w /\ z[2] > n
    <3>1. y[2] - n = z[2] - n
      BY <1>5, <2>1, <2>3
    <3>2. y[2] = z[2]
      BY <1>0, <2>1, <2>3, <3>1
    <3>. QED
      BY <2>1, <2>3, <3>2
  <2>4. CASE y[1] = 0 /\ z[1] = w /\ z[2] > n
    <3>1. k + y[2] = z[2] - n
      BY <1>5, <2>1, <2>4
    <3>. QED
      BY <2>1, <2>4, <3>1
  <2>5. CASE z[1] = 0 /\ y[1] = w /\ y[2] > n
    <3>1. k + z[2] = y[2] - n
      BY <1>5, <2>1, <2>5
    <3>. QED
      BY <2>1, <2>5, <3>1
  <2>6. CASE ~(y[1] = 0) /\ ~(y[1] = w /\ y[2] > n)
    <3>1. back(y) = y /\ y[1] # 0
      BY <2>6
    <3>2. back(z)[1] # 0
      BY <1>5, <3>1
    <3>. QED
      BY <1>5, <3>1, <3>2
  <2>7. CASE ~(z[1] = 0) /\ ~(z[1] = w /\ z[2] > n)
    <3>1. back(z) = z /\ z[1] # 0
      BY <2>7
    <3>2. back(y)[1] # 0
      BY <1>5, <3>1
    <3>. QED
      BY <1>5, <3>1, <3>2
  <2>. QED
    BY <2>2, <2>3, <2>4, <2>5, <2>6, <2>7
<1>6. f \in [Q -> P] /\ \A y, z \in Q : f[y] = f[z] => y = z
  <2>. HIDE DEF back
  <2>. QED
    BY <1>4, <1>5
<1>7. Injects(Q, P)
  <2>. HIDE DEF f
  <2>. QED
    BY <1>6 DEF Injects
<1>. QED
  BY <1>7 DEF P, Q

(* A list whose entries come from places of their own in what it was.      *)
LEMMA Rearrange ==
  ASSUME NEW id, NEW v \in Hands, NEW lists, NEW next,
         NEW from \in [DOMAIN next[v] -> DOMAIN lists[v]],
         \A i, j \in DOMAIN next[v] : from[i] = from[j] => i = j,
         \A i \in DOMAIN next[v] : next[v][i] = lists[v][from[i]],
         \A u \in Hands \ {v} : next[u] = lists[u]
  PROVE  Injects(PlacesIn(id, next), PlacesIn(id, lists))
<1> DEFINE P == PlacesIn(id, lists)
           Q == PlacesIn(id, next)
           back(z) == IF z[1] = v THEN <<v, from[z[2]]>> ELSE z
           f == [z \in Q |-> back(z)]
<1>1. ASSUME NEW z \in Q
      PROVE  /\ z = <<z[1], z[2]>> /\ z[1] \in Hands
             /\ z[2] \in DOMAIN next[z[1]] /\ next[z[1]][z[2]] = id
  BY PlaceIs
<1>2. ASSUME NEW u \in Hands, NEW i \in DOMAIN lists[u], lists[u][i] = id PROVE <<u, i>> \in P
  BY <1>2, PlaceIs
<1>. HIDE DEF P, Q
<1>3. ASSUME NEW z \in Q PROVE back(z) \in P
  <2>1. CASE z[1] = v
    <3>1. from[z[2]] \in DOMAIN lists[v] /\ lists[v][from[z[2]]] = id
      BY <1>1, <2>1
    <3>. QED
      BY <1>2, <2>1, <3>1
  <2>2. CASE z[1] # v
    <3>1. next[z[1]] = lists[z[1]]
      BY <1>1, <2>2
    <3>2. z \in P
      BY <1>1, <1>2, <3>1
    <3>. QED
      BY <2>2, <3>2
  <2>. QED
    BY <2>1, <2>2
<1>4. ASSUME NEW y \in Q, NEW z \in Q, back(y) = back(z) PROVE y = z
  <2>1. /\ y = <<y[1], y[2]>> /\ y[2] \in DOMAIN next[y[1]]
        /\ z = <<z[1], z[2]>> /\ z[2] \in DOMAIN next[z[1]]
    BY <1>1
  <2>2. CASE y[1] = v /\ z[1] = v
    <3>1. from[y[2]] = from[z[2]]
      BY <1>4, <2>2
    <3>2. y[2] = z[2]
      BY <2>1, <2>2, <3>1
    <3>. QED
      BY <2>1, <2>2, <3>2
  <2>3. CASE y[1] # v \/ z[1] # v
    <3>1. back(y)[1] = y[1] /\ back(z)[1] = z[1]
      BY <2>1
    <3>2. y[1] # v /\ z[1] # v
      BY <1>4, <2>3, <3>1
    <3>. QED
      BY <1>4, <3>2
  <2>. QED
    BY <2>2, <2>3
<1>5. f \in [Q -> P] /\ \A y, z \in Q : f[y] = f[z] => y = z
  <2>. HIDE DEF back
  <2>. QED
    BY <1>3, <1>4
<1>6. Injects(Q, P)
  <2>. HIDE DEF f
  <2>. QED
    BY <1>5 DEF Injects
<1>. QED
  BY <1>6 DEF P, Q

(* A list is two others in a row. *)
IsRow(list, one, two) ==
  /\ Len(list) = Len(one) + Len(two)
  /\ \A i \in DOMAIN one : list[i] = one[i]
  /\ \A i \in DOMAIN two : list[Len(one) + i] = two[i]

(* The entries of a list come from places of their own in another one.     *)
ComesFrom(list, before) ==
  \E from \in [DOMAIN list -> DOMAIN before] :
    /\ \A i, j \in DOMAIN list : from[i] = from[j] => i = j
    /\ \A i \in DOMAIN list : list[i] = before[from[i]]

(* A list whose front goes behind its rest. *)
LEMMA Rotated ==
  ASSUME NEW list \in Seq(Ids), NEW chunk \in Seq(Ids), NEW rest \in Seq(Ids),
         NEW both \in Seq(Ids), IsRow(list, chunk, rest), IsRow(both, rest, chunk)
  PROVE  ComesFrom(both, list)
<1>1. PICK k, r : k = Len(chunk) /\ r = Len(rest)
  OBVIOUS
<1>2. /\ k \in Nat /\ r \in Nat /\ DOMAIN both = 1 .. (r + k) /\ DOMAIN list = 1 .. (k + r)
      /\ \A i \in 1 .. r : both[i] = list[k + i]
      /\ \A i \in 1 .. k : both[r + i] = list[i]
  <2>1. /\ both \in Seq(Ids) /\ Len(both) = Len(rest) + Len(chunk)
        /\ \A i \in DOMAIN rest : both[i] = rest[i]
        /\ \A i \in DOMAIN chunk : both[Len(rest) + i] = chunk[i]
        /\ Len(list) = Len(chunk) + Len(rest)
        /\ \A i \in DOMAIN chunk : list[i] = chunk[i]
        /\ \A i \in DOMAIN rest : list[Len(chunk) + i] = rest[i]
    BY DEF IsRow
  <2>2. /\ Len(chunk) \in Nat /\ Len(rest) \in Nat
        /\ DOMAIN chunk = 1 .. Len(chunk) /\ DOMAIN rest = 1 .. Len(rest)
        /\ DOMAIN both = 1 .. Len(both) /\ DOMAIN list = 1 .. Len(list)
    BY <2>1
  <2>3. /\ DOMAIN both = 1 .. (Len(rest) + Len(chunk)) /\ DOMAIN list = 1 .. (Len(chunk) + Len(rest))
        /\ \A i \in 1 .. Len(rest) : both[i] = list[Len(chunk) + i]
        /\ \A i \in 1 .. Len(chunk) : both[Len(rest) + i] = list[i]
    BY <2>1, <2>2
  <2>. QED
    BY <1>1, <2>2, <2>3
<1> DEFINE from == [i \in 1 .. (r + k) |-> IF i <= r THEN k + i ELSE i - r]
<1>3. from \in [1 .. (r + k) -> 1 .. (k + r)] /\ \A i, j \in 1 .. (r + k) : from[i] = from[j] => i = j
  <2>1. \A i \in 1 .. (r + k) :
          /\ i <= r => from[i] = k + i /\ from[i] \in (k + 1) .. (k + r)
          /\ ~(i <= r) => from[i] = i - r /\ from[i] \in 1 .. k
    BY <1>2
  <2>2. \A i \in 1 .. (r + k) : from[i] \in 1 .. (k + r)
    BY <1>2, <2>1
  <2>3. ASSUME NEW i \in 1 .. (r + k), NEW j \in 1 .. (r + k), from[i] = from[j] PROVE i = j
    <3>. HIDE DEF from
    <3>1. CASE i <= r /\ j <= r
      <4>1. k + i = k + j
        BY <2>1, <2>3, <3>1
      <4>. QED
        BY <1>2, <4>1
    <3>2. CASE ~(i <= r) /\ ~(j <= r)
      BY <1>2, <2>1, <2>3, <3>2
    <3>3. CASE (i <= r) # (j <= r)
      BY <1>2, <2>1, <2>3, <3>3
    <3>. QED
      BY <3>1, <3>2, <3>3
  <2>4. from = [i \in 1 .. (r + k) |-> from[i]]
    OBVIOUS
  <2>. HIDE DEF from
  <2>. QED
    BY <2>2, <2>3, <2>4
<1>4. ASSUME NEW i \in 1 .. (r + k) PROVE both[i] = list[from[i]]
  <2>1. CASE i \in 1 .. r
    BY <1>2, <2>1
  <2>2. CASE i - r \in 1 .. k /\ ~(i <= r)
    <3>1. both[r + (i - r)] = list[i - r] /\ r + (i - r) = i
      BY <1>2, <2>2
    <3>. QED
      BY <2>2, <3>1
  <2>. QED
    BY <1>2, <2>1, <2>2
<1>. HIDE DEF from
<1>5. /\ DOMAIN both = 1 .. (r + k) /\ from \in [DOMAIN both -> DOMAIN list]
      /\ \A i, j \in DOMAIN both : from[i] = from[j] => i = j
  BY <1>2, <1>3
<1>6. \A i \in DOMAIN both : both[i] = list[from[i]]
  BY <1>4, <1>5
<1>. QED
  BY <1>5, <1>6 DEF ComesFrom

-----------------------------------------------------------------------------
(* No step makes copies.                                                   *)

(* An injection into what was one into a request is one into the request.  *)
LEMMA NoMoreCopies ==
  ASSUME CopiesInv, NEW id \in Ids, NEW Q, Injects(Q, Places(id))
  PROVE  \/ Q = {}
         \/ \E request \in Requests : Injects(Q, Positions(id, request))
<1>1. PICK f \in [Q -> Places(id)] : \A x, y \in Q : f[x] = f[y] => x = y
  BY DEF Injects
<1>2. CASE Places(id) = {}
  BY <1>1, <1>2
<1>3. CASE \E request \in Requests : Injects(Places(id), Positions(id, request))
  <2>0. PICK request \in Requests : Injects(Places(id), Positions(id, request))
    BY <1>3
  <2>1. PICK g \in [Places(id) -> Positions(id, request)] :
          \A x, y \in Places(id) : g[x] = g[y] => x = y
    BY <2>0 DEF Injects
  <2> DEFINE h == [x \in Q |-> g[f[x]]]
  <2>2. h \in [Q -> Positions(id, request)] /\ \A x, y \in Q : h[x] = h[y] => x = y
    BY <1>1, <2>1
  <2>. HIDE DEF h
  <2>. QED
    BY <2>2 DEF Injects
<1>. QED
  BY <1>2, <1>3 DEF CopiesInv

(* The lists in hand. *)
ListsOf(given, op, left) ==
  [w \in Hands |-> IF w # 0 THEN given[w] ELSE IF op = "fill" THEN left ELSE <<>>]

LEMMA ListsAre ==
  ASSUME NEW given \in [Workers -> Seq(Ids)], NEW op, NEW left \in Seq(Ids),
         NEW lists, lists = ListsOf(given, op, left)
  PROVE  /\ lists \in [Hands -> Seq(Ids)]
         /\ \A w \in Workers : lists[w] = given[w]
         /\ lists[0] = IF op = "fill" THEN left ELSE <<>>
<1>1. \A w \in Hands : (w = 0 \/ w \in Workers) /\ (w \in Workers => w # 0)
  BY HandsAre DEF Hands
<1>2. <<>> \in Seq(Ids)
  OBVIOUS
<1>. QED
  BY <1>1, <1>2, HandsAre DEF ListsOf

(* A step after which an id is at no more places than before, wherever one *)
(* looks, makes no copies.                                                 *)
LEMMA StepMakesNone ==
  ASSUME ShapeInv, ShapeInv', CopiesInv,
         NEW given, NEW op, NEW left, given = assigned /\ op = call.op /\ left = call.left,
         NEW given2, NEW op2, NEW left2, given2 = assigned' /\ op2 = call'.op /\ left2 = call'.left,
         \A id \in Ids : \/ Injects(PlacesIn(id, ListsOf(given2, op2, left2)),
                                   PlacesIn(id, ListsOf(given, op, left)))
                        \/ \E request \in Requests :
                             Injects(PlacesIn(id, ListsOf(given2, op2, left2)), Positions(id, request))
  PROVE  CopiesInv'
<1>1. ListsOf(given, op, left) = InHand
  BY DEF InHand, ListsOf, Hands
<1>2. ListsOf(given2, op2, left2) = InHand'
  BY DEF InHand, ListsOf, Hands
<1>3. \A id : Places(id) = PlacesIn(id, ListsOf(given, op, left))
  BY <1>1 DEF Places, PlacesIn, InHand, Hands
<1>4. \A id : Places(id)' = PlacesIn(id, ListsOf(given2, op2, left2))
  BY <1>2 DEF Places, PlacesIn, InHand, Hands
<1>5. ASSUME NEW id \in Ids
      PROVE  \/ Places(id)' = {}
             \/ \E request \in Requests : Injects(Places(id)', Positions(id, request))
  <2> DEFINE Q == PlacesIn(id, ListsOf(given2, op2, left2))
  <2>1. Places(id)' = Q
    BY <1>4
  <2>2. CASE Injects(Q, PlacesIn(id, ListsOf(given, op, left)))
    <3>1. Injects(Q, Places(id))
      BY <1>3, <2>2
    <3>. HIDE DEF Q
    <3>2. Q = {} \/ \E request \in Requests : Injects(Q, Positions(id, request))
      BY <3>1, NoMoreCopies
    <3>. QED
      BY <2>1, <3>2
  <2>3. CASE \E request \in Requests : Injects(Q, Positions(id, request))
    BY <2>1, <2>3
  <2>. QED
    BY <2>2, <2>3
<1>. QED
  BY <1>5 DEF CopiesInv

(* Hands that hold what they held. *)
LEMMA SameInjects == ASSUME NEW P PROVE Injects(P, P)
<1> DEFINE f == [x \in P |-> x]
<1>1. f \in [P -> P] /\ \A x, y \in P : f[x] = f[y] => x = y
  OBVIOUS
<1>. HIDE DEF f
<1>. QED
  BY <1>1 DEF Injects

(* A step that moves no ids. *)
LEMMA QuietMakesNone ==
  ASSUME ShapeInv, ShapeInv', CopiesInv, assigned' = assigned,
         (IF call'.op = "fill" THEN call'.left ELSE <<>>) = (IF call.op = "fill" THEN call.left ELSE <<>>)
  PROVE  CopiesInv'
<1>1. PICK given, op, left : given = assigned /\ op = call.op /\ left = call.left
  OBVIOUS
<1>2. PICK given2, op2, left2 : given2 = assigned' /\ op2 = call'.op /\ left2 = call'.left
  OBVIOUS
<1>3. ListsOf(given2, op2, left2) = ListsOf(given, op, left)
  BY <1>1, <1>2 DEF ListsOf
<1>4. \A id \in Ids : Injects(PlacesIn(id, ListsOf(given2, op2, left2)), PlacesIn(id, ListsOf(given, op, left)))
  BY <1>3, SameInjects
<1>. QED
  BY <1>1, <1>2, <1>4, StepMakesNone

(* Giving the front of the list to a worker. *)
LEMMA GivingMakesNone ==
  ASSUME ShapeInv, ShapeInv', CopiesInv, NEW w \in Workers, NEW n \in Nat, call.op = "fill", call'.op = "fill",
         assigned' = [assigned EXCEPT ![w] = assigned[w] \o First(call.left, n)],
         call'.left = Rest(call.left, n)
  PROVE  CopiesInv'
<1>1. PICK given, op, left : given = assigned /\ op = call.op /\ left = call.left
  OBVIOUS
<1>2. PICK given2, op2, left2 : given2 = assigned' /\ op2 = call'.op /\ left2 = call'.left
  OBVIOUS
<1>3. PICK chunk : chunk = First(left, n)
  OBVIOUS
<1>4. /\ given \in [Workers -> Seq(Ids)] /\ left \in Seq(Ids) /\ op = "fill"
      /\ given2 \in [Workers -> Seq(Ids)] /\ left2 \in Seq(Ids) /\ op2 = "fill"
      /\ given2 = [given EXCEPT ![w] = given[w] \o chunk] /\ left2 = Rest(left, n)
  BY <1>1, <1>2, <1>3 DEF ShapeInv
<1>5. /\ chunk \in Seq(Ids) /\ Len(left) = Len(chunk) + Len(left2)
      /\ \A i \in DOMAIN chunk : chunk[i] = left[i]
      /\ \A i \in DOMAIN left2 : left2[i] = left[Len(chunk) + i]
  BY <1>3, <1>4, Cut
<1>6. PICK lists, next : lists = ListsOf(given, op, left) /\ next = ListsOf(given2, op2, left2)
  OBVIOUS
<1>7. /\ lists \in [Hands -> Seq(Ids)] /\ lists[0] = left /\ \A v \in Workers : lists[v] = given[v]
      /\ next \in [Hands -> Seq(Ids)] /\ next[0] = left2 /\ \A v \in Workers : next[v] = given2[v]
  <2>0. /\ given \in [Workers -> Seq(Ids)] /\ left \in Seq(Ids) /\ op = "fill"
        /\ given2 \in [Workers -> Seq(Ids)] /\ left2 \in Seq(Ids) /\ op2 = "fill"
    BY <1>4
  <2>1. lists \in [Hands -> Seq(Ids)] /\ lists[0] = left /\ \A v \in Workers : lists[v] = given[v]
    <3>1. given \in [Workers -> Seq(Ids)] /\ left \in Seq(Ids) /\ lists = ListsOf(given, op, left)
      BY <1>6, <2>0
    <3>2. /\ lists \in [Hands -> Seq(Ids)] /\ \A v \in Workers : lists[v] = given[v]
          /\ lists[0] = IF op = "fill" THEN left ELSE <<>>
      BY <3>1, ListsAre
    <3>. QED
      BY <2>0, <3>2
  <2>2. next \in [Hands -> Seq(Ids)] /\ next[0] = left2 /\ \A v \in Workers : next[v] = given2[v]
    <3>1. given2 \in [Workers -> Seq(Ids)] /\ left2 \in Seq(Ids) /\ next = ListsOf(given2, op2, left2)
      BY <1>6, <2>0
    <3>2. /\ next \in [Hands -> Seq(Ids)] /\ \A v \in Workers : next[v] = given2[v]
          /\ next[0] = IF op2 = "fill" THEN left2 ELSE <<>>
      BY <3>1, ListsAre
    <3>. QED
      BY <2>0, <3>2
  <2>. QED
    BY <2>1, <2>2
<1>8. next[w] = lists[w] \o chunk /\ \A v \in Workers \ {w} : next[v] = lists[v]
  BY <1>4, <1>7
<1>9. \A id \in Ids : Injects(PlacesIn(id, next), PlacesIn(id, lists))
  <2>1. /\ Len(lists[0]) = Len(chunk) + Len(next[0])
        /\ \A i \in DOMAIN chunk : chunk[i] = lists[0][i]
        /\ \A i \in DOMAIN next[0] : next[0][i] = lists[0][Len(chunk) + i]
    BY <1>5, <1>7
  <2>. QED
    BY <1>5, <1>7, <1>8, <2>1, GiveAway
<1>. QED
  BY <1>1, <1>2, <1>6, <1>9, StepMakesNone

(* Putting the front of the list behind the rest. *)
LEMMA RotatingMakesNone ==
  ASSUME ShapeInv, ShapeInv', CopiesInv, NEW n \in Nat, call.op = "fill", call'.op = "fill",
         assigned' = assigned, call'.left = Rest(call.left, n) \o First(call.left, n)
  PROVE  CopiesInv'
<1>1. PICK given, op, left : given = assigned /\ op = call.op /\ left = call.left
  OBVIOUS
<1>2. PICK given2, op2, left2 : given2 = assigned' /\ op2 = call'.op /\ left2 = call'.left
  OBVIOUS
<1>3. PICK chunk, rest : chunk = First(left, n) /\ rest = Rest(left, n)
  OBVIOUS
<1>4. /\ given \in [Workers -> Seq(Ids)] /\ left \in Seq(Ids) /\ op = "fill"
      /\ given2 = given /\ left2 \in Seq(Ids) /\ op2 = "fill" /\ left2 = rest \o chunk
  BY <1>1, <1>2, <1>3 DEF ShapeInv
<1>5. PICK from \in [DOMAIN left2 -> DOMAIN left] :
        /\ \A i, j \in DOMAIN left2 : from[i] = from[j] => i = j
        /\ \A i \in DOMAIN left2 : left2[i] = left[from[i]]
  <2>1. chunk \in Seq(Ids) /\ rest \in Seq(Ids) /\ left \in Seq(Ids) /\ left2 = rest \o chunk
    BY <1>3, <1>4, Cut
  <2>2. IsRow(left, chunk, rest)
    BY <1>3, <1>4, Cut DEF IsRow
  <2>3. IsRow(left2, rest, chunk) /\ left2 \in Seq(Ids)
    BY <2>1, MembersOfBoth DEF IsRow
  <2>4. ComesFrom(left2, left)
    BY <2>1, <2>2, <2>3, Rotated
  <2>. QED
    BY <2>4 DEF ComesFrom
<1>6. PICK lists, next : lists = ListsOf(given, op, left) /\ next = ListsOf(given2, op2, left2)
  OBVIOUS
<1>7. /\ lists[0] = left /\ \A v \in Workers : lists[v] = given[v]
      /\ next[0] = left2 /\ \A v \in Workers : next[v] = given[v]
  <2>0. /\ given \in [Workers -> Seq(Ids)] /\ left \in Seq(Ids) /\ op = "fill"
        /\ given2 = given /\ left2 \in Seq(Ids) /\ op2 = "fill"
    BY <1>4
  <2>1. lists[0] = left /\ \A v \in Workers : lists[v] = given[v]
    BY <1>6, <2>0, ListsAre
  <2>2. next[0] = left2 /\ \A v \in Workers : next[v] = given[v]
    BY <1>6, <2>0, ListsAre
  <2>. QED
    BY <2>1, <2>2
<1>8. \A id \in Ids : Injects(PlacesIn(id, next), PlacesIn(id, lists))
  <2>1. 0 \in Hands /\ \A u \in Hands \ {0} : next[u] = lists[u]
    BY <1>7, HandsAre DEF Hands
  <2>2. /\ from \in [DOMAIN next[0] -> DOMAIN lists[0]]
        /\ \A i, j \in DOMAIN next[0] : from[i] = from[j] => i = j
        /\ \A i \in DOMAIN next[0] : next[0][i] = lists[0][from[i]]
    BY <1>5, <1>7
  <2>. QED
    BY <2>1, <2>2, Rearrange
<1>. QED
  BY <1>1, <1>2, <1>6, <1>8, StepMakesNone

(* Taking ids from a worker. *)
LEMMA TakingMakesNone ==
  ASSUME ShapeInv, ShapeInv', CopiesInv, NEW w \in Workers, NEW batch,
         call.op # "fill", call'.op # "fill",
         assigned' = [assigned EXCEPT ![w] = Without(assigned[w], batch)]
  PROVE  CopiesInv'
<1>1. PICK given, op, left : given = assigned /\ op = call.op /\ left = call.left
  OBVIOUS
<1>2. PICK given2, op2, left2 : given2 = assigned' /\ op2 = call'.op /\ left2 = call'.left
  OBVIOUS
<1>3. /\ given \in [Workers -> Seq(Ids)] /\ left \in Seq(Ids) /\ op # "fill"
      /\ given2 \in [Workers -> Seq(Ids)] /\ left2 \in Seq(Ids) /\ op2 # "fill"
      /\ given2 = [given EXCEPT ![w] = Without(given[w], batch)]
  BY <1>1, <1>2 DEF ShapeInv
<1>4. PICK lists, next : lists = ListsOf(given, op, left) /\ next = ListsOf(given2, op2, left2)
  OBVIOUS
<1>5. /\ lists[0] = <<>> /\ \A v \in Workers : lists[v] = given[v]
      /\ next[0] = <<>> /\ \A v \in Workers : next[v] = given2[v]
  <2>0. /\ given \in [Workers -> Seq(Ids)] /\ left \in Seq(Ids) /\ op # "fill"
        /\ given2 \in [Workers -> Seq(Ids)] /\ left2 \in Seq(Ids) /\ op2 # "fill"
    BY <1>3
  <2>1. lists[0] = <<>> /\ \A v \in Workers : lists[v] = given[v]
    <3>1. given \in [Workers -> Seq(Ids)] /\ left \in Seq(Ids) /\ lists = ListsOf(given, op, left)
      BY <1>4, <2>0
    <3>2. /\ \A v \in Workers : lists[v] = given[v]
          /\ lists[0] = IF op = "fill" THEN left ELSE <<>>
      BY <3>1, ListsAre
    <3>. QED
      BY <2>0, <3>2
  <2>2. next[0] = <<>> /\ \A v \in Workers : next[v] = given2[v]
    <3>1. given2 \in [Workers -> Seq(Ids)] /\ left2 \in Seq(Ids) /\ next = ListsOf(given2, op2, left2)
      BY <1>4, <2>0
    <3>2. /\ \A v \in Workers : next[v] = given2[v]
          /\ next[0] = IF op2 = "fill" THEN left2 ELSE <<>>
      BY <3>1, ListsAre
    <3>. QED
      BY <2>0, <3>2
  <2>. QED
    BY <2>1, <2>2
<1>6. next[w] = Without(lists[w], batch) /\ lists[w] \in Seq(Ids)
  BY <1>3, <1>5
<1>7. PICK from \in [DOMAIN next[w] -> DOMAIN lists[w]] :
        /\ \A i, j \in DOMAIN next[w] : from[i] = from[j] => i = j
        /\ \A i \in DOMAIN next[w] : next[w][i] = lists[w][from[i]]
  BY <1>6, WithoutPicks
<1>8. \A id \in Ids : Injects(PlacesIn(id, next), PlacesIn(id, lists))
  <2>1. w \in Hands /\ \A u \in Hands \ {w} : next[u] = lists[u]
    BY <1>3, <1>5, HandsAre DEF Hands
  <2>. QED
    BY <1>7, <2>1, Rearrange
<1>. QED
  BY <1>1, <1>2, <1>4, <1>8, StepMakesNone

(* Who has no id of a list has at most what a request names of it.         *)
LEMMA NewFromRequest ==
  ASSUME NEW id, NEW lists, NEW list, ComesFrom(lists[0], list),
         \A v \in Workers : \A i \in DOMAIN lists[v] : lists[v][i] # id
  PROVE  Injects(PlacesIn(id, lists), Positions(id, list))
<1>1. PICK from \in [DOMAIN lists[0] -> DOMAIN list] :
        /\ \A i, j \in DOMAIN lists[0] : from[i] = from[j] => i = j
        /\ \A i \in DOMAIN lists[0] : lists[0][i] = list[from[i]]
  BY DEF ComesFrom
<1> DEFINE Q == PlacesIn(id, lists)
           f == [z \in Q |-> from[z[2]]]
<1>2. ASSUME NEW z \in Q
      PROVE  z = <<0, z[2]>> /\ z[2] \in DOMAIN lists[0] /\ lists[0][z[2]] = id
  <2>1. /\ z = <<z[1], z[2]>> /\ z[1] \in Hands
        /\ z[2] \in DOMAIN lists[z[1]] /\ lists[z[1]][z[2]] = id
    BY PlaceIs
  <2>2. z[1] = 0
    BY <2>1 DEF Hands
  <2>. QED
    BY <2>1, <2>2
<1>. HIDE DEF Q
<1>3. \A z \in Q : from[z[2]] \in Positions(id, list)
  BY <1>1, <1>2 DEF Positions
<1>4. \A y, z \in Q : from[y[2]] = from[z[2]] => y = z
  <2>1. ASSUME NEW y \in Q, NEW z \in Q, from[y[2]] = from[z[2]] PROVE y = z
    <3>1. y[2] \in DOMAIN lists[0] /\ z[2] \in DOMAIN lists[0] /\ y = <<0, y[2]>> /\ z = <<0, z[2]>>
      BY <1>2
    <3>2. y[2] = z[2]
      BY <1>1, <2>1, <3>1
    <3>. QED
      BY <3>1, <3>2
  <2>. QED
    BY <2>1
<1>5. f \in [Q -> Positions(id, list)] /\ \A y, z \in Q : f[y] = f[z] => y = z
  BY <1>3, <1>4
<1>6. Injects(Q, Positions(id, list))
  <2>. HIDE DEF f
  <2>. QED
    BY <1>5 DEF Injects
<1>. QED
  BY <1>6 DEF Q

(* What a hand is given beside holds nothing of an id adds no place of it. *)
LEMMA NothingOfIt ==
  ASSUME NEW id, NEW lists, NEW next, \A v \in Workers : next[v] = lists[v],
         \A i \in DOMAIN next[0] : next[0][i] # id
  PROVE  Injects(PlacesIn(id, next), PlacesIn(id, lists))
<1> DEFINE Q == PlacesIn(id, next)
           P == PlacesIn(id, lists)
           f == [z \in Q |-> z]
<1>1. ASSUME NEW z \in Q PROVE z \in P
  <2>1. /\ z = <<z[1], z[2]>> /\ z[1] \in Hands
        /\ z[2] \in DOMAIN next[z[1]] /\ next[z[1]][z[2]] = id
    BY PlaceIs
  <2>2. z[1] # 0
    BY <2>1
  <2>3. next[z[1]] = lists[z[1]]
    BY <2>1, <2>2 DEF Hands
  <2>. QED
    BY <2>1, <2>3, PlaceIs
<1>. HIDE DEF P, Q
<1>2. f \in [Q -> P] /\ \A y, z \in Q : f[y] = f[z] => y = z
  BY <1>1
<1>3. Injects(Q, P)
  <2>. HIDE DEF f
  <2>. QED
    BY <1>2 DEF Injects
<1>. QED
  BY <1>3 DEF P, Q

(* Whoever holds an id before a request comes counts as subscribed.        *)
LEMMA HeldIsSubscribed ==
  ASSUME ShapeInv, \A v \in Workers : WorkerOK(v), NEW v \in Workers, NEW i \in DOMAIN assigned[v]
  PROVE  assigned[v][i] \in Subscribed
<1>1. WorkerOK(v)
  OBVIOUS
<1>2. spawned \in Nat /\ v \in Nat /\ v >= 1
  BY WorkerAssumption DEF ShapeInv, Workers
<1>3. ~(v > spawned)
  BY <1>1 DEF WorkerOK
<1>4. v \in Handles
  BY <1>2, <1>3 DEF Handles
<1>. QED
  BY <1>4 DEF Subscribed, ToSet

(* A request that begins. *)
LEMMA BeginMakesNone ==
  ASSUME ShapeInv, ShapeInv', CopiesInv, \A v \in Workers : WorkerOK(v),
         NEW request \in Requests, BeginSubscribe(request)
  PROVE  CopiesInv'
<1>1. PICK given, op, left : given = assigned /\ op = call.op /\ left = call.left
  OBVIOUS
<1>2. PICK given2, op2, left2 : given2 = assigned' /\ op2 = call'.op /\ left2 = call'.left
  OBVIOUS
<1>3. PICK taken : taken = Subscribed
  OBVIOUS
<1>4. /\ given \in [Workers -> Seq(Ids)] /\ left \in Seq(Ids) /\ op # "fill"
      /\ given2 = given /\ left2 \in Seq(Ids) /\ op2 = "fill" /\ left2 = Without(request, taken)
  BY <1>1, <1>2, <1>3 DEF ShapeInv, BeginSubscribe, Doing
<1>5. ToSet(left2) = ToSet(request) \ taken /\ ComesFrom(left2, request)
  <2>1. request \in Seq(Ids) /\ left2 = Without(request, taken)
    BY <1>4, SupervisorAssumption
  <2>. QED
    BY <2>1, WithoutPicks DEF ComesFrom
<1>6. PICK lists, next : lists = ListsOf(given, op, left) /\ next = ListsOf(given2, op2, left2)
  OBVIOUS
<1>7. \A v \in Workers : lists[v] = given[v] /\ next[v] = given[v]
  <2>1. given \in [Workers -> Seq(Ids)] /\ left \in Seq(Ids) /\ lists = ListsOf(given, op, left)
    BY <1>4, <1>6
  <2>2. given \in [Workers -> Seq(Ids)] /\ left2 \in Seq(Ids) /\ next = ListsOf(given, op2, left2)
    BY <1>4, <1>6
  <2>3. \A v \in Workers : lists[v] = given[v]
    BY <2>1, ListsAre
  <2>4. \A v \in Workers : next[v] = given[v]
    BY <2>2, ListsAre
  <2>. QED
    BY <2>3, <2>4
<1>8. next[0] = left2
  <2>1. given \in [Workers -> Seq(Ids)] /\ left2 \in Seq(Ids) /\ next = ListsOf(given, op2, left2)
    BY <1>4, <1>6
  <2>2. next[0] = IF op2 = "fill" THEN left2 ELSE <<>>
    BY <2>1, ListsAre
  <2>. QED
    BY <1>4, <2>2
<1>9. ASSUME NEW id \in Ids
      PROVE  \/ Injects(PlacesIn(id, next), PlacesIn(id, lists))
             \/ \E r \in Requests : Injects(PlacesIn(id, next), Positions(id, r))
  <2>1. CASE id \in taken
    <3>1. \A i \in DOMAIN next[0] : next[0][i] # id
      BY <1>5, <1>8, <2>1 DEF ToSet
    <3>2. \A v \in Workers : next[v] = lists[v]
      BY <1>7
    <3>. QED
      BY <3>1, <3>2, NothingOfIt
  <2>2. CASE id \notin taken
    <3>1. \A v \in Workers : \A i \in DOMAIN next[v] : next[v][i] # id
      BY <1>1, <1>3, <1>7, <2>2, HeldIsSubscribed
    <3>2. ComesFrom(next[0], request)
      BY <1>5, <1>8
    <3>. QED
      BY <3>1, <3>2, NewFromRequest
  <2>. QED
    BY <2>1, <2>2
<1>. QED
  BY <1>1, <1>2, <1>6, <1>9, StepMakesNone

-----------------------------------------------------------------------------
(* The invariant holds, and what follows from it.                          *)

(* Before anything is asked for. *)
LEMMA InitHolds == SupervisorInit => SupervisorInv
<1>. SUFFICES ASSUME SupervisorInit PROVE SupervisorInv
  OBVIOUS
<1>0. /\ MaxWorkers \in Nat /\ MaxWorkers >= 1 /\ ChannelSize \in Nat /\ MaxSubs \in Nat
      /\ Workers = 1 .. MaxWorkers /\ <<>> \in Seq(Ids) /\ <<>> \in Seq(Command) /\ Len(<<>>) = 0
  BY WorkerAssumption, SupervisorAssumption DEF Workers
<1>1. /\ phase = [w \in Workers |-> "unborn"] /\ commands = [w \in Workers |-> <<>>]
      /\ ids = [w \in Workers |-> {}] /\ exchange = [w \in Workers |-> {}]
      /\ spawned = 0 /\ assigned = [w \in Workers |-> <<>>] /\ call = Ready
  BY DEF SupervisorInit, WorkerInit
<1>2. ShapeInv
  <2>1. call \in [op : Ops, left : Seq(Ids), todo : SUBSET Workers]
    BY <1>0, <1>1, DoingType DEF Ready, Ops
  <2>. QED
    BY <1>0, <1>1, <2>1 DEF ShapeInv, Phases
<1>3. ASSUME NEW w \in Workers PROVE WorkerOK(w)
  <2>1. WithinLimit({}, <<>>)
    <3>1. IsFiniteSet({}) /\ Cardinality({}) = 0
      BY FS_EmptySet
    <3>2. RememberedAfter({}, <<>>)[0] = {} /\ \A n \in 0 .. Len(<<>>) : n = 0
      BY <1>0, EmptyChannel
    <3>. QED
      BY <1>0, <3>1, <3>2 DEF WithinLimit
  <2>2. Consistent("unborn", <<>>, {}, {}, <<>>)
    BY <1>0, <2>1 DEF Consistent, Phases, Runs
  <2>3. w > spawned
    BY <1>0, <1>1
  <2>. QED
    BY <1>1, <2>2, <2>3 DEF WorkerOK
<1>4. CopiesInv
  <2>1. ASSUME NEW id \in Ids PROVE Places(id) = {}
    <3>1. \A w \in {0} \union Workers : InHand[w] = <<>>
      BY <1>1 DEF InHand, Ready, Doing
    <3>2. DOMAIN InHand = {0} \union Workers
      BY DEF InHand
    <3>3. \A w \in DOMAIN InHand : Positions(id, InHand[w]) = {}
      BY <3>1, <3>2 DEF Positions
    <3>. QED
      BY <3>3 DEF Places
  <2>. QED
    BY <2>1 DEF CopiesInv
<1>. QED
  BY <1>2, <1>3, <1>4 DEF SupervisorInv

(* An operation that begins or ends leaves the workers alone. *)
LEMMA BoundaryActs ==
  ASSUME ShapeInv, \A v \in Workers : WorkerOK(v),
         \/ \E request \in Requests : BeginSubscribe(request)
         \/ \E request \in Withdrawn : BeginUnsubscribe(request)
         \/ Interrupt \/ EndSubscribe \/ EndUnsubscribe \/ Join
  PROVE  /\ ShapeInv' /\ (\A v \in Workers : WorkerOK(v)')
         /\ UNCHANGED <<workerVars, spawned, assigned>>
<1>0. Handles \in SUBSET Workers /\ <<>> \in Seq(Ids)
  BY WorkerAssumption DEF ShapeInv, Handles, Workers
<1>1. /\ UNCHANGED <<workerVars, spawned, assigned>>
      /\ call' \in [op : Ops, left : Seq(Ids), todo : SUBSET Workers]
  <2>1. CASE \E request \in Requests : BeginSubscribe(request)
    <3>1. PICK request \in Requests : BeginSubscribe(request)
      BY <2>1
    <3>2. Without(request, Subscribed) \in Seq(Ids)
      BY SupervisorAssumption, WithoutPicks
    <3>3. call' = Doing("fill", Without(request, Subscribed), Handles)
      BY <3>1 DEF BeginSubscribe
    <3>. QED
      BY <1>0, <3>1, <3>2, <3>3, DoingType DEF BeginSubscribe, Ops
  <2>2. CASE \E request \in Withdrawn : BeginUnsubscribe(request)
    BY <1>0, <2>2, DoingType, SupervisorAssumption DEF BeginUnsubscribe, Ops
  <2>3. CASE Interrupt \/ EndSubscribe \/ EndUnsubscribe \/ Join
    <3>1. \A op \in Ops, todo \in SUBSET Workers :
            Doing(op, <<>>, todo) \in [op : Ops, left : Seq(Ids), todo : SUBSET Workers]
      BY <1>0, DoingType
    <3>2. \E op \in Ops, todo \in SUBSET Workers : call' = Doing(op, <<>>, todo)
      BY <1>0, <2>3 DEF Interrupt, EndSubscribe, EndUnsubscribe, Join, Ready, Ops
    <3>. QED
      BY <2>3, <3>1, <3>2 DEF Interrupt, EndSubscribe, EndUnsubscribe, Join
  <2>. QED
    BY <2>1, <2>2, <2>3
<1>. QED
  BY <1>1, QuietActs

(* Nor, unless a request begins, does it give any id. *)
LEMMA BoundaryMakesNone ==
  ASSUME ShapeInv, ShapeInv', CopiesInv,
         \/ \E request \in Withdrawn : BeginUnsubscribe(request)
         \/ Interrupt \/ EndSubscribe \/ EndUnsubscribe \/ Join
  PROVE  CopiesInv'
<1>1. /\ assigned' = assigned
      /\ (IF call'.op = "fill" THEN call'.left ELSE <<>>) = (IF call.op = "fill" THEN call.left ELSE <<>>)
  BY DEF BeginUnsubscribe, Interrupt, EndSubscribe, EndUnsubscribe, Join, Doing, Ready
<1>. QED
  BY <1>1, QuietMakesNone

(* What the operations do, worker by worker. *)
LEMMA OperationMakesNone ==
  ASSUME ShapeInv, ShapeInv', CopiesInv, \A v \in Workers : WorkerOK(v), NEW w \in Workers,
         Fill(w) \/ Spawn(w) \/ Withdraw(w) \/ StopWorker(w)
  PROVE  CopiesInv'
<1>1. CASE Fill(w)
  <2>1. Available(w) \in Nat
    <3>1. assigned[w] \in Seq(Ids) /\ Len(assigned[w]) \in Nat /\ MaxSubs \in Nat
      BY SupervisorAssumption DEF ShapeInv
    <3>. QED
      BY <3>1 DEF Available
  <2>2. \/ /\ assigned' = [assigned EXCEPT ![w] = assigned[w] \o First(call.left, Available(w))]
           /\ call' = Doing("fill", Rest(call.left, Available(w)), call.todo \ {w})
        \/ /\ assigned' = assigned
           /\ call' = Doing("fill", Rest(call.left, Available(w)) \o First(call.left, Available(w)),
                            call.todo \ {w})
    BY <1>1 DEF Fill
  <2>3. \A left, todo : Doing("fill", left, todo).left = left /\ Doing("fill", left, todo).op = "fill"
    BY DEF Doing
  <2>4. call.op = "fill" /\ call'.op = "fill"
    <3>1. call.op = "fill"
      BY <1>1 DEF Fill
    <3>2. \E left, todo : call' = Doing("fill", left, todo)
      BY <1>1 DEF Fill
    <3>3. call'.op = "fill"
      BY <2>3, <3>2
    <3>. QED
      BY <3>1, <3>3
  <2>5. CASE /\ assigned' = [assigned EXCEPT ![w] = assigned[w] \o First(call.left, Available(w))]
             /\ call'.left = Rest(call.left, Available(w))
    BY <2>1, <2>4, <2>5, GivingMakesNone
  <2>6. CASE /\ assigned' = assigned
             /\ call'.left = Rest(call.left, Available(w)) \o First(call.left, Available(w))
    BY <2>1, <2>4, <2>6, RotatingMakesNone
  <2>. QED
    BY <2>2, <2>3, <2>5, <2>6
<1>2. CASE Spawn(w)
  <2>1. MaxSubs \in Nat /\ call.left \in Seq(Ids) /\ spawned \in Nat
    BY SupervisorAssumption DEF ShapeInv
  <2>2. assigned[w] = <<>>
    <3>1. WorkerOK(w)
      OBVIOUS
    <3>2. w > spawned
      BY <1>2, <2>1 DEF Spawn
    <3>. QED
      BY <3>1, <3>2 DEF WorkerOK
  <2>3. PICK chunk : chunk = First(call.left, MaxSubs)
    OBVIOUS
  <2>4. assigned[w] \o chunk = chunk
    <3>1. chunk \in Seq(Ids)
      BY <2>1, <2>3, Cut
    <3>. QED
      BY <2>2, <3>1
  <2>5. /\ call.op = "fill" /\ call'.op = "fill"
        /\ assigned' = [assigned EXCEPT ![w] = assigned[w] \o First(call.left, MaxSubs)]
        /\ call'.left = Rest(call.left, MaxSubs)
    BY <1>2, <2>3, <2>4 DEF Spawn, Doing
  <2>. QED
    BY <2>1, <2>5, GivingMakesNone
<1>3. CASE Withdraw(w)
  <2>1. call.op # "fill" /\ call'.op # "fill"
    BY <1>3 DEF Withdraw, Doing
  <2>2. CASE \E batch : assigned' = [assigned EXCEPT ![w] = Without(assigned[w], batch)]
    BY <2>1, <2>2, TakingMakesNone
  <2>3. CASE assigned' = assigned
    BY <2>1, <2>3, QuietMakesNone
  <2>. QED
    BY <1>3, <2>2, <2>3 DEF Withdraw
<1>4. CASE StopWorker(w)
  <2>1. /\ assigned' = assigned
        /\ (IF call'.op = "fill" THEN call'.left ELSE <<>>) = (IF call.op = "fill" THEN call.left ELSE <<>>)
    BY <1>4 DEF StopWorker, Doing
  <2>. QED
    BY <2>1, QuietMakesNone
<1>. QED
  BY <1>1, <1>2, <1>3, <1>4

(* Every step keeps the invariant. *)
LEMMA StepHolds == SupervisorInv /\ [SupervisorNext]_supervisorVars => SupervisorInv'
<1>. SUFFICES ASSUME SupervisorInv, [SupervisorNext]_supervisorVars PROVE SupervisorInv'
  OBVIOUS
<1>0. ShapeInv /\ (\A v \in Workers : WorkerOK(v)) /\ CopiesInv
  BY DEF SupervisorInv
<1>1. CASE \E request \in Requests : BeginSubscribe(request)
  <2>1. ShapeInv' /\ \A v \in Workers : WorkerOK(v)'
    BY <1>0, <1>1, BoundaryActs
  <2>2. CopiesInv'
    BY <1>0, <1>1, <2>1, BeginMakesNone
  <2>. QED
    BY <2>1, <2>2 DEF SupervisorInv
<1>2. CASE \/ \E request \in Withdrawn : BeginUnsubscribe(request)
           \/ Interrupt \/ EndSubscribe \/ EndUnsubscribe \/ Join
  <2>1. ShapeInv' /\ \A v \in Workers : WorkerOK(v)'
    BY <1>0, <1>2, BoundaryActs
  <2>2. CopiesInv'
    BY <1>0, <1>2, <2>1, BoundaryMakesNone
  <2>. QED
    BY <2>1, <2>2 DEF SupervisorInv
<1>3. ASSUME NEW w \in Workers, Fill(w) \/ Spawn(w) \/ Withdraw(w) \/ StopWorker(w)
      PROVE  SupervisorInv'
  <2>1. ShapeInv' /\ \A v \in Workers : WorkerOK(v)'
    BY <1>0, <1>3, FillActs, SpawnActs, WithdrawActs, StopActs
  <2>2. CopiesInv'
    BY <1>0, <1>3, <2>1, OperationMakesNone
  <2>. QED
    BY <2>1, <2>2 DEF SupervisorInv
<1>4. ASSUME NEW w \in Workers, WorkerStep(w), Apart PROVE SupervisorInv'
  <2>1. ShapeInv' /\ \A v \in Workers : WorkerOK(v)'
    BY <1>0, <1>4, WorkerActs
  <2>2. CopiesInv'
    BY <1>0, <1>4, <2>1, QuietMakesNone DEF Apart
  <2>. QED
    BY <2>1, <2>2 DEF SupervisorInv
<1>5. CASE UNCHANGED supervisorVars
  <2>1. ShapeInv' /\ \A v \in Workers : WorkerOK(v)'
    BY <1>0, <1>5, QuietActs DEF supervisorVars, ShapeInv
  <2>2. CopiesInv'
    BY <1>0, <1>5, <2>1, QuietMakesNone DEF supervisorVars
  <2>. QED
    BY <2>1, <2>2 DEF SupervisorInv
<1>. QED
  BY <1>1, <1>2, <1>3, <1>4, <1>5 DEF SupervisorNext, Proceed

(* The inductive invariant holds, whatever is fair. *)
THEOREM SupervisorInvariant == SupervisorSteps => []SupervisorInv
<1>1. SupervisorInit => SupervisorInv
  BY InitHolds
<1>2. SupervisorInv /\ [SupervisorNext]_supervisorVars => SupervisorInv'
  BY StepHolds
<1>. QED
  BY <1>1, <1>2, PTL DEF SupervisorSteps

(* The variables keep their types and the command channels their capacity. *)
THEOREM SupervisorTypeCorrect == SupervisorSteps => []SupervisorTypeOK
<1>1. SupervisorInv => SupervisorTypeOK
  BY DEF SupervisorInv, ShapeInv, WorkerOK, Consistent, SupervisorTypeOK, WorkerTypeOK, Phases, Ops
<1>. QED
  BY <1>1, SupervisorInvariant, PTL

(* A connected worker has asked the exchange for all that it remembers,    *)
(* whatever commands came while it was not connected.                      *)
THEOREM ConnectionsAreSubscribed == SupervisorSteps => []ConnectedIsSubscribed
<1>1. SupervisorInv => ConnectedIsSubscribed
  BY DEF SupervisorInv, WorkerOK, Consistent, ConnectedIsSubscribed
<1>. QED
  BY <1>1, SupervisorInvariant, PTL

(* Neither the list that the supervisor keeps of a worker nor what the     *)
(* worker remembers exceeds max_subs_per_worker.                           *)
THEOREM LimitsAreKept == SupervisorSteps => []CapacityRespected
<1>1. SupervisorInv => CapacityRespected
  <2>1. ASSUME SupervisorInv, NEW w \in Workers
        PROVE  Len(assigned[w]) <= MaxSubs /\ Cardinality(ids[w]) <= MaxSubs
    <3>1. Consistent(phase[w], commands[w], ids[w], exchange[w], assigned[w])
      BY <2>1 DEF SupervisorInv, WorkerOK
    <3>2. commands[w] \in Seq(Command) /\ WithinLimit(ids[w], commands[w])
      BY <3>1 DEF Consistent
    <3>3. 0 \in 0 .. Len(commands[w]) /\ RememberedAfter(ids[w], commands[w])[0] = ids[w]
      BY <3>2, AfterSteps
    <3>. QED
      BY <3>1, <3>2, <3>3 DEF Consistent, WithinLimit
  <2>. QED
    BY <2>1 DEF CapacityRespected
<1>. QED
  BY <1>1, SupervisorInvariant, PTL

(* What the supervisor believes of a live worker comes true once the       *)
(* worker has taken the commands that wait in its channel.                 *)
THEOREM BeliefsComeTrue == SupervisorSteps => []BeliefIsPending
<1>1. SupervisorInv => BeliefIsPending
  BY DEF SupervisorInv, WorkerOK, Consistent, BeliefIsPending, Running, Runs
<1>. QED
  BY <1>1, SupervisorInvariant, PTL

(* No id is held, or about to be, more often than one request names it,    *)
(* wherever workers die in the middle of a call.                           *)
THEOREM NobodyGetsCopies == SupervisorSteps => []NoExtraCopies
<1>1. SupervisorInv => NoExtraCopies
  <2>1. ASSUME CopiesInv, NEW id \in Ids, Places(id) # {}
        PROVE  \E request \in Requests :
                 Cardinality(Places(id)) <= Cardinality(Positions(id, request))
    <3>1. PICK request \in Requests : Injects(Places(id), Positions(id, request))
      BY <2>1 DEF CopiesInv
    <3>2. IsFiniteSet(Positions(id, request))
      <4>1. request \in Seq(Ids)
        BY SupervisorAssumption
      <4>2. Len(request) \in Nat /\ Positions(id, request) \subseteq 1 .. Len(request)
        BY <4>1 DEF Positions
      <4>3. IsFiniteSet(1 .. Len(request))
        BY <4>2, FS_Interval
      <4>. QED
        BY <4>2, <4>3, FS_Subset
    <3>3. PICK f : f \in Injection(Places(id), Positions(id, request))
      BY <3>1 DEF Injects, Injection, IsInjective
    <3>4. Cardinality(Places(id)) <= Cardinality(Positions(id, request))
      BY <3>2, <3>3, FS_Injection
    <3>. QED
      BY <3>4
  <2>. QED
    BY <2>1 DEF SupervisorInv, NoExtraCopies
<1>. QED
  BY <1>1, SupervisorInvariant, PTL
=============================================================================
