--------------------------- MODULE ChangeFeedProofs ---------------------------
(***************************************************************************)
(* For any platforms, prices, messages and number of events in flight: a   *)
(* subscriber that follows the protocol is on its way to the present book, *)
(* and the executor's cache neither invents a price nor takes a platform   *)
(* for worse than it is.                                                   *)
(***************************************************************************)
EXTENDS PriceView, SmartRouting, OrderbookProofs

Book == [Sides -> [Prices -> [Platforms -> Sizes]]]

(* LastOf names the greatest element of a set of positions. *)
LEMMA LastOfIsGreatest ==
  ASSUME NEW n \in Nat, NEW I, I \subseteq 0 .. n, I # {}
  PROVE  LastOf(I) \in I /\ \A j \in I : j <= LastOf(I)
BY GreatestElement DEF LastOf

(* A greatest element is the one LastOf names.                             *)
LEMMA GreatestIsLastOf ==
  ASSUME NEW I, I \subseteq Nat, NEW k \in I, \A j \in I : j <= k
  PROVE  LastOf(I) = k
<1>1. LastOf(I) \in I /\ \A j \in I : j <= LastOf(I)
  BY DEF LastOf
<1>2. LastOf(I) \in Nat /\ k \in Nat /\ k <= LastOf(I) /\ LastOf(I) <= k
  BY <1>1
<1>. QED
  BY <1>2

(* A message leaves a book of the right type.                              *)
LEMMA NewBook == ASSUME IInv, NEW m \in Messages, Apply(m)
                 PROVE  IInv' /\ sizes \in Book /\ sizes' \in Book
BY ApplyInvariant, OrderbookAssumption DEF IInv, TypeOK, Book

-----------------------------------------------------------------------------
(* The events.                                                             *)

(* A change carries what the book has at its price. *)
LEMMA ChangeAtType ==
  ASSUME NEW book \in Book, NEW s \in Sides, NEW p \in Prices \union {Unparsable}
  PROVE  /\ ChangeAt(book, s, p) \in Change
         /\ ChangeAt(book, s, p).side = s /\ ChangeAt(book, s, p).price = p
         /\ p \in Prices => ChangeAt(book, s, p).row = book[s][p]
<1>1. NoOrders \in [Platforms -> Sizes]
  BY OrderbookAssumption DEF NoOrders
<1>2. p \in Prices => book[s][p] \in [Platforms -> Sizes]
  BY DEF Book
<1>. QED
  BY <1>1, <1>2 DEF ChangeAt, AggregatedLevel, Change

(* An event has one change for each level of its message, and no other, in *)
(* whatever order it lists them.                                           *)
LEMMA ChangesOfMessage ==
  ASSUME NEW m \in Messages, NEW book \in Book, NEW event \in Changes(book, m)
  PROVE  /\ event \in Seq(Change)
         /\ \A i \in DOMAIN event : event[i].price \in Prices =>
              event[i].row = book[event[i].side][event[i].price]
         /\ \A s \in Sides : \A j \in DOMAIN m.levels[s] : \E i \in DOMAIN event :
              event[i].side = s /\ event[i].price = m.levels[s][j].price
<1>. DEFINE N == Len(m.levels["buy"]) + Len(m.levels["sell"])
<1>1. \A s \in Sides : m.levels[s] \in Seq(Level)
  BY OrderbookAssumption DEF Message
<1>2. N \in Nat
  <2>1. m.levels["buy"] \in Seq(Level) /\ m.levels["sell"] \in Seq(Level)
    BY <1>1 DEF Sides
  <2>2. \A q, r \in Seq(Level) : Len(q) + Len(r) \in Nat
    OBVIOUS
  <2>. QED
    BY <2>1, <2>2
<1>3. PICK o \in [1 .. N -> Places(m)] :
        (\A x \in Places(m) : \E i \in 1 .. N : o[i] = x) /\ event = Listed(book, m, o)
  BY DEF Changes, Listings
<1>4. \A s \in Sides : \A j \in DOMAIN m.levels[s] :
        m.levels[s][j].price \in Prices \union {Unparsable}
  <2>1. \A s \in Sides : \A j \in DOMAIN m.levels[s] : m.levels[s][j] \in Level
    BY <1>1
  <2>. QED
    BY <2>1 DEF Level
<1>5. \A s \in Sides : \A j \in DOMAIN m.levels[s] :
        <<s, j>> \in Places(m) /\ <<s, j>>[1] = s /\ <<s, j>>[2] = j
  BY DEF Places, Sides
<1>6. \A x \in Places(m) : x[1] \in Sides /\ x[2] \in DOMAIN m.levels[x[1]]
  BY DEF Places, Sides
<1>. HIDE DEF N
<1>7. /\ DOMAIN event = 1 .. N
      /\ \A i \in 1 .. N : event[i] = ChangeAt(book, o[i][1], m.levels[o[i][1]][o[i][2]].price)
      /\ event = [i \in 1 .. N |-> event[i]]
  BY <1>3 DEF Listed
<1>8. ASSUME NEW i \in 1 .. N
      PROVE  /\ event[i] \in Change
             /\ event[i].side = o[i][1] /\ event[i].price = m.levels[o[i][1]][o[i][2]].price
             /\ event[i].price \in Prices => event[i].row = book[event[i].side][event[i].price]
  <2>1. o[i][1] \in Sides /\ o[i][2] \in DOMAIN m.levels[o[i][1]]
    BY <1>3, <1>6
  <2>2. m.levels[o[i][1]][o[i][2]].price \in Prices \union {Unparsable}
    BY <1>4, <2>1
  <2>. QED
    BY <1>7, <2>1, <2>2, ChangeAtType
<1>9. event \in Seq(Change)
  BY <1>2, <1>7, <1>8
<1>10. ASSUME NEW s \in Sides, NEW j \in DOMAIN m.levels[s]
       PROVE  \E i \in DOMAIN event : event[i].side = s /\ event[i].price = m.levels[s][j].price
  <2>1. PICK i \in 1 .. N : o[i] = <<s, j>>
    BY <1>3, <1>5
  <2>. QED
    BY <1>5, <1>7, <1>8, <2>1
<1>. QED
  BY <1>7, <1>8, <1>9, <1>10

-----------------------------------------------------------------------------
(* The feed.                                                               *)

FeedInv == IInv /\ FeedTypeOK

(* No event is in flight at the start.                                     *)
LEMMA FeedInitially == ASSUME FeedInit PROVE FeedInv
<1>1. IInv
  BY InitInvariant DEF FeedInit
<1>2. feed = <<>> /\ unannounced = {}
  BY DEF FeedInit
<1>. QED
  BY <1>1, <1>2, ChangeFeedAssumption DEF FeedInv, FeedTypeOK, IInv

(* A publication puts an event of its message at the end of the queue.     *)
LEMMA PublishFeed ==
  ASSUME NEW m \in Messages, FeedInv, Publish(m)
  PROVE  /\ FeedInv' /\ sizes' \in Book
         /\ Len(feed) \in Nat /\ Len(feed') = Len(feed) + 1
         /\ \A i \in 1 .. Len(feed) : feed'[i] = feed[i]
         /\ \E event \in Changes(sizes', m) :
              /\ event \in Seq(Change) /\ feed'[Len(feed) + 1] = event
              /\ unannounced' = (unannounced \union Changed(sizes, sizes')) \ Announced(event)
<1>1. IInv' /\ sizes' \in Book
  BY NewBook DEF FeedInv, Publish
<1>2. PICK event \in Changes(sizes', m) :
        /\ feed' = Append(feed, event)
        /\ unannounced' = (unannounced \union Changed(sizes, sizes')) \ Announced(event)
  BY DEF Publish
<1>3. feed \in Seq(Seq(Change)) /\ unannounced \subseteq Slots /\ Len(feed) < MaxInFlight
  BY DEF FeedInv, FeedTypeOK, Publish
<1>4. event \in Seq(Change)
  BY <1>1, ChangesOfMessage
<1>5. unannounced' \subseteq Slots
  BY <1>2, <1>3 DEF Changed
<1>6. feed' \in Seq(Seq(Change)) /\ Len(feed) \in Nat /\ Len(feed') = Len(feed) + 1
  BY <1>2, <1>3, <1>4
<1>7. Len(feed') <= MaxInFlight
  BY <1>3, <1>6, ChangeFeedAssumption
<1>8. FeedInv'
  BY <1>1, <1>5, <1>6, <1>7 DEF FeedInv, FeedTypeOK, IInv
<1>9. /\ feed'[Len(feed) + 1] = event
      /\ \A i \in 1 .. Len(feed) : feed'[i] = feed[i]
  BY <1>2, <1>3, <1>4
<1>. QED
  BY <1>1, <1>2, <1>4, <1>6, <1>8, <1>9

(* A publication that fails changes the book only.                         *)
LEMMA PublishFailsFeed ==
  ASSUME NEW m \in Messages, FeedInv, PublishFails(m)
  PROVE  FeedInv' /\ sizes' \in Book
<1>1. IInv' /\ sizes' \in Book
  BY NewBook DEF FeedInv, PublishFails
<1>2. unannounced' \subseteq Slots /\ feed' = feed
  BY DEF FeedInv, FeedTypeOK, PublishFails, Changed
<1>. QED
  BY <1>1, <1>2 DEF FeedInv, FeedTypeOK, IInv

(* A delivery moves each event one place forward.                          *)
LEMMA TakeFeed ==
  ASSUME FeedInv, Take
  PROVE  /\ FeedInv'
         /\ Len(feed) \in Nat \ {0} /\ Len(feed') = Len(feed) - 1
         /\ Head(feed) = feed[1] /\ feed[1] \in Seq(Change)
         /\ \A i \in 1 .. Len(feed') : feed'[i] = feed[i + 1]
<1>1. feed \in Seq(Seq(Change)) /\ feed # <<>> /\ feed' = Tail(feed) /\ Len(feed) <= MaxInFlight
  BY DEF FeedInv, FeedTypeOK, Take
<1>2. /\ Len(feed) \in Nat \ {0} /\ Len(feed') = Len(feed) - 1
      /\ Head(feed) = feed[1] /\ feed[1] \in Seq(Change)
      /\ \A i \in 1 .. Len(feed') : feed'[i] = feed[i + 1]
      /\ feed' \in Seq(Seq(Change))
  BY <1>1
<1>3. Len(feed') <= MaxInFlight
  BY <1>1, <1>2, ChangeFeedAssumption
<1>4. UNCHANGED <<levels, sizes, platforms, exchangeBest, systemBest, unannounced>>
  BY DEF Take
<1>5. IInv'
  BY <1>4 DEF FeedInv, IInv, TypeOK, KeysAreLiveLevels, SystemBboIsBest,
              ContributorsAreKnown, Live, IsEmpty
<1>6. unannounced' \subseteq Slots
  BY <1>4 DEF FeedInv, FeedTypeOK
<1>. QED
  BY <1>2, <1>3, <1>5, <1>6 DEF FeedInv, FeedTypeOK, IInv

(* Nothing of the feed depends on other variables.                         *)
LEMMA FeedStutters == ASSUME FeedInv, UNCHANGED feedVars PROVE FeedInv'
BY DEF FeedInv, FeedTypeOK, feedVars, IInv, TypeOK, KeysAreLiveLevels,
       SystemBboIsBest, ContributorsAreKnown, Live, IsEmpty

-----------------------------------------------------------------------------
(* The subscriber that follows the protocol.                               *)

ViewInv == FeedInv /\ view \in Book /\ ViewConverges

(* The positions of the events in flight that name x. *)
Namers(x) == {i \in DOMAIN feed : Naming(feed[i], x) # {}}

(* They are positions of the queue.                                        *)
LEMMA NamersInRange ==
  ASSUME FeedInv, NEW x
  PROVE  Namers(x) \subseteq 1 .. Len(feed) /\ Len(feed) \in Nat
BY DEF FeedInv, FeedTypeOK, Namers

(* The last change of an event that names x is one of x.                   *)
LEMMA LastNaming ==
  ASSUME NEW event \in Seq(Change), NEW x \in Slots, Naming(event, x) # {}
  PROVE  LET k == LastOf(Naming(event, x))
         IN  /\ k \in DOMAIN event /\ event[k].side = x[1] /\ event[k].price = x[2]
             /\ event[k] \in Change
<1>1. Naming(event, x) \subseteq 0 .. Len(event) /\ Len(event) \in Nat
  BY DEF Naming
<1>2. LastOf(Naming(event, x)) \in Naming(event, x)
  BY <1>1, LastOfIsMember
<1>. QED
  BY <1>2 DEF Naming, Slots

(* A new event carries the present row of each level it names; where it    *)
(* names none, nothing changed.                                            *)
LEMMA ViewConvergesOnPublish ==
  ASSUME NEW m \in Messages, ViewInv, Publish(m), UNCHANGED view
  PROVE  ViewConverges'
<1>. SUFFICES ASSUME NEW x \in Slots, x \notin unannounced'
              PROVE  Expected(x)' = sizes'[x[1]][x[2]]
  BY DEF ViewConverges
<1>1. FeedInv /\ ViewConverges
  BY DEF ViewInv
<1>2. PICK event \in Changes(sizes', m) :
        /\ FeedInv' /\ sizes' \in Book /\ event \in Seq(Change) /\ Len(feed) \in Nat
        /\ Len(feed') = Len(feed) + 1 /\ feed'[Len(feed) + 1] = event
        /\ \A i \in 1 .. Len(feed) : feed'[i] = feed[i]
        /\ unannounced' = (unannounced \union Changed(sizes, sizes')) \ Announced(event)
  BY <1>1, PublishFeed
<1>3. DOMAIN feed = 1 .. Len(feed) /\ DOMAIN feed' = 1 .. (Len(feed) + 1)
  BY <1>1, <1>2 DEF FeedInv, FeedTypeOK
<1>4. \A i \in DOMAIN event : event[i].price \in Prices =>
         event[i].row = sizes'[event[i].side][event[i].price]
  BY <1>2, ChangesOfMessage
<1>5. unannounced' = (unannounced \union Changed(sizes, sizes')) \ Announced(event)
  BY <1>2
<1>6. CASE Naming(event, x) # {}
  <2>1. Len(feed) + 1 \in Namers(x)'
    BY <1>2, <1>3, <1>6 DEF Namers
  <2>2. Namers(x)' \subseteq 1 .. (Len(feed) + 1)
    BY <1>3 DEF Namers
  <2>3. LastOf(Namers(x)') = Len(feed) + 1
    <3>1. Namers(x)' \subseteq Nat /\ \A j \in Namers(x)' : j <= Len(feed) + 1
      BY <1>2, <2>2
    <3>. QED
      BY <2>1, <3>1, GreatestIsLastOf
  <2>4. Expected(x)' = event[LastOf(Naming(event, x))].row
    BY <1>2, <2>1, <2>3 DEF Expected, Namers
  <2>. QED
    BY <1>2, <1>4, <1>6, <2>4, LastNaming DEF Slots
<1>7. CASE Naming(event, x) = {}
  <2>1. x \notin Announced(event)
    BY <1>7 DEF Announced, Naming
  <2>2. x \notin unannounced /\ sizes'[x[1]][x[2]] = sizes[x[1]][x[2]]
    BY <1>5, <2>1 DEF Changed
  <2>3. Namers(x)' = Namers(x)
    BY <1>2, <1>3, <1>7 DEF Namers
  <2>4. Expected(x)' = Expected(x)
    <3>1. CASE Namers(x) = {}
      BY <2>3, <3>1 DEF Expected, Namers
    <3>2. CASE Namers(x) # {}
      <4>1. LastOf(Namers(x)) \in 1 .. Len(feed)
        BY <1>1, <3>2, NamersInRange, LastOfIsMember
      <4>2. feed'[LastOf(Namers(x))] = feed[LastOf(Namers(x))]
        BY <1>2, <4>1
      <4>. QED
        BY <2>3, <3>2, <4>2 DEF Expected, Namers
    <3>. QED
      BY <3>1, <3>2
  <2>. QED
    BY <1>1, <2>2, <2>4 DEF ViewConverges
<1>. QED
  BY <1>6, <1>7

(* A failed publication leaves the levels it changed unannounced.          *)
LEMMA ViewConvergesOnFailure ==
  ASSUME NEW m \in Messages, ViewInv, PublishFails(m), UNCHANGED view
  PROVE  ViewConverges'
<1>. SUFFICES ASSUME NEW x \in Slots, x \notin unannounced'
              PROVE  Expected(x)' = sizes'[x[1]][x[2]]
  BY DEF ViewConverges
<1>1. x \notin unannounced /\ sizes'[x[1]][x[2]] = sizes[x[1]][x[2]]
  BY DEF PublishFails, Changed
<1>2. Expected(x)' = Expected(x)
  BY DEF PublishFails, Expected
<1>. QED
  BY <1>1, <1>2 DEF ViewInv, ViewConverges

(* Taking the oldest event brings the view to what was expected of it.     *)
LEMMA ViewConvergesOnDelivery ==
  ASSUME ViewInv, Deliver
  PROVE  ViewConverges' /\ view' \in Book
<1>1. FeedInv /\ ViewConverges /\ view \in Book
  BY DEF ViewInv
<1>2. /\ FeedInv'
      /\ Len(feed) \in Nat \ {0} /\ Len(feed') = Len(feed) - 1
      /\ Head(feed) = feed[1] /\ feed[1] \in Seq(Change)
      /\ \A i \in 1 .. Len(feed') : feed'[i] = feed[i + 1]
  BY <1>1, TakeFeed DEF Deliver
<1>3. DOMAIN feed = 1 .. Len(feed) /\ DOMAIN feed' = 1 .. (Len(feed) - 1)
  BY <1>1, <1>2 DEF FeedInv, FeedTypeOK
<1>4. ASSUME NEW x \in Slots
      PROVE  /\ view'[x[1]][x[2]] = IF Naming(feed[1], x) = {} THEN view[x[1]][x[2]]
                                    ELSE feed[1][LastOf(Naming(feed[1], x))].row
             /\ view'[x[1]][x[2]] \in [Platforms -> Sizes]
  <2>1. PICK s \in Sides, p \in Prices : x = <<s, p>>
    BY DEF Slots
  <2>2. view'[s][p] = IF Naming(feed[1], x) = {} THEN view[s][p]
                      ELSE feed[1][LastOf(Naming(feed[1], x))].row
    BY <1>2, <2>1 DEF Deliver
  <2>3. view[s][p] \in [Platforms -> Sizes]
    BY <1>1 DEF Book
  <2>4. Naming(feed[1], x) # {} =>
           feed[1][LastOf(Naming(feed[1], x))].row \in [Platforms -> Sizes]
    BY <1>2, LastNaming DEF Change
  <2>. QED
    BY <2>1, <2>2, <2>3, <2>4
<1>5. view' \in Book
  <2>1. ASSUME NEW s \in Sides, NEW p \in Prices
        PROVE  view'[s][p] \in [Platforms -> Sizes]
    <3>1. <<s, p>> \in Slots /\ <<s, p>>[1] = s /\ <<s, p>>[2] = p
      BY DEF Slots
    <3>. QED
      BY <1>4, <3>1
  <2>. QED
    BY <2>1 DEF Deliver, Book
<1>6. ASSUME NEW x \in Slots, x \notin unannounced'
      PROVE  Expected(x)' = sizes'[x[1]][x[2]]
  <2>1. Expected(x) = sizes'[x[1]][x[2]]
    <3>1. UNCHANGED <<sizes, unannounced>>
      BY DEF Deliver, Take
    <3>. QED
      BY <1>1, <1>6, <3>1 DEF ViewConverges
  <2>2. \A i \in 1 .. (Len(feed) - 1) : i \in Namers(x)' <=> i + 1 \in Namers(x)
    <3>. SUFFICES ASSUME NEW i \in 1 .. (Len(feed) - 1)
                  PROVE  i \in Namers(x)' <=> i + 1 \in Namers(x)
      OBVIOUS
    <3>1. i \in DOMAIN feed' /\ i + 1 \in DOMAIN feed /\ feed'[i] = feed[i + 1]
      BY <1>2, <1>3
    <3>. QED
      BY <3>1 DEF Namers
  <2>3. Namers(x)' \subseteq 1 .. (Len(feed) - 1) /\ Namers(x) \subseteq 1 .. Len(feed)
    BY <1>3 DEF Namers
  <2>4. CASE Namers(x)' # {}
    <3>. DEFINE k == LastOf(Namers(x)')
    <3>1. k \in Namers(x)' /\ \A j \in Namers(x)' : j <= k
      <4>1. Len(feed) - 1 \in Nat /\ Namers(x)' \subseteq 0 .. (Len(feed) - 1)
        BY <1>2, <2>3
      <4>. QED
        BY <2>4, <4>1, LastOfIsGreatest
    <3>. HIDE DEF k
    <3>2. k \in 1 .. (Len(feed) - 1) /\ k + 1 \in Namers(x)
      BY <2>2, <2>3, <3>1
    <3>3. ASSUME NEW j \in Namers(x) PROVE j <= k + 1
      <4>1. CASE j = 1
        BY <1>2, <3>2, <4>1
      <4>2. CASE j # 1
        <5>1. j - 1 \in 1 .. (Len(feed) - 1) /\ (j - 1) + 1 = j
          BY <1>2, <2>3, <4>2
        <5>2. j - 1 \in Namers(x)'
          BY <2>2, <5>1
        <5>. QED
          BY <1>2, <3>1, <3>2, <5>1, <5>2
      <4>. QED
        BY <4>1, <4>2
    <3>4. LastOf(Namers(x)) = k + 1
      <4>1. Namers(x) \subseteq Nat
        BY <1>2, <2>3
      <4>. QED
        BY <3>2, <3>3, <4>1, GreatestIsLastOf
    <3>5. feed'[k] = feed[k + 1]
      BY <1>2, <3>2
    <3>6. Expected(x)' = feed'[k][LastOf(Naming(feed'[k], x))].row
      BY <2>4 DEF Expected, Namers, k
    <3>7. Expected(x) = feed[k + 1][LastOf(Naming(feed[k + 1], x))].row
      BY <3>2, <3>4 DEF Expected, Namers
    <3>. QED
      BY <2>1, <3>5, <3>6, <3>7
  <2>5. CASE Namers(x)' = {}
    <3>1. Expected(x)' = view'[x[1]][x[2]]
      BY <2>5 DEF Expected, Namers
    <3>2. Namers(x) \subseteq {1}
      <4>1. ASSUME NEW j \in Namers(x), j # 1 PROVE FALSE
        <5>1. j - 1 \in 1 .. (Len(feed) - 1) /\ (j - 1) + 1 = j
          BY <1>2, <2>3, <4>1
        <5>. QED
          BY <2>2, <2>5, <5>1
      <4>. QED
        BY <4>1
    <3>3. 1 \in Namers(x) <=> Naming(feed[1], x) # {}
      BY <1>2, <1>3 DEF Namers
    <3>4. CASE Naming(feed[1], x) = {}
      <4>1. Namers(x) = {}
        BY <3>2, <3>3, <3>4
      <4>2. Expected(x) = view[x[1]][x[2]]
        BY <4>1 DEF Expected, Namers
      <4>. QED
        BY <1>4, <2>1, <3>1, <3>4, <4>2
    <3>5. CASE Naming(feed[1], x) # {}
      <4>1. Namers(x) = {1}
        BY <3>2, <3>3, <3>5
      <4>2. LastOf(Namers(x)) = 1
        BY <4>1 DEF LastOf
      <4>3. Expected(x) = feed[1][LastOf(Naming(feed[1], x))].row
        BY <4>1, <4>2 DEF Expected, Namers
      <4>. QED
        BY <1>4, <2>1, <3>1, <3>5, <4>3
    <3>. QED
      BY <3>4, <3>5
  <2>. QED
    BY <2>4, <2>5
<1>. QED
  BY <1>5, <1>6 DEF ViewConverges

(* The invariant of book, feed and subscriber.                             *)
THEOREM ViewInvariant == ViewSpec => []ViewInv
<1>1. ASSUME ViewInit PROVE ViewInv
  <2>1. FeedInv
    BY <1>1, FeedInitially DEF ViewInit
  <2>2. view = EmptySizes /\ sizes = EmptySizes /\ feed = <<>>
    BY <1>1 DEF ViewInit, FeedInit, Init
  <2>3. view \in Book
    BY <2>2, OrderbookAssumption DEF EmptySizes, Book
  <2>4. ViewConverges
    BY <2>2 DEF ViewConverges, Expected
  <2>. QED
    BY <2>1, <2>3, <2>4 DEF ViewInv
<1>2. ASSUME ViewInv, [ViewNext]_viewVars PROVE ViewInv'
  <2>1. ASSUME NEW m \in Messages, Process(m), UNCHANGED view PROVE ViewInv'
    BY <1>2, <2>1, PublishFeed, PublishFailsFeed, ViewConvergesOnPublish, ViewConvergesOnFailure
       DEF Process, ViewInv
  <2>2. CASE Deliver
    BY <1>2, <2>2, TakeFeed, ViewConvergesOnDelivery DEF ViewInv, Deliver
  <2>3. CASE UNCHANGED viewVars
    <3>1. FeedInv'
      BY <1>2, <2>3, FeedStutters DEF ViewInv, viewVars
    <3>. QED
      BY <1>2, <2>3, <3>1 DEF ViewInv, viewVars, feedVars, ViewConverges, Expected
  <2>. QED
    BY <1>2, <2>1, <2>2, <2>3 DEF ViewNext
<1>. QED
  BY <1>1, <1>2, PTL DEF ViewSpec

(* However many events are in flight, and whatever failed to be published  *)
(* before, the subscriber is on its way to the present book.               *)
THEOREM SubscribersConverge == ViewSpec => []ViewConverges
BY ViewInvariant, PTL DEF ViewInv

(* Every variable of the feed and of its subscriber keeps its type. *)
THEOREM ViewTypeCorrect == ViewSpec => []ViewTypeOK
<1>1. ViewInv => ViewTypeOK
  BY DEF ViewInv, FeedInv, ViewTypeOK, Book
<1>. QED
  BY <1>1, ViewInvariant, PTL

(* A level that a delta changes has been named by one of its updates, so   *)
(* that publish_change, which names them all, leaves none unannounced.     *)
LEMMA DeltasAreAnnounced ==
  ASSUME NEW m \in Messages, FeedInv, Publish(m), m.type # "snapshot"
  PROVE  unannounced' \subseteq unannounced
<1>0. PICK event \in Changes(sizes', m) :
        unannounced' = (unannounced \union Changed(sizes, sizes')) \ Announced(event)
  BY PublishFeed
<1>. SUFFICES ASSUME NEW x \in Changed(sizes, sizes')
              PROVE  x \in Announced(event)
  BY <1>0
<1>1. PICK s \in Sides, p \in Prices : x = <<s, p>> /\ sizes[s][p] # sizes'[s][p]
  BY DEF Changed, Slots
<1>2. sizes \in Book /\ sizes' \in Book
  BY PublishFeed DEF FeedInv, IInv, TypeOK, Book
<1>3. Writes(m, s, p) # {}
  <2>. SUFFICES ASSUME Writes(m, s, p) = {}
                PROVE  \A pl \in Platforms : sizes'[s][p][pl] = sizes[s][p][pl]
    <3>1. sizes[s][p] \in [Platforms -> Sizes] /\ sizes'[s][p] \in [Platforms -> Sizes]
      BY <1>2 DEF Book
    <3>. QED
      BY <1>1, <3>1
  <2>. QED
    BY DEF Publish, Apply, SizesAfter, Cleared
<1>4. PICK j \in DOMAIN m.levels[s] : m.levels[s][j].price = p
  BY <1>3 DEF Writes
<1>5. \E i \in DOMAIN event : event[i].side = s /\ event[i].price = p
  BY <1>2, <1>4, ChangesOfMessage
<1>. QED
  BY <1>1, <1>5 DEF Announced

(* Only a snapshot, or a publication that failed, leaves a change that no  *)
(* event carries.                                                          *)
THEOREM DeltasAreNotSilent == ViewSpec => OnlySnapshotsAndFailuresAreSilent
<1>1. ASSUME ViewInv, [ViewNext]_viewVars
      PROVE  [unannounced' \subseteq unannounced
              \/ \E m \in Messages :
                   PublishFails(m) \/ (m.type = "snapshot" /\ Publish(m))]_viewVars
  <2>1. ASSUME NEW m \in Messages, Process(m)
        PROVE  unannounced' \subseteq unannounced
               \/ PublishFails(m) \/ (m.type = "snapshot" /\ Publish(m))
    BY <1>1, <2>1, DeltasAreAnnounced DEF Process, ViewInv
  <2>2. CASE Deliver
    BY <2>2 DEF Deliver, Take
  <2>. QED
    BY <1>1, <2>1, <2>2 DEF ViewNext
<1>. QED
  BY <1>1, ViewInvariant, PTL DEF ViewSpec, OnlySnapshotsAndFailuresAreSilent

-----------------------------------------------------------------------------
(* The executor's cache.                                                   *)

RoutingInv ==
  FeedInv /\ RoutingTypeOK /\ CachedPricesWereQuoted /\ CacheNeverPessimistic

(* AsGood is an order.                                                     *)
LEMMA AsGoodOrders ==
  ASSUME NEW s, NEW p \in Prices, NEW q \in Prices, NEW r \in Prices
  PROVE  AsGood(s, p, p) /\ (AsGood(s, p, q) /\ AsGood(s, q, r) => AsGood(s, p, r))
<1>1. p \in Int /\ q \in Int /\ r \in Int
  BY OrderbookAssumption DEF Prices
<1>. QED
  BY <1>1 DEF AsGood

(* What an event offers for a platform are prices of its levels. *)
LEMMA OfferedPrices ==
  ASSUME NEW event \in Seq(Change), NEW s \in Sides, NEW pl \in Platforms
  PROVE  Offered(event, s, pl) \subseteq Prices
<1>1. ASSUME NEW i \in Handled(event) PROVE event[i].price \in Prices
  <2>1. i \in DOMAIN event /\ event[i].price # Unparsable
    <3>1. i \in DOMAIN event /\ i \in 1 .. i
      BY DEF Handled
    <3>. QED
      BY <3>1 DEF Handled
  <2>2. event[i] \in Change
    BY <2>1
  <2>. QED
    BY <2>1, <2>2 DEF Change
<1>. QED
  BY <1>1 DEF Offered

(* The event of a message offers for a platform only prices at which the   *)
(* book has an order of it.                                                *)
LEMMA OfferedAreOrders ==
  ASSUME NEW m \in Messages, NEW book \in Book, NEW event \in Changes(book, m),
         NEW s \in Sides, NEW pl \in Platforms
  PROVE  Offered(event, s, pl) \subseteq {p \in Prices : book[s][p][pl] # 0}
<1>1. event \in Seq(Change) /\ Offered(event, s, pl) \subseteq Prices
  BY ChangesOfMessage, OfferedPrices
<1>2. \A i \in DOMAIN event : event[i].price \in Prices =>
         event[i].row = book[event[i].side][event[i].price]
  BY ChangesOfMessage
<1>3. ASSUME NEW p \in Offered(event, s, pl) PROVE book[s][p][pl] # 0
  <2>1. PICK i \in Handled(event) : event[i].side = s /\ event[i].row[pl] # 0 /\ event[i].price = p
    BY DEF Offered
  <2>2. i \in DOMAIN event /\ p \in Prices
    BY <1>1 DEF Handled
  <2>. QED
    BY <1>2, <2>1, <2>2
<1>. QED
  BY <1>1, <1>3

(* It offers every order at the levels that it gets to. *)
LEMMA HandledAreOffered ==
  ASSUME NEW m \in Messages, NEW book \in Book, NEW event \in Changes(book, m),
         NEW s \in Sides, NEW p \in Prices, NEW pl \in Platforms,
         NEW i \in Handled(event), event[i].side = s, event[i].price = p,
         book[s][p][pl] # 0
  PROVE  p \in Offered(event, s, pl)
<1>1. i \in DOMAIN event
  BY DEF Handled
<1>2. event[i].row = book[s][p]
  BY <1>1, ChangesOfMessage
<1>. QED
  BY <1>2 DEF Offered

(* What a message quotes is on its way to the cache, unless it is unheard. *)
LEMMA RoutingOnMessage ==
  ASSUME NEW m \in Messages, RoutingInv, ProcessMessage(m)
  PROVE  RoutingInv'
<1>. DEFINE event == feed'[Len(feed')]
            heard == {<<event[i].side, event[i].price>> : i \in Handled(event)}
<1>1. FeedInv /\ RoutingTypeOK /\ CachedPricesWereQuoted /\ CacheNeverPessimistic
  BY DEF RoutingInv
<1>2. FeedInv' /\ sizes' \in Book /\ feed \in Seq(Seq(Change)) /\ feed' \in Seq(Seq(Change))
  <2>1. FeedInv' /\ sizes' \in Book
    BY <1>1, PublishFeed, PublishFailsFeed DEF ProcessMessage, Process
  <2>. QED
    BY <1>1, <2>1 DEF FeedInv, FeedTypeOK
<1>3. \/ feed' = feed
      \/ /\ feed' # feed /\ event \in Seq(Change) /\ event \in Changes(sizes', m)
         /\ Len(feed) \in Nat /\ Len(feed') = Len(feed) + 1 /\ feed'[Len(feed) + 1] = event
         /\ \A i \in 1 .. Len(feed) : feed'[i] = feed[i]
  <2>1. CASE Publish(m)
    <3>1. /\ event \in Seq(Change) /\ event \in Changes(sizes', m)
          /\ Len(feed) \in Nat /\ Len(feed') = Len(feed) + 1 /\ feed'[Len(feed) + 1] = event
          /\ \A i \in 1 .. Len(feed) : feed'[i] = feed[i]
      BY <1>1, <2>1, PublishFeed
    <3>. QED
      BY <3>1
  <2>2. CASE PublishFails(m)
    BY <2>2 DEF PublishFails
  <2>. QED
    BY <2>1, <2>2 DEF ProcessMessage, Process
<1>4. /\ unheard' = (unheard \union Changed(sizes, sizes')) \ (IF feed' = feed THEN {} ELSE heard)
      /\ quoted' = [s \in Sides |-> [pl \in Platforms |->
           quoted[s][pl] \union {p \in Prices : sizes'[s][p][pl] # 0}]]
      /\ cached' = cached
  BY DEF ProcessMessage
<1>. HIDE DEF event
<1>5. ASSUME NEW s \in Sides, NEW pl \in Platforms
      PROVE  /\ quoted'[s][pl] = quoted[s][pl] \union {p \in Prices : sizes'[s][p][pl] # 0}
             /\ Reaching(s, pl) \subseteq Reaching(s, pl)'
             /\ feed' = feed => Reaching(s, pl)' = Reaching(s, pl)
             /\ Reaching(s, pl)' \subseteq Reaching(s, pl) \union Offered(event, s, pl)
             /\ feed' # feed => Offered(event, s, pl) \subseteq Reaching(s, pl)'
  <2>1. quoted'[s][pl] = quoted[s][pl] \union {p \in Prices : sizes'[s][p][pl] # 0}
    BY <1>4
  <2>2. CASE feed' = feed
    BY <1>4, <2>1, <2>2 DEF Reaching
  <2>3. CASE feed' # feed
    <3>1. DOMAIN feed = 1 .. Len(feed) /\ DOMAIN feed' = 1 .. (Len(feed) + 1)
      BY <1>2, <1>3, <2>3
    <3>2. Reaching(s, pl) \subseteq Reaching(s, pl)'
      BY <1>3, <1>4, <2>3, <3>1 DEF Reaching
    <3>3. ASSUME NEW q \in Reaching(s, pl)'
          PROVE  q \in Reaching(s, pl) \union Offered(event, s, pl)
      <4>1. CASE q \in {cached[s][pl]} \ {NoPrice}
        BY <4>1 DEF Reaching
      <4>2. CASE \E i \in DOMAIN feed' : q \in Offered(feed'[i], s, pl)
        <5>1. PICK i \in DOMAIN feed' : q \in Offered(feed'[i], s, pl)
          BY <4>2
        <5>2. i = Len(feed) + 1 \/ i \in DOMAIN feed
          BY <1>3, <2>3, <3>1
        <5>. QED
          BY <1>3, <2>3, <3>1, <5>1, <5>2 DEF Reaching
      <4>. QED
        BY <1>4, <4>1, <4>2 DEF Reaching
    <3>4. Offered(event, s, pl) \subseteq Reaching(s, pl)'
      <4>1. Len(feed) + 1 \in DOMAIN feed'
        BY <1>3, <2>3, <3>1
      <4>. QED
        BY <1>3, <2>3, <4>1 DEF Reaching
    <3>. QED
      BY <2>1, <2>3, <3>2, <3>3, <3>4
  <2>. QED
    BY <2>2, <2>3
<1>6. RoutingTypeOK'
  <2>1. FeedTypeOK'
    BY <1>2 DEF FeedInv
  <2>2. unheard' \subseteq Slots
    BY <1>1, <1>4 DEF RoutingTypeOK, Changed
  <2>3. cached' \in [Sides -> [Platforms -> Prices \union {NoPrice}]]
    BY <1>1, <1>4 DEF RoutingTypeOK
  <2>4. quoted' \in [Sides -> [Platforms -> SUBSET Prices]]
    <3>1. \A s \in Sides, pl \in Platforms :
            quoted[s][pl] \union {p \in Prices : sizes'[s][p][pl] # 0} \in SUBSET Prices
      BY <1>1 DEF RoutingTypeOK
    <3>. QED
      BY <1>4, <3>1
  <2>. QED
    BY <2>1, <2>2, <2>3, <2>4 DEF RoutingTypeOK
<1>7. CachedPricesWereQuoted'
  <2>. SUFFICES ASSUME NEW s \in Sides, NEW pl \in Platforms
                PROVE  Reaching(s, pl)' \subseteq quoted'[s][pl]
    BY DEF CachedPricesWereQuoted
  <2>1. feed' # feed => Offered(event, s, pl) \subseteq {p \in Prices : sizes'[s][p][pl] # 0}
    BY <1>2, <1>3, OfferedAreOrders
  <2>2. Reaching(s, pl) \subseteq quoted[s][pl]
    BY <1>1 DEF CachedPricesWereQuoted
  <2>. QED
    BY <1>5, <2>1, <2>2
<1>8. CacheNeverPessimistic'
  <2>. SUFFICES ASSUME NEW s \in Sides, NEW p \in Prices, NEW pl \in Platforms,
                       sizes'[s][p][pl] # 0, <<s, p>> \notin unheard'
                PROVE  \E q \in Reaching(s, pl)' : AsGood(s, q, p)
    BY DEF CacheNeverPessimistic
  <2>1. CASE feed' # feed /\ <<s, p>> \in heard
    <3>1. PICK i \in Handled(event) : event[i].side = s /\ event[i].price = p
      BY <2>1
    <3>2. p \in Offered(event, s, pl)
      BY <1>2, <1>3, <2>1, <3>1, HandledAreOffered
    <3>3. p \in Reaching(s, pl)'
      BY <1>5, <2>1, <3>2
    <3>. QED
      BY <3>3, AsGoodOrders
  <2>2. CASE ~(feed' # feed /\ <<s, p>> \in heard)
    <3>1. <<s, p>> \notin unheard \union Changed(sizes, sizes')
      BY <1>4, <2>2
    <3>2. sizes[s][p] = sizes'[s][p]
      BY <3>1 DEF Changed, Slots
    <3>3. \E q \in Reaching(s, pl) : AsGood(s, q, p)
      BY <1>1, <3>1, <3>2 DEF CacheNeverPessimistic
    <3>. QED
      BY <1>5, <3>3
  <2>. QED
    BY <2>1, <2>2
<1>. QED
  BY <1>2, <1>6, <1>7, <1>8 DEF RoutingInv

(* The cache keeps the best of what it had and what it hears.              *)
LEMMA RoutingOnChange ==
  ASSUME RoutingInv, HandleChange
  PROVE  RoutingInv'
<1>. DEFINE heard(s, pl) == Offered(feed[1], s, pl) \union ({cached[s][pl]} \ {NoPrice})
<1>1. FeedInv /\ RoutingTypeOK /\ CachedPricesWereQuoted /\ CacheNeverPessimistic
  BY DEF RoutingInv
<1>2. /\ FeedInv'
      /\ Len(feed) \in Nat \ {0} /\ Len(feed') = Len(feed) - 1
      /\ Head(feed) = feed[1] /\ feed[1] \in Seq(Change)
      /\ \A i \in 1 .. Len(feed') : feed'[i] = feed[i + 1]
  BY <1>1, TakeFeed DEF HandleChange
<1>3. DOMAIN feed = 1 .. Len(feed) /\ DOMAIN feed' = 1 .. (Len(feed) - 1)
  BY <1>1, <1>2 DEF FeedInv, FeedTypeOK
<1>4. UNCHANGED <<sizes, unheard, quoted>> /\ cached' = CacheAfter(feed[1])
  BY <1>2 DEF HandleChange, Take
<1>5. ASSUME NEW s \in Sides, NEW pl \in Platforms
      PROVE  /\ heard(s, pl) \subseteq Prices /\ heard(s, pl) \subseteq Reaching(s, pl)
             /\ Reaching(s, pl) \subseteq Prices
             /\ cached'[s][pl] = BestPrice(s, heard(s, pl))
             /\ Reaching(s, pl) \subseteq heard(s, pl) \union Reaching(s, pl)'
             /\ Reaching(s, pl)' \subseteq Reaching(s, pl) \union ({cached'[s][pl]} \ {NoPrice})
  <2>1. cached[s][pl] \in Prices \union {NoPrice}
    BY <1>1 DEF RoutingTypeOK
  <2>2. heard(s, pl) \subseteq Prices
    BY <1>2, <2>1, OfferedPrices
  <2>3. heard(s, pl) \subseteq Reaching(s, pl)
    BY <1>2, <1>3 DEF Reaching
  <2>4. Reaching(s, pl) \subseteq Prices
    <3>1. \A i \in DOMAIN feed : Offered(feed[i], s, pl) \subseteq Prices
      BY <1>1, OfferedPrices DEF FeedInv, FeedTypeOK
    <3>. QED
      BY <2>1, <3>1 DEF Reaching
  <2>5. cached'[s][pl] = BestPrice(s, heard(s, pl))
    BY <1>4 DEF CacheAfter
  <2>6. ASSUME NEW q \in Reaching(s, pl)
        PROVE  q \in heard(s, pl) \union Reaching(s, pl)'
    <3>1. CASE q \in {cached[s][pl]} \ {NoPrice}
      BY <3>1
    <3>2. CASE \E i \in DOMAIN feed : q \in Offered(feed[i], s, pl)
      <4>1. PICK i \in DOMAIN feed : q \in Offered(feed[i], s, pl)
        BY <3>2
      <4>2. CASE i = 1
        BY <4>1, <4>2
      <4>3. CASE i # 1
        <5>1. i - 1 \in DOMAIN feed' /\ feed'[i - 1] = feed[i]
          BY <1>2, <1>3, <4>3
        <5>. QED
          BY <4>1, <5>1 DEF Reaching
      <4>. QED
        BY <4>2, <4>3
    <3>. QED
      BY <3>1, <3>2 DEF Reaching
  <2>7. ASSUME NEW q \in Reaching(s, pl)'
        PROVE  q \in Reaching(s, pl) \union ({cached'[s][pl]} \ {NoPrice})
    <3>1. CASE \E i \in DOMAIN feed' : q \in Offered(feed'[i], s, pl)
      <4>1. PICK i \in DOMAIN feed' : q \in Offered(feed'[i], s, pl)
        BY <3>1
      <4>2. i + 1 \in DOMAIN feed /\ feed'[i] = feed[i + 1]
        BY <1>2, <1>3
      <4>. QED
        BY <4>1, <4>2 DEF Reaching
    <3>. QED
      BY <3>1 DEF Reaching
  <2>. QED
    BY <2>2, <2>3, <2>4, <2>5, <2>6, <2>7
<1>. HIDE DEF heard
<1>6. RoutingTypeOK'
  <2>1. ASSUME NEW s \in Sides, NEW pl \in Platforms
        PROVE  cached'[s][pl] \in Prices \union {NoPrice}
    BY <1>5, BestPriceType
  <2>2. cached' \in [Sides -> [Platforms -> Prices \union {NoPrice}]]
    BY <1>4, <2>1 DEF CacheAfter
  <2>. QED
    BY <1>1, <1>2, <1>4, <2>2 DEF RoutingTypeOK, FeedInv
<1>7. CachedPricesWereQuoted'
  <2>. SUFFICES ASSUME NEW s \in Sides, NEW pl \in Platforms
                PROVE  Reaching(s, pl)' \subseteq quoted[s][pl]
    BY <1>4 DEF CachedPricesWereQuoted
  <2>1. heard(s, pl) = {} => cached'[s][pl] = NoPrice
    BY <1>5 DEF BestPrice
  <2>2. heard(s, pl) # {} => cached'[s][pl] \in heard(s, pl)
    BY <1>5, BestPriceIsBest
  <2>. QED
    BY <1>1, <1>5, <2>1, <2>2 DEF CachedPricesWereQuoted
<1>8. CacheNeverPessimistic'
  <2>. SUFFICES ASSUME NEW s \in Sides, NEW p \in Prices, NEW pl \in Platforms,
                       sizes[s][p][pl] # 0, <<s, p>> \notin unheard
                PROVE  \E q \in Reaching(s, pl)' : AsGood(s, q, p)
    BY <1>4 DEF CacheNeverPessimistic
  <2>1. PICK q \in Reaching(s, pl) : AsGood(s, q, p)
    BY <1>1 DEF CacheNeverPessimistic
  <2>2. CASE q \in heard(s, pl)
    <3>1. /\ cached'[s][pl] \in heard(s, pl) /\ AsGood(s, cached'[s][pl], q)
          /\ cached'[s][pl] \in Prices /\ q \in Prices
      BY <1>5, <2>2, BestPriceIsBest
    <3>2. cached'[s][pl] \in Reaching(s, pl)'
      BY <3>1, OrderbookAssumption DEF Reaching
    <3>3. AsGood(s, cached'[s][pl], p)
      BY <2>1, <3>1, AsGoodOrders
    <3>. QED
      BY <3>2, <3>3
  <2>3. CASE q \in Reaching(s, pl)'
    BY <2>1, <2>3
  <2>. QED
    BY <1>5, <2>2, <2>3
<1>. QED
  BY <1>2, <1>6, <1>7, <1>8 DEF RoutingInv

(* The cache starts empty.                                                 *)
LEMMA RoutingInitially == ASSUME RoutingInit PROVE RoutingInv
<1>1. FeedInv
  BY FeedInitially DEF RoutingInit
<1>2. /\ feed = <<>> /\ sizes = EmptySizes /\ unheard = {}
      /\ cached = [s \in Sides |-> [pl \in Platforms |-> NoPrice]]
      /\ quoted = [s \in Sides |-> [pl \in Platforms |-> {}]]
  BY DEF RoutingInit, FeedInit, Init
<1>3. RoutingTypeOK
  BY <1>1, <1>2 DEF RoutingTypeOK, FeedInv
<1>4. CachedPricesWereQuoted
  BY <1>2 DEF CachedPricesWereQuoted, Reaching
<1>5. CacheNeverPessimistic
  BY <1>2 DEF CacheNeverPessimistic, EmptySizes
<1>. QED
  BY <1>1, <1>3, <1>4, <1>5 DEF RoutingInv

(* Every step of book, feed and cache keeps the invariant.                 *)
LEMMA RoutingStep == ASSUME RoutingInv, [RoutingNext]_routingVars PROVE RoutingInv'
<1>1. CASE UNCHANGED routingVars
  <2>1. FeedInv'
    BY <1>1, FeedStutters DEF RoutingInv, routingVars
  <2>. QED
    BY <1>1, <2>1 DEF routingVars, feedVars, RoutingInv, FeedInv, RoutingTypeOK, CachedPricesWereQuoted,
                      CacheNeverPessimistic, Reaching
<1>. QED
  BY <1>1, RoutingOnMessage, RoutingOnChange DEF RoutingNext

(* The invariant of book, feed and cache.                                  *)
THEOREM RoutingInvariant == RoutingSpec => []RoutingInv
BY RoutingInitially, RoutingStep, PTL DEF RoutingSpec

(* The best price of a platform in the cache, from which an order is       *)
(* routed, is one at which that very platform had an order.                *)
THEOREM CacheInventsNothing == RoutingSpec => []CachedPricesWereQuoted
BY RoutingInvariant, PTL DEF RoutingInv

(* The cache never takes a platform for worse than it is.                  *)
THEOREM CacheIsOptimistic == RoutingSpec => []CacheNeverPessimistic
BY RoutingInvariant, PTL DEF RoutingInv
=============================================================================
