----------------------------- MODULE Ingestion -----------------------------
(***************************************************************************)
(* From the exchange to the book: what a worker's connection brings is     *)
(* normalized by the worker itself (PolymarketHandler::on_message of       *)
(* crates/polymarket/src/handler.rs, PolymarketAdapter of                  *)
(* crates/normalizer/src/polymarket/adapter.rs), published through NATS,   *)
(* and applied to the book by orderbook_service.                           *)
(*                                                                         *)
(* The book is that of one asset, Traced; the exchange's messages mention  *)
(* other assets besides.  Module WsWorker has the rest of the worker.      *)
(***************************************************************************)
EXTENDS Orderbook, SequencesExt

CONSTANTS
  Platform,    \* PolymarketAdapter::NAME
  Assets,      \* the assets that one connection is about
  Traced,      \* the asset of the book
  Batches,     \* what may happen at the exchange, each in one message
  MaxWire,     \* bound: payloads sent by the exchange and not yet read
  MaxPending   \* bound: messages in NATS

(* A change of the exchange's book: the new size of one price. *)
Move == [asset : Assets, side : Sides, price : Prices, size : Sizes]

ASSUME IngestionAssumption ==
  /\ Platform \in Platforms /\ Traced \in Assets /\ IsFiniteSet(Assets)
  /\ Batches \subseteq Seq(Move)
  /\ MaxWire \in Nat /\ MaxPending \in Nat

VARIABLES
  exchangeBook,   \* the exchange's own book of Traced
  up,             \* whether the worker is connected
  wire,           \* the payloads on the connection, oldest first
  outbox,         \* what on_message has yet to publish of one payload
  pending,        \* the normalized messages in NATS, oldest first
  gap             \* history: a change of Traced was lost, and no snapshot
                  \* of it has been sent since

ingestVars == <<bookVars, exchangeBook, up, wire, outbox, pending, gap>>

NoSizes == [s \in Sides |-> [p \in Prices |-> 0]]

IngestInit ==
  /\ Init
  /\ exchangeBook = NoSizes
  /\ up = FALSE /\ wire = <<>> /\ outbox = <<>> /\ pending = <<>>
  /\ gap = FALSE

-----------------------------------------------------------------------------
(* The exchange's messages.  A payload is a sequence of elements, a single *)
(* object being a sequence of one.  Broken is an element of a known type   *)
(* that does not deserialize, Unknown one of another type.                 *)
Broken  == [type |-> "broken"]
Unknown == [type |-> "unknown"]

(* The best prices the exchange quotes, an empty string for none. *)
Quote(a, book, s) ==
  LET quoted == {p \in Prices : book[s][p] # 0}
  IN  IF a # Traced \/ quoted = {} THEN Unparsable ELSE BestPrice(s, quoted)

PriceChange(batch, book) ==
  [type |-> "price_change",
   changes |-> [i \in DOMAIN batch |->
     [move |-> batch[i],
      best |-> [s \in Sides |-> Quote(batch[i].asset, book, s)]]]]

BookMessage(a, book) ==
  [type |-> "book", asset |-> a,
   levels |-> [s \in Sides |->
     SetToSeq({[price |-> p, size |-> book[s][p]] : p \in {q \in Prices : book[s][q] # 0}})]]

(* The books of all assets, the traced one in any place. *)
AllBooks ==
  {[i \in DOMAIN order |->
      BookMessage(order[i], IF order[i] = Traced THEN exchangeBook ELSE NoSizes)] :
   order \in SetToSeqs(Assets)}

-----------------------------------------------------------------------------
(* The adapter. *)

(* transform_book; the best prices are the first ones. *)
TransformBook(e) ==
  [asset |-> e.asset,
   message |-> [type |-> "snapshot", platform |-> Platform, levels |-> e.levels,
                best |-> [s \in Sides |->
                  IF e.levels[s] = <<>> THEN NoPrice ELSE e.levels[s][1].price]]]

(* Bug: a later change of an asset replaces the earlier ones. *)
LastUpdate(changes, a, s) ==
  LET move == changes[LastOf({j \in DOMAIN changes : changes[j].move.asset = a})].move
  IN  IF move.side = s THEN <<[price |-> move.price, size |-> move.size]>> ELSE <<>>

(* The updates of one asset and side, in the order of the message; those   *)
(* that the first n changes make.                                          *)
UpdatesUpTo(changes, a, s) ==
  LET own[n \in 0 .. Len(changes)] ==
        IF n = 0 THEN <<>>
        ELSE LET move == changes[n].move
             IN  IF move.asset = a /\ move.side = s
                 THEN Append(own[n - 1], [price |-> move.price, size |-> move.size])
                 ELSE own[n - 1]
  IN  own

Updates(changes, a, s) == UpdatesUpTo(changes, a, s)[Len(changes)]

(* transform_price_change: the changes grouped by asset, with the best     *)
(* prices of the asset's last change; the assets in the order of a         *)
(* HashMap.                                                                *)
TransformPriceChange(e) ==
  LET Of(a)   == {i \in DOMAIN e.changes : e.changes[i].move.asset = a}
      Delta(a) ==
        [asset |-> a,
         message |-> [type |-> "delta", platform |-> Platform,
                      levels |-> [s \in Sides |-> Updates(e.changes, a, s)],
                      best |-> e.changes[LastOf(Of(a))].best]]
  IN  {[i \in DOMAIN order |-> Delta(order[i])] :
         order \in SetToSeqs({a \in Assets : Of(a) # {}})}

Transformed(e) ==
  CASE e.type = "book"         -> {<<TransformBook(e)>>}
    [] e.type = "price_change" -> TransformPriceChange(e)
    [] OTHER                   -> {<<>>}

IsBroken(payload) == \E i \in DOMAIN payload : payload[i].type = "broken"

(* parse_and_transform: one element that does not deserialize fails the    *)
(* whole payload.                                                          *)
ParseAndTransform(payload) ==
  IF IsBroken(payload) THEN {<<>>}
  ELSE {FlattenSeq(parts) : parts \in
          {f \in [DOMAIN payload -> UNION {Transformed(payload[i]) : i \in DOMAIN payload}] :
             \A i \in DOMAIN payload : f[i] \in Transformed(payload[i])}}

-----------------------------------------------------------------------------
(* Whether a sequence of normalized messages has one of the traced asset,  *)
(* and whether it has a snapshot of it.                                    *)
Concerned(messages) == \E i \in DOMAIN messages : messages[i].asset = Traced

Resyncs(messages) ==
  \E i \in DOMAIN messages :
     messages[i].asset = Traced /\ messages[i].message.type = "snapshot"

(* What the payloads on the connection will become. *)
Coming(payloads) ==
  FlattenSeq([i \in DOMAIN payloads |->
                CHOOSE messages \in ParseAndTransform(payloads[i]) : TRUE])

(* Messages are lost, with others behind them that are not. *)
Lost(messages, behind) == gap' = (gap \/ (Concerned(messages) /\ ~Resyncs(behind)))

(* What may come in one array with an element. *)
Company == {<<>>, <<Unknown>>, <<Broken>>}

(* A book of the traced asset, when the first n moves have been made. *)
Played(book, batch) ==
  LET played[n \in 0 .. Len(batch)] ==
        IF n = 0 THEN book
        ELSE LET move == batch[n]
             IN  IF move.asset = Traced
                 THEN [played[n - 1] EXCEPT ![move.side][move.price] = move.size]
                 ELSE played[n - 1]
  IN  played

(* The exchange's book moves, and the exchange says so. *)
Trade(batch) ==
  /\ exchangeBook' = Played(exchangeBook, batch)[Len(batch)]
  /\ \/ \E company \in Company :
          LET payload == <<PriceChange(batch, exchangeBook')>> \o company
          IN  /\ up /\ Len(wire) < MaxWire
              /\ wire' = Append(wire, payload)
              /\ gap' = (gap \/ (IsBroken(payload) /\ \E i \in DOMAIN batch : batch[i].asset = Traced))
     \/ /\ ~up
        /\ gap' = (gap \/ \E i \in DOMAIN batch : batch[i].asset = Traced)
        /\ UNCHANGED wire
  /\ UNCHANGED <<bookVars, up, outbox, pending>>

(* The exchange sends the books, as it does when the worker subscribes: on *)
(* a new connection, or later on the same one.                             *)
SendBooks ==
  /\ Len(wire) < MaxWire
  /\ up' = TRUE
  /\ \E books \in AllBooks, company \in Company :
       /\ wire' = Append(wire, books \o company)
       /\ gap' = IsBroken(books \o company)
  /\ UNCHANGED <<bookVars, exchangeBook, outbox, pending>>

(* Bug: on_message is abandoned in its middle. *)
DisconnectInTheMiddle ==
  /\ up
  /\ up' = FALSE
  /\ wire' = <<>>
  /\ Lost(outbox \o Coming(wire), <<>>)
  /\ UNCHANGED <<bookVars, exchangeBook, outbox, pending>>

(* The connection is lost, with what was not read.  The loop awaits        *)
(* on_message, so that nothing is half published.                          *)
Disconnect ==
  /\ up /\ outbox = <<>>
  /\ up' = FALSE
  /\ wire' = <<>>
  /\ Lost(Coming(wire), <<>>)
  /\ UNCHANGED <<bookVars, exchangeBook, outbox, pending>>

(* on_message reads a payload. *)
OnMessage ==
  /\ wire # <<>> /\ outbox = <<>>
  /\ wire' = Tail(wire)
  /\ \E messages \in ParseAndTransform(Head(wire)) : outbox' = messages
  /\ UNCHANGED <<bookVars, exchangeBook, up, pending, gap>>

(* publish_fast, one message of the payload after the other. *)
PublishNormalized ==
  /\ outbox # <<>>
  /\ Len(pending) < MaxPending
  /\ pending' = Append(pending, Head(outbox))
  /\ outbox' = Tail(outbox)
  /\ UNCHANGED <<bookVars, exchangeBook, up, wire, gap>>

(* publish_fast fails: on_message returns, and the rest is not published. *)
PublishNormalizedFails ==
  /\ outbox # <<>>
  /\ outbox' = <<>>
  /\ Lost(outbox, Coming(wire))
  /\ UNCHANGED <<bookVars, exchangeBook, up, wire, pending>>

(* NATS Core drops a message for a subscriber that is slow or away. *)
Drop ==
  /\ pending # <<>>
  /\ pending' = Front(pending)
  /\ Lost(<<Last(pending)>>, outbox \o Coming(wire))
  /\ UNCHANGED <<bookVars, exchangeBook, up, wire, outbox>>

(* orderbook_service applies the next message, to the book of its asset. *)
ApplyNext ==
  /\ pending # <<>>
  /\ pending' = Tail(pending)
  /\ IF Head(pending).asset = Traced THEN Apply(Head(pending).message)
     ELSE UNCHANGED bookVars
  /\ UNCHANGED <<exchangeBook, up, wire, outbox, gap>>

(* orderbook_service starts anew: with empty books, and a subscription to  *)
(* what is published from then on.  Nobody asks for a snapshot.            *)
Restart ==
  /\ levels' = [s \in Sides |-> {}]
  /\ sizes' = EmptySizes
  /\ platforms' = {}
  /\ exchangeBest' = [s \in Sides |-> [pl \in Platforms |-> NoPrice]]
  /\ systemBest' = [s \in Sides |-> NoPrice]
  /\ pending' = <<>>
  /\ gap' = (gap \/ ~Resyncs(outbox \o Coming(wire)))
  /\ UNCHANGED <<exchangeBook, up, wire, outbox>>

IngestNext ==
  \/ \E batch \in Batches : Trade(batch)
  \/ SendBooks \/ Disconnect
  \/ OnMessage \/ PublishNormalized \/ PublishNormalizedFails
  \/ Drop \/ ApplyNext \/ Restart

IngestSpec == IngestInit /\ [][IngestNext]_ingestVars

-----------------------------------------------------------------------------
(* Every variable has its type, and a payload is only handled while its    *)
(* connection lasts.                                                       *)
IngestionTypeOK ==
  /\ TypeOK
  /\ exchangeBook \in [Sides -> [Prices -> Sizes]]
  /\ up \in BOOLEAN /\ gap \in BOOLEAN
  /\ Len(wire) <= MaxWire /\ Len(pending) <= MaxPending
  /\ ~up => wire = <<>> /\ outbox = <<>>

(* The sizes, when the first n of some messages have been handled. *)
BookAfter(book, messages) ==
  LET after[n \in 0 .. Len(messages)] ==
        IF n = 0 THEN book
        ELSE IF messages[n].asset = Traced THEN SizesAfter(after[n - 1], messages[n].message)
        ELSE after[n - 1]
  IN  after

(* Whatever was lost on the way, and however assets are mixed in one       *)
(* payload: since the last snapshot of an asset after which nothing of it  *)
(* was lost, the book is on its way to the exchange's own, through all     *)
(* that is under way in the connection, the worker and NATS.               *)
BookFollowsExchange ==
  ~gap =>
     LET underWay == pending \o outbox \o Coming(wire)
         last     == BookAfter(sizes, underWay)[Len(underWay)]
     IN  \A s \in Sides, p \in Prices : last[s][p][Platform] = exchangeBook[s][p]
=============================================================================
