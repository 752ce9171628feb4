# WUP in TLA+

A TLA+ specification of WUP, the prediction-market aggregator of this repository: what each
service keeps, what each of its handlers does, what the services promise one another, TLC
configurations that explore all of it on small instances, and theorems that hold for every
instance, with proofs for TLAPS. Paths below are relative to `src/`; `ob.rs:188` style
references name the file under `src/crates/`.

## 1. The system

```
exchange ──WebSocket──> aggregator (Supervisor, workers, inline normalisation)
                             │ NATS  normalized.polymarket.{market}.{asset}
                             v
                      orderbook_service ──HTTP /orderbook──────────┐
                             │ NATS  orderbook.changes.{market}.{asset}
                 ┌───────────┴───────────┐                         │
                 v                       v                         │
          executor (price cache,   gateway (registry, router,  <───┘
          router, executors)       one task + writer per client)
                 │ HTTP                  │ WebSocket
             exchange REST            clients

event_service ──HTTP── exchange's catalogue;  event_service <──> Redis <── aggregator, orderbook_service
```

| Component (crate, files) | State it keeps | Operations | What makes it hard |
|---|---|---|---|
| **Order book** (`orderbook_service/src/orderbook.rs`, `store.rs`) | bids and asks, price → platform → size; platforms seen; best prices reported and computed | `apply` (snapshot: clear the sender, insert; delta: set or remove; recompute best prices; drop empty levels); the REST readers | two platforms interleaved in one book; derived state kept beside the data; zero, repeated and unparsable numbers |
| **Message loop and change feed** (`orderbook_service/src/service.rs`) | the store; metadata cache | `process_message`, `publish_change`, metadata look-up | event read from the book after the change; publication may fail; snapshots remove what they do not name |
| **Executor's cache and router** (`executor/src/bbo_cache.rs`, `router.rs`, `api.rs`) | best bid and ask per platform | `handle_change`; submit (routed or direct), cancel, list orders | the cache is a second, lagging copy of the book, built from events only, and moves while an order is being placed |
| **Platform executors** (`executor/src/platforms/`) | credentials, dry-run flag; the exchange has the orders | sign, submit, cancel, list | each call awaits the exchange several times; an answer may be lost after the exchange acted |
| **Gateway registry** (`gateway/src/client.rs`, `subscription.rs`) | clients; each client's subjects; exact and pattern indexes | register, subscribe, unsubscribe, unregister, look-up | three copies of one relation, written one after the other and read by another task in two steps |
| **Gateway connections and router** (`gateway/src/ws_server.rs`, `router.rs`) | a task, a bounded channel and a writer per client; the NATS subscription | requests, snapshots by HTTP, keep-alive, closing; `handle_change` | snapshots and events race to one channel; slow clients; disconnection in the middle |
| **Workers** (`common/src/ws_manager.rs`, `polymarket/src/handler.rs`) | connection state, command channel, ids to subscribe to | connect, reconnect, commands, shutdown | commands while disconnected; lost connections; the exchange may be down |
| **Supervisor** (`aggregator/src/supervisor.rs`) | worker handles with the ids they were given | subscribe, unsubscribe, spawn, run/shutdown | each operation awaits one channel per worker; workers die unnoticed; capacities |
| **Normalizer** (`normalizer/src/polymarket/adapter.rs`) | – (pure) | parse, transform a book or a price change | arrays of messages; grouping by asset |
| **Event service** (`event_service/src/`), **Redis and catalogue clients** (`external_services/src/`) | events with markets and tokens in Redis | start-up, background refresh, refresh endpoint, reads | refresh and endpoint fetch and then store concurrently; restarts in between |
| **Readers of Redis** (`aggregator/src/main.rs`, `service.rs:348-414`) | tokens subscribed to; names of markets | list the keys, read one after the other | the store changes between the reads; failed reads are passed over |
| **NATS client**, **HTTP clients** | – | I/O | – |

How the parts interact: only through NATS subjects (order of one publisher kept, publications may
be lost), HTTP requests (the gateway and the metadata look-ups), Redis, and, within a
process, bounded channels (`command_tx` of a worker: 32; a gateway client: `CLIENT_CHANNEL_BUFFER_SIZE`)
and maps shared between tasks (`DashMap`, `RwLock`).

What makes each component correct:

* **Order book**: it is one independent book per platform; what is derived (best prices, the set of
  levels, the list of platforms) agrees with the orders; platforms' messages commute; a snapshot wipes out
  whatever its platform had before.
* **Change feed**: whoever applies the events arrives at the book.
* **Executor**: no invented price, no platform taken for worse than it is, orders go to a platform that
  can take them, are placed at most once, and are answered as the exchange has them.
* **Gateway**: the indexes and the subscriptions agree; a lasting subscriber is never missed; no change
  falls between the snapshot and the events; each change once and in order; nobody waits for a slow client.
* **Aggregator**: a connected worker has asked for all its ids; none exceeds its limit; no id is subscribed to twice;
  what the supervisor believes is what the worker will have; subscriptions arrive; stopping ends.
* **Event service and its readers**: Redis comes to have what the catalogue has; an older answer overwrites a newer one only when two
  refreshes overlap; one unreadable event costs no other; a market gets the name of its own token, and gets it at some time.

## 2. The modules

```
PlatformBooks   <──implemented by──  Orderbook   <── OrderbookProofs, BookReaders, Ingestion
                                        ^
                                     ChangeFeed
                                     ^        ^
                              PriceView     SmartRouting <── Orders
                                     ^                         ^
                                     └──────── Executor ───────┘  <── MCExecutor
BookReaders, OrderbookProofs <── BookReadersProofs;  Ingestion, OrderbookProofs <── IngestionProofs
PriceView, SmartRouting, OrderbookProofs <── ChangeFeedProofs;  Executor, ChangeFeedProofs <── OrdersProofs
EventService <── Discovery <── DiscoveryProofs
Subjects <── ClientRegistry <── Gateway <── GatewayView, GatewayProofs
WsWorker <── Supervisor <── SupervisorProofs
```

An arrow points at the module that is extended. `MC*` modules give the constants of an instance their
values. In every module an operator whose comment begins with `Bug:` is used by no action: it is a
plausible slip in the operator after it, kept to show that a property would notice.

**PlatformBooks** – the abstract specification of the book: `own[pl][s][p]`, one book per platform; a step
changes one platform's book at will and sets `best` to the best quoted price.

**Orderbook** – `Orderbook` of `orderbook.rs`. A `BTreeMap<Decimal, PlatformSizes>` is `levels` (its keys) and
`sizes` (0 = the inner map has no entry). `Apply(m)` is the whole of `apply`: `KnownAfter`, the reported best
prices, `Cleared`/`SizesAfter` (clear, then the levels in order), `KeysAfter` (`or_insert_with`, which also makes a level for a
zero-sized update), `RecalculateSystemBbo` *before* `CleanupEmptyLevels`, as in the code.
`OrderbookStore::apply` holds the entry's write guard, hence one step. Books of different assets share
only the map, hence one asset. The loop over the levels is stated without recursion
("the last effective write of a price wins"); `LoopRow` is the loop as written, and that both compute the same is checked and proved (`LoopsComputeSizesAfter`). Prices are ticks
0..`MaxPrice`; `Unparsable` stands for any string that `Decimal::from_str` rejects. Left out: timestamps, the
counters, formatting. `Sizes` are natural numbers: an exchange quotes no negative size.

**BookReaders** – the REST endpoints of orderbook_service: `to_response`, `to_bbo_response`, `to_summary` and the operators they are made of,
and the store's `get`, `get_bbo`, `list_all`. A handler holds the entry's read guard while it builds its answer, so an answer is an expression over one
state of `Orderbook`. The mid price is doubled to stay an integer. `BestFirst`, the order in which a `BTreeMap` is walked, is
stated as what it is, an ordered walk over the listed prices. The keys of the inner map are finitely many (`ReadersAssumption`).

**ChangeFeed** – `process_message` and `publish_change` of `service.rs`: apply, read the named levels back, publish. A message of Orderbook has a list of levels per side. `Changes(book, m)` are the events that it may lead to, one for each order in which the code
may come upon its levels (`Listings`): a snapshot's bids and then its asks, a delta's updates as they come, the sides mixed in any way that keeps the order of each.
`PublishFails` is the warning without retry. `feed` is NATS between the service and one subscriber, in order;
`unannounced` is a history variable, the levels whose last change no event carried.

**Ingestion** – the way from the exchange to the book: `PolymarketHandler::on_message`, `PolymarketAdapter`, NATS, and Orderbook's `Apply` at the end.
`exchangeBook` is the exchange's own book of one asset, `Traced`; `wire`, `outbox` and `pending` hold what is in the connection, in `on_message` and in NATS. A payload is a
sequence of elements of which one may be `Broken` (a known type that does not deserialize: the whole payload fails) or `Unknown` (skipped).
`Updates`, which of the changes are those of an asset and side, is a recursive function over the changes, as the code pushes them one by one; `TransformPriceChange` groups by asset, the groups in any order, as those of a `HashMap`. `PublishNormalizedFails` is the early return in the publication loop, `Drop` NATS Core's
loss, `Restart` a new orderbook_service with empty books. The exchange's side (`Trade`, `SendBooks`) is external. History: `gap`, whether a change of the asset
was lost and no snapshot of it has been sent since.

**PriceView** – a subscriber that does what `gateway/src/protocol.rs` documents. It is external to the repository.

**SmartRouting** – `BboCache` and `SmartRouter`. `HandleChange` is `handle_change`, whose loop returns at the first
price that does not parse (`Handled`: a bad price of one side costs changes of the other one too) and in which the branch for a zero size never runs (see findings); `FindBestPlatform` is the router's choice.
Histories: `unheard` (levels whose last change did not reach the cache) and `quoted` (every price a platform ever had).

**Orders** – the three order endpoints of the executor down to the exchange. A step is what a handler does between two awaits: `Submit` (validation, routing, dry run),
`NotPosted` (building, signing or posting failed before the exchange took the order), `Post` (the exchange takes it), then `PostAnswered` or `PostAnswerLost`;
`Cancel`, `CancelArrives`, `CancelAnswered`, `CancelFails`; `List`, `ReadPage`, `ListAnswered`, `ListFails`; `Abandon` is axum dropping the handler of a client that
has gone. `held` is the exchange's list of orders, which moves by itself (`ExchangeMoves`). What the SDK promises is external: a refused
order is an error, a refused cancellation is a response that lists it, and no order of size zero is taken. One call at a time: calls share only the cache, which they read, and the exchange's orders.
A direct order's amount is not limited, as in the code. `OrderResponse` is `From<OpenOrder>` behind `get_open_orders`.

**Executor** – the services that the change feed connects: orderbook_service, the executor with its calls, and a client of the gateway. Its three
actions are those of ChangeFeed, SmartRouting and PriceView taken together (`HandleMessage`, `HearEvent`) and a step of a call (`ServeCall`). Both subscribers
take an event in one step, although each has a queue of its own: neither sees the other, and its own module lets it be as late as it may.

**EventService** – `event_service` with Redis. The start-up, the loop (`ListStored`, `Pick`) and the refresh endpoint share `Fetch`/`FetchFails` and `Store`/`StoreFails`; `StoreFails` is also a SET whose answer is lost, so that Redis has the event
and the caller an error. `Handle` is a step of a handler of the API; `task[k]` is
what the loop or the call of client `k` is doing. An event is a sequence of versions (`Contents`), of which the catalogue has one and Redis
one. `EventData` is the conversion to what is stored, a list of markets with their tokens; a token list that does not parse gives a market none. `Restart` keeps Redis and nothing else.
The background refresh is taken to be enabled (`REFRESH_INTERVAL_SECS` > 0, the default). Histories: `overtaken`, and of a call `before`, the catalogue's version when it came in,
and `had`, all that Redis has had of its event since (0: nothing).

**Discovery** – the readers: `fetch_all_token_mappings_from_redis` and the rest of the aggregator's `main`, and the look-up of a market's name in
`process_message` (`find_market_by_token_id`, then `find_market_by_id`). `Receive` is a message whose market has no name yet. It needs no aggregator that is running, since what one has sent may still be in NATS
when it is gone: the history `aggregator.subscribed` has every token that any aggregator has subscribed to. `Look`/`LookFails` read one key; `ReceiveWithoutKeys` is `KEYS` failing, which `unwrap_or_default`
turns into an empty list. `Found` is the first market of the event that has the token, and then the first one with its id, as in the code: two markets of one event may have one id. A question is never absent in the model; the code then caches the slug alone.

**Subjects**, **ClientRegistry** – `subscription.rs` and the `ClientRegistry` of `client.rs`. A step is the body of a loop for one
subject, since each index is locked for that long. The third index, `subscriptions`, is only read by functions that nobody calls.

**Gateway** – a connection's task (`task[c].at` says at which await it is), its channel `queue[c]`, its writer, and the router's task
(`route`). A request is `RequestSubscription`, one `Subscribe` per subject, `ConfirmSubscription`, then for each subject `FetchSnapshot` or
`FetchFails` and one `SendSnapshot` per book; a full channel (`Room`) ends the request with an error as in the code.
`handle_change` is `LookupExact`, `ScanPatterns`, `SendChange`; a client that unregisters while the
states of the matched clients are collected may or may not get the event, hence `\E to`. `Update` is orderbook_service: a version of
an asset's book and its event, in one step because the gateway can only see the book through HTTP
after it was applied. Histories: `synced` (whether the client has its snapshot and has lost nothing since), `seen` (the changes that
were queued for it), `route.steady` (who has been subscribed since the first look-up).

**GatewayView** – the client at the other end, external: a snapshot replaces its book, a price change updates it.

**WsWorker** – `WsManager::run` and `connect_and_run_loop` with the `PolymarketHandler` behind them: `phase`, the
command channel, the handler's `subscribed_ids`, and `exchange`, the ids the exchange sends. The unsubscription message is
built as a subscription message (`websocket.rs`), so the exchange may or may not stop sending (`SentAfter`).
`Panic` is the end of the task for any reason nobody is told of.

**Supervisor** – `subscribe_with_mappings`/`subscribe`, `unsubscribe`, `run`. An operation is `Begin...`, one step per worker it awaits, `End...`;
the order of workers is that of a `HashMap`, hence any order. `call` is the operation in progress. `Without` is what `filter` and `retain` leave; like `RememberedAfter`
it is a recursive function, not an operator of the libraries, so that it can be reasoned about.

## 3. What is model-checked

All runs are exhaustive. Distinct states are rounded.

| Run | Module / cfg | States | Question |
|---|---|---|---|
| `orderbook` | MCOrderbook | 625 | Is the book right under all snapshots and deltas? |
| `executor` | MCExecutor | 305,000 | Do subscribers of the feed arrive at the book, and can orders rely on cache and answers? |
| `gateway` | MCGateway | 69,000 | Do snapshots and events reach a client without a gap? |
| `supervisor` | MCSupervisor | 64,000 | Do subscriptions arrive, within the limits, whatever fails? |
| `ingestion` | MCIngestion | 273,000 | Does the book follow the exchange's, whatever is lost? |
| `events` | MCDiscovery | 48,000 | Does what Redis has follow the catalogue, and do its readers get it? |
| `silent_snapshot` | MCPriceView / SilentSnapshot | – | finding 1 |
| `cache_bbo` | MCSmartRouting / CacheIsBbo | – | finding 2 |
| `router_filter` | MCOrders / RoutesAmongExecutors | – | finding 3 |
| `gateway_stale` | MCGatewayView / DrainedClientIsCurrent | – | finding 4 |
| `shutdown_unreachable` | MCSupervisor / ShutdownStops | – | finding 5 |
| `order_size` | MCOrders / OrderSize | – | finding 6 |

**orderbook.** Two platforms, two prices, sizes 0 and 1; messages with nothing, with one level, with a price
twice (0 then 1, and 1 then 0), with unparsable prices and sizes, on one side and on both. `KeysAreLiveLevels`, `SystemBboIsBest`,
`ContributorsAreKnown`: derived state agrees with the orders. `CrossPlatformOrderIrrelevant`: any two messages of different platforms commute.
`SnapshotForgetsHistory`: after a snapshot the platform's part is what it would be in an empty book, so a lost or
disordered delta is repaired. `LoopsComputeSizesAfter`: the closed form is the loop. `ReadersAgree`: every answer of every
endpoint, at every depth from 0 on, hangs together with the others and with the feed's rows, though half of it is computed from the levels and half was computed by the last message. `ImplementsPlatformBooks`: refinement.
Two platforms are enough for "one and another", two prices for "better and worse", and what the code asks of a size is only
whether it is zero.

**executor.** The feed with both its subscribers, and orders. In the scenario "feed" all messages come and no order; in "orders" two messages and all calls: two platforms, one
with an executor, six requests (too large, incomplete, routed, direct, to a platform without an executor), two orders on the exchange, a page of one. Two events in flight are the
least in which an older and a newer event of one level coexist. `ViewConverges`: on each level whose last change was announced, the subscriber's state after the events in
flight is the book's. `OnlySnapshotsAndFailuresAreSilent`: a published delta announces every change it makes. Deltas have a bad price before good ones of either side. `CacheNeverPessimistic`, `CachedPricesWereQuoted`: the cache
(that it is never *optimistic* is false, finding 2). `AnswersTellTheTruth`: whatever is lost or moves between the awaits, an accepted order is on the exchange once with the request's terms,
a rejected one is not there, and none is placed twice or in dry-run mode. `OrdersGoToExecutors`: to an executor, at a price its platform quoted. `CancelledWasDecided`: "cancelled" is never answered before the
exchange has decided. The two scenarios are separate because orders read only the cache and write nothing the feed reads.

**events.** An event that is published late, whose tokens cannot be read at first and which then gets a second market before the first one, and an event that stays as it is; one of them is the start-up's. Two clients of the API:
one refreshes events, the other asks for tokens, so that an event is stored by another call between the two reads of `GetTokens`; beside the loop, one refresh is enough for an overtaken store. They call in a scenario of their own, in which only
the first event exists, since calls for different events share nothing; the readers of Redis run in another one, since they write nothing that the API reads, and all they can tell of the API is
what the loop does too. One restart of any service.
`AnswersWereTrue`: what a call answers was so at some time during the call. It has an exception, which it names: `get_tokens_handler` reads twice (`event_service/src/api.rs:133-143`), so that an event that is missing at first and stored
with tokens before the second read is answered with an empty list that was never true. The run has this behaviour; no document rules it out.
`GoesBackOnlyWhenOvertaken` and `CatalogueReachesStore` (liveness): an older version is stored only by an overtaken task, and the loop repairs it. `NothingMissedAtStart`: the aggregator runs with the tokens of
every event it could read. `NamesAreTrue`: the name cached for a market belongs to a market to whose id its token was given, or which has the id itself, though events change between reads. `TradedMarketsGetNames` (liveness): failed searches are repeated until one succeeds.

**gateway.** One connection, which subscribes by name, by pattern and by both, with an invalid pattern, unsubscribes, pings, breaks, and comes back; one asset, two changes;
a channel of two. Connections meet only in the indexes and in the router's task: one connection suffices for every race between
*its* task and the router, and the theorems of section 5 cover the indexes for any number of them. Two changes are the least for
"in order" and for a change on each side of a snapshot. A channel of two is full after a confirmation and one message, so that every
refusal occurs. `IndexesFollowConnections`, `LookupFindsSubscribers`: the indexes are what the subscriptions say.
`SteadySubscribersAreMatched`: no miss for a client with one lasting subscription (one that replaces its pattern by a name between the
router's two reads *is* missed for that event). `NoGapAfterSnapshot`: a client that has its snapshot has, or is about to get, every change.
`ChangesOnceAndInOrder`. `ChangesAreRouted` (liveness).

**supervisor.** Two workers of two ids, ids a and b, channels of two commands, a request that names an id twice. `ConnectedIsSubscribed`, `CapacityRespected`,
`NoExtraCopies`, `BeliefIsPending`, and under `ReachableSpec` the liveness properties `SubscriptionsReachExchange` and `StopCompletes`. A request that needs a third worker stays where it is
(`MaxWorkers`); it is still reached with both workers in every state. Deadlock is not looked for: the program ends. All other runs look for it.

**ingestion.** One platform, one price on both sides, two assets on one connection, one payload unread, two messages in NATS. A batch names the traced asset on one side,
twice with the other asset between, or on both sides; any payload may carry an unknown or a broken element. `BookFollowsExchange`: unless something of the asset was lost
since its last snapshot, applying all that is under way to the book gives the exchange's book, through disconnections, failed publications, drops and restarts. One price is enough, since
levels of different prices share nothing on this way but the order of their messages; two messages in NATS are the least with a lost one among others.

### Fairness

* `GatewaySpec`: weak fairness of `Route` only. The router's task awaits nothing but the next NATS message; every send is a `try_send`.
  Nothing is assumed of the writers or of the HTTP requests: a writer may be stuck for ever and the property still holds.
* `SupervisorSpec`: weak fairness of the supervisor's next step, of an attempt to connect (which may fail), of the retry after the delay,
  and of handling a command while connected. The tokio tasks are scheduled fairly; that an attempt ends relies on the operating system's time limits, as the code sets none.
* `ReachableSpec`: besides, an exchange that can be reached, in the form of strong fairness of `Connect` and of `Handle`. Without it the liveness properties
  are false: that is finding 5.

* `LoopFairness`: weak fairness of the event service's start-up and loop, which are one tokio task that never ends, and strong fairness of a fetch and of a store of each event: requests that
  are made again and again succeed at some time. Nothing is assumed of the API's calls.
* `ReaderFairness`: weak fairness of the task that handles messages, once it is looking for a name (`LookupGoesOn`); strong fairness of `Receive` while the aggregator runs with the token: messages of a subscribed token keep coming, and some search of its name reads its event. The aggregator and restarts have no fairness.

### Bounds

`MaxInFlight` (events not yet delivered), `MaxVersion` (changes of an asset), `MaxWorkers` (workers ever spawned),
`MaxWire` and `MaxPending` (payloads unread, messages in NATS), `MaxOrders` (orders the exchange takes), `MaxRestarts` (restarts of the event service and its readers) bound
what the program does not bound. `Buffer`, `ChannelSize`, `MaxSubs`, `MaxBuyAmount`, and the exchange's `PageSize`, are the program's own limits, made small so
that they are reached. Each is a CONSTANT with an assumption.

## 4. Where the code and its documents part

Each is a run whose single property states what a comment or document says, and which TLC violates.

1. `silent_snapshot` – `publish_change` (`service.rs:231-287`) says it publishes each changed level. A snapshot that drops a level without naming it
   changes the book and announces nothing; a subscriber keeps the level.
2. `cache_bbo` – `bbo_cache.rs:88-98, 113-119` means to remove a best price whose level is removed, at an entry of size zero, but such an entry is never published: the
   cached best price of a platform can only improve.
3. `router_filter` – `router.rs:60` says only platforms with an executor are considered. The best over *all* platforms is taken first, and the order refused when that one has no executor.
4. `gateway_stale` – a snapshot read by HTTP before a change and queued after its event takes the client back, and nothing repairs it.
   This is the schedule in which an event overtakes the answer of the HTTP request.
5. `shutdown_unreachable` – `ws_manager.rs:74` promises reconnection "until shutdown"; a worker reads its commands only while connected, so with the
   exchange down `Shutdown` is never read, and `Supervisor::run`, which joins the workers, does not return.
6. `order_size` – `get_open_orders` (`polymarket/client.rs:350`) puts the matched size into `size_remaining`, and `From<OpenOrder>` computes the filled size from it: an untouched order is listed as filled.

Seen while reading, without a run: `SPEC.md:551` says wildcard subscriptions get no initial snapshot while `send_snapshot`
answers `{market}.*`; `protocol.rs:18` shows subjects of three segments, which never match the two of an event; a client that loses a
price change to a full channel is never told (`router.rs:183-188`); the gauge of active connections (`README.md:93`) is raised at every
reconnection and lowered once; `SPEC.md:368-372` keeps five minutes of normalized messages for "reconnection/catchup", but orderbook_service subscribes with NATS Core
(`service.rs:127`) and never reads the stream, so after its restart a book is wrong until the exchange next sends a snapshot, for which nobody asks; `SPEC.md:583` has messages buffered and a publication retried, with an alert, while NATS is
unavailable, but a publication that fails is a warning (`service.rs:212`) or ends the handling of the payload (`handler.rs:222`); `README.md:9` has the supervisor manage workers "with automatic failover", but nobody watches them, and the ids of a worker that died
count as subscribed for ever (`supervisor.rs:206`); `SPEC.md:585` has a
parse error lose a "Single message" while one broken element drops the whole array (`adapter.rs:191`), and `SPEC.md:584` has the loss of Redis degrade gracefully while the aggregator's
`main` returns an error when it cannot connect; `SPEC.md:399` and `orderbook_service/src/api.rs:35` give `depth` a default of 10 while an answer without it has all levels (`orderbook.rs:430`);
the cached slug of a market is its event's (`service.rs:380`, `orderbook.rs:520` calls it the market's), and only that of the platform whose message came first; `SPEC.md:331` keeps events with a
"configurable TTL", `store_event` sets none; expiration, post_only and tick_size of an order are accepted and dropped (`executor/src/types.rs:108-116`, `client.rs:243-253`); dry-run mode stops orders but
not cancellations; an amount of 5 passes although the message of its check says "must be less than 5" (`executor/src/api.rs:96-101`); the answer of a limit order gives its whole size as remaining even when it matched (`client.rs:284`);
only the first page of open orders is listed (`client.rs:330`); events stored after the aggregator's start, and events it could not read then, are never subscribed to (`aggregator/src/main.rs:54-72`).

## 5. What is proved

TLAPS checks these for all values of the constants, from the modules' named assumptions.

**OrderbookProofs** (from `OrderbookAssumption`). The inductive invariant is
`IInv == TypeOK /\ KeysAreLiveLevels /\ SystemBboIsBest /\ ContributorsAreKnown`. None of its parts but the type is inductive alone: the best
price is computed from the keys *before* the clean-up, so it is right only if the keys cover every order, which is what `KeysAreLiveLevels` gives;
`LiveIsKey` and `NonEmptyKeysAreLive` carry that over a message. That a best price exists at all needs the least and greatest
elements of bounded sets of numbers, proved from well-foundedness. `ApplyInvariant` has one step per conjunct.

What the loops of `apply` compute follows without an induction rule: the numbers up to which a claim holds are all of them, since otherwise there were a least one missing (`UpTo`), and
so a recursion over the levels has a solution (`Recursion`) and only one. BookReadersProofs and IngestionProofs use both facts.

* `LoopsAreSizesAfter`: the loops, level by level, compute what the model says in one expression, for any message, also one of many levels with repeated prices;
* `BookInvariant`, and from it `TypeCorrect`, `SystemBboCorrect`, `NoGhostKeys`, `HoldersAreListed`;
* `CrossPlatformCommutes`: messages of different platforms commute;
* `SnapshotResynchronises`: what a snapshot leaves does not depend on what was there;
* `BookRefinement`: `Spec => Abstract!AbstractSpec`; a step of the book is a `Move` of the message's platform.

**BookReadersProofs** (from `OrderbookAssumption` and `ReadersAssumption`). A response is made of sums over hash maps and of sums over the walk of a tree, and `ReadersAgree` says that they are
the same. A sum over a finite set does not depend on the order (`SolutionIsTotal`, `TotalIsUnique`, by the sizes of the subsets); it is what the libraries' folds compute, over a function and over the rows of an answer
(`SumFunctionIs`, `RowsSumIs`), and may be taken along a walk that meets each price once (`TotalOfImages`). The walk exists: each price stands where the number of those as good as it says (`WalkExists`). The rest is the book's own `IInv`:
the listed prices are the keys, and the first of them is the best that the last message computed (`FirstIsBest`).

* `ReadersAlwaysAgree`: all endpoints, at every depth (0 too), and the change feed describe one book, for any number of levels and platforms.

**ChangeFeedProofs** (besides, from `ChangeFeedAssumption`). Both subscribers are reasoned about in the same way: a property of the queue as a whole, in which an event that is
published goes to the end and one that is handled leaves the front. `FeedInv` is the book's invariant with the types of the feed. `ViewInv` adds `ViewConverges` itself: of the events in flight that
name a level the *last* one has the book's present row of it, and where none does, the subscriber has it. The argument is about that last event: a publication names the level and becomes it
(`ChangesOfMessage` says what an event carries), or leaves it alone; a delivery removes it only when it was the last. `RoutingInv` adds the cache's two properties; `CacheNeverPessimistic` is inductive because a
price offered by an event in flight, or one that the cache already has, stays good enough when an order *disappears*, and the event of a better one is on its way.

* `ViewInvariant`, `SubscribersConverge`, `ViewTypeCorrect`; `DeltasAreNotSilent`, an action property: only a snapshot or a failed publication changes a level that no event names;
* `RoutingInvariant`, `CacheInventsNothing`, `CacheIsOptimistic`.

**OrdersProofs** (besides, from `OrdersAssumption`). The inductive invariant is `OrdersInv == RoutingInv /\ dryRun \in BOOLEAN /\ StageInv /\ PlacedInv /\ PriceInv /\ CancelInv /\ HeldInv`. The properties speak of
calls that are answered; the invariant says at each await what the handler knows (`StageInv`: not in dry-run mode, complete, a platform with an executor), what the exchange has of the call (`PlacedInv`:
nothing before it is posted, one order with its terms after), and what it has decided (`CancelInv`: an order that is no longer open never opens again). `RoutingInv` is in it because a price in an answer
was quoted only if the cached one was. `HeldInv` makes an open order one with something left, for which the exchange must refuse size zero.

* `OrdersInvariant`, `OrdersTypeCorrect`, `AnswersAreTrue`, `OrdersAreRouted`, `CancellationsAreDecided`.

The module ends with the composition. A step of `Executor` is a step or a stutter of each of its parts, because a call only reads what the feed writes (`CallsOnlyRead`):

* `ExecutorIsOrders` and `ExecutorIsView`: `ExecutorSpec` implements `OrdersSpec` and `ViewSpec`, so that the theorems about both hold of the whole, and `ExecutorTypeCorrect`.

**IngestionProofs** (from `OrderbookAssumption` and `IngestionAssumption`). The platform's own part of the book is what the exchange sees (`OwnOf`), and `Result(own, messages)` is what messages make of it. The inductive
invariant `IngestInv` is the book's, the types, and, unless there is a gap, `OnTheWay`: what waits in NATS, then what `on_message` has yet to publish, then what the payloads on the connection will be transformed into, turns the
own book into the exchange's. Each step moves messages from one of the three to the next, adds one at the end, or loses some.

* At the end: a payload of a trade turns the book before it into the book after it (`PriceChangeDoes`, since the last write of a price is the last move, `PlayedIsWritten`, `UpdatesUpToBody`), and one with books resynchronises (`BooksPayload`, `ResultOfResync`).
* In the middle: `on_message` may order the groups of a price change as it likes, while the invariant fixes one order for what is still on the connection. Both agree on the traced asset (`Same`, `FlattenSame`, `ParsedSame`): messages of other
  assets do not count, and of one element only one group is of the asset.
* A loss sets `gap` unless a snapshot behind it makes up for what is lost (`LossIsMadeUpFor`): after a snapshot the result does not depend on what was there.
* The libraries' `FlattenSeq` and `SetToSeqs` are opened once (`FlattenIs`, `FlattenAppend`, `FlattenHead`, `SetToSeqsCover`).

It proves `IngestionInvariant`, and from it `IngestionTypeCorrect` and `BookIsOnItsWay`, for any assets, batches of moves and lengths of the queues.

**GatewayProofs** (from `RegistryAssumption` and `GatewayAssumption`). Every step of the gateway is one call of the registry or none
(`GatewayStep`), a call keeps the indexes in agreement with the clients' own sets (`RegistryStepInv`), and `TaskInv` adds what the registry
relies on: a client is forgotten only after it is unregistered, and a new connection has no subscriptions.

* `IndexesCorrect`: the indexes follow the connections, for any number of clients, patterns and steps;
* `LookupCorrect`: the two-index look-up finds exactly the registered clients with a matching subscription. This needs `ExactMatch`: a
  pattern without a wildcard stands for itself alone.

For the delivery the inductive invariant is `DeliveryInv`. It joins eight parts. `PhaseInv` is what a connection's task has made sure of at each await: while it fetches a
snapshot, the subject is subscribed. `RouteInv` is the promise of the two-step look-up: whoever has been subscribed since its first step is among the matched, or will be found by the second
one, since the subscription it holds is in the index that is still to be read. `SyncInv` is what makes `NoGapAfterSnapshot` inductive: between the answer of the HTTP request and its
delivery, every change above the snapshot's version has been queued or is *owed*, that is, in the feed or being routed with the client among the steady; the change that comes while the book is being read is owed because
the subscription was made before. `OrderInv` says that what is queued precedes what is routed, which precedes what is in the feed. `KnownInv` bounds the set of books, so that the answer of a request is a finite list.

* `DeliveryInvariant`, `GatewayTypeCorrect`, `SteadySubscribersAreFound`, `SnapshotsLeaveNoGap`, for any clients, patterns, assets, channel sizes and numbers of changes;
* `ChangesComeInOrder`: no channel has a change twice or after a later one.

**DiscoveryProofs** (from `EventServiceAssumption`). The event service comes first: its inductive invariant `EventInv` adds to the types what is true of each task between two of its
steps (`RecordOK`): what is in hand for storing is a version the catalogue has had, not older than the catalogue when the call came in, and, unless the
task was overtaken, not older than what Redis has; for a reader, that Redis' present version is in `had`, that what it has read is too, and that it goes on to its second read only if the first one gave no tokens.
The part about Redis is what makes it inductive: every SET may break it for the other tasks, and exactly those become `overtaken`, while its version
becomes part of what they have seen (`PutInv`); all other steps leave the other tasks' facts alone (`OthersKeepTask`, `QuietStepInv`). Restarts forget every task.

* `EventTypes`: types, and Redis has nothing that the catalogue has not had;
* `AnswersAreTrue`: what the endpoints answer was so at some time during the call, for any clients and failures, but for the empty list of an event stored between two reads;
* `OnlyOvertakenGoesBack`: Redis goes back to an older version only by the SET, answered or not, of an overtaken task.

Its readers: `DiscoveryInv` joins the event service's invariant with one of each reader: the aggregator's tokens cover every event that it has read
(`AggregatorInv`), and the look-up's cached names are true (`NamesInv`). The readers rely on one thing about the writers, `EventsStay`: whatever the event service, its loop and its clients do,
no event leaves Redis and versions only grow, so that what was true of some version stays so.

* `DiscoveryInvariant`, `DiscoveryTypes`, `StartMissesNothing`, `NamesStayTrue`.

**SupervisorProofs** (from `WorkerAssumption` and `SupervisorAssumption`). All is proved of `SupervisorSteps`, hence of both specifications whatever their fairness. `SupervisorInv` says of each worker
(`Consistent`) what its task, its channel and the supervisor's list of its ids have to do with each other. `BeliefIsPending` is in it as it stands: a command goes to the end of the channel in the same
step as the list changes, and one that is taken moves from the channel into what is remembered (`AfterAppend`, `AfterTail`). `CapacityRespected` is not inductive: that a worker stays within the limit
*after* a command follows neither from the limit now nor from that of the list, so the invariant has the limit after every prefix of the waiting commands (`WithinLimit`). `NoExtraCopies` counts; the invariant
(`CopiesInv`) says instead that the places of an id, those in the workers' lists and in what the call has in hand, map one to one into the places of the id in one request. A call moves
places and never makes any (`GivingMakesNone`, `RotatingMakesNone`, `TakingMakesNone`), except one that begins: it has only ids that nobody holds (`BeginMakesNone`).
What the recursive functions `Kept` and `RememberedAfter` are is proved without an induction rule: a set of numbers that has 0 and the successor of each of its members has all up to n, since
otherwise there were a least one missing (`UpTo`); so there is a function that solves the recursion, and the one that is defined is such a one.

* `SupervisorInvariant`, and from it `SupervisorTypeCorrect`, `ConnectionsAreSubscribed`, `LimitsAreKept`, `BeliefsComeTrue`, `NobodyGetsCopies`, for any workers, channel sizes, limits, requests and deaths.

**Only model-checked.** Every invariant, action property and refinement of the six passing runs is a theorem; what is left to TLC is liveness (`ChangesAreRouted`, `SubscriptionsReachExchange`, `StopCompletes`, `CatalogueReachesStore`,
`TradedMarketsGetNames`): proofs under fairness need ENABLED, which is out of this prover's reach. The clauses about the `scenario` of an MC module, which only leave behaviours out, are no part of what is proved.
The theorems speak of the specifications, whose behaviours include those of the instances.

## 6. What is not modelled

* `cancel_all_orders`, `get_order_status` and `set_dry_run` of the executor, the condition and slug mappings of the Redis client, `fetch_event_by_id`: nothing calls them.
* Signing, credentials, the SDK's requests: external; only what the code relies on (refusals are errors) is assumed.
* The end of a NATS subscription, after which the gateway's router and the executor's cache stop for good while their servers go on.
* The statistics of the store, and one answer for several assets, whose books may be of different moments.
* `NormalizerService`: nothing starts it any more.
* NATS and the exchanges: external; only what the code relies on (order of one publisher; loss) is assumed.
* Time: the length of delays (the reconnection delay doubles for the life of a worker, `ws_manager.rs:96`), the missing time limits of HTTP requests and handshakes, keep-alive intervals. What a timer does when it fires is modelled where it changes state (`Disconnect`, `Retry`).
* Metrics, logging, HTTP health endpoints, configuration.

## 7. Plan

In order of importance; all of it is there.

1. PlatformBooks, Orderbook, OrderbookProofs, BookReaders, BookReadersProofs.
2. ChangeFeed, PriceView, ChangeFeedProofs.
3. SmartRouting, Orders, Executor, OrdersProofs.
4. Subjects, ClientRegistry, Gateway, GatewayView, GatewayProofs.
5. WsWorker, Supervisor, SupervisorProofs.
6. Ingestion, IngestionProofs.
7. EventService, Discovery, DiscoveryProofs.

No proof of a safety property is outstanding. What would be worth adding next: the whole path, Ingestion with the feed behind its book, and more than one platform on it.
