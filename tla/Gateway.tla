------------------------------ MODULE Gateway ------------------------------
(***************************************************************************)
(* The gateway: one task per connection, which handles its requests in     *)
(* order (crates/gateway/src/ws_server.rs), one writer task per            *)
(* connection, fed by a bounded channel, and one router task, which takes  *)
(* the events of orderbook_service from NATS and sends each to its         *)
(* subscribers (router.rs).  A snapshot is read from orderbook_service by  *)
(* HTTP, beside the events.                                                *)
(*                                                                         *)
(* The book of an asset is the number of changes it has seen: an event     *)
(* <<asset, n>> announces the n-th, a snapshot n contains the first n.     *)
(***************************************************************************)
EXTENDS ClientRegistry, SequencesExt

CONSTANTS
  Requests,     \* the lists of subjects that a client may send
  Buffer,       \* CLIENT_CHANNEL_BUFFER_SIZE, a channel's capacity
  MaxVersion    \* bound: changes of one asset

ASSUME GatewayAssumption ==
  /\ Requests \subseteq Seq(Seq(STRING))
  /\ \A r \in Requests : \A i \in DOMAIN r : IsValid(r[i]) => r[i] \in Patterns
  /\ Buffer \in Nat \ {0}
  /\ MaxVersion \in Nat

VARIABLES
  task,      \* task[c]: where the connection's task is, and its work left
  queue,     \* queue[c]: the messages in the channel to the writer of c
  writers,   \* the connections whose writer runs
  version,   \* version[a]: the changes orderbook_service has applied to a
  feed,      \* the events NATS has yet to hand to the router, in order
  route,     \* where the router's task is with its event
  seen,      \* history: seen[c][a], the changes in what was queued for c
  synced     \* history: synced[c][a] is "read" once the snapshot of a is
             \* read for c, "yes" once it is queued, and "no" again when a
             \* later message is lost or c unsubscribes

gatewayVars == <<registryVars, task, queue, writers, version, feed, route,
                 seen, synced>>

Versions == 1 .. MaxVersion

Message ==
  [type : {"reply"}]
  \union [type : {"snapshot", "price_change"}, asset : Assets, version : Versions]

Reply == [type |-> "reply"]   \* any answer that carries no prices

At(phase, request, todo, answer) ==
  [at |-> phase, request |-> request, todo |-> todo, answer |-> answer]

Idle == At("idle", <<>>, <<>>, <<>>)

NotSynced == [a \in Assets |-> "no"]

Routing(phase, event, matched, steady) ==
  [at |-> phase, event |-> event, matched |-> matched, steady |-> steady]

Waiting == Routing("idle", <<>>, {}, {})

(* The same, the pairs of a client and a subscription in S given up.       *)
Without(S) == Routing(route.at, route.event, route.matched, route.steady \ S)

GatewayInit ==
  /\ RegistryInit
  /\ task = [c \in Clients |-> At("new", <<>>, <<>>, <<>>)]
  /\ queue = [c \in Clients |-> <<>>]
  /\ writers = {}
  /\ version = [a \in Assets |-> 0]
  /\ feed = <<>>
  /\ route = Waiting
  /\ seen = [c \in Clients |-> [a \in Assets |-> {}]]
  /\ synced = [c \in Clients |-> NotSynced]

-----------------------------------------------------------------------------
(* Bug: the channel is unbounded. *)
AlwaysRoom(c) == c \in writers

(* try_send succeeds: the writer holds the channel open, and there is room.*)
Room(c) == c \in writers /\ Len(queue[c]) < Buffer

(* The task of c has this to do next. *)
Continue(c, state) == task' = [task EXCEPT ![c] = state]

(* What c gets with a message. *)
Carried(msg) ==
  IF msg.type = "snapshot" THEN 1 .. msg.version ELSE {msg.version}

(* ClientState::send of an answer; when it fails, handle_socket tries to   *)
(* send an error instead, and the connection goes on.                      *)
Answer(c, state) ==
  IF Room(c)
  THEN queue' = [queue EXCEPT ![c] = Append(@, Reply)] /\ Continue(c, state)
  ELSE UNCHANGED queue /\ Continue(c, At("failing", <<>>, <<>>, <<>>))

SendError(c) ==
  /\ task[c].at = "failing"
  /\ queue' = IF Room(c) THEN [queue EXCEPT ![c] = Append(@, Reply)] ELSE queue
  /\ Continue(c, Idle)
  /\ UNCHANGED <<registryVars, writers, version, feed, route, seen, synced>>

(* handle_socket: registration, and the writer's start.  A connection that *)
(* was closed may stand for a new one; the new one has an id of its own,   *)
(* which the router cannot have matched before.                            *)
Connect(c) ==
  /\ task[c].at = "new"
  /\ c \notin route.matched
  /\ Register(c)
  /\ writers' = writers \union {c}
  /\ Continue(c, Idle)
  /\ UNCHANGED <<queue, version, feed, route, seen, synced>>

(* handle_client_message.  A subscription is refused whole, with an error, *)
(* when one of its patterns is not valid.                                  *)
RequestSubscription(c) ==
  /\ task[c].at = "idle"
  /\ \E request \in Requests :
       IF \A i \in DOMAIN request : IsValid(request[i])
       THEN Continue(c, At("subscribe", request, request, <<>>)) /\ UNCHANGED queue
       ELSE Answer(c, Idle)
  /\ UNCHANGED <<registryVars, writers, version, feed, route, seen, synced>>

RequestUnsubscription(c) ==
  /\ task[c].at = "idle"
  /\ \E request \in Requests : Continue(c, At("unsubscribe", <<>>, request, <<>>))
  /\ UNCHANGED <<registryVars, queue, writers, version, feed, route, seen, synced>>

Ping(c) ==
  /\ task[c].at = "idle"
  /\ Answer(c, Idle)
  /\ UNCHANGED <<registryVars, writers, version, feed, route, seen, synced>>

Subscribe(c) ==
  /\ task[c].at = "subscribe" /\ task[c].todo # <<>>
  /\ AddSubject(c, Head(task[c].todo))
  /\ Continue(c, At("subscribe", task[c].request, Tail(task[c].todo), <<>>))
  /\ UNCHANGED <<queue, writers, version, feed, route, seen, synced>>

(* Where the task goes once the subjects in todo are left to fetch. *)
Fetching(todo) == IF todo = <<>> THEN Idle ELSE At("fetch", <<>>, todo, <<>>)

(* The subscription is confirmed once every subject is in the index. *)
ConfirmSubscription(c) ==
  /\ task[c].at = "subscribe" /\ task[c].todo = <<>>
  /\ Answer(c, Fetching(task[c].request))
  /\ UNCHANGED <<registryVars, writers, version, feed, route, seen, synced>>

(* send_snapshot: the assets whose books a subject asks for; other         *)
(* patterns with a wildcard, and shorter subjects, ask for none.           *)
SnapshotAssets(p) ==
  {a \in Assets :
     IF Len(p) = 2 /\ p[2] \in {Star, Greater} THEN a[1] = p[1]
     ELSE ~IsWildcard(p) /\ Len(p) >= 2 /\ a[1] = p[1] /\ a[2] = p[2]}

(* The answer of orderbook_service: the books it has, in any order. *)
FetchSnapshot(c) ==
  /\ task[c].at = "fetch"
  /\ LET p     == Head(task[c].todo)
         known == {a \in SnapshotAssets(p) : version[a] > 0}
     IN  /\ \E books \in SetToSeqs({[type |-> "snapshot", asset |-> a,
                                     version |-> version[a]] : a \in known}) :
              IF books = <<>> THEN Continue(c, Fetching(Tail(task[c].todo)))
              ELSE Continue(c, At("snapshot", <<>>, task[c].todo, books))
         /\ synced' = [synced EXCEPT ![c] = [a \in Assets |->
              IF a \notin SnapshotAssets(p) \/ ~Matches(p, a) \/ @[a] = "yes" THEN @[a]
              ELSE IF a \in known THEN "read" ELSE "yes"]]
  /\ UNCHANGED <<registryVars, queue, writers, version, feed, route, seen>>

(* No answer, or an error status: a warning, and the next subject. *)
FetchFails(c) ==
  /\ task[c].at = "fetch"
  /\ SnapshotAssets(Head(task[c].todo)) # {}
  /\ Continue(c, Fetching(Tail(task[c].todo)))
  /\ UNCHANGED <<registryVars, queue, writers, version, feed, route, seen, synced>>

(* The books of the answer go out one by one; the first that finds no room *)
(* ends the answer.                                                        *)
SendSnapshot(c) ==
  /\ task[c].at = "snapshot"
  /\ LET book == Head(task[c].answer)
         rest == IF Room(c) THEN Tail(task[c].answer) ELSE <<>>
     IN  /\ IF rest = <<>> THEN Continue(c, Fetching(Tail(task[c].todo)))
            ELSE Continue(c, At("snapshot", <<>>, task[c].todo, rest))
         /\ IF Room(c)
            THEN /\ queue' = [queue EXCEPT ![c] = Append(@, book)]
                 /\ seen' = [seen EXCEPT ![c][book.asset] = @ \union Carried(book)]
                 /\ synced' = [synced EXCEPT ![c][book.asset] =
                      IF @ = "read" THEN "yes" ELSE @]
            ELSE UNCHANGED <<queue, seen, synced>>
  /\ UNCHANGED <<registryVars, writers, version, feed, route>>

Unsubscribe(c) ==
  /\ task[c].at = "unsubscribe" /\ task[c].todo # <<>>
  /\ LET p == Head(task[c].todo)
     IN  /\ IF p \in Patterns THEN RemoveSubject(c, p) ELSE UNCHANGED registryVars
         /\ route' = Without({<<c, p>>})
         /\ synced' = [synced EXCEPT ![c] = [a \in Assets |-> IF Matches(p, a) THEN "no" ELSE @[a]]]
  /\ Continue(c, At("unsubscribe", <<>>, Tail(task[c].todo), <<>>))
  /\ UNCHANGED <<queue, writers, version, feed, seen>>

ConfirmUnsubscription(c) ==
  /\ task[c].at = "unsubscribe" /\ task[c].todo = <<>>
  /\ Answer(c, Idle)
  /\ UNCHANGED <<registryVars, writers, version, feed, route, seen, synced>>

(* The loop of handle_socket ends: the peer is gone, or a keep-alive ping  *)
(* finds no room (a ping that does is like any other answer).              *)
Disconnect(c) ==
  /\ task[c].at = "idle"
  /\ RemoveClient(c)
  /\ Continue(c, At("leave", <<>>, <<>>, <<>>))
  /\ route' = Without({c} \X Patterns)
  /\ synced' = [synced EXCEPT ![c] = NotSynced]
  /\ UNCHANGED <<queue, writers, version, feed, seen>>

Forget(c) ==
  /\ task[c].at = "leave"
  /\ \E p \in subs[c] : ForgetSubject(c, p)
  /\ UNCHANGED <<task, queue, writers, version, feed, route, seen, synced>>

(* Unregistered; the writer is aborted, and what is queued goes with it. *)
Close(c) ==
  /\ task[c].at = "leave" /\ subs[c] = {}
  /\ Continue(c, At("new", <<>>, <<>>, <<>>))
  /\ queue' = [queue EXCEPT ![c] = <<>>]
  /\ writers' = writers \ {c}
  /\ seen' = [seen EXCEPT ![c] = [a \in Assets |-> {}]]
  /\ UNCHANGED <<registryVars, version, feed, route, synced>>

Write(c) ==
  /\ c \in writers /\ queue[c] # <<>>
  /\ queue' = [queue EXCEPT ![c] = Tail(@)]
  /\ UNCHANGED <<registryVars, task, writers, version, feed, route, seen, synced>>

(* The socket refuses a message: the writer ends, and its channel closes. *)
WriteFails(c) ==
  /\ c \in writers /\ queue[c] # <<>>
  /\ writers' = writers \ {c}
  /\ queue' = [queue EXCEPT ![c] = <<>>]
  /\ synced' = [synced EXCEPT ![c] = NotSynced]
  /\ UNCHANGED <<registryVars, task, version, feed, route, seen>>

-----------------------------------------------------------------------------
(* orderbook_service applies a message to a and publishes the event. *)
Update(a) ==
  /\ version[a] < MaxVersion
  /\ version' = [version EXCEPT ![a] = @ + 1]
  /\ feed' = Append(feed, <<a, version[a] + 1>>)
  /\ UNCHANGED <<registryVars, task, queue, writers, route, seen, synced>>

(* Bug: the early exit comes after the exact lookup. *)
LookupExactOrExit ==
  /\ route.at = "idle" /\ feed # <<>>
  /\ route' = IF ExactSubscribers(Head(feed)[1]) = {} THEN Waiting
              ELSE Routing("exact", Head(feed), ExactSubscribers(Head(feed)[1]), {})
  /\ feed' = Tail(feed)
  /\ UNCHANGED <<registryVars, task, queue, writers, version, seen, synced>>

(* handle_change: get_matching_subscribers, its exact lookup first. *)
LookupExact ==
  /\ route.at = "idle" /\ feed # <<>>
  /\ LET a == Head(feed)[1]
     IN  route' = Routing("exact", Head(feed), ExactSubscribers(a),
                          {x \in registered \X Patterns :
                             x[2] \in subs[x[1]] /\ Matches(x[2], a)})
  /\ feed' = Tail(feed)
  /\ UNCHANGED <<registryVars, task, queue, writers, version, seen, synced>>

ScanPatterns ==
  /\ route.at = "exact"
  /\ route' = Routing("matched", route.event,
                      route.matched \union WildcardSubscribers(route.event[1]), route.steady)
  /\ UNCHANGED <<registryVars, task, queue, writers, version, feed, seen, synced>>

(* Bug: the router awaits room in the channel of every subscriber. *)
SendWhenAllHaveRoom ==
  /\ route.at = "matched"
  /\ \A c \in route.matched \intersect registered : Room(c)
  /\ LET to == route.matched \intersect registered
         a  == route.event[1]
         n  == route.event[2]
     IN  /\ queue' = [c \in Clients |-> IF c \in to
              THEN Append(queue[c], [type |-> "price_change", asset |-> a, version |-> n])
              ELSE queue[c]]
         /\ seen' = [c \in Clients |->
              IF c \in to THEN [seen[c] EXCEPT ![a] = @ \union {n}] ELSE seen[c]]
  /\ route' = Waiting
  /\ UNCHANGED <<registryVars, task, writers, version, feed, synced>>

(* Bug: a client gets the event once for each of its subscriptions. *)
SendPerSubscription ==
  /\ route.at = "matched"
  /\ queue' = [c \in Clients |->
       IF c \in route.matched /\ Room(c)
       THEN queue[c] \o [i \in 1 .. Cardinality(subs[c]) |->
              [type |-> "price_change", asset |-> route.event[1], version |-> route.event[2]]]
       ELSE queue[c]]
  /\ route' = Waiting
  /\ UNCHANGED <<registryVars, task, writers, version, feed, seen, synced>>

(* The clients that were still registered when they were looked up get the *)
(* event once each, unless there is no room: then it is dropped for that   *)
(* client, and the router goes on.                                         *)
SendChange ==
  /\ route.at = "matched"
  /\ \E to \in SUBSET route.matched :
     LET a == route.event[1]
         n == route.event[2]
     IN  /\ route.matched \intersect registered \subseteq to
         /\ queue' = [c \in Clients |-> IF c \in to /\ Room(c)
              THEN Append(queue[c], [type |-> "price_change", asset |-> a, version |-> n])
              ELSE queue[c]]
         /\ seen' = [c \in Clients |->
              IF c \in to /\ Room(c) THEN [seen[c] EXCEPT ![a] = @ \union {n}] ELSE seen[c]]
         /\ synced' = [c \in Clients |->
              IF c \in to /\ ~Room(c) THEN [synced[c] EXCEPT ![a] = "no"] ELSE synced[c]]
  /\ route' = Waiting
  /\ UNCHANGED <<registryVars, task, writers, version, feed>>

Route == LookupExact \/ ScanPatterns \/ SendChange

Connection(c) ==
  \/ Connect(c) \/ SendError(c) \/ Disconnect(c)
  \/ RequestSubscription(c) \/ RequestUnsubscription(c) \/ Ping(c)
  \/ Subscribe(c) \/ ConfirmSubscription(c)
  \/ FetchSnapshot(c) \/ FetchFails(c) \/ SendSnapshot(c)
  \/ Unsubscribe(c) \/ ConfirmUnsubscription(c)
  \/ Forget(c) \/ Close(c)

GatewayNext ==
  \/ \E c \in Clients : Connection(c) \/ Write(c) \/ WriteFails(c)
  \/ \E a \in Assets : Update(a)
  \/ Route

(* The router's task never awaits anything but the next event. *)
GatewaySpec == GatewayInit /\ [][GatewayNext]_gatewayVars /\ WF_gatewayVars(Route)
-----------------------------------------------------------------------------
(* Every variable has its type. *)
GatewayTypeOK ==
  /\ RegistryTypeOK
  /\ task \in [Clients -> [at : {"new", "idle", "failing", "subscribe", "fetch",
                                "snapshot", "unsubscribe", "leave"},
                          request : Seq(Seq(STRING)), todo : Seq(Seq(STRING)),
                          answer : Seq(Message)]]
  /\ queue \in [Clients -> Seq(Message)]
  /\ \A c \in Clients : Len(queue[c]) <= Buffer
  /\ writers \in SUBSET Clients
  /\ version \in [Assets -> 0 .. MaxVersion]
  /\ feed \in Seq(Assets \X Versions)
  /\ route.at \in {"idle", "exact", "matched"}
  /\ route.event \in {<<>>} \union (Assets \X Versions)
  /\ route.matched \in SUBSET Clients
  /\ route.steady \in SUBSET (Clients \X Patterns)
  /\ seen \in [Clients -> [Assets -> SUBSET Versions]]
  /\ synced \in [Clients -> [Assets -> {"no", "read", "yes"}]]

(* Whatever a connection does and however it ends, the indexes have it     *)
(* under its subscriptions only, and not at all once it is unregistered.   *)
IndexesFollowConnections ==
  /\ IndexesAgree
  /\ \A c \in Clients : task[c].at = "new" =>
        \A p \in Patterns : c \notin exact[p] \union wildcard[p]

(* The router reads the indexes one after the other while connections      *)
(* change them: a client that holds a subscription from the first read to  *)
(* the last is found.                                                      *)
SteadySubscribersAreMatched ==
  route.at = "matched" => \A x \in route.steady : x[1] \in route.matched

InFlight(a) ==
  {n \in Versions : route.event = <<a, n>> \/ \E i \in DOMAIN feed : feed[i] = <<a, n>>}

(* Because the subscription is in the indexes before the book is read, no  *)
(* change falls between the snapshot and the events: a client that has its *)
(* snapshot has, or is about to get, every change ever made.               *)
NoGapAfterSnapshot ==
  \A c \in Clients, a \in Assets :
     synced[c][a] = "yes" => 1 .. version[a] \subseteq seen[c][a] \union InFlight(a)

(* A client whose subscriptions match an event several times gets it once, *)
(* and the changes of an asset in order.                                   *)
ChangesOnceAndInOrder ==
  \A c \in Clients : \A i, j \in DOMAIN queue[c] :
     LET m == queue[c][i]
         n == queue[c][j]
     IN  (i < j /\ m.type = "price_change" /\ n.type = "price_change"
           /\ m.asset = n.asset) => m.version < n.version

(* Nobody waits for a slow client: a change reaches the channel of every   *)
(* client that has its snapshot, or the client loses a message or leaves,  *)
(* although no writer is ever sure to write.                               *)
ChangesAreRouted ==
  \A c \in Clients, a \in Assets, n \in Versions :
     (synced[c][a] = "yes" /\ n <= version[a])
        ~> (n \in seen[c][a] \/ synced[c][a] # "yes")
=============================================================================
