--------------------------- MODULE GatewayProofs ---------------------------
(***************************************************************************)
(* The gateway, for any clients, patterns, assets, requests, channel       *)
(* capacities and numbers of changes.  First the registry: every step of   *)
(* the gateway is a call of it, or none, and the calls keep its indexes in *)
(* agreement with the subscriptions.  Then what the clients get: a steady  *)
(* subscriber is found, no change falls between snapshot and events, and   *)
(* the changes of an asset come once and in order.                         *)
(***************************************************************************)
EXTENDS Gateway, FiniteSetTheorems, TLAPS

(* A pattern without a wildcard stands for itself alone, which is why the  *)
(* lookup in the exact index is enough for it.                             *)
LEMMA ExactMatch ==
  ASSUME NEW p \in Seq(STRING), NEW a \in Seq(STRING), ~IsWildcard(p)
  PROVE  Matches(p, a) <=> p = a
<1>1. \A i \in DOMAIN p : p[i] \notin {Star, Greater}
  BY DEF IsWildcard
<1>2. ASSUME Matches(p, a) PROVE p = a
  <2>1. Len(p) = Len(a) /\ Covers(p, a, Len(p))
    BY <1>1, <1>2 DEF Matches
  <2>2. \A i \in 1 .. Len(p) : p[i] = a[i]
    BY <2>1, <1>1 DEF Covers
  <2>. QED
    BY <2>1, <2>2
<1>3. ASSUME p = a PROVE Matches(p, a)
  BY <1>3 DEF Matches, Covers
<1>. QED
  BY <1>2, <1>3

RegistryInv == RegistryTypeOK /\ IndexesAgree

(* Empty indexes agree with no subscriptions. *)
LEMMA RegistryInitInv == RegistryInit => RegistryInv
BY DEF RegistryInit, RegistryInv, RegistryTypeOK, IndexesAgree

(* What a call does to the entry of one pattern. *)
LEMMA RegistryStepInv ==
  ASSUME RegistryInv, [RegistryNext]_registryVars
  PROVE  RegistryInv'
<1>. USE DEF RegistryInv, RegistryTypeOK, IndexesAgree
<1>1. ASSUME NEW c \in Clients, subs[c] = {}, Register(c) PROVE RegistryInv'
  BY <1>1 DEF Register
<1>2. ASSUME NEW c \in Clients, RemoveClient(c) PROVE RegistryInv'
  BY <1>2 DEF RemoveClient
<1>3. ASSUME NEW c \in Clients, NEW p \in Patterns, AddSubject(c, p) PROVE RegistryInv'
  BY <1>3 DEF AddSubject
<1>4. ASSUME NEW c \in Clients, NEW p \in Patterns, RemoveSubject(c, p) PROVE RegistryInv'
  BY <1>4 DEF RemoveSubject, Unindex
<1>5. ASSUME NEW c \in Clients, c \notin registered, NEW p \in subs[c], ForgetSubject(c, p)
      PROVE  RegistryInv'
  BY <1>5 DEF ForgetSubject
<1>6. CASE UNCHANGED registryVars
  BY <1>6 DEF registryVars
<1>. QED
  BY <1>1, <1>2, <1>3, <1>4, <1>5, <1>6 DEF RegistryNext

(* The two lookups find the subscribers wherever the indexes agree. *)
LEMMA AgreementFinds ==
  ASSUME RegistryInv PROVE LookupFindsSubscribers
<1>. SUFFICES ASSUME NEW a \in Assets, NEW c \in registered
             PROVE  c \in ExactSubscribers(a) \union WildcardSubscribers(a)
                      <=> \E p \in subs[c] : Matches(p, a)
  BY DEF LookupFindsSubscribers, Subscribers
<1>1. a \in Seq(STRING) /\ ~IsWildcard(a) /\ Patterns \subseteq Seq(STRING)
  BY RegistryAssumption
<1>2. subs[c] \subseteq Patterns
  BY DEF RegistryInv, RegistryTypeOK
<1>3. \A p \in Patterns : ~IsWildcard(p) => (Matches(p, a) <=> p = a)
  BY <1>1, ExactMatch
<1>4. \A p \in Patterns : IsWildcard(p) => (c \in wildcard[p] <=> p \in subs[c]) /\ exact[p] = {}
  BY DEF RegistryInv, IndexesAgree
<1>5. \A p \in Patterns : ~IsWildcard(p) => (c \in exact[p] <=> p \in subs[c]) /\ wildcard[p] = {}
  BY DEF RegistryInv, IndexesAgree
<1>6. c \in ExactSubscribers(a) <=> a \in subs[c]
  BY <1>1, <1>2, <1>5 DEF ExactSubscribers
<1>7. c \in WildcardSubscribers(a) <=> \E p \in subs[c] : IsWildcard(p) /\ Matches(p, a)
  BY <1>2, <1>4, <1>5 DEF WildcardSubscribers
<1>. QED
  BY <1>1, <1>2, <1>3, <1>6, <1>7

-----------------------------------------------------------------------------
(* What a connection's task knows of the registry between its steps. *)
TaskInv ==
  /\ task = [c \in Clients |-> task[c]]
  /\ \A c \in Clients :
       /\ task[c].at = "new" => c \notin registered /\ subs[c] = {}
       /\ task[c].at = "leave" => c \notin registered
       /\ task[c].at = "subscribe" => task[c].todo \in Seq(Patterns)

(* No connection is registered at the start. *)
LEMMA TaskInitInv == GatewayInit => TaskInv
BY DEF GatewayInit, RegistryInit, TaskInv, At

(* A step that leaves the registry alone, and a task anywhere but in the   *)
(* phases TaskInv speaks of.                                               *)
LEMMA QuietStep ==
  ASSUME TaskInv, UNCHANGED registryVars, NEW c \in Clients, NEW state,
         Continue(c, state), state.at \notin {"new", "leave", "subscribe"}
  PROVE  TaskInv'
BY DEF TaskInv, Continue, registryVars

(* Every step of the gateway is a call of the registry or none. *)
LEMMA GatewayStep ==
  ASSUME RegistryTypeOK, TaskInv, [GatewayNext]_gatewayVars
  PROVE  [RegistryNext]_registryVars /\ TaskInv'
<1>. DEFINE Goal == [RegistryNext]_registryVars /\ TaskInv'
<1>. USE DEF At, Idle, Fetching
<1>1. ASSUME NEW c \in Clients, Connect(c) PROVE Goal
  BY <1>1 DEF Connect, Register, Continue, TaskInv, RegistryNext
<1>2. ASSUME NEW c \in Clients, RequestSubscription(c) PROVE Goal
  <2>1. PICK request \in Requests :
          IF \A i \in DOMAIN request : IsValid(request[i])
          THEN Continue(c, At("subscribe", request, request, <<>>))
          ELSE Answer(c, Idle)
    BY <1>2 DEF RequestSubscription
  <2>2. UNCHANGED registryVars
    BY <1>2 DEF RequestSubscription
  <2>3. CASE \A i \in DOMAIN request : IsValid(request[i])
    <3>1. request \in Seq(Patterns)
      BY <2>3, GatewayAssumption
    <3>. QED
      BY <2>1, <2>2, <2>3, <3>1 DEF TaskInv, Continue, registryVars
  <2>4. CASE ~ \A i \in DOMAIN request : IsValid(request[i])
    BY <2>1, <2>2, <2>4, QuietStep DEF Answer
  <2>. QED
    BY <2>3, <2>4
<1>14. ASSUME NEW c \in Clients, RequestUnsubscription(c) \/ Ping(c) PROVE Goal
  BY <1>14, QuietStep DEF RequestUnsubscription, Ping, Answer
<1>3. ASSUME NEW c \in Clients, Subscribe(c) PROVE Goal
  <2>1. task[c].at = "subscribe" /\ task[c].todo \in Seq(Patterns) /\ task[c].todo # <<>>
    BY <1>3 DEF Subscribe, TaskInv
  <2>2. Head(task[c].todo) \in Patterns /\ Tail(task[c].todo) \in Seq(Patterns)
    BY <2>1
  <2>3. AddSubject(c, Head(task[c].todo))
    BY <1>3 DEF Subscribe
  <2>4. RegistryNext
    BY <2>2, <2>3 DEF RegistryNext
  <2>5. Continue(c, At("subscribe", task[c].request, Tail(task[c].todo), <<>>))
    BY <1>3 DEF Subscribe
  <2>. QED
    BY <2>1, <2>2, <2>3, <2>4, <2>5 DEF TaskInv, Continue, AddSubject, RegistryTypeOK
<1>4. ASSUME NEW c \in Clients, Unsubscribe(c) PROVE Goal
  <2>. DEFINE p == Head(task[c].todo)
  <2>1. Continue(c, At("unsubscribe", <<>>, Tail(task[c].todo), <<>>))
    BY <1>4 DEF Unsubscribe
  <2>2. CASE p \in Patterns
    <3>1. RemoveSubject(c, p)
      BY <1>4, <2>2 DEF Unsubscribe
    <3>. QED
      BY <2>1, <2>2, <3>1 DEF RegistryNext, RemoveSubject, TaskInv, Continue, RegistryTypeOK
  <2>3. CASE p \notin Patterns
    BY <1>4, <2>1, <2>3, QuietStep DEF Unsubscribe
  <2>. QED
    BY <2>2, <2>3
<1>5. ASSUME NEW c \in Clients, Disconnect(c) PROVE Goal
  BY <1>5 DEF Disconnect, RemoveClient, RegistryNext, TaskInv, Continue
<1>6. ASSUME NEW c \in Clients, Forget(c) PROVE Goal
  <2>1. PICK p \in subs[c] : ForgetSubject(c, p)
    BY <1>6 DEF Forget
  <2>2. task[c].at = "leave" /\ c \notin registered /\ UNCHANGED task
    BY <1>6 DEF Forget, TaskInv
  <2>. QED
    BY <2>1, <2>2 DEF RegistryNext, ForgetSubject, TaskInv, RegistryTypeOK
<1>7. ASSUME NEW c \in Clients, Close(c) PROVE Goal
  BY <1>7 DEF Close, TaskInv, Continue, registryVars
<1>8. ASSUME NEW c \in Clients, SendError(c) PROVE Goal
  BY <1>8, QuietStep DEF SendError
<1>9. ASSUME NEW c \in Clients, ConfirmSubscription(c) \/ ConfirmUnsubscription(c) PROVE Goal
  BY <1>9, QuietStep DEF ConfirmSubscription, ConfirmUnsubscription, Answer
<1>10. ASSUME NEW c \in Clients, FetchSnapshot(c) PROVE Goal
  <2>1. PICK books : \/ Continue(c, Fetching(Tail(task[c].todo)))
                     \/ Continue(c, At("snapshot", <<>>, task[c].todo, books))
    BY <1>10 DEF FetchSnapshot
  <2>2. UNCHANGED registryVars
    BY <1>10 DEF FetchSnapshot
  <2>. QED
    BY <2>1, <2>2, QuietStep
<1>11. ASSUME NEW c \in Clients, FetchFails(c) PROVE Goal
  BY <1>11, QuietStep DEF FetchFails
<1>12. ASSUME NEW c \in Clients, SendSnapshot(c) PROVE Goal
  <2>1. PICK rest : \/ Continue(c, Fetching(Tail(task[c].todo)))
                    \/ Continue(c, At("snapshot", <<>>, task[c].todo, rest))
    BY <1>12 DEF SendSnapshot
  <2>2. UNCHANGED registryVars
    BY <1>12 DEF SendSnapshot
  <2>. QED
    BY <2>1, <2>2, QuietStep
<1>13. ASSUME \/ UNCHANGED gatewayVars
              \/ \E c \in Clients : Write(c) \/ WriteFails(c)
              \/ \E a \in Assets : Update(a)
              \/ Route
       PROVE  Goal
  <2>1. UNCHANGED <<registryVars, task>>
    BY <1>13 DEF gatewayVars, Write, WriteFails, Update, Route, LookupExact,
                 ScanPatterns, SendChange
  <2>. QED
    BY <2>1 DEF TaskInv, registryVars
<1>. QED
  BY <1>1, <1>2, <1>3, <1>4, <1>5, <1>6, <1>7, <1>8, <1>9, <1>10, <1>11, <1>12, <1>13, <1>14
  DEF GatewayNext, Connection

(* Registry and tasks agree in every reachable state. *)
LEMMA GatewayInvariant == GatewaySpec => [](RegistryInv /\ TaskInv)
<1>1. GatewayInit => RegistryInv /\ TaskInv
  BY RegistryInitInv, TaskInitInv DEF GatewayInit
<1>2. RegistryInv /\ TaskInv /\ [GatewayNext]_gatewayVars => (RegistryInv /\ TaskInv)'
  BY GatewayStep, RegistryStepInv DEF RegistryInv
<1>. QED
  BY <1>1, <1>2, PTL DEF GatewaySpec

(* However connections, requests and events interleave, the indexes have   *)
(* the clients that subscribe, and nobody who has left.                    *)
THEOREM IndexesCorrect == GatewaySpec => []IndexesFollowConnections
<1>1. RegistryInv /\ TaskInv => IndexesFollowConnections
  <2>. SUFFICES ASSUME RegistryInv, TaskInv, NEW c \in Clients, task[c].at = "new",
                      NEW p \in Patterns
               PROVE  c \notin exact[p] \union wildcard[p]
    BY DEF IndexesFollowConnections, RegistryInv
  <2>1. subs[c] = {}
    BY DEF TaskInv
  <2>. QED
    BY <2>1 DEF RegistryInv, IndexesAgree
<1>. QED
  BY <1>1, GatewayInvariant, PTL

(* At every moment the exact lookup and the scan of the patterns together  *)
(* find the clients with a subscription that matches, and only them.       *)
THEOREM LookupCorrect == GatewaySpec => []LookupFindsSubscribers
<1>1. RegistryInv => LookupFindsSubscribers
  BY AgreementFinds
<1>. QED
  BY <1>1, GatewayInvariant, PTL

-----------------------------------------------------------------------------
(* What the clients get.                                                   *)

Event == Assets \X Versions

Snapshot == [type : {"snapshot"}, asset : Assets, version : Versions]

Phases == {"new", "idle", "failing", "subscribe", "fetch", "snapshot", "unsubscribe", "leave"}

(* What a connection's task holds in each of its phases. *)
PhaseOK(c) ==
  /\ task[c].at \notin {"new", "leave"} => c \in registered
  /\ task[c].at \in {"fetch", "snapshot"} =>
       task[c].todo # <<>> /\ \A i \in DOMAIN task[c].todo : task[c].todo[i] \in subs[c]
  /\ task[c].at = "subscribe" =>
       \A i \in DOMAIN task[c].request :
          \/ task[c].request[i] \in subs[c]
          \/ \E j \in DOMAIN task[c].todo : task[c].todo[j] = task[c].request[i]
  /\ task[c].at = "snapshot" => task[c].answer # <<>> /\ task[c].answer \in Seq(Snapshot)

PhaseInv == \A c \in Clients : PhaseOK(c)

(* orderbook_service has as many books as there were first changes. *)
KnownInv == IsFiniteSet({a \in Assets : version[a] > 0})

(* Whoever held a matching subscription since the router's first read is   *)
(* found by the read of the index that its subscription is in.             *)
RouteInv ==
  /\ route.at = "idle" => route.event = <<>> /\ route.matched = {} /\ route.steady = {}
  /\ route.at # "idle" => route.event \in Event
  /\ \A x \in route.steady :
       /\ x[1] \in registered /\ x[2] \in subs[x[1]] /\ Matches(x[2], route.event[1])
       /\ route.at = "matched" \/ ~IsWildcard(x[2]) => x[1] \in route.matched

Subscribed(c, a) == c \in registered /\ \E p \in subs[c] : Matches(p, a)

(* The n-th change of a has yet to be routed, or is being routed to c. *)
Owed(c, a, n) ==
  \/ \E i \in DOMAIN feed : feed[i] = <<a, n>>
  \/ route.event = <<a, n>> /\ \E p \in Patterns : <<c, p>> \in route.steady

Gets(c, a, n) == n \in seen[c][a] \/ Owed(c, a, n)

(* A client in step with a has a subscription for it, and what its         *)
(* snapshot lacks is in its channel or on the way to it.                   *)
SyncInv ==
  \A c \in Clients, a \in Assets :
    /\ synced[c][a] # "no" => Subscribed(c, a)
    /\ synced[c][a] = "yes" => \A n \in 1 .. version[a] : Gets(c, a, n)
    /\ synced[c][a] = "read" /\ task[c].at = "snapshot" =>
         \A i \in DOMAIN task[c].answer : task[c].answer[i].asset = a =>
            \A n \in 1 .. version[a] : n <= task[c].answer[i].version \/ Gets(c, a, n)

(* The version n of a is older than what is being routed and to be routed. *)
Precedes(a, n) ==
  /\ n <= version[a]
  /\ \A i \in DOMAIN feed : feed[i][1] = a => n < feed[i][2]
  /\ route.at # "idle" => (route.event[1] = a => n < route.event[2])

QueueOK(q) ==
  /\ \A i \in DOMAIN q : q[i].type = "price_change" => Precedes(q[i].asset, q[i].version)
  /\ \A i, j \in DOMAIN q :
       (i < j /\ q[i].type = "price_change" /\ q[j].type = "price_change"
         /\ q[i].asset = q[j].asset) => q[i].version < q[j].version

(* Channels, router and feed hold the changes of an asset in order. *)
OrderInv ==
  /\ \A i \in DOMAIN feed : feed[i][2] <= version[feed[i][1]]
  /\ \A i, j \in DOMAIN feed : i < j /\ feed[i][1] = feed[j][1] => feed[i][2] < feed[j][2]
  /\ route.at # "idle" =>
       /\ route.event[2] <= version[route.event[1]]
       /\ \A i \in DOMAIN feed : feed[i][1] = route.event[1] => route.event[2] < feed[i][2]
  /\ \A c \in Clients : QueueOK(queue[c])

DeliveryInv ==
  /\ RegistryInv /\ TaskInv /\ GatewayTypeOK /\ PhaseInv /\ KnownInv
  /\ RouteInv /\ SyncInv /\ OrderInv

-----------------------------------------------------------------------------
(* Types.                                                                  *)

TaskState ==
  [at : Phases, request : Seq(Seq(STRING)), todo : Seq(Seq(STRING)), answer : Seq(Message)]

(* A task with nothing to do has its type. *)
LEMMA IdleType == Idle \in TaskState /\ Idle.at = "idle"
BY DEF Idle, At, TaskState, Phases

(* A task with subjects left is about to fetch, one without is idle. *)
LEMMA FetchingType ==
  ASSUME NEW todo \in Seq(Seq(STRING))
  PROVE  /\ Fetching(todo) \in TaskState
         /\ Fetching(todo).at \in {"idle", "fetch"}
         /\ Fetching(todo).at = "fetch" => todo # <<>> /\ Fetching(todo).todo = todo
<1>1. CASE todo = <<>>
  <2>1. Fetching(todo) = Idle
    BY <1>1 DEF Fetching
  <2>. QED
    BY <2>1, IdleType
<1>2. CASE todo # <<>>
  <2>1. Fetching(todo) = At("fetch", <<>>, todo, <<>>)
    BY <1>2 DEF Fetching
  <2>2. /\ At("fetch", <<>>, todo, <<>>) \in TaskState
        /\ At("fetch", <<>>, todo, <<>>).at = "fetch"
        /\ At("fetch", <<>>, todo, <<>>).todo = todo
    BY DEF At, TaskState, Phases
  <2>. QED
    BY <1>2, <2>1, <2>2
<1>. QED
  BY <1>1, <1>2

(* The type of a task, from the gateway's. *)
LEMMA TaskTypes ==
  ASSUME GatewayTypeOK
  PROVE  /\ task \in [Clients -> TaskState]
         /\ \A c \in Clients : /\ task[c].at \in Phases
                               /\ task[c].request \in Seq(Seq(STRING))
                               /\ task[c].todo \in Seq(Seq(STRING))
                               /\ task[c].answer \in Seq(Message)
BY DEF GatewayTypeOK, TaskState, Phases

(* Replies, snapshots and changes are messages. *)
LEMMA MessageTypes ==
  /\ Reply \in Message /\ Reply.type = "reply"
  /\ Snapshot \subseteq Message
  /\ \A a \in Assets, n \in Versions :
       [type |-> "price_change", asset |-> a, version |-> n] \in Message
BY DEF Reply, Message, Snapshot

-----------------------------------------------------------------------------
(* What the parts of the invariant depend on.                              *)

(* The router's part survives whatever takes no subscription away. *)
LEMMA RouteFrame ==
  ASSUME RouteInv, UNCHANGED route, route.steady \subseteq Clients \X Patterns,
         \A c \in registered \intersect Clients : c \in registered' /\ subs[c] \subseteq subs'[c]
  PROVE  RouteInv'
BY DEF RouteInv

(* So does the clients' part, if no answer is read for a task meanwhile. *)
LEMMA SyncFrame ==
  ASSUME SyncInv, UNCHANGED <<version, feed, route, seen, synced>>,
         \A c \in registered \intersect Clients : c \in registered' /\ subs[c] \subseteq subs'[c],
         \A c \in Clients : task'[c].at = "snapshot" =>
            task[c].at = "snapshot" /\ task'[c].answer = task[c].answer
  PROVE  SyncInv'
<1>. SUFFICES ASSUME NEW c \in Clients, NEW a \in Assets
              PROVE  /\ synced[c][a] # "no" => Subscribed(c, a)'
                     /\ synced[c][a] = "yes" => \A n \in 1 .. version[a] : Gets(c, a, n)'
                     /\ synced[c][a] = "read" /\ task'[c].at = "snapshot" =>
                          \A i \in DOMAIN task'[c].answer : task'[c].answer[i].asset = a =>
                             \A n \in 1 .. version[a] :
                               n <= task'[c].answer[i].version \/ Gets(c, a, n)'
  BY DEF SyncInv
<1>1. Subscribed(c, a) => Subscribed(c, a)'
  BY DEF Subscribed
<1>2. \A n : Gets(c, a, n)' <=> Gets(c, a, n)
  BY DEF Gets, Owed
<1>. QED
  BY <1>1, <1>2 DEF SyncInv

(* The order of the changes is that of feed, router and channels alone. *)
LEMMA OrderFrame ==
  ASSUME OrderInv, UNCHANGED <<version, feed>>, route'.at = route.at, route'.event = route.event,
         \A c \in Clients : QueueOK(queue'[c])
  PROVE  OrderInv'
<1>1. \A q : QueueOK(q) => QueueOK(q)'
  BY DEF QueueOK, Precedes
<1>2. \A c \in Clients : QueueOK(queue[c])'
  BY <1>1
<1>. QED
  BY <1>2 DEF OrderInv

(* What holds of the elements of a sequence holds of those of its tail. *)
LEMMA TailWithin ==
  ASSUME NEW T, NEW q \in Seq(T), q # <<>>, NEW S, \A i \in DOMAIN q : q[i] \in S
  PROVE  Tail(q) \in Seq(T) /\ \A i \in DOMAIN Tail(q) : Tail(q)[i] \in S
<1>1. /\ Tail(q) \in Seq(T) /\ DOMAIN Tail(q) = 1 .. (Len(q) - 1) /\ Len(q) \in Nat
      /\ DOMAIN q = 1 .. Len(q) /\ \A i \in 1 .. (Len(q) - 1) : Tail(q)[i] = q[i + 1]
  OBVIOUS
<1>2. ASSUME NEW i \in 1 .. (Len(q) - 1) PROVE i + 1 \in DOMAIN q
  BY <1>1
<1>. QED
  BY <1>1, <1>2

(* The tail of a sequence is one of the same elements. *)
LEMMA TailType ==
  ASSUME NEW T, NEW q \in Seq(T), q # <<>> PROVE Tail(q) \in Seq(T) /\ Len(Tail(q)) = Len(q) - 1
OBVIOUS

(* An element of a sequence is its first, or in its tail. *)
LEMMA HeadOrTail ==
  ASSUME NEW T, NEW q \in Seq(T), q # <<>>, NEW j \in DOMAIN q
  PROVE  /\ Tail(q) \in Seq(T)
         /\ \/ q[j] = Head(q)
            \/ j - 1 \in DOMAIN Tail(q) /\ Tail(q)[j - 1] = q[j]
<1>1. /\ Tail(q) \in Seq(T) /\ DOMAIN Tail(q) = 1 .. (Len(q) - 1) /\ Len(q) \in Nat
      /\ DOMAIN q = 1 .. Len(q) /\ \A i \in 1 .. (Len(q) - 1) : Tail(q)[i] = q[i + 1]
      /\ Head(q) = q[1]
  OBVIOUS
<1>2. CASE j = 1
  BY <1>1, <1>2
<1>3. CASE j # 1
  <2>1. j - 1 \in 1 .. (Len(q) - 1) /\ (j - 1) + 1 = j
    BY <1>1, <1>3
  <2>. QED
    BY <1>1, <2>1
<1>. QED
  BY <1>2, <1>3

(* An answer or a snapshot goes anywhere in a channel. *)
LEMMA QueueAppend ==
  ASSUME NEW q \in Seq(Message), QueueOK(q), NEW m \in Message, m.type # "price_change"
  PROVE  QueueOK(Append(q, m))
<1>1. /\ DOMAIN Append(q, m) = 1 .. (Len(q) + 1) /\ Len(q) \in Nat /\ DOMAIN q = 1 .. Len(q)
      /\ Append(q, m)[Len(q) + 1] = m
      /\ \A i \in 1 .. Len(q) : Append(q, m)[i] = q[i]
  OBVIOUS
<1>. DEFINE r == Append(q, m)
<1>. HIDE DEF r
<1>2. \A i \in DOMAIN r : r[i].type = "price_change" => i \in DOMAIN q /\ r[i] = q[i]
  BY <1>1 DEF r
<1>3. QueueOK(r)
  BY <1>2 DEF QueueOK
<1>. QED
  BY <1>3 DEF r

(* A channel whose first message is written keeps its order. *)
LEMMA QueueTail ==
  ASSUME NEW q \in Seq(Message), QueueOK(q), q # <<>>
  PROVE  QueueOK(Tail(q))
<1>. DEFINE r == Tail(q)
<1>1. /\ DOMAIN r = 1 .. (Len(q) - 1) /\ Len(q) \in Nat /\ DOMAIN q = 1 .. Len(q)
      /\ \A i \in 1 .. (Len(q) - 1) : r[i] = q[i + 1]
  OBVIOUS
<1>. HIDE DEF r
<1>2. \A i \in DOMAIN r : i \in Nat /\ i + 1 \in DOMAIN q /\ r[i] = q[i + 1]
  BY <1>1
<1>3. \A i \in DOMAIN r : r[i].type = "price_change" => Precedes(r[i].asset, r[i].version)
  BY <1>2 DEF QueueOK
<1>4. ASSUME NEW i \in DOMAIN r, NEW j \in DOMAIN r, i < j,
             r[i].type = "price_change", r[j].type = "price_change", r[i].asset = r[j].asset
      PROVE  r[i].version < r[j].version
  <2>1. i + 1 < j + 1 /\ i + 1 \in DOMAIN q /\ j + 1 \in DOMAIN q /\ r[i] = q[i + 1] /\ r[j] = q[j + 1]
    BY <1>2, <1>4
  <2>. QED
    BY <1>4, <2>1 DEF QueueOK
<1>5. QueueOK(r)
  BY <1>3, <1>4 DEF QueueOK
<1>. QED
  BY <1>5 DEF r

(* An empty channel is in order. *)
LEMMA QueueEmpty == QueueOK(<<>>)
BY DEF QueueOK

-----------------------------------------------------------------------------
(* The steps in which a connection's task moves on, with an answer or not. *)

(* A task goes on to a phase other than sending a snapshot, and its client *)
(* is sent a reply at most.                                                *)
LEMMA TaskStepKeeps ==
  ASSUME DeliveryInv, (RegistryInv /\ TaskInv)', NEW c \in Clients, NEW state \in TaskState,
         UNCHANGED <<registryVars, writers, version, feed, route, seen, synced>>,
         Continue(c, state),
         queue' = queue \/ (Room(c) /\ queue' = [queue EXCEPT ![c] = Append(@, Reply)]),
         task[c].at \notin {"new", "leave"}, state.at \notin {"new", "leave", "snapshot"},
         state.at = "fetch" =>
           state.todo # <<>> /\ \A i \in DOMAIN state.todo : state.todo[i] \in subs[c],
         state.at = "subscribe" =>
           \A i \in DOMAIN state.request :
              \/ state.request[i] \in subs[c]
              \/ \E j \in DOMAIN state.todo : state.todo[j] = state.request[i]
  PROVE  DeliveryInv'
<1>0. RegistryInv /\ GatewayTypeOK /\ PhaseInv /\ KnownInv /\ RouteInv /\ SyncInv /\ OrderInv
  BY DEF DeliveryInv
<1>1. /\ task' \in [Clients -> TaskState] /\ task'[c] = state
      /\ \A d \in Clients : d # c => task'[d] = task[d]
  BY <1>0, TaskTypes DEF Continue
<1>2. queue \in [Clients -> Seq(Message)] /\ (\A d \in Clients : Len(queue[d]) <= Buffer)
  BY <1>0 DEF GatewayTypeOK
<1>3. ASSUME NEW d \in Clients
      PROVE  queue'[d] \in Seq(Message) /\ Len(queue'[d]) <= Buffer /\ QueueOK(queue'[d])
  <2>1. QueueOK(queue[d]) /\ queue[d] \in Seq(Message) /\ Len(queue[d]) <= Buffer
    BY <1>0, <1>2 DEF OrderInv
  <2>2. CASE queue'[d] = queue[d]
    BY <2>1, <2>2
  <2>3. CASE d = c /\ Room(c) /\ queue'[d] = Append(queue[d], Reply)
    <3>1. Len(queue[d]) < Buffer /\ Len(queue[d]) \in Nat /\ Buffer \in Nat
      BY <2>1, <2>3, GatewayAssumption DEF Room
    <3>2. Reply.type # "price_change"
      BY MessageTypes
    <3>3. queue'[d] \in Seq(Message) /\ Len(queue'[d]) = Len(queue[d]) + 1
      BY <2>1, <2>3, MessageTypes
    <3>4. QueueOK(queue'[d])
      BY <2>1, <2>3, <3>2, MessageTypes, QueueAppend
    <3>. QED
      BY <3>1, <3>3, <3>4
  <2>. QED
    BY <1>2, <2>2, <2>3
<1>4. queue' \in [Clients -> Seq(Message)]
  BY <1>2, <1>3
<1>5. GatewayTypeOK'
  <2>1. task' \in [Clients -> [at : {"new", "idle", "failing", "subscribe", "fetch",
                                "snapshot", "unsubscribe", "leave"},
                          request : Seq(Seq(STRING)), todo : Seq(Seq(STRING)),
                          answer : Seq(Message)]]
    BY <1>1 DEF TaskState, Phases
  <2>2. RegistryTypeOK'
    BY DEF RegistryInv
  <2>. QED
    BY <1>0, <1>3, <1>4, <2>1, <2>2 DEF GatewayTypeOK
<1>6. PhaseInv'
  BY <1>0, <1>1 DEF PhaseInv, PhaseOK, registryVars
<1>7. KnownInv' /\ RouteInv'
  BY <1>0 DEF KnownInv, RouteInv, registryVars
<1>8. SyncInv'
  <2>1. \A d \in Clients : task'[d].at = "snapshot" =>
           task[d].at = "snapshot" /\ task'[d].answer = task[d].answer
    BY <1>1
  <2>. QED
    BY <1>0, <2>1, SyncFrame DEF registryVars
<1>9. OrderInv'
  BY <1>0, <1>3, OrderFrame
<1>. QED
  BY <1>5, <1>6, <1>7, <1>8, <1>9 DEF DeliveryInv

(* The handlers that touch neither registry nor snapshots, and the         *)
(* failures.                                                               *)
LEMMA QuietKeeps ==
  ASSUME DeliveryInv, (RegistryInv /\ TaskInv)', NEW c \in Clients,
         \/ SendError(c) \/ RequestSubscription(c) \/ RequestUnsubscription(c) \/ Ping(c)
         \/ ConfirmSubscription(c) \/ ConfirmUnsubscription(c) \/ FetchFails(c)
  PROVE  DeliveryInv'
<1>0. /\ GatewayTypeOK /\ PhaseInv
      /\ task[c] \in TaskState /\ task[c].at \in Phases
      /\ task[c].request \in Seq(Seq(STRING)) /\ task[c].todo \in Seq(Seq(STRING))
  BY TaskTypes DEF DeliveryInv
<1>1. /\ Idle \in TaskState /\ Idle.at = "idle"
      /\ At("failing", <<>>, <<>>, <<>>) \in TaskState /\ At("failing", <<>>, <<>>, <<>>).at = "failing"
  BY IdleType DEF At, TaskState, Phases
<1>2. CASE SendError(c)
  BY <1>0, <1>1, <1>2, TaskStepKeeps DEF SendError
<1>3. ASSUME NEW state \in TaskState, Answer(c, state), state.at \in {"idle", "fetch"},
             UNCHANGED <<registryVars, writers, version, feed, route, seen, synced>>,
             task[c].at \notin {"new", "leave"},
             state.at = "fetch" =>
               state.todo # <<>> /\ \A i \in DOMAIN state.todo : state.todo[i] \in subs[c]
      PROVE  DeliveryInv'
  <2>1. CASE Room(c)
    BY <1>3, <2>1, TaskStepKeeps DEF Answer
  <2>2. CASE ~Room(c)
    BY <1>1, <1>3, <2>2, TaskStepKeeps DEF Answer
  <2>. QED
    BY <2>1, <2>2
<1>4. CASE RequestSubscription(c)
  <2>1. PICK request \in Requests :
          IF \A i \in DOMAIN request : IsValid(request[i])
          THEN Continue(c, At("subscribe", request, request, <<>>)) /\ UNCHANGED queue
          ELSE Answer(c, Idle)
    BY <1>4 DEF RequestSubscription
  <2>2. /\ UNCHANGED <<registryVars, writers, version, feed, route, seen, synced>>
        /\ task[c].at = "idle"
    BY <1>4 DEF RequestSubscription
  <2>3. CASE \A i \in DOMAIN request : IsValid(request[i])
    <3>. DEFINE state == At("subscribe", request, request, <<>>)
    <3>1. request \in Seq(Seq(STRING))
      BY GatewayAssumption
    <3>2. state \in TaskState /\ state.at = "subscribe" /\ state.request = request
          /\ state.todo = request
      BY <3>1 DEF At, TaskState, Phases
    <3>3. Continue(c, state) /\ UNCHANGED queue
      BY <2>1, <2>3
    <3>. HIDE DEF state
    <3>. QED
      BY <2>2, <3>2, <3>3, TaskStepKeeps
  <2>4. CASE ~ \A i \in DOMAIN request : IsValid(request[i])
    BY <1>1, <1>3, <2>1, <2>2, <2>4
  <2>. QED
    BY <2>3, <2>4
<1>5. CASE RequestUnsubscription(c)
  <2>1. PICK request \in Requests : Continue(c, At("unsubscribe", <<>>, request, <<>>))
    BY <1>5 DEF RequestUnsubscription
  <2>. DEFINE state == At("unsubscribe", <<>>, request, <<>>)
  <2>2. state \in TaskState /\ state.at = "unsubscribe"
    BY GatewayAssumption DEF At, TaskState, Phases
  <2>3. Continue(c, state)
    BY <2>1
  <2>. HIDE DEF state
  <2>. QED
    BY <1>5, <2>2, <2>3, TaskStepKeeps DEF RequestUnsubscription
<1>6. CASE Ping(c)
  BY <1>1, <1>3, <1>6 DEF Ping
<1>7. CASE ConfirmUnsubscription(c)
  BY <1>1, <1>3, <1>7 DEF ConfirmUnsubscription
<1>8. CASE ConfirmSubscription(c)
  <2>. DEFINE state == Fetching(task[c].request)
  <2>1. /\ state \in TaskState /\ state.at \in {"idle", "fetch"}
        /\ state.at = "fetch" => state.todo # <<>> /\ state.todo = task[c].request
    BY <1>0, FetchingType
  <2>2. \A i \in DOMAIN task[c].request : task[c].request[i] \in subs[c]
    BY <1>0, <1>8 DEF PhaseInv, PhaseOK, ConfirmSubscription
  <2>3. Answer(c, state) /\ task[c].at = "subscribe"
    BY <1>8 DEF ConfirmSubscription
  <2>. HIDE DEF state
  <2>. QED
    BY <1>3, <1>8, <2>1, <2>2, <2>3 DEF ConfirmSubscription
<1>9. CASE FetchFails(c)
  <2>. DEFINE state == Fetching(Tail(task[c].todo))
  <2>1. /\ task[c].at = "fetch" /\ task[c].todo # <<>>
        /\ \A i \in DOMAIN task[c].todo : task[c].todo[i] \in subs[c]
    BY <1>0, <1>9 DEF PhaseInv, PhaseOK, FetchFails
  <2>2. /\ Tail(task[c].todo) \in Seq(Seq(STRING))
        /\ \A i \in DOMAIN Tail(task[c].todo) : Tail(task[c].todo)[i] \in subs[c]
    BY <1>0, <2>1, TailWithin
  <2>3. /\ state \in TaskState /\ state.at \in {"idle", "fetch"}
        /\ state.at = "fetch" => state.todo # <<>> /\ state.todo = Tail(task[c].todo)
    BY <2>2, FetchingType
  <2>4. Continue(c, state) /\ UNCHANGED queue
    BY <1>9 DEF FetchFails
  <2>. HIDE DEF state
  <2>. QED
    BY <1>9, <2>1, <2>2, <2>3, <2>4, TaskStepKeeps DEF FetchFails
<1>. QED
  BY <1>2, <1>4, <1>5, <1>6, <1>7, <1>8, <1>9

-----------------------------------------------------------------------------
(* The steps in which a connection's task changes the registry.            *)

(* A step that takes no subscription of a registered client away, and      *)
(* sends nothing.                                                          *)
LEMMA RegistryGrows ==
  ASSUME DeliveryInv, (RegistryInv /\ TaskInv)', PhaseInv',
         UNCHANGED <<queue, version, feed, route, seen, synced>>,
         writers' \in SUBSET Clients, task' \in [Clients -> TaskState],
         \A c \in registered \intersect Clients : c \in registered' /\ subs[c] \subseteq subs'[c],
         \A c \in Clients : task'[c].at = "snapshot" =>
            task[c].at = "snapshot" /\ task'[c].answer = task[c].answer
  PROVE  DeliveryInv'
<1>0. GatewayTypeOK /\ KnownInv /\ RouteInv /\ SyncInv /\ OrderInv
  BY DEF DeliveryInv
<1>1. task' \in [Clients -> [at : {"new", "idle", "failing", "subscribe", "fetch",
                              "snapshot", "unsubscribe", "leave"},
                        request : Seq(Seq(STRING)), todo : Seq(Seq(STRING)),
                        answer : Seq(Message)]]
  BY DEF TaskState, Phases
<1>2. RegistryTypeOK'
  BY DEF RegistryInv
<1>3. GatewayTypeOK'
  BY <1>0, <1>1, <1>2 DEF GatewayTypeOK
<1>4. RouteInv'
  BY <1>0, RouteFrame DEF GatewayTypeOK
<1>5. SyncInv'
  BY <1>0, SyncFrame
<1>6. OrderInv' /\ KnownInv'
  <2>1. \A c \in Clients : QueueOK(queue'[c])
    BY <1>0 DEF OrderInv
  <2>. QED
    BY <1>0, <2>1, OrderFrame DEF KnownInv
<1>. QED
  BY <1>3, <1>4, <1>5, <1>6 DEF DeliveryInv

(* A new connection has no subscription yet, so nothing is owed to it. *)
LEMMA ConnectKeeps ==
  ASSUME DeliveryInv, (RegistryInv /\ TaskInv)', NEW c \in Clients, Connect(c)
  PROVE  DeliveryInv'
<1>0. GatewayTypeOK /\ PhaseInv /\ RegistryTypeOK
  BY DEF DeliveryInv, RegistryInv
<1>1. /\ task' \in [Clients -> TaskState] /\ task'[c].at = "idle"
      /\ \A d \in Clients : d # c => task'[d] = task[d]
  BY <1>0, TaskTypes, IdleType DEF Connect, Continue
<1>2. registered' = registered \union {c} /\ UNCHANGED subs
  BY DEF Connect, Register
<1>3. PhaseInv'
  BY <1>0, <1>1, <1>2 DEF PhaseInv, PhaseOK
<1>4. writers' \in SUBSET Clients /\ UNCHANGED <<queue, version, feed, route, seen, synced>>
  BY <1>0 DEF Connect, GatewayTypeOK
<1>. QED
  BY <1>1, <1>2, <1>3, <1>4, RegistryGrows

(* The subject moves from the work to do to the client's subscriptions,    *)
(* which PhaseOK follows until the snapshots are fetched.                  *)
LEMMA SubscribeKeeps ==
  ASSUME DeliveryInv, (RegistryInv /\ TaskInv)', NEW c \in Clients, Subscribe(c)
  PROVE  DeliveryInv'
<1>0. GatewayTypeOK /\ PhaseInv /\ RegistryTypeOK
  BY DEF DeliveryInv, RegistryInv
<1>. DEFINE p == Head(task[c].todo)
            state == At("subscribe", task[c].request, Tail(task[c].todo), <<>>)
<1>1. /\ task[c].at = "subscribe" /\ task[c].todo # <<>> /\ task[c].todo \in Seq(Seq(STRING))
      /\ task[c].request \in Seq(Seq(STRING)) /\ Continue(c, state)
  BY <1>0, TaskTypes DEF Subscribe
<1>2. /\ Tail(task[c].todo) \in Seq(Seq(STRING))
      /\ \A j \in DOMAIN task[c].todo :
           \/ task[c].todo[j] = p
           \/ j - 1 \in DOMAIN Tail(task[c].todo) /\ Tail(task[c].todo)[j - 1] = task[c].todo[j]
  <2>1. /\ Tail(task[c].todo) \in Seq(Seq(STRING))
        /\ \A j \in DOMAIN task[c].todo :
             \/ task[c].todo[j] = Head(task[c].todo)
             \/ j - 1 \in DOMAIN Tail(task[c].todo) /\ Tail(task[c].todo)[j - 1] = task[c].todo[j]
    <3>. DEFINE q == task[c].todo
    <3>. HIDE DEF q
    <3>1. q \in Seq(Seq(STRING)) /\ q # <<>>
      BY <1>1 DEF q
    <3>2. \A j \in DOMAIN q : /\ Tail(q) \in Seq(Seq(STRING))
                              /\ \/ q[j] = Head(q)
                                 \/ j - 1 \in DOMAIN Tail(q) /\ Tail(q)[j - 1] = q[j]
      BY <3>1, HeadOrTail
    <3>3. Tail(q) \in Seq(Seq(STRING))
      BY <3>1
    <3>. QED
      BY <3>2, <3>3 DEF q
  <2>. QED
    BY <2>1
<1>3. /\ state \in TaskState /\ state.at = "subscribe" /\ state.request = task[c].request
      /\ state.todo = Tail(task[c].todo)
  BY <1>1, <1>2 DEF At, TaskState, Phases
<1>. HIDE DEF state, p
<1>4. /\ task' \in [Clients -> TaskState] /\ task'[c] = state
      /\ \A d \in Clients : d # c => task'[d] = task[d]
  BY <1>0, <1>1, <1>3, TaskTypes DEF Continue
<1>5. /\ registered' = registered /\ subs'[c] = subs[c] \union {p}
      /\ \A d \in Clients : d # c => subs'[d] = subs[d]
  BY <1>0 DEF Subscribe, AddSubject, RegistryTypeOK, p
<1>6. PhaseInv'
  <2>1. ASSUME NEW i \in DOMAIN task[c].request
        PROVE  \/ task[c].request[i] \in subs'[c]
               \/ \E j \in DOMAIN Tail(task[c].todo) : Tail(task[c].todo)[j] = task[c].request[i]
    <3>1. CASE task[c].request[i] \in subs[c]
      BY <1>5, <3>1
    <3>2. CASE \E j \in DOMAIN task[c].todo : task[c].todo[j] = task[c].request[i]
      BY <1>2, <1>5, <3>2
    <3>. QED
      BY <1>0, <1>1, <3>1, <3>2 DEF PhaseInv, PhaseOK
  <2>2. ASSUME NEW d \in Clients, d # c
        PROVE  /\ task'[d] = task[d] /\ subs'[d] = subs[d] /\ registered' = registered
    BY <1>4, <1>5, <2>2
  <2>3. c \in registered
    BY <1>0, <1>1 DEF PhaseInv, PhaseOK
  <2>4. /\ task'[c].at = "subscribe" /\ task'[c].request = task[c].request
        /\ task'[c].todo = Tail(task[c].todo) /\ c \in registered'
    BY <1>3, <1>4, <1>5, <2>3
  <2>5. task'[c].at \notin {"fetch", "snapshot"}
    BY <2>4
  <2>6. ASSUME NEW d \in Clients, d # c
        PROVE  PhaseOK(d)'
    BY <1>0, <2>2, <2>6 DEF PhaseInv, PhaseOK
  <2>7. \A i \in DOMAIN task'[c].request :
           \/ task'[c].request[i] \in subs'[c]
           \/ \E j \in DOMAIN task'[c].todo : task'[c].todo[j] = task'[c].request[i]
    BY <2>1, <2>4
  <2>. QED
    BY <2>4, <2>5, <2>6, <2>7 DEF PhaseInv, PhaseOK
<1>7. writers' \in SUBSET Clients /\ UNCHANGED <<queue, version, feed, route, seen, synced>>
  BY <1>0 DEF Subscribe, GatewayTypeOK
<1>8. \A d \in Clients : task'[d].at = "snapshot" =>
         task[d].at = "snapshot" /\ task'[d].answer = task[d].answer
  BY <1>3, <1>4
<1>9. \A d \in registered \intersect Clients : d \in registered' /\ subs[d] \subseteq subs'[d]
  BY <1>5
<1>. QED
  BY <1>4, <1>6, <1>7, <1>8, <1>9, RegistryGrows

(* Only a client that is not registered forgets, and nothing is owed to    *)
(* it.                                                                     *)
LEMMA ForgetKeeps ==
  ASSUME DeliveryInv, (RegistryInv /\ TaskInv)', NEW c \in Clients, Forget(c)
  PROVE  DeliveryInv'
<1>0. GatewayTypeOK /\ PhaseInv /\ RegistryTypeOK /\ TaskInv
  BY DEF DeliveryInv, RegistryInv
<1>1. UNCHANGED <<task, queue, writers, version, feed, route, seen, synced>> /\ task[c].at = "leave"
  BY DEF Forget
<1>2. /\ registered' = registered /\ c \notin registered
      /\ \A d \in Clients : d # c => subs'[d] = subs[d]
  BY <1>0, <1>1 DEF Forget, ForgetSubject, RegistryTypeOK, TaskInv
<1>3. PhaseInv'
  <2>1. ASSUME NEW d \in Clients, d # c
        PROVE  /\ task'[d] = task[d] /\ subs'[d] = subs[d] /\ registered' = registered
    BY <1>1, <1>2, <2>1
  <2>. QED
    BY <1>0, <1>1, <1>2, <2>1 DEF PhaseInv, PhaseOK
<1>4. task' \in [Clients -> TaskState] /\ writers' \in SUBSET Clients
  BY <1>0, <1>1, TaskTypes DEF GatewayTypeOK
<1>. QED
  BY <1>1, <1>2, <1>3, <1>4, RegistryGrows

-----------------------------------------------------------------------------
(* The steps in which a client loses a subscription, a message or all.     *)

(* A step in which c loses subscriptions, messages or its registration:    *)
(* what it is still in step with, it loses nothing of.                     *)
LEMMA LossKeeps ==
  ASSUME DeliveryInv, (RegistryInv /\ TaskInv)', PhaseInv', NEW c \in Clients,
         UNCHANGED <<version, feed>>,
         task' \in [Clients -> TaskState], writers' \in SUBSET Clients,
         queue' \in [Clients -> Seq(Message)],
         \A d \in Clients : Len(queue'[d]) <= Buffer /\ QueueOK(queue'[d]),
         seen' \in [Clients -> [Assets -> SUBSET Versions]],
         synced' \in [Clients -> [Assets -> {"no", "read", "yes"}]],
         route'.at = route.at, route'.event = route.event, route'.matched = route.matched,
         route'.steady \subseteq route.steady,
         \A x \in route'.steady : x[1] \in registered' /\ x[2] \in subs'[x[1]],
         \A d \in Clients : d # c =>
            /\ d \in registered => d \in registered'
            /\ subs'[d] = subs[d] /\ seen'[d] = seen[d] /\ synced'[d] = synced[d]
            /\ \A p \in Patterns : <<d, p>> \in route.steady => <<d, p>> \in route'.steady,
         \A a \in Assets : synced'[c][a] # "no" =>
            /\ synced'[c][a] = synced[c][a] /\ seen'[c][a] = seen[c][a]
            /\ c \in registered => c \in registered'
            /\ \A p \in subs[c] : Matches(p, a) =>
                 p \in subs'[c] /\ (<<c, p>> \in route.steady => <<c, p>> \in route'.steady),
         \A d \in Clients : task'[d].at = "snapshot" =>
            task[d].at = "snapshot" /\ task'[d].answer = task[d].answer
  PROVE  DeliveryInv'
<1>0. GatewayTypeOK /\ KnownInv /\ RouteInv /\ SyncInv /\ OrderInv
  BY DEF DeliveryInv
<1>1. task' \in [Clients -> [at : {"new", "idle", "failing", "subscribe", "fetch",
                              "snapshot", "unsubscribe", "leave"},
                        request : Seq(Seq(STRING)), todo : Seq(Seq(STRING)),
                        answer : Seq(Message)]]
  BY DEF TaskState, Phases
<1>2. RegistryTypeOK'
  BY DEF RegistryInv
<1>3. GatewayTypeOK'
  BY <1>0, <1>1, <1>2 DEF GatewayTypeOK
<1>4. RouteInv'
  BY <1>0 DEF RouteInv
<1>5. SyncInv'
  <2>. SUFFICES ASSUME NEW d \in Clients, NEW a \in Assets
                PROVE  /\ synced'[d][a] # "no" => Subscribed(d, a)'
                       /\ synced'[d][a] = "yes" => \A n \in 1 .. version[a] : Gets(d, a, n)'
                       /\ synced'[d][a] = "read" /\ task'[d].at = "snapshot" =>
                            \A i \in DOMAIN task'[d].answer : task'[d].answer[i].asset = a =>
                               \A n \in 1 .. version[a] :
                                 n <= task'[d].answer[i].version \/ Gets(d, a, n)'
    BY DEF SyncInv
  <2>1. CASE synced'[d][a] = "no"
    BY <2>1
  <2>2. CASE synced'[d][a] # "no"
    <3>1. /\ synced'[d][a] = synced[d][a] /\ seen'[d][a] = seen[d][a]
          /\ d \in registered => d \in registered'
          /\ \A p \in subs[d] : Matches(p, a) => p \in subs'[d]
      <4>1. CASE d = c
        BY <2>2, <4>1
      <4>2. CASE d # c
        BY <4>2
      <4>. QED
        BY <4>1, <4>2
    <3>2. Subscribed(d, a) => Subscribed(d, a)'
      BY <3>1 DEF Subscribed
    <3>3. ASSUME NEW n, Owed(d, a, n) PROVE Owed(d, a, n)'
      <4>1. CASE \E i \in DOMAIN feed : feed[i] = <<a, n>>
        BY <4>1 DEF Owed
      <4>2. CASE route.event = <<a, n>> /\ \E p \in Patterns : <<d, p>> \in route.steady
        <5>1. PICK p \in Patterns : <<d, p>> \in route.steady
          BY <4>2
        <5>2. p \in subs[d] /\ Matches(p, a)
          BY <1>0, <4>2, <5>1 DEF RouteInv
        <5>3. <<d, p>> \in route'.steady
          BY <2>2, <5>1, <5>2
        <5>. QED
          BY <4>2, <5>3 DEF Owed
      <4>. QED
        BY <3>3, <4>1, <4>2 DEF Owed
    <3>4. \A n : Gets(d, a, n) => Gets(d, a, n)'
      BY <3>1, <3>3 DEF Gets
    <3>. QED
      BY <1>0, <3>1, <3>2, <3>4 DEF SyncInv
  <2>. QED
    BY <2>1, <2>2
<1>6. OrderInv' /\ KnownInv'
  BY <1>0, OrderFrame DEF KnownInv
<1>. QED
  BY <1>3, <1>4, <1>5, <1>6 DEF DeliveryInv

(* The types that the lemma needs again. *)
LEMMA LossTypes ==
  ASSUME DeliveryInv
  PROVE  /\ task \in [Clients -> TaskState] /\ writers \in SUBSET Clients
         /\ queue \in [Clients -> Seq(Message)]
         /\ \A d \in Clients : Len(queue[d]) <= Buffer /\ QueueOK(queue[d])
         /\ seen \in [Clients -> [Assets -> SUBSET Versions]]
         /\ synced \in [Clients -> [Assets -> {"no", "read", "yes"}]]
         /\ subs \in [Clients -> SUBSET Patterns]
         /\ route.steady \in SUBSET (Clients \X Patterns)
         /\ \A x \in route.steady : x[1] \in registered /\ x[2] \in subs[x[1]]
         /\ PhaseInv /\ TaskInv
BY TaskTypes DEF DeliveryInv, GatewayTypeOK, OrderInv, RegistryInv, RegistryTypeOK, RouteInv

(* Giving up pairs leaves the rest of the router's state. *)
LEMMA WithoutFields ==
  ASSUME NEW S
  PROVE  /\ Without(S).at = route.at /\ Without(S).event = route.event
         /\ Without(S).matched = route.matched /\ Without(S).steady = route.steady \ S
BY DEF Without, Routing

(* An unsubscription puts c out of step with what the pattern matches. *)
LEMMA UnsubscribeKeeps ==
  ASSUME DeliveryInv, (RegistryInv /\ TaskInv)', NEW c \in Clients, Unsubscribe(c)
  PROVE  DeliveryInv'
<1>. DEFINE p == Head(task[c].todo)
            state == At("unsubscribe", <<>>, Tail(task[c].todo), <<>>)
<1>0. GatewayTypeOK
  BY DEF DeliveryInv
<1>1. /\ task[c].todo \in Seq(Seq(STRING)) /\ task[c].todo # <<>> /\ task[c].at = "unsubscribe"
      /\ Continue(c, state) /\ UNCHANGED <<queue, writers, version, feed, seen>>
      /\ route' = Without({<<c, p>>})
      /\ synced' = [synced EXCEPT ![c] = [a \in Assets |-> IF Matches(p, a) THEN "no" ELSE @[a]]]
  BY <1>0, TaskTypes DEF Unsubscribe
<1>2. state \in TaskState /\ state.at = "unsubscribe"
  <2>1. Tail(task[c].todo) \in Seq(Seq(STRING))
    BY <1>1, TailType
  <2>. QED
    BY <2>1 DEF At, TaskState, Phases
<1>3. /\ registered' = registered /\ subs'[c] = subs[c] \ {p}
      /\ \A d \in Clients : d # c => subs'[d] = subs[d]
  <2>1. CASE p \in Patterns
    <3>1. RemoveSubject(c, p)
      BY <2>1 DEF Unsubscribe
    <3>. QED
      BY <3>1, LossTypes DEF RemoveSubject
  <2>2. CASE p \notin Patterns
    <3>1. UNCHANGED registryVars
      BY <2>2 DEF Unsubscribe
    <3>2. subs[c] \ {p} = subs[c]
      BY <2>2, LossTypes
    <3>. QED
      BY <3>1, <3>2 DEF registryVars
  <2>. QED
    BY <2>1, <2>2
<1>. HIDE DEF p, state
<1>4. /\ task' \in [Clients -> TaskState] /\ task'[c] = state
      /\ \A d \in Clients : d # c => task'[d] = task[d]
  BY <1>1, <1>2, LossTypes DEF Continue
<1>5. PhaseInv'
  <2>1. c \in registered
    BY <1>1, LossTypes DEF PhaseInv, PhaseOK
  <2>2. PhaseOK(c)'
    BY <1>2, <1>3, <1>4, <2>1 DEF PhaseOK
  <2>3. ASSUME NEW d \in Clients, d # c PROVE PhaseOK(d)'
    <3>1. PhaseOK(d)
      BY LossTypes DEF PhaseInv
    <3>. QED
      BY <1>3, <1>4, <2>3, <3>1 DEF PhaseOK
  <2>. QED
    BY <2>2, <2>3 DEF PhaseInv
<1>6. /\ route'.at = route.at /\ route'.event = route.event /\ route'.matched = route.matched
      /\ route'.steady = route.steady \ {<<c, p>>}
  BY <1>1, WithoutFields
<1>7. /\ synced' \in [Clients -> [Assets -> {"no", "read", "yes"}]]
      /\ \A d \in Clients : d # c => synced'[d] = synced[d]
      /\ \A a \in Assets : synced'[c][a] # "no" => synced'[c][a] = synced[c][a] /\ ~Matches(p, a)
  <2>1. [a \in Assets |-> IF Matches(p, a) THEN "no" ELSE synced[c][a]]
          \in [Assets -> {"no", "read", "yes"}]
    BY LossTypes
  <2>. QED
    BY <1>1, <2>1, LossTypes
<1>8. \A x \in route'.steady : x[1] \in registered' /\ x[2] \in subs'[x[1]]
  <2>. SUFFICES ASSUME NEW x \in route'.steady PROVE x[1] \in registered' /\ x[2] \in subs'[x[1]]
    OBVIOUS
  <2>1. x \in route.steady /\ x # <<c, p>>
    BY <1>6
  <2>2. x = <<x[1], x[2]>> /\ x[1] \in Clients /\ x[1] \in registered /\ x[2] \in subs[x[1]]
    BY <2>1, LossTypes
  <2>. QED
    BY <1>3, <2>1, <2>2
<1>9. \A a \in Assets : synced'[c][a] # "no" =>
        \A q \in subs[c] : Matches(q, a) =>
          q \in subs'[c] /\ (<<c, q>> \in route.steady => <<c, q>> \in route'.steady)
  <2>. SUFFICES ASSUME NEW a \in Assets, ~Matches(p, a), NEW q \in subs[c], Matches(q, a)
                PROVE  q \in subs'[c] /\ (<<c, q>> \in route.steady => <<c, q>> \in route'.steady)
    BY <1>7
  <2>1. q # p /\ <<c, q>> # <<c, p>>
    OBVIOUS
  <2>. QED
    BY <1>3, <1>6, <2>1
<1>10. \A d \in Clients : task'[d].at = "snapshot" =>
          task[d].at = "snapshot" /\ task'[d].answer = task[d].answer
  BY <1>2, <1>4
<1>11. \A d \in Clients : d # c =>
          /\ d \in registered => d \in registered'
          /\ subs'[d] = subs[d] /\ seen'[d] = seen[d] /\ synced'[d] = synced[d]
          /\ \A q \in Patterns : <<d, q>> \in route.steady => <<d, q>> \in route'.steady
  BY <1>1, <1>3, <1>6, <1>7
<1>12. \A a \in Assets : synced'[c][a] # "no" =>
         /\ synced'[c][a] = synced[c][a] /\ seen'[c][a] = seen[c][a]
         /\ c \in registered => c \in registered'
         /\ \A q \in subs[c] : Matches(q, a) =>
              q \in subs'[c] /\ (<<c, q>> \in route.steady => <<c, q>> \in route'.steady)
  BY <1>1, <1>3, <1>7, <1>9
<1>13. /\ UNCHANGED <<version, feed>> /\ route'.steady \subseteq route.steady
       /\ writers' \in SUBSET Clients /\ queue' \in [Clients -> Seq(Message)]
       /\ \A d \in Clients : Len(queue'[d]) <= Buffer /\ QueueOK(queue'[d])
       /\ seen' \in [Clients -> [Assets -> SUBSET Versions]]
  BY <1>1, <1>6, LossTypes
<1>. QED
  BY <1>4, <1>5, <1>6, <1>7, <1>8, <1>10, <1>11, <1>12, <1>13, LossKeeps

(* A client that leaves is out of step with everything, and no longer      *)
(* steady.                                                                 *)
LEMMA DisconnectKeeps ==
  ASSUME DeliveryInv, (RegistryInv /\ TaskInv)', NEW c \in Clients, Disconnect(c)
  PROVE  DeliveryInv'
<1>. DEFINE state == At("leave", <<>>, <<>>, <<>>)
<1>1. /\ Continue(c, state) /\ UNCHANGED <<queue, writers, version, feed, seen, subs>>
      /\ registered' = registered \ {c} /\ route' = Without({c} \X Patterns)
      /\ synced' = [synced EXCEPT ![c] = NotSynced]
  BY DEF Disconnect, RemoveClient
<1>2. state \in TaskState /\ state.at = "leave"
  BY DEF At, TaskState, Phases
<1>. HIDE DEF state
<1>3. /\ task' \in [Clients -> TaskState] /\ task'[c] = state
      /\ \A d \in Clients : d # c => task'[d] = task[d]
  BY <1>1, <1>2, LossTypes DEF Continue
<1>4. PhaseInv'
  <2>1. PhaseOK(c)'
    BY <1>2, <1>3 DEF PhaseOK
  <2>2. ASSUME NEW d \in Clients, d # c PROVE PhaseOK(d)'
    <3>1. PhaseOK(d)
      BY LossTypes DEF PhaseInv
    <3>. QED
      BY <1>1, <1>3, <2>2, <3>1 DEF PhaseOK
  <2>. QED
    BY <2>1, <2>2 DEF PhaseInv
<1>5. /\ route'.at = route.at /\ route'.event = route.event /\ route'.matched = route.matched
      /\ route'.steady = route.steady \ ({c} \X Patterns)
  BY <1>1, WithoutFields
<1>6. /\ synced' \in [Clients -> [Assets -> {"no", "read", "yes"}]]
      /\ \A d \in Clients : d # c => synced'[d] = synced[d]
      /\ \A a \in Assets : synced'[c][a] = "no"
  BY <1>1, LossTypes DEF NotSynced
<1>7. \A x \in route'.steady : x[1] \in registered' /\ x[2] \in subs'[x[1]]
  <2>. SUFFICES ASSUME NEW x \in route'.steady PROVE x[1] \in registered' /\ x[2] \in subs'[x[1]]
    OBVIOUS
  <2>1. x \in route.steady /\ x \notin {c} \X Patterns
    BY <1>5
  <2>2. x = <<x[1], x[2]>> /\ x[2] \in Patterns /\ x[1] \in registered /\ x[2] \in subs[x[1]]
    BY <2>1, LossTypes
  <2>. QED
    BY <1>1, <2>1, <2>2
<1>8. \A d \in Clients : task'[d].at = "snapshot" =>
         task[d].at = "snapshot" /\ task'[d].answer = task[d].answer
  BY <1>2, <1>3
<1>. QED
  BY <1>1, <1>3, <1>4, <1>5, <1>6, <1>7, <1>8, LossTypes, LossKeeps

(* The writer takes the first message; when it fails, the channel is lost  *)
(* whole.                                                                  *)
LEMMA WriterKeeps ==
  ASSUME DeliveryInv, (RegistryInv /\ TaskInv)', NEW c \in Clients, Write(c) \/ WriteFails(c)
  PROVE  DeliveryInv'
<1>1. UNCHANGED <<registryVars, task, version, feed, route, seen>> /\ queue[c] # <<>>
  BY DEF Write, WriteFails
<1>2. PhaseInv'
  BY <1>1, LossTypes DEF PhaseInv, PhaseOK, registryVars
<1>3. Len(queue[c]) \in Nat /\ Buffer \in Nat /\ queue[c] \in Seq(Message) /\ QueueOK(queue[c])
      /\ Len(queue[c]) <= Buffer
  BY LossTypes, GatewayAssumption
<1>4. CASE Write(c)
  <2>1. /\ queue' = [queue EXCEPT ![c] = Tail(@)] /\ UNCHANGED <<writers, synced>>
    BY <1>4 DEF Write
  <2>2. /\ Tail(queue[c]) \in Seq(Message) /\ Len(Tail(queue[c])) <= Buffer /\ QueueOK(Tail(queue[c]))
    BY <1>1, <1>3, QueueTail
  <2>3. /\ queue' \in [Clients -> Seq(Message)]
        /\ \A d \in Clients : Len(queue'[d]) <= Buffer /\ QueueOK(queue'[d])
    BY <2>1, <2>2, LossTypes
  <2>. QED
    BY <1>1, <1>2, <2>1, <2>3, LossTypes, LossKeeps DEF registryVars
<1>5. CASE WriteFails(c)
  <2>1. /\ queue' = [queue EXCEPT ![c] = <<>>] /\ writers' = writers \ {c}
        /\ synced' = [synced EXCEPT ![c] = NotSynced]
    BY <1>5 DEF WriteFails
  <2>2. /\ queue' \in [Clients -> Seq(Message)]
        /\ \A d \in Clients : Len(queue'[d]) <= Buffer /\ QueueOK(queue'[d])
    BY <1>3, <2>1, LossTypes, QueueEmpty
  <2>3. /\ synced' \in [Clients -> [Assets -> {"no", "read", "yes"}]]
        /\ \A d \in Clients : d # c => synced'[d] = synced[d]
        /\ \A a \in Assets : synced'[c][a] = "no"
    BY <2>1, LossTypes DEF NotSynced
  <2>. QED
    BY <1>1, <1>2, <2>1, <2>2, <2>3, LossTypes, LossKeeps DEF registryVars
<1>. QED
  BY <1>4, <1>5

(* A client that has left was out of step, so that nothing it had is       *)
(* missed.                                                                 *)
LEMMA CloseKeeps ==
  ASSUME DeliveryInv, (RegistryInv /\ TaskInv)', NEW c \in Clients, Close(c)
  PROVE  DeliveryInv'
<1>. DEFINE state == At("new", <<>>, <<>>, <<>>)
<1>1. /\ Continue(c, state) /\ UNCHANGED <<registered, subs, version, feed, route, synced>>
      /\ queue' = [queue EXCEPT ![c] = <<>>] /\ writers' = writers \ {c}
      /\ seen' = [seen EXCEPT ![c] = [a \in Assets |-> {}]] /\ task[c].at = "leave"
  BY DEF Close, registryVars
<1>2. state \in TaskState /\ state.at = "new"
  BY DEF At, TaskState, Phases
<1>. HIDE DEF state
<1>3. /\ task' \in [Clients -> TaskState] /\ task'[c] = state
      /\ \A d \in Clients : d # c => task'[d] = task[d]
  BY <1>1, <1>2, LossTypes DEF Continue
<1>4. PhaseInv'
  <2>1. PhaseOK(c)'
    BY <1>2, <1>3 DEF PhaseOK
  <2>2. ASSUME NEW d \in Clients, d # c PROVE PhaseOK(d)'
    <3>1. PhaseOK(d)
      BY LossTypes DEF PhaseInv
    <3>. QED
      BY <1>1, <1>3, <2>2, <3>1 DEF PhaseOK
  <2>. QED
    BY <2>1, <2>2 DEF PhaseInv
<1>5. \A a \in Assets : synced'[c][a] = "no"
  <2>1. c \notin registered
    BY <1>1, LossTypes DEF TaskInv
  <2>2. SyncInv
    BY DEF DeliveryInv
  <2>. QED
    BY <1>1, <2>1, <2>2 DEF SyncInv, Subscribed
<1>6. /\ queue' \in [Clients -> Seq(Message)]
      /\ \A d \in Clients : Len(queue'[d]) <= Buffer /\ QueueOK(queue'[d])
  <2>1. Len(<<>>) <= Buffer /\ <<>> \in Seq(Message)
    BY GatewayAssumption
  <2>. QED
    BY <1>1, <2>1, LossTypes, QueueEmpty
<1>7. /\ seen' \in [Clients -> [Assets -> SUBSET Versions]]
      /\ \A d \in Clients : d # c => seen'[d] = seen[d]
  BY <1>1, LossTypes
<1>8. \A d \in Clients : task'[d].at = "snapshot" =>
         task[d].at = "snapshot" /\ task'[d].answer = task[d].answer
  BY <1>2, <1>3
<1>9. /\ UNCHANGED <<version, feed>> /\ writers' \in SUBSET Clients
      /\ synced' \in [Clients -> [Assets -> {"no", "read", "yes"}]]
      /\ route' = route /\ registered' = registered /\ subs' = subs /\ synced' = synced
      /\ \A x \in route'.steady : x[1] \in registered' /\ x[2] \in subs'[x[1]]
  BY <1>1, LossTypes
<1>10. /\ route'.at = route.at /\ route'.event = route.event /\ route'.matched = route.matched
       /\ route'.steady \subseteq route.steady
       /\ \A d \in Clients : d # c =>
            /\ d \in registered => d \in registered'
            /\ subs'[d] = subs[d] /\ seen'[d] = seen[d] /\ synced'[d] = synced[d]
            /\ \A p \in Patterns : <<d, p>> \in route.steady => <<d, p>> \in route'.steady
  BY <1>7, <1>9
<1>11. \A a \in Assets : synced'[c][a] # "no" =>
         /\ synced'[c][a] = synced[c][a] /\ seen'[c][a] = seen[c][a]
         /\ c \in registered => c \in registered'
         /\ \A p \in subs[c] : Matches(p, a) =>
              p \in subs'[c] /\ (<<c, p>> \in route.steady => <<c, p>> \in route'.steady)
  BY <1>5
<1>. QED
  BY <1>3, <1>4, <1>6, <1>7, <1>8, <1>9, <1>10, <1>11, LossKeeps

-----------------------------------------------------------------------------
(* The snapshots.                                                          *)

(* The answer of orderbook_service has books, each as it is at the moment. *)
LEMMA AnswerType ==
  ASSUME KnownInv, version \in [Assets -> 0 .. MaxVersion], NEW p,
         NEW books \in SetToSeqs({[type |-> "snapshot", asset |-> a, version |-> version[a]] :
                                    a \in {b \in SnapshotAssets(p) : version[b] > 0}})
  PROVE  /\ books \in Seq(Snapshot)
         /\ \A i \in DOMAIN books : books[i].version = version[books[i].asset]
<1>. DEFINE known == {b \in SnapshotAssets(p) : version[b] > 0}
            book(a) == [type |-> "snapshot", asset |-> a, version |-> version[a]]
            S == {book(a) : a \in known}
            f == [a \in known |-> book(a)]
<1>1. IsFiniteSet(known)
  <2>1. known \subseteq {a \in Assets : version[a] > 0}
    BY DEF SnapshotAssets
  <2>. QED
    BY <2>1, FS_Subset DEF KnownInv
<1>2. \A a \in known : book(a) \in Snapshot /\ book(a).version = version[book(a).asset]
  <2>1. \A a \in known : a \in Assets /\ version[a] \in Versions
    BY GatewayAssumption DEF SnapshotAssets, Versions
  <2>. QED
    BY <2>1 DEF Snapshot
<1>3. S \subseteq Snapshot /\ \A b \in S : b.version = version[b.asset]
  BY <1>2
<1>4. IsFiniteSet(S)
  <2>1. f \in Surjection(known, S)
    BY DEF Surjection
  <2>. HIDE DEF f, S, known
  <2>. QED
    BY <1>1, <2>1, FS_Surjection
<1>5. Cardinality(S) \in Nat
  <2>. HIDE DEF S
  <2>. QED
    BY <1>4, FS_CardinalityType
<1>6. books \in SetToSeqs(S)
  OBVIOUS
<1>. HIDE DEF S
<1>7. books \in [1 .. Cardinality(S) -> S]
  BY <1>6 DEF SetToSeqs
<1>8. books \in Seq(S)
  BY <1>5, <1>7
<1>9. \A i \in DOMAIN books : books[i] \in S
  BY <1>7
<1>. QED
  BY <1>3, <1>5, <1>7, <1>9

(* The books are read after the subscription: they hold every change there *)
(* is, and the later ones are routed to the client.                        *)
LEMMA FetchSnapshotKeeps ==
  ASSUME DeliveryInv, (RegistryInv /\ TaskInv)', NEW c \in Clients, FetchSnapshot(c)
  PROVE  DeliveryInv'
<1>. DEFINE p == Head(task[c].todo)
            known == {a \in SnapshotAssets(p) : version[a] > 0}
<1>0. GatewayTypeOK /\ PhaseInv /\ KnownInv /\ RouteInv /\ SyncInv /\ OrderInv
  BY DEF DeliveryInv
<1>1. UNCHANGED <<registryVars, queue, writers, version, feed, route, seen>> /\ task[c].at = "fetch"
  BY DEF FetchSnapshot
<1>2. PICK books \in SetToSeqs({[type |-> "snapshot", asset |-> a, version |-> version[a]] : a \in known}) :
        IF books = <<>> THEN Continue(c, Fetching(Tail(task[c].todo)))
        ELSE Continue(c, At("snapshot", <<>>, task[c].todo, books))
  BY DEF FetchSnapshot
<1>3. synced' = [synced EXCEPT ![c] = [a \in Assets |->
        IF a \notin SnapshotAssets(p) \/ ~Matches(p, a) \/ @[a] = "yes" THEN @[a]
        ELSE IF a \in known THEN "read" ELSE "yes"]]
  BY DEF FetchSnapshot
<1>4. books \in Seq(Snapshot) /\ \A i \in DOMAIN books : books[i].version = version[books[i].asset]
  BY <1>0, <1>2, AnswerType DEF GatewayTypeOK
<1>5. /\ task[c].todo \in Seq(Seq(STRING)) /\ task[c].todo # <<>> /\ c \in registered
      /\ \A i \in DOMAIN task[c].todo : task[c].todo[i] \in subs[c]
  BY <1>0, <1>1, TaskTypes DEF PhaseInv, PhaseOK
<1>6. p \in subs[c]
  BY <1>5
<1>7. \E state \in TaskState :
        /\ Continue(c, state)
        /\ \/ state.at = "idle"
           \/ /\ state.at = "fetch" /\ state.todo # <<>>
              /\ \A i \in DOMAIN state.todo : state.todo[i] \in subs[c]
           \/ /\ state.at = "snapshot" /\ state.todo = task[c].todo
              /\ state.answer = books /\ books # <<>>
  <2>1. CASE books = <<>>
    <3>1. /\ Tail(task[c].todo) \in Seq(Seq(STRING))
          /\ \A i \in DOMAIN Tail(task[c].todo) : Tail(task[c].todo)[i] \in subs[c]
      BY <1>5, TailWithin
    <3>. DEFINE state == Fetching(Tail(task[c].todo))
    <3>2. /\ state \in TaskState /\ state.at \in {"idle", "fetch"}
          /\ state.at = "fetch" => state.todo # <<>> /\ state.todo = Tail(task[c].todo)
      BY <3>1, FetchingType
    <3>3. Continue(c, state)
      BY <1>2, <2>1
    <3>. HIDE DEF state
    <3>. QED
      BY <3>1, <3>2, <3>3
  <2>2. CASE books # <<>>
    <3>. DEFINE state == At("snapshot", <<>>, task[c].todo, books)
    <3>1. /\ state \in TaskState /\ state.at = "snapshot" /\ state.todo = task[c].todo
          /\ state.answer = books
      <4>1. books \in Seq(Message)
        BY <1>4, MessageTypes
      <4>. QED
        BY <1>5, <4>1 DEF At, TaskState, Phases
    <3>2. Continue(c, state)
      BY <1>2, <2>2
    <3>. HIDE DEF state
    <3>. QED
      BY <2>2, <3>1, <3>2
  <2>. QED
    BY <2>1, <2>2
<1>8. PICK state \in TaskState :
        /\ Continue(c, state)
        /\ \/ state.at = "idle"
           \/ /\ state.at = "fetch" /\ state.todo # <<>>
              /\ \A i \in DOMAIN state.todo : state.todo[i] \in subs[c]
           \/ /\ state.at = "snapshot" /\ state.todo = task[c].todo
              /\ state.answer = books /\ books # <<>>
  BY <1>7
<1>9. /\ task' \in [Clients -> TaskState] /\ task'[c] = state
      /\ \A d \in Clients : d # c => task'[d] = task[d]
  BY <1>8, LossTypes DEF Continue
<1>10. PhaseInv'
  <2>1. PhaseOK(c)'
    BY <1>1, <1>4, <1>5, <1>8, <1>9 DEF PhaseOK, registryVars
  <2>2. ASSUME NEW d \in Clients, d # c PROVE PhaseOK(d)'
    <3>1. PhaseOK(d)
      BY <1>0 DEF PhaseInv
    <3>. QED
      BY <1>1, <1>9, <2>2, <3>1 DEF PhaseOK, registryVars
  <2>. QED
    BY <2>1, <2>2 DEF PhaseInv
<1>. HIDE DEF p
<1>11. /\ synced' \in [Clients -> [Assets -> {"no", "read", "yes"}]]
       /\ \A d \in Clients : d # c => synced'[d] = synced[d]
       /\ \A a \in Assets :
            \/ synced'[c][a] = synced[c][a]
            \/ synced'[c][a] = "read" /\ Matches(p, a)
            \/ synced'[c][a] = "yes" /\ Matches(p, a) /\ ~(version[a] > 0)
  <2>1. [a \in Assets |->
           IF a \notin SnapshotAssets(p) \/ ~Matches(p, a) \/ synced[c][a] = "yes" THEN synced[c][a]
           ELSE IF a \in known THEN "read" ELSE "yes"] \in [Assets -> {"no", "read", "yes"}]
    BY LossTypes
  <2>2. synced' \in [Clients -> [Assets -> {"no", "read", "yes"}]]
    BY <1>3, <2>1, LossTypes
  <2>3. \A d \in Clients : d # c => synced'[d] = synced[d]
    BY <1>3, LossTypes
  <2>4. \A a \in Assets : synced'[c][a] =
          IF a \notin SnapshotAssets(p) \/ ~Matches(p, a) \/ synced[c][a] = "yes" THEN synced[c][a]
          ELSE IF a \in known THEN "read" ELSE "yes"
    BY <1>3, LossTypes
  <2>. QED
    BY <2>2, <2>3, <2>4
<1>12. SyncInv'
  <2>1. \A d, a, n : Gets(d, a, n)' <=> Gets(d, a, n)
    BY <1>1 DEF Gets, Owed
  <2>2. \A d, a : Subscribed(d, a)' <=> Subscribed(d, a)
    BY <1>1 DEF Subscribed, registryVars
  <2>3. ASSUME NEW a \in Assets
        PROVE  /\ synced'[c][a] # "no" => Subscribed(c, a)'
               /\ synced'[c][a] = "yes" => \A n \in 1 .. version[a] : Gets(c, a, n)'
               /\ synced'[c][a] = "read" /\ task'[c].at = "snapshot" =>
                    \A i \in DOMAIN task'[c].answer : task'[c].answer[i].asset = a =>
                       \A n \in 1 .. version[a] :
                         n <= task'[c].answer[i].version \/ Gets(c, a, n)'
    <3>1. version[a] \in 0 .. MaxVersion
      BY <1>0 DEF GatewayTypeOK
    <3>2. synced'[c][a] # "no" => Subscribed(c, a)'
      BY <1>0, <1>5, <1>6, <1>11, <2>2 DEF SyncInv, Subscribed
    <3>3. synced'[c][a] = "yes" => \A n \in 1 .. version[a] : Gets(c, a, n)'
      BY <1>0, <1>11, <2>1, <3>1, GatewayAssumption DEF SyncInv
    <3>4. ASSUME task'[c].at = "snapshot", NEW i \in DOMAIN task'[c].answer,
                 task'[c].answer[i].asset = a, NEW n \in 1 .. version[a]
          PROVE  n <= task'[c].answer[i].version
      <4>1. task'[c].answer = books
        BY <1>8, <1>9, <3>4
      <4>. QED
        BY <1>4, <3>1, <3>4, <4>1, GatewayAssumption
    <3>. QED
      BY <3>2, <3>3, <3>4
  <2>4. ASSUME NEW d \in Clients, d # c, NEW a \in Assets
        PROVE  synced'[d][a] = synced[d][a] /\ task'[d] = task[d]
    BY <1>9, <1>11, <2>4
  <2>. QED
    BY <1>0, <1>1, <2>1, <2>2, <2>3, <2>4 DEF SyncInv
<1>13. GatewayTypeOK'
  <2>1. task' \in [Clients -> [at : {"new", "idle", "failing", "subscribe", "fetch",
                                "snapshot", "unsubscribe", "leave"},
                          request : Seq(Seq(STRING)), todo : Seq(Seq(STRING)),
                          answer : Seq(Message)]]
    BY <1>9 DEF TaskState, Phases
  <2>2. RegistryTypeOK'
    BY DEF RegistryInv
  <2>. QED
    BY <1>0, <1>1, <1>11, <2>1, <2>2 DEF GatewayTypeOK
<1>14. KnownInv' /\ RouteInv' /\ OrderInv'
  <2>1. OrderInv'
    BY <1>0, <1>1, OrderFrame DEF OrderInv
  <2>. QED
    BY <1>0, <1>1, <2>1 DEF KnownInv, RouteInv, registryVars
<1>. QED
  BY <1>10, <1>12, <1>13, <1>14 DEF DeliveryInv

(* The first book of the answer is queued, or the rest of it given up.     *)
LEMMA SendSnapshotKeeps ==
  ASSUME DeliveryInv, (RegistryInv /\ TaskInv)', NEW c \in Clients, SendSnapshot(c)
  PROVE  DeliveryInv'
<1>. DEFINE answer == task[c].answer
            book == Head(answer)
            rest == IF Room(c) THEN Tail(answer) ELSE <<>>
<1>0. GatewayTypeOK /\ PhaseInv /\ KnownInv /\ RouteInv /\ SyncInv /\ OrderInv
  BY DEF DeliveryInv
<1>1. UNCHANGED <<registryVars, writers, version, feed, route>> /\ task[c].at = "snapshot"
  BY DEF SendSnapshot
<1>2. /\ answer \in Seq(Snapshot) /\ answer # <<>> /\ c \in registered
      /\ task[c].todo \in Seq(Seq(STRING)) /\ task[c].todo # <<>>
      /\ \A i \in DOMAIN task[c].todo : task[c].todo[i] \in subs[c]
  BY <1>0, <1>1, TaskTypes DEF PhaseInv, PhaseOK
<1>3. IF rest = <<>> THEN Continue(c, Fetching(Tail(task[c].todo)))
      ELSE Continue(c, At("snapshot", <<>>, task[c].todo, rest))
  BY DEF SendSnapshot
<1>4. IF Room(c)
      THEN /\ queue' = [queue EXCEPT ![c] = Append(@, book)]
           /\ seen' = [seen EXCEPT ![c][book.asset] = @ \union Carried(book)]
           /\ synced' = [synced EXCEPT ![c][book.asset] = IF @ = "read" THEN "yes" ELSE @]
      ELSE UNCHANGED <<queue, seen, synced>>
  BY DEF SendSnapshot
<1>. HIDE DEF answer
<1>5. /\ rest \in Seq(Snapshot)
      /\ rest # <<>> => Room(c)
      /\ \A i \in DOMAIN rest : \E j \in DOMAIN answer : rest[i] = answer[j]
  <2>1. /\ Tail(answer) \in Seq(Snapshot) /\ <<>> \in Seq(Snapshot) /\ DOMAIN <<>> = {}
    BY <1>2, TailType
  <2>2. \A i \in DOMAIN answer : answer[i] \in {answer[j] : j \in DOMAIN answer}
    OBVIOUS
  <2>3. \A i \in DOMAIN Tail(answer) : Tail(answer)[i] \in {answer[j] : j \in DOMAIN answer}
    BY <1>2, <2>2, TailWithin
  <2>. QED
    BY <2>1, <2>3
<1>6. /\ book \in Snapshot /\ 1 \in DOMAIN answer /\ answer[1] = book
      /\ book.asset \in Assets /\ book.version \in Versions /\ book.type = "snapshot"
  <2>1. book \in Snapshot /\ 1 \in DOMAIN answer /\ answer[1] = book
    BY <1>2
  <2>. QED
    BY <2>1 DEF Snapshot
<1>. HIDE DEF rest, book
<1>7. \E state \in TaskState :
        /\ Continue(c, state)
        /\ \/ state.at = "idle"
           \/ /\ state.at = "fetch" /\ state.todo # <<>>
              /\ \A i \in DOMAIN state.todo : state.todo[i] \in subs[c]
           \/ /\ state.at = "snapshot" /\ state.todo = task[c].todo
              /\ state.answer = rest /\ rest # <<>>
  <2>1. CASE rest = <<>>
    <3>1. /\ Tail(task[c].todo) \in Seq(Seq(STRING))
          /\ \A i \in DOMAIN Tail(task[c].todo) : Tail(task[c].todo)[i] \in subs[c]
      BY <1>2, TailWithin
    <3>. DEFINE state == Fetching(Tail(task[c].todo))
    <3>2. /\ state \in TaskState /\ state.at \in {"idle", "fetch"}
          /\ state.at = "fetch" => state.todo # <<>> /\ state.todo = Tail(task[c].todo)
      BY <3>1, FetchingType
    <3>3. Continue(c, state)
      BY <1>3, <2>1
    <3>. HIDE DEF state
    <3>. QED
      BY <3>1, <3>2, <3>3
  <2>2. CASE rest # <<>>
    <3>. DEFINE state == At("snapshot", <<>>, task[c].todo, rest)
    <3>1. /\ state \in TaskState /\ state.at = "snapshot" /\ state.todo = task[c].todo
          /\ state.answer = rest
      <4>1. rest \in Seq(Message)
        BY <1>5, MessageTypes
      <4>. QED
        BY <1>2, <4>1 DEF At, TaskState, Phases
    <3>2. Continue(c, state)
      BY <1>3, <2>2
    <3>. HIDE DEF state
    <3>. QED
      BY <2>2, <3>1, <3>2
  <2>. QED
    BY <2>1, <2>2
<1>8. PICK state \in TaskState :
        /\ Continue(c, state)
        /\ \/ state.at = "idle"
           \/ /\ state.at = "fetch" /\ state.todo # <<>>
              /\ \A i \in DOMAIN state.todo : state.todo[i] \in subs[c]
           \/ /\ state.at = "snapshot" /\ state.todo = task[c].todo
              /\ state.answer = rest /\ rest # <<>>
  BY <1>7
<1>9. /\ task' \in [Clients -> TaskState] /\ task'[c] = state
      /\ \A d \in Clients : d # c => task'[d] = task[d]
  BY <1>8, LossTypes DEF Continue
<1>10. PhaseInv'
  <2>1. PhaseOK(c)'
    BY <1>1, <1>2, <1>5, <1>8, <1>9 DEF PhaseOK, registryVars
  <2>2. ASSUME NEW d \in Clients, d # c PROVE PhaseOK(d)'
    <3>1. PhaseOK(d)
      BY <1>0 DEF PhaseInv
    <3>. QED
      BY <1>1, <1>9, <2>2, <3>1 DEF PhaseOK, registryVars
  <2>. QED
    BY <2>1, <2>2 DEF PhaseInv
<1>11. /\ queue' \in [Clients -> Seq(Message)]
       /\ \A d \in Clients : Len(queue'[d]) <= Buffer /\ QueueOK(queue'[d])
  <2>1. CASE Room(c)
    <3>1. /\ queue[c] \in Seq(Message) /\ QueueOK(queue[c]) /\ Len(queue[c]) < Buffer
          /\ Buffer \in Nat
      BY <2>1, LossTypes, GatewayAssumption DEF Room
    <3>2. book \in Message /\ book.type # "price_change"
      BY <1>6, MessageTypes
    <3>3. /\ Append(queue[c], book) \in Seq(Message) /\ Len(Append(queue[c], book)) <= Buffer
          /\ QueueOK(Append(queue[c], book))
      BY <3>1, <3>2, QueueAppend
    <3>4. queue' = [queue EXCEPT ![c] = Append(queue[c], book)]
      BY <1>4, <2>1
    <3>. QED
      BY <3>3, <3>4, LossTypes
  <2>2. CASE ~Room(c)
    BY <1>4, <2>2, LossTypes
  <2>. QED
    BY <2>1, <2>2
<1>12. /\ seen' \in [Clients -> [Assets -> SUBSET Versions]]
       /\ synced' \in [Clients -> [Assets -> {"no", "read", "yes"}]]
       /\ \A d \in Clients : d # c => seen'[d] = seen[d] /\ synced'[d] = synced[d]
       /\ \A a \in Assets :
            /\ seen[c][a] \subseteq seen'[c][a]
            /\ \/ synced'[c][a] = synced[c][a]
               \/ /\ synced[c][a] = "read" /\ synced'[c][a] = "yes" /\ a = book.asset
                  /\ 1 .. book.version \subseteq seen'[c][a]
  <2>1. CASE Room(c)
    <3>1. /\ seen' = [seen EXCEPT ![c][book.asset] = @ \union Carried(book)]
          /\ synced' = [synced EXCEPT ![c][book.asset] = IF @ = "read" THEN "yes" ELSE @]
      BY <1>4, <2>1
    <3>2. Carried(book) = 1 .. book.version /\ Carried(book) \subseteq Versions
      BY <1>6, GatewayAssumption DEF Carried, Versions
    <3>3. /\ \A d \in Clients : d # c => seen'[d] = seen[d] /\ synced'[d] = synced[d]
          /\ seen'[c] = [seen[c] EXCEPT ![book.asset] = @ \union Carried(book)]
          /\ synced'[c] = [synced[c] EXCEPT ![book.asset] = IF @ = "read" THEN "yes" ELSE @]
      BY <3>1, LossTypes
    <3>4. /\ seen'[c] \in [Assets -> SUBSET Versions]
          /\ synced'[c] \in [Assets -> {"no", "read", "yes"}]
      BY <1>6, <3>2, <3>3, LossTypes
    <3>5. /\ seen' \in [Clients -> [Assets -> SUBSET Versions]]
          /\ synced' \in [Clients -> [Assets -> {"no", "read", "yes"}]]
      BY <3>1, <3>3, <3>4, LossTypes
    <3>6. ASSUME NEW a \in Assets
          PROVE  /\ seen[c][a] \subseteq seen'[c][a]
                 /\ \/ synced'[c][a] = synced[c][a]
                    \/ /\ synced[c][a] = "read" /\ synced'[c][a] = "yes" /\ a = book.asset
                       /\ 1 .. book.version \subseteq seen'[c][a]
      <4>1. seen[c] \in [Assets -> SUBSET Versions] /\ synced[c] \in [Assets -> {"no", "read", "yes"}]
        BY LossTypes
      <4>. QED
        BY <3>2, <3>3, <4>1
    <3>. QED
      BY <3>3, <3>5, <3>6
  <2>2. CASE ~Room(c)
    BY <1>4, <2>2, LossTypes
  <2>. QED
    BY <2>1, <2>2
<1>13. SyncInv'
  <2>1. \A d, a, n : Owed(d, a, n)' <=> Owed(d, a, n)
    BY <1>1 DEF Owed
  <2>2. \A d, a : Subscribed(d, a)' <=> Subscribed(d, a)
    BY <1>1 DEF Subscribed, registryVars
  <2>3. \A d \in Clients, a \in Assets : \A n : Gets(d, a, n) => Gets(d, a, n)'
    BY <1>12, <2>1 DEF Gets
  <2>4. ASSUME NEW a \in Assets
        PROVE  /\ synced'[c][a] # "no" => Subscribed(c, a)'
               /\ synced'[c][a] = "yes" => \A n \in 1 .. version[a] : Gets(c, a, n)'
               /\ synced'[c][a] = "read" /\ task'[c].at = "snapshot" =>
                    \A i \in DOMAIN task'[c].answer : task'[c].answer[i].asset = a =>
                       \A n \in 1 .. version[a] :
                         n <= task'[c].answer[i].version \/ Gets(c, a, n)'
    <3>1. synced'[c][a] # "no" => Subscribed(c, a)'
      BY <1>0, <1>12, <2>2 DEF SyncInv
    <3>2. synced'[c][a] = "yes" => \A n \in 1 .. version[a] : Gets(c, a, n)'
      <4>1. CASE synced'[c][a] = synced[c][a]
        BY <1>0, <2>3, <4>1 DEF SyncInv
      <4>2. CASE /\ synced[c][a] = "read" /\ synced'[c][a] = "yes" /\ a = book.asset
                 /\ 1 .. book.version \subseteq seen'[c][a]
        <5>1. \A n \in 1 .. version[a] : n <= book.version \/ Gets(c, a, n)
          BY <1>0, <1>1, <1>6, <4>2 DEF SyncInv, answer
        <5>2. \A n \in 1 .. version[a] : n <= book.version => n \in 1 .. book.version
          BY <1>6, GatewayAssumption DEF Versions
        <5>. QED
          BY <2>3, <4>2, <5>1, <5>2 DEF Gets
      <4>. QED
        BY <1>12, <4>1, <4>2
    <3>3. ASSUME synced'[c][a] = "read", task'[c].at = "snapshot",
                 NEW i \in DOMAIN task'[c].answer, task'[c].answer[i].asset = a,
                 NEW n \in 1 .. version[a]
          PROVE  n <= task'[c].answer[i].version \/ Gets(c, a, n)'
      <4>1. task'[c].answer = rest /\ synced[c][a] = "read"
        BY <1>8, <1>9, <1>12, <3>3
      <4>2. PICK j \in DOMAIN task[c].answer : rest[i] = task[c].answer[j]
        BY <1>5, <3>3, <4>1 DEF answer
      <4>3. n <= task[c].answer[j].version \/ Gets(c, a, n)
        BY <1>0, <1>1, <3>3, <4>1, <4>2 DEF SyncInv
      <4>. QED
        BY <2>3, <4>1, <4>2, <4>3
    <3>. QED
      BY <3>1, <3>2, <3>3
  <2>5. ASSUME NEW d \in Clients, d # c, NEW a \in Assets
        PROVE  /\ synced'[d][a] = synced[d][a] /\ task'[d] = task[d]
               /\ \A n : Gets(d, a, n)' <=> Gets(d, a, n)
    BY <1>9, <1>12, <2>1, <2>5 DEF Gets
  <2>. QED
    BY <1>0, <1>1, <2>2, <2>4, <2>5 DEF SyncInv
<1>14. GatewayTypeOK'
  <2>1. task' \in [Clients -> [at : {"new", "idle", "failing", "subscribe", "fetch",
                                "snapshot", "unsubscribe", "leave"},
                          request : Seq(Seq(STRING)), todo : Seq(Seq(STRING)),
                          answer : Seq(Message)]]
    BY <1>9 DEF TaskState, Phases
  <2>2. RegistryTypeOK'
    BY DEF RegistryInv
  <2>. QED
    BY <1>0, <1>1, <1>11, <1>12, <2>1, <2>2 DEF GatewayTypeOK
<1>15. KnownInv' /\ RouteInv' /\ OrderInv'
  <2>1. OrderInv'
    BY <1>0, <1>1, <1>11, OrderFrame
  <2>. QED
    BY <1>0, <1>1, <2>1 DEF KnownInv, RouteInv, registryVars
<1>. QED
  BY <1>10, <1>13, <1>14, <1>15 DEF DeliveryInv

-----------------------------------------------------------------------------
(* The changes and their way to the clients.                               *)

(* A change is last in the feed, and newer than whatever is on its way. *)
LEMMA UpdateKeeps ==
  ASSUME DeliveryInv, (RegistryInv /\ TaskInv)', NEW a \in Assets, Update(a)
  PROVE  DeliveryInv'
<1>. DEFINE last == Len(feed) + 1
<1>0. /\ GatewayTypeOK /\ PhaseInv /\ KnownInv /\ RouteInv /\ SyncInv /\ OrderInv
      /\ version \in [Assets -> 0 .. MaxVersion] /\ feed \in Seq(Event)
      /\ Event = Assets \X Versions
  BY DEF DeliveryInv, GatewayTypeOK, Event
<1>1. /\ UNCHANGED <<registryVars, task, queue, writers, route, seen, synced>>
      /\ version[a] < MaxVersion /\ version' = [version EXCEPT ![a] = @ + 1]
      /\ feed' = Append(feed, <<a, version[a] + 1>>)
  BY DEF Update
<1>2. /\ version' \in [Assets -> 0 .. MaxVersion] /\ version'[a] = version[a] + 1
      /\ \A b \in Assets : b # a => version'[b] = version[b]
      /\ \A b \in Assets : version[b] \in Nat /\ version'[b] \in Nat /\ version[b] <= version'[b]
  BY <1>0, <1>1, GatewayAssumption
<1>3. <<a, version[a] + 1>> \in Event
  BY <1>0, <1>1, GatewayAssumption DEF Versions
<1>4. /\ feed' \in Seq(Event)
      /\ DOMAIN feed = 1 .. Len(feed) /\ DOMAIN feed' = 1 .. last /\ Len(feed) \in Nat
      /\ feed'[last] = <<a, version[a] + 1>>
      /\ \A i \in DOMAIN feed : i \in DOMAIN feed' /\ feed'[i] = feed[i]
  BY <1>0, <1>1, <1>3
<1>5. \A i \in DOMAIN feed' :
         \/ i \in DOMAIN feed /\ feed'[i] = feed[i]
         \/ i = last /\ feed'[i][1] = a /\ feed'[i][2] = version[a] + 1
  BY <1>4
<1>6. /\ \A i \in DOMAIN feed : feed[i][1] \in Assets /\ feed[i][2] \in Nat
      /\ route.at # "idle" => route.event[1] \in Assets /\ route.event[2] \in Nat
  <2>1. \A e \in Event : e[1] \in Assets /\ e[2] \in Nat
    BY <1>0 DEF Versions
  <2>2. route.at # "idle" => route.event \in Event
    BY <1>0 DEF RouteInv
  <2>. QED
    BY <1>0, <2>1, <2>2
<1>. HIDE DEF last
<1>7. GatewayTypeOK'
  <2>1. RegistryTypeOK'
    BY DEF RegistryInv
  <2>. QED
    BY <1>0, <1>1, <1>2, <1>4, <2>1 DEF GatewayTypeOK
<1>8. PhaseInv' /\ RouteInv'
  BY <1>0, <1>1 DEF PhaseInv, PhaseOK, RouteInv, registryVars
<1>9. KnownInv'
  <2>. DEFINE S == {b \in Assets : version[b] > 0}
  <2>1. {b \in Assets : version'[b] > 0} \subseteq S \union {a}
    BY <1>2
  <2>2. IsFiniteSet(S \union {a})
    <3>. HIDE DEF S
    <3>1. IsFiniteSet(S)
      BY <1>0 DEF KnownInv, S
    <3>. QED
      BY <3>1, FS_AddElement
  <2>3. IsFiniteSet({b \in Assets : version'[b] > 0})
    <3>. HIDE DEF S
    <3>. QED
      BY <2>1, <2>2, FS_Subset
  <2>. QED
    BY <2>3 DEF KnownInv
<1>10. SyncInv'
  <2>1. \A d, b : Subscribed(d, b)' <=> Subscribed(d, b)
    BY <1>1 DEF Subscribed, registryVars
  <2>2. \A d, b, n : Gets(d, b, n) => Gets(d, b, n)'
    <3>1. ASSUME NEW d, NEW b, NEW n, Owed(d, b, n) PROVE Owed(d, b, n)'
      <4>1. CASE \E i \in DOMAIN feed : feed[i] = <<b, n>>
        BY <1>4, <4>1 DEF Owed
      <4>2. CASE route.event = <<b, n>> /\ \E p \in Patterns : <<d, p>> \in route.steady
        BY <1>1, <4>2 DEF Owed
      <4>. QED
        BY <3>1, <4>1, <4>2 DEF Owed
    <3>. QED
      BY <1>1, <3>1 DEF Gets
  <2>3. \A d, n : n \in 1 .. version'[a] => n \in 1 .. version[a] \/ Gets(d, a, n)'
    <3>1. \A n : n \in 1 .. version'[a] => n \in 1 .. version[a] \/ n = version[a] + 1
      BY <1>2
    <3>2. last \in DOMAIN feed' /\ feed'[last] = <<a, version[a] + 1>>
      BY <1>4 DEF last
    <3>. QED
      BY <3>1, <3>2 DEF Gets, Owed
  <2>4. \A d : \A b \in Assets : \A n : n \in 1 .. version'[b] => n \in 1 .. version[b] \/ Gets(d, b, n)'
    BY <1>2, <2>3
  <2>. QED
    BY <1>0, <1>1, <2>1, <2>2, <2>4 DEF SyncInv
<1>11. \A b, n : n \in Nat /\ b \in Assets /\ Precedes(b, n) => Precedes(b, n)'
  <2>. SUFFICES ASSUME NEW b \in Assets, NEW n \in Nat, Precedes(b, n) PROVE Precedes(b, n)'
    OBVIOUS
  <2>1. n <= version'[b]
    BY <1>2 DEF Precedes
  <2>2. \A i \in DOMAIN feed' : feed'[i][1] = b => n < feed'[i][2]
    BY <1>2, <1>5 DEF Precedes
  <2>. QED
    BY <1>1, <2>1, <2>2 DEF Precedes
<1>12. \A c \in Clients : QueueOK(queue[c])'
  <2>. SUFFICES ASSUME NEW c \in Clients PROVE QueueOK(queue[c])'
    OBVIOUS
  <2>1. QueueOK(queue[c]) /\ queue[c] \in Seq(Message)
    BY LossTypes
  <2>2. \A m \in Message : m.type = "price_change" => m.asset \in Assets /\ m.version \in Nat
    BY DEF Message, Versions
  <2>3. \A i \in DOMAIN queue[c] : queue[c][i].type = "price_change" =>
          queue[c][i].asset \in Assets /\ queue[c][i].version \in Nat
    BY <2>1, <2>2
  <2>4. UNCHANGED queue
    BY <1>1
  <2>5. \A i \in DOMAIN queue[c] : queue[c][i].type = "price_change" =>
          Precedes(queue[c][i].asset, queue[c][i].version)'
    <3>1. \A i \in DOMAIN queue[c] : queue[c][i].type = "price_change" =>
            Precedes(queue[c][i].asset, queue[c][i].version)
      BY <2>1 DEF QueueOK
    <3>. QED
      BY <1>11, <2>3, <2>4, <3>1
  <2>. QED
    BY <2>1, <2>4, <2>5 DEF QueueOK
<1>13. OrderInv'
  <2>1. \A i \in DOMAIN feed' : feed'[i][2] <= version'[feed'[i][1]]
    BY <1>0, <1>2, <1>5, <1>6 DEF OrderInv
  <2>2. ASSUME NEW i \in DOMAIN feed', NEW j \in DOMAIN feed', i < j, feed'[i][1] = feed'[j][1]
        PROVE  feed'[i][2] < feed'[j][2]
    <3>1. i \in DOMAIN feed /\ feed'[i] = feed[i]
      BY <1>4, <1>5, <2>2 DEF last
    <3>2. CASE j \in DOMAIN feed /\ feed'[j] = feed[j]
      BY <1>0, <2>2, <3>1, <3>2 DEF OrderInv
    <3>3. CASE feed'[j][1] = a /\ feed'[j][2] = version[a] + 1
      <4>1. feed[i][2] <= version[a]
        BY <1>0, <2>2, <3>1, <3>3 DEF OrderInv
      <4>. QED
        BY <1>2, <1>6, <3>1, <3>3, <4>1
    <3>. QED
      BY <1>5, <3>2, <3>3
  <2>3. route.at # "idle" =>
          /\ route.event[2] <= version'[route.event[1]]
          /\ \A i \in DOMAIN feed' : feed'[i][1] = route.event[1] => route.event[2] < feed'[i][2]
    BY <1>0, <1>2, <1>5, <1>6 DEF OrderInv
  <2>4. UNCHANGED route
    BY <1>1
  <2>. QED
    BY <1>12, <2>1, <2>2, <2>3, <2>4 DEF OrderInv
<1>. QED
  BY <1>7, <1>8, <1>9, <1>10, <1>13 DEF DeliveryInv

(* Everyone subscribed when the router takes the change is steady so far:  *)
(* to such a client the change is owed still.                              *)
LEMMA LookupExactKeeps ==
  ASSUME DeliveryInv, (RegistryInv /\ TaskInv)', LookupExact
  PROVE  DeliveryInv'
<1>. DEFINE e == Head(feed)
            S == {x \in registered \X Patterns : x[2] \in subs[x[1]] /\ Matches(x[2], e[1])}
<1>0. /\ GatewayTypeOK /\ PhaseInv /\ KnownInv /\ RouteInv /\ SyncInv /\ OrderInv /\ RegistryInv
      /\ feed \in Seq(Event) /\ Event = Assets \X Versions
      /\ registered \in SUBSET Clients /\ subs \in [Clients -> SUBSET Patterns]
      /\ exact \in [Patterns -> SUBSET Clients]
  BY DEF DeliveryInv, GatewayTypeOK, Event, RegistryInv, RegistryTypeOK
<1>1. /\ UNCHANGED <<registryVars, task, queue, writers, version, seen, synced>>
      /\ route.at = "idle" /\ feed # <<>> /\ feed' = Tail(feed)
      /\ route' = Routing("exact", e, ExactSubscribers(e[1]), S)
  BY DEF LookupExact
<1>2. /\ route'.at = "exact" /\ route'.event = e /\ route'.matched = ExactSubscribers(e[1])
      /\ route'.steady = S
  BY <1>1 DEF Routing
<1>3. /\ e \in Event /\ 1 \in DOMAIN feed /\ feed[1] = e /\ feed' \in Seq(Event)
      /\ \A i \in DOMAIN feed' : i \in Nat /\ i >= 1 /\ i + 1 \in DOMAIN feed /\ feed'[i] = feed[i + 1]
      /\ \A i \in DOMAIN feed : feed[i] = e \/ \E j \in DOMAIN feed' : feed'[j] = feed[i]
  <2>1. /\ e \in Event /\ 1 \in DOMAIN feed /\ feed[1] = e /\ feed' \in Seq(Event)
        /\ DOMAIN feed = 1 .. Len(feed) /\ DOMAIN feed' = 1 .. (Len(feed) - 1) /\ Len(feed) \in Nat
        /\ \A i \in 1 .. (Len(feed) - 1) : feed'[i] = feed[i + 1]
    BY <1>0, <1>1
  <2>2. \A i \in DOMAIN feed : i = 1 \/ (i - 1 \in DOMAIN feed' /\ (i - 1) + 1 = i)
    BY <2>1
  <2>3. \A i \in DOMAIN feed' : i \in Nat /\ i >= 1 /\ i + 1 \in DOMAIN feed
    BY <2>1
  <2>. QED
    BY <2>1, <2>2, <2>3
<1>4. e[1] \in Assets /\ e[1] \in Seq(STRING) /\ ~IsWildcard(e[1]) /\ e = <<e[1], e[2]>>
      /\ e[2] \in Nat
  BY <1>0, <1>3, RegistryAssumption DEF Versions
<1>5. \A x \in S : /\ x[1] \in registered /\ x[2] \in subs[x[1]] /\ Matches(x[2], e[1])
                   /\ ~IsWildcard(x[2]) => x[1] \in ExactSubscribers(e[1])
  <2>. SUFFICES ASSUME NEW c \in registered, NEW p \in Patterns, p \in subs[c], Matches(p, e[1]),
                       ~IsWildcard(p)
                PROVE  c \in ExactSubscribers(e[1])
    OBVIOUS
  <2>1. p = e[1]
    BY <1>4, RegistryAssumption, ExactMatch
  <2>2. c \in exact[p]
    BY <1>0 DEF RegistryInv, IndexesAgree
  <2>. QED
    BY <2>1, <2>2 DEF ExactSubscribers
<1>6. S \in SUBSET (Clients \X Patterns) /\ ExactSubscribers(e[1]) \in SUBSET Clients
  BY <1>0 DEF ExactSubscribers
<1>7. \A c, p : c \in registered /\ p \in subs[c] /\ Matches(p, e[1]) => <<c, p>> \in S /\ p \in Patterns
  BY <1>0
<1>. HIDE DEF e, S
<1>8. GatewayTypeOK'
  <2>1. RegistryTypeOK'
    BY DEF RegistryInv
  <2>. QED
    BY <1>0, <1>1, <1>2, <1>3, <1>6, <2>1 DEF GatewayTypeOK
<1>9. PhaseInv' /\ KnownInv'
  BY <1>0, <1>1 DEF PhaseInv, PhaseOK, KnownInv, registryVars
<1>10. RouteInv'
  BY <1>1, <1>2, <1>3, <1>5 DEF RouteInv, registryVars
<1>11. SyncInv'
  <2>1. \A d, b : Subscribed(d, b)' <=> Subscribed(d, b)
    BY <1>1 DEF Subscribed, registryVars
  <2>2. ASSUME NEW d, NEW b, NEW n, Subscribed(d, b), Gets(d, b, n) PROVE Gets(d, b, n)'
    <3>1. CASE n \in seen[d][b]
      BY <1>1, <3>1 DEF Gets
    <3>2. CASE \E i \in DOMAIN feed : feed[i] = <<b, n>>
      <4>1. CASE e = <<b, n>>
        <5>1. e[1] = b
          BY <4>1
        <5>2. \E p \in Patterns : <<d, p>> \in S
          BY <1>7, <2>2, <5>1 DEF Subscribed
        <5>. QED
          BY <1>2, <4>1, <5>2 DEF Gets, Owed
      <4>2. CASE \E j \in DOMAIN feed' : feed'[j] = <<b, n>>
        BY <4>2 DEF Gets, Owed
      <4>. QED
        BY <1>3, <3>2, <4>1, <4>2
    <3>3. CASE \E p \in Patterns : <<d, p>> \in route.steady
      BY <1>0, <1>1, <3>3 DEF RouteInv
    <3>. QED
      BY <2>2, <3>1, <3>2, <3>3 DEF Gets, Owed
  <2>. QED
    BY <1>0, <1>1, <2>1, <2>2 DEF SyncInv
<1>12. \A b, n : Precedes(b, n) => Precedes(b, n)'
  <2>. SUFFICES ASSUME NEW b, NEW n, Precedes(b, n) PROVE Precedes(b, n)'
    OBVIOUS
  <2>1. \A i \in DOMAIN feed' : feed'[i][1] = b => n < feed'[i][2]
    BY <1>3 DEF Precedes
  <2>2. route'.event[1] = b => n < route'.event[2]
    BY <1>2, <1>3 DEF Precedes
  <2>. QED
    BY <1>1, <2>1, <2>2 DEF Precedes
<1>13. OrderInv'
  <2>1. \A i \in DOMAIN feed' : feed'[i][2] <= version[feed'[i][1]]
    BY <1>0, <1>3 DEF OrderInv
  <2>2. ASSUME NEW i \in DOMAIN feed', NEW j \in DOMAIN feed', i < j, feed'[i][1] = feed'[j][1]
        PROVE  feed'[i][2] < feed'[j][2]
    <3>1. /\ i + 1 < j + 1 /\ i + 1 \in DOMAIN feed /\ j + 1 \in DOMAIN feed
          /\ feed'[i] = feed[i + 1] /\ feed'[j] = feed[j + 1]
      BY <1>3, <2>2
    <3>. QED
      BY <1>0, <2>2, <3>1 DEF OrderInv
  <2>3. e[2] <= version[e[1]]
    BY <1>0, <1>3 DEF OrderInv
  <2>4. ASSUME NEW i \in DOMAIN feed', feed'[i][1] = e[1] PROVE e[2] < feed'[i][2]
    <3>1. 1 < i + 1 /\ i + 1 \in DOMAIN feed /\ feed'[i] = feed[i + 1]
      BY <1>3
    <3>. QED
      BY <1>0, <1>3, <2>4, <3>1 DEF OrderInv
  <2>5. \A c \in Clients : QueueOK(queue[c])'
    <3>1. \A c \in Clients : QueueOK(queue[c])
      BY <1>0 DEF OrderInv
    <3>2. UNCHANGED queue
      BY <1>1
    <3>. QED
      BY <1>12, <3>1, <3>2 DEF QueueOK
  <2>. QED
    BY <1>1, <1>2, <2>1, <2>2, <2>3, <2>4, <2>5 DEF OrderInv
<1>. QED
  BY <1>8, <1>9, <1>10, <1>11, <1>13 DEF DeliveryInv

(* The scan finds whoever is steady with a pattern. *)
LEMMA ScanPatternsKeeps ==
  ASSUME DeliveryInv, (RegistryInv /\ TaskInv)', ScanPatterns
  PROVE  DeliveryInv'
<1>0. /\ GatewayTypeOK /\ PhaseInv /\ KnownInv /\ RouteInv /\ SyncInv /\ OrderInv /\ RegistryInv
      /\ wildcard \in [Patterns -> SUBSET Clients]
  BY DEF DeliveryInv, RegistryInv, RegistryTypeOK
<1>1. /\ UNCHANGED <<registryVars, task, queue, writers, version, feed, seen, synced>>
      /\ route.at = "exact"
      /\ route'.at = "matched" /\ route'.event = route.event /\ route'.steady = route.steady
      /\ route'.matched = route.matched \union WildcardSubscribers(route.event[1])
  BY DEF ScanPatterns, Routing
<1>2. WildcardSubscribers(route.event[1]) \in SUBSET Clients
  BY <1>0 DEF WildcardSubscribers
<1>3. GatewayTypeOK'
  <2>1. RegistryTypeOK'
    BY DEF RegistryInv
  <2>. QED
    BY <1>0, <1>1, <1>2, <2>1 DEF GatewayTypeOK
<1>4. PhaseInv' /\ KnownInv'
  BY <1>0, <1>1 DEF PhaseInv, PhaseOK, KnownInv, registryVars
<1>5. ASSUME NEW x \in route.steady
      PROVE  /\ x[1] \in registered /\ x[2] \in subs[x[1]] /\ Matches(x[2], route.event[1])
             /\ x[1] \in route'.matched
  <2>1. /\ x[1] \in registered /\ x[2] \in subs[x[1]] /\ Matches(x[2], route.event[1])
        /\ ~IsWildcard(x[2]) => x[1] \in route.matched
        /\ x[2] \in Patterns
    BY <1>0 DEF RouteInv, GatewayTypeOK
  <2>2. CASE IsWildcard(x[2])
    <3>1. x[1] \in wildcard[x[2]]
      BY <1>0, <2>1, <2>2 DEF RegistryInv, IndexesAgree
    <3>. QED
      BY <1>1, <2>1, <3>1 DEF WildcardSubscribers
  <2>. QED
    BY <1>1, <2>1, <2>2
<1>6. RouteInv'
  BY <1>0, <1>1, <1>5 DEF RouteInv, registryVars
<1>7. SyncInv'
  <2>1. \A d, b : Subscribed(d, b)' <=> Subscribed(d, b)
    BY <1>1 DEF Subscribed, registryVars
  <2>2. \A d, b, n : Gets(d, b, n)' <=> Gets(d, b, n)
    BY <1>1 DEF Gets, Owed
  <2>. QED
    BY <1>0, <1>1, <2>1, <2>2 DEF SyncInv
<1>8. OrderInv'
  <2>1. \A b, n : Precedes(b, n) => Precedes(b, n)'
    BY <1>1 DEF Precedes
  <2>2. \A c \in Clients : QueueOK(queue[c])'
    <3>1. \A c \in Clients : QueueOK(queue[c])
      BY <1>0 DEF OrderInv
    <3>2. UNCHANGED queue
      BY <1>1
    <3>. QED
      BY <2>1, <3>1, <3>2 DEF QueueOK
  <2>. QED
    BY <1>0, <1>1, <2>2 DEF OrderInv
<1>. QED
  BY <1>3, <1>4, <1>6, <1>7, <1>8 DEF DeliveryInv

(* A steady client that was matched is registered, and so gets the change: *)
(* after all that its channel holds, or not at all, and is out of step.    *)
LEMMA SendChangeKeeps ==
  ASSUME DeliveryInv, (RegistryInv /\ TaskInv)', SendChange
  PROVE  DeliveryInv'
<1>0. /\ GatewayTypeOK /\ PhaseInv /\ KnownInv /\ RouteInv /\ SyncInv /\ OrderInv
      /\ Event = Assets \X Versions
  BY DEF DeliveryInv, Event
<1>1. /\ UNCHANGED <<registryVars, task, writers, version, feed>>
      /\ route.at = "matched" /\ route' = Waiting
  BY DEF SendChange
<1>2. route'.at = "idle" /\ route'.event = <<>> /\ route'.matched = {} /\ route'.steady = {}
  BY <1>1 DEF Waiting, Routing
<1>3. PICK a \in Assets, n \in Versions : route.event = <<a, n>>
  BY <1>0, <1>1 DEF RouteInv
<1>. DEFINE msg == [type |-> "price_change", asset |-> a, version |-> n]
<1>4. /\ n \in Nat /\ n <= version[a]
       /\ \A i \in DOMAIN feed : feed[i][1] = a => n < feed[i][2]
  BY <1>0, <1>1, <1>3 DEF OrderInv, Versions
<1>5. PICK to \in SUBSET route.matched :
        /\ route.matched \intersect registered \subseteq to
        /\ queue' = [c \in Clients |-> IF c \in to /\ Room(c) THEN Append(queue[c], msg) ELSE queue[c]]
        /\ seen' = [c \in Clients |->
             IF c \in to /\ Room(c) THEN [seen[c] EXCEPT ![a] = @ \union {n}] ELSE seen[c]]
        /\ synced' = [c \in Clients |->
             IF c \in to /\ ~Room(c) THEN [synced[c] EXCEPT ![a] = "no"] ELSE synced[c]]
  <2>1. route.event[1] = a /\ route.event[2] = n
    BY <1>3
  <2>. QED
    BY <2>1 DEF SendChange
<1>6. /\ msg \in Message /\ msg.type = "price_change" /\ msg.asset = a /\ msg.version = n
  BY MessageTypes
<1>7. \A x \in route.steady : x[1] \in to
  BY <1>0, <1>1, <1>5 DEF RouteInv
<1>. HIDE DEF msg
<1>8. \A b, k : Precedes(b, k) => Precedes(b, k)' /\ (b = a => k < n)
  BY <1>1, <1>2, <1>3 DEF Precedes
<1>9. \A c \in Clients : /\ queue'[c] \in Seq(Message) /\ Len(queue'[c]) <= Buffer
                         /\ QueueOK(queue[c])'
  <2>. SUFFICES ASSUME NEW c \in Clients
                PROVE  /\ queue'[c] \in Seq(Message) /\ Len(queue'[c]) <= Buffer
                       /\ QueueOK(queue[c])'
    OBVIOUS
  <2>1. QueueOK(queue[c]) /\ queue[c] \in Seq(Message) /\ Len(queue[c]) <= Buffer
    BY LossTypes
  <2>2. CASE queue'[c] = queue[c]
    <3>1. \A i \in DOMAIN queue[c] : queue[c][i].type = "price_change" =>
            Precedes(queue[c][i].asset, queue[c][i].version)
      BY <2>1 DEF QueueOK
    <3>. QED
      BY <1>8, <2>1, <2>2 DEF QueueOK
  <2>3. CASE Room(c) /\ queue'[c] = Append(queue[c], msg)
    <3>0. PICK q \in Seq(Message) : q = queue[c]
      BY <2>1
    <3>. DEFINE r == Append(q, msg)
    <3>1. /\ DOMAIN r = 1 .. (Len(q) + 1) /\ Len(q) \in Nat /\ DOMAIN q = 1 .. Len(q)
          /\ r[Len(q) + 1] = msg /\ r \in Seq(Message) /\ Len(r) = Len(q) + 1
          /\ \A i \in 1 .. Len(q) : r[i] = q[i]
      BY <1>6
    <3>2. Len(r) <= Buffer
      BY <2>3, <3>0, <3>1, GatewayAssumption DEF Room
    <3>. HIDE DEF r
    <3>3. \A i \in DOMAIN r : /\ i \in Nat
                              /\ \/ i \in DOMAIN q /\ r[i] = q[i]
                                 \/ i = Len(q) + 1 /\ r[i] = msg
      BY <3>1
    <3>4. \A i \in DOMAIN r : r[i].type = "price_change" => Precedes(r[i].asset, r[i].version)'
      <4>1. Precedes(a, n)'
        BY <1>1, <1>2, <1>4 DEF Precedes
      <4>2. \A i \in DOMAIN q : q[i].type = "price_change" => Precedes(q[i].asset, q[i].version)
        BY <2>1, <3>0 DEF QueueOK
      <4>3. \A i \in DOMAIN q : q[i].type = "price_change" => Precedes(q[i].asset, q[i].version)'
        BY <1>8, <4>2
      <4>. QED
        BY <1>6, <3>3, <4>1, <4>3
    <3>5. ASSUME NEW i \in DOMAIN r, NEW j \in DOMAIN r, i < j,
                 r[i].type = "price_change", r[j].type = "price_change", r[i].asset = r[j].asset
          PROVE  r[i].version < r[j].version
      <4>1. i \in DOMAIN q /\ r[i] = q[i]
        BY <3>1, <3>3, <3>5
      <4>2. CASE j \in DOMAIN q /\ r[j] = q[j]
        BY <2>1, <3>0, <3>5, <4>1, <4>2 DEF QueueOK
      <4>3. CASE r[j] = msg
        <5>1. Precedes(q[i].asset, q[i].version)
          BY <2>1, <3>0, <3>5, <4>1 DEF QueueOK
        <5>. QED
          BY <1>6, <1>8, <3>5, <4>1, <4>3, <5>1
      <4>. QED
        BY <3>3, <4>2, <4>3
    <3>6. queue'[c] = r
      BY <2>3, <3>0 DEF r
    <3>7. QueueOK(queue[c])'
      BY <3>4, <3>5, <3>6 DEF QueueOK
    <3>. QED
      BY <3>1, <3>2, <3>6, <3>7
  <2>. QED
    BY <1>5, <2>2, <2>3
<1>10. /\ seen' \in [Clients -> [Assets -> SUBSET Versions]]
      /\ synced' \in [Clients -> [Assets -> {"no", "read", "yes"}]]
      /\ queue' \in [Clients -> Seq(Message)]
  <2>1. \A c \in Clients : /\ [seen[c] EXCEPT ![a] = @ \union {n}] \in [Assets -> SUBSET Versions]
                           /\ [synced[c] EXCEPT ![a] = "no"] \in [Assets -> {"no", "read", "yes"}]
                           /\ seen[c] \in [Assets -> SUBSET Versions]
                           /\ synced[c] \in [Assets -> {"no", "read", "yes"}]
    BY <1>3, LossTypes
  <2>. QED
    BY <1>5, <1>9, <2>1
<1>11. \A c \in Clients, b \in Assets :
         /\ seen[c][b] \subseteq seen'[c][b]
         /\ synced'[c][b] # "no" =>
              /\ synced'[c][b] = synced[c][b]
              /\ (c \in to /\ b = a) => n \in seen'[c][b]
  <2>. SUFFICES ASSUME NEW c \in Clients, NEW b \in Assets
                PROVE  /\ seen[c][b] \subseteq seen'[c][b]
                       /\ synced'[c][b] # "no" =>
                            /\ synced'[c][b] = synced[c][b]
                            /\ (c \in to /\ b = a) => n \in seen'[c][b]
    OBVIOUS
  <2>1. seen[c] \in [Assets -> SUBSET Versions] /\ synced[c] \in [Assets -> {"no", "read", "yes"}]
    BY LossTypes
  <2>2. /\ seen'[c] = IF c \in to /\ Room(c) THEN [seen[c] EXCEPT ![a] = @ \union {n}] ELSE seen[c]
        /\ synced'[c] = IF c \in to /\ ~Room(c) THEN [synced[c] EXCEPT ![a] = "no"] ELSE synced[c]
    BY <1>5
  <2>. QED
    BY <2>1, <2>2
<1>12. GatewayTypeOK'
  <2>1. RegistryTypeOK'
    BY DEF RegistryInv
  <2>. QED
    BY <1>0, <1>1, <1>2, <1>9, <1>10, <2>1 DEF GatewayTypeOK
<1>13. PhaseInv' /\ KnownInv' /\ RouteInv'
  BY <1>0, <1>1, <1>2 DEF PhaseInv, PhaseOK, KnownInv, RouteInv, registryVars
<1>14. SyncInv'
  <2>1. \A d, b : Subscribed(d, b)' <=> Subscribed(d, b)
    BY <1>1 DEF Subscribed, registryVars
  <2>2. ASSUME NEW d \in Clients, NEW b \in Assets, synced'[d][b] # "no", NEW k, Gets(d, b, k)
        PROVE  Gets(d, b, k)'
    <3>1. CASE k \in seen[d][b]
      BY <1>11, <3>1 DEF Gets
    <3>2. CASE \E i \in DOMAIN feed : feed[i] = <<b, k>>
      BY <1>1, <3>2 DEF Gets, Owed
    <3>3. CASE route.event = <<b, k>> /\ \E p \in Patterns : <<d, p>> \in route.steady
      <4>1. b = a /\ k = n
        BY <1>3, <3>3
      <4>2. d \in to
        BY <1>7, <3>3
      <4>. QED
        BY <1>11, <2>2, <4>1, <4>2 DEF Gets
    <3>. QED
      BY <2>2, <3>1, <3>2, <3>3 DEF Gets, Owed
  <2>. QED
    BY <1>0, <1>1, <1>11, <2>1, <2>2 DEF SyncInv
<1>15. OrderInv'
  BY <1>0, <1>1, <1>2, <1>9 DEF OrderInv
<1>. QED
  BY <1>12, <1>13, <1>14, <1>15 DEF DeliveryInv

-----------------------------------------------------------------------------
(* At the start nobody is registered and nothing has changed. *)
LEMMA DeliveryInit == GatewayInit => DeliveryInv
<1>. SUFFICES ASSUME GatewayInit PROVE DeliveryInv
  OBVIOUS
<1>1. RegistryInv /\ TaskInv
  BY RegistryInitInv, TaskInitInv DEF GatewayInit
<1>2. /\ task = [c \in Clients |-> At("new", <<>>, <<>>, <<>>)]
      /\ queue = [c \in Clients |-> <<>>] /\ writers = {}
      /\ version = [a \in Assets |-> 0] /\ feed = <<>>
      /\ seen = [c \in Clients |-> [a \in Assets |-> {}]]
      /\ synced = [c \in Clients |-> [a \in Assets |-> "no"]]
  BY DEF GatewayInit, NotSynced
<1>3. route.at = "idle" /\ route.event = <<>> /\ route.matched = {} /\ route.steady = {}
  BY DEF GatewayInit, Waiting, Routing
<1>4. GatewayTypeOK
  <2>1. task \in [Clients -> [at : {"new", "idle", "failing", "subscribe", "fetch",
                               "snapshot", "unsubscribe", "leave"},
                         request : Seq(Seq(STRING)), todo : Seq(Seq(STRING)),
                         answer : Seq(Message)]]
    BY <1>2 DEF At
  <2>2. /\ queue \in [Clients -> Seq(Message)]
        /\ \A c \in Clients : Len(queue[c]) <= Buffer
    BY <1>2, GatewayAssumption
  <2>3. version \in [Assets -> 0 .. MaxVersion] /\ feed \in Seq(Assets \X Versions)
    BY <1>2, GatewayAssumption
  <2>4. /\ seen \in [Clients -> [Assets -> SUBSET Versions]]
        /\ synced \in [Clients -> [Assets -> {"no", "read", "yes"}]]
    BY <1>2
  <2>. QED
    BY <1>1, <1>2, <1>3, <2>1, <2>2, <2>3, <2>4 DEF GatewayTypeOK, RegistryInv
<1>5. PhaseInv
  BY <1>2 DEF PhaseInv, PhaseOK, At
<1>6. KnownInv
  <2>1. {a \in Assets : version[a] > 0} = {}
    BY <1>2
  <2>. QED
    BY <2>1, FS_EmptySet DEF KnownInv
<1>7. RouteInv
  BY <1>3 DEF RouteInv
<1>8. SyncInv
  BY <1>2 DEF SyncInv
<1>9. OrderInv
  BY <1>2, <1>3, QueueEmpty DEF OrderInv
<1>. QED
  BY <1>1, <1>4, <1>5, <1>6, <1>7, <1>8, <1>9 DEF DeliveryInv

(* Every step keeps the invariant, by the lemma of its action. *)
LEMMA DeliveryStep ==
  ASSUME DeliveryInv, [GatewayNext]_gatewayVars
  PROVE  DeliveryInv'
<1>1. (RegistryInv /\ TaskInv)'
  BY GatewayStep, RegistryStepInv DEF DeliveryInv, RegistryInv
<1>2. ASSUME NEW c \in Clients, Connection(c) PROVE DeliveryInv'
  BY <1>1, <1>2, ConnectKeeps, SubscribeKeeps, ForgetKeeps, UnsubscribeKeeps, DisconnectKeeps,
     CloseKeeps, FetchSnapshotKeeps, SendSnapshotKeeps, QuietKeeps
  DEF Connection
<1>3. ASSUME NEW c \in Clients, Write(c) \/ WriteFails(c) PROVE DeliveryInv'
  BY <1>1, <1>3, WriterKeeps
<1>4. ASSUME NEW a \in Assets, Update(a) PROVE DeliveryInv'
  BY <1>1, <1>4, UpdateKeeps
<1>5. CASE Route
  BY <1>1, <1>5, LookupExactKeeps, ScanPatternsKeeps, SendChangeKeeps DEF Route
<1>6. CASE UNCHANGED gatewayVars
  <2>1. UNCHANGED <<task, queue, writers, version, feed, route, seen, synced>>
    BY <1>6 DEF gatewayVars
  <2>2. UNCHANGED registryVars
    BY <1>6 DEF gatewayVars
  <2>3. GatewayTypeOK'
    BY <1>1, <2>1 DEF DeliveryInv, GatewayTypeOK, RegistryInv
  <2>4. PhaseInv' /\ KnownInv' /\ RouteInv'
    BY <2>1, <2>2 DEF DeliveryInv, PhaseInv, PhaseOK, KnownInv, RouteInv, registryVars
  <2>5. SyncInv'
    BY <2>1, <2>2, SyncFrame DEF DeliveryInv, registryVars
  <2>6. OrderInv'
    BY <2>1, OrderFrame DEF DeliveryInv, OrderInv
  <2>. QED
    BY <1>1, <2>3, <2>4, <2>5, <2>6 DEF DeliveryInv
<1>. QED
  BY <1>2, <1>3, <1>4, <1>5, <1>6 DEF GatewayNext

(* The registry, the tasks of the connections, the router, the feed and    *)
(* the channels stay in the agreement on which delivery rests.             *)
THEOREM DeliveryInvariant == GatewaySpec => []DeliveryInv
BY DeliveryInit, DeliveryStep, PTL DEF GatewaySpec

(* Whatever connections ask for and however they end, the gateway's state  *)
(* keeps its shape, and no channel holds more than its capacity.           *)
THEOREM GatewayTypeCorrect == GatewaySpec => []GatewayTypeOK
<1>1. DeliveryInv => GatewayTypeOK
  BY DEF DeliveryInv
<1>. QED
  BY <1>1, DeliveryInvariant, PTL

(* The router's two reads of the indexes find every client that holds a    *)
(* matching subscription throughout, whatever changes between the reads.   *)
THEOREM SteadySubscribersAreFound == GatewaySpec => []SteadySubscribersAreMatched
<1>1. DeliveryInv => SteadySubscribersAreMatched
  BY DEF DeliveryInv, RouteInv, SteadySubscribersAreMatched
<1>. QED
  BY <1>1, DeliveryInvariant, PTL

(* Subscribing before fetching leaves no gap: a client that was sent the   *)
(* snapshot of an asset, and lost nothing since, has every change of it or *)
(* is about to get it.                                                     *)
THEOREM SnapshotsLeaveNoGap == GatewaySpec => []NoGapAfterSnapshot
<1>1. DeliveryInv => NoGapAfterSnapshot
  <2>. SUFFICES ASSUME DeliveryInv, NEW c \in Clients, NEW a \in Assets, synced[c][a] = "yes",
                       NEW n \in 1 .. version[a]
                PROVE  n \in seen[c][a] \/ n \in InFlight(a)
    BY DEF NoGapAfterSnapshot
  <2>1. Gets(c, a, n)
    BY DEF DeliveryInv, SyncInv
  <2>2. version[a] \in 0 .. MaxVersion
    BY DEF DeliveryInv, GatewayTypeOK
  <2>3. n \in Versions
    BY <2>2, GatewayAssumption DEF Versions
  <2>. QED
    BY <2>1, <2>3 DEF Gets, Owed, InFlight
<1>. QED
  BY <1>1, DeliveryInvariant, PTL

(* Of one asset, a client's channel never holds a change twice, nor an     *)
(* older one after a newer one.                                            *)
THEOREM ChangesComeInOrder == GatewaySpec => []ChangesOnceAndInOrder
<1>1. DeliveryInv => ChangesOnceAndInOrder
  BY DEF DeliveryInv, OrderInv, QueueOK, ChangesOnceAndInOrder
<1>. QED
  BY <1>1, DeliveryInvariant, PTL
=============================================================================
