------------------------------ MODULE WsWorker ------------------------------
(***************************************************************************)
(* The aggregator's workers: a WsManager (crates/common/src/ws_manager.rs) *)
(* keeps one WebSocket connection to the exchange, and reads its control   *)
(* commands while connected; its PolymarketHandler                         *)
(* (crates/polymarket/src/handler.rs) remembers what to subscribe to.      *)
(*                                                                         *)
(* What the exchange sends, and what becomes of it, is left out, and so    *)
(* are pings and the length of the delay between two attempts.  The        *)
(* handler's token mappings are written and never read.                    *)
(***************************************************************************)
EXTENDS Integers, FiniteSets, SequencesExt

CONSTANTS
  MaxWorkers,    \* bound: workers that are ever spawned
  ChannelSize,   \* capacity of a worker's command channel, 32 in the source
  Ids            \* the asset ids (clob token ids)

ASSUME WorkerAssumption ==
  /\ MaxWorkers \in Nat \ {0}
  /\ ChannelSize \in Nat \ {0}

Workers == 1 .. MaxWorkers   \* numbered by worker_counter

VARIABLES
  phase,      \* phase[w]: where the task of worker w is
  commands,   \* commands[w]: the command channel, oldest first
  ids,        \* ids[w]: the handler's subscribed_ids
  exchange    \* exchange[w]: the ids the exchange sends on the connection

workerVars == <<phase, commands, ids, exchange>>

Subscribe(batch)   == [type |-> "subscribe", batch |-> batch]
Unsubscribe(batch) == [type |-> "unsubscribe", batch |-> batch]
Shutdown           == [type |-> "shutdown", batch |-> {}]

Command == [type : {"subscribe", "unsubscribe", "shutdown"}, batch : SUBSET Ids]

WorkerInit ==
  /\ phase = [w \in Workers |-> "unborn"]
  /\ commands = [w \in Workers |-> <<>>]
  /\ ids = [w \in Workers |-> {}]
  /\ exchange = [w \in Workers |-> {}]

Running(w) == phase[w] \notin {"unborn", "stopped"}

-----------------------------------------------------------------------------
(* The next worker's task starts, with these ids. *)
Start(w, batch) ==
  /\ phase' = [phase EXCEPT ![w] = "connecting"]
  /\ ids' = [ids EXCEPT ![w] = batch]
  /\ UNCHANGED <<commands, exchange>>

(* Bug: the channel has no limit. *)
SendAtOnce(w, command) ==
  /\ Running(w)
  /\ commands' = [commands EXCEPT ![w] = Append(@, command)]
  /\ UNCHANGED <<phase, ids, exchange>>

(* send().await on a command channel: it waits for room, and fails once    *)
(* the worker's task, which holds the other end, has ended.                *)
Send(w, command) ==
  /\ Running(w)
  /\ Len(commands[w]) < ChannelSize
  /\ commands' = [commands EXCEPT ![w] = Append(@, command)]
  /\ UNCHANGED <<phase, ids, exchange>>

(* Bug: a new connection starts without subscriptions. *)
ConnectBare(w) ==
  /\ phase[w] = "connecting"
  /\ phase' = [phase EXCEPT ![w] = "connected"]
  /\ UNCHANGED <<commands, ids, exchange>>

(* The connection is up, and on_connect_message subscribes to all the      *)
(* handler remembers.  (That this message is lost with the connection is   *)
(* this step followed by Disconnect.)                                      *)
Connect(w) ==
  /\ phase[w] = "connecting"
  /\ phase' = [phase EXCEPT ![w] = "connected"]
  /\ exchange' = [exchange EXCEPT ![w] = ids[w]]
  /\ UNCHANGED <<commands, ids>>

ConnectFails(w) ==
  /\ phase[w] = "connecting"
  /\ phase' = [phase EXCEPT ![w] = "sleeping"]
  /\ UNCHANGED <<commands, ids, exchange>>

(* The delay of run has passed: the loop tries again. *)
Retry(w) ==
  /\ phase[w] = "sleeping"
  /\ phase' = [phase EXCEPT ![w] = "connecting"]
  /\ UNCHANGED <<commands, ids, exchange>>

(* Bug: what waits in the channel is discarded with the connection. *)
DisconnectAndDrain(w) ==
  /\ phase[w] = "connected"
  /\ phase' = [phase EXCEPT ![w] = "sleeping"]
  /\ exchange' = [exchange EXCEPT ![w] = {}]
  /\ commands' = [commands EXCEPT ![w] = <<>>]
  /\ UNCHANGED ids

(* The exchange closes the connection, or reading or a ping fails. *)
Disconnect(w) ==
  /\ phase[w] = "connected"
  /\ phase' = [phase EXCEPT ![w] = "sleeping"]
  /\ exchange' = [exchange EXCEPT ![w] = {}]
  /\ UNCHANGED <<commands, ids>>

(* Bug: a subscription replaces the ones before it. *)
RememberedOnlyLast(known, command) ==
  IF command.type = "subscribe" THEN command.batch ELSE known \ command.batch

(* add_subscriptions and remove_subscriptions. *)
Remembered(known, command) ==
  IF command.type = "subscribe" THEN known \union command.batch
  ELSE known \ command.batch

(* What the exchange may send once it has the message of a command.        *)
(* build_unsubscription_message makes the very message that subscribes, so *)
(* that it is up to the exchange whether it stops to send.                 *)
SentAfter(sent, command) ==
  IF command.type = "subscribe" THEN {sent \union command.batch}
  ELSE {sent, sent \ command.batch}

(* The handler takes a command and the message goes to the exchange, or    *)
(* cannot be sent and the connection is given up.                          *)
HandleCommand(w) ==
  /\ phase[w] = "connected"
  /\ commands[w] # <<>> /\ Head(commands[w]) # Shutdown
  /\ commands' = [commands EXCEPT ![w] = Tail(@)]
  /\ ids' = [ids EXCEPT ![w] = Remembered(@, Head(commands[w]))]
  /\ \/ /\ \E sent \in SentAfter(exchange[w], Head(commands[w])) :
              exchange' = [exchange EXCEPT ![w] = sent]
        /\ UNCHANGED phase
     \/ /\ phase' = [phase EXCEPT ![w] = "sleeping"]
        /\ exchange' = [exchange EXCEPT ![w] = {}]

(* The command that ends run.  The other way out of the loop, a closed and *)
(* empty channel, does not occur: the supervisor drops its end only after  *)
(* it has sent Shutdown.                                                   *)
HandleShutdown(w) ==
  /\ phase[w] = "connected"
  /\ commands[w] # <<>> /\ Head(commands[w]) = Shutdown
  /\ phase' = [phase EXCEPT ![w] = "stopped"]
  /\ commands' = [commands EXCEPT ![w] = <<>>]
  /\ exchange' = [exchange EXCEPT ![w] = {}]
  /\ UNCHANGED ids

(* The task dies of a panic.  Nobody is told. *)
Panic(w) ==
  /\ Running(w)
  /\ phase' = [phase EXCEPT ![w] = "stopped"]
  /\ commands' = [commands EXCEPT ![w] = <<>>]
  /\ exchange' = [exchange EXCEPT ![w] = {}]
  /\ UNCHANGED ids

(* What the task does by itself. *)
Attempt(w) == Connect(w) \/ ConnectFails(w)

Handle(w) == HandleCommand(w) \/ HandleShutdown(w)

WorkerStep(w) == Attempt(w) \/ Retry(w) \/ Disconnect(w) \/ Handle(w) \/ Panic(w)

-----------------------------------------------------------------------------
(* Every variable has its type. *)
WorkerTypeOK ==
  /\ phase \in [Workers -> {"unborn", "connecting", "sleeping", "connected", "stopped"}]
  /\ commands \in [Workers -> Seq(Command)]
  /\ \A w \in Workers : Len(commands[w]) <= ChannelSize
  /\ ids \in [Workers -> SUBSET Ids]
  /\ exchange \in [Workers -> SUBSET Ids]

(* However often the connection is lost, and whatever commands came in     *)
(* between, a connected worker has asked for all that it remembers.        *)
ConnectedIsSubscribed ==
  \A w \in Workers : phase[w] = "connected" => ids[w] \subseteq exchange[w]
=============================================================================
