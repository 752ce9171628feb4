----------------------------- MODULE Supervisor -----------------------------
(***************************************************************************)
(* The aggregator's Supervisor (crates/aggregator/src/supervisor.rs): it   *)
(* spreads asset ids over workers, of which each may have so many, and     *)
(* talks to them through their command channels only.                      *)
(*                                                                         *)
(* Its operations take &mut self, so that one runs at a time, but each     *)
(* awaits a channel once per worker, and the workers go on meanwhile.  The *)
(* shipped binary calls subscribe_with_mappings once and then run; here    *)
(* any calls may come before run.  subscribe does with ids what            *)
(* subscribe_with_mappings does with mappings.                             *)
(***************************************************************************)
EXTENDS WsWorker

CONSTANTS
  MaxSubs,    \* max_subs_per_worker
  Requests,   \* the lists of ids that callers may subscribe to
  Withdrawn   \* the lists of ids that callers may unsubscribe from

ASSUME SupervisorAssumption ==
  /\ MaxSubs \in Nat \ {0}
  /\ Requests \subseteq Seq(Ids) /\ Withdrawn \subseteq Seq(Ids)

VARIABLES
  spawned,    \* worker_counter
  assigned,   \* assigned[w]: WorkerHandle::subscribed_ids
  call        \* the operation in progress, the ids and workers it has left

supervisorVars == <<workerVars, spawned, assigned, call>>

Doing(op, left, todo) == [op |-> op, left |-> left, todo |-> todo]

Ready == Doing("ready", <<>>, {})

SupervisorInit ==
  /\ WorkerInit
  /\ spawned = 0
  /\ assigned = [w \in Workers |-> <<>>]
  /\ call = Ready

Handles == 1 .. spawned   \* the keys of `workers'

-----------------------------------------------------------------------------
(* is_subscribed holds of these. *)
Subscribed == UNION {ToSet(assigned[w]) : w \in Handles}

(* The ids of a list that are not in a batch, in their order: filter and   *)
(* retain.  Kept(list, batch)[n] are those of the first n.                 *)
Kept(list, batch) ==
  LET kept[n \in 0 .. Len(list)] ==
        IF n = 0 THEN <<>>
        ELSE IF list[n] \in batch THEN kept[n - 1] ELSE Append(kept[n - 1], list[n])
  IN  kept

Without(list, batch) == Kept(list, batch)[Len(list)]

(* Bug: one id too many. *)
AvailableAndOne(w) == MaxSubs + 1 - Len(assigned[w])

(* max_subs_per_worker.saturating_sub(subscribed_ids.len()). *)
Available(w) == IF Len(assigned[w]) < MaxSubs THEN MaxSubs - Len(assigned[w]) ELSE 0

Least(m, n) == IF m < n THEN m ELSE n

(* The first n ids of a list, and those behind them. *)
First(list, n) == SubSeq(list, 1, Least(n, Len(list)))
Rest(list, n)  == SubSeq(list, Least(n, Len(list)) + 1, Len(list))

(* subscribe_with_mappings, subscribe: the ids that no worker has. *)
BeginSubscribe(request) ==
  /\ call.op = "ready"
  /\ LET new == Without(request, Subscribed)
     IN  /\ new # <<>>
         /\ call' = Doing("fill", new, Handles)
  /\ UNCHANGED <<workerVars, spawned, assigned>>

(* Bug: the ids a dead worker did not take are counted as its own, too. *)
FillDeadToo(w) ==
  /\ call.op = "fill" /\ call.left # <<>> /\ w \in call.todo
  /\ LET chunk == First(call.left, Available(w))
         rest  == Rest(call.left, Available(w))
     IN  \/ /\ Available(w) > 0
            /\ Send(w, Subscribe(ToSet(chunk)))
            /\ assigned' = [assigned EXCEPT ![w] = @ \o chunk]
            /\ call' = Doing("fill", rest, call.todo \ {w})
         \/ /\ Available(w) = 0 \/ ~Running(w)
            /\ call' = Doing("fill", rest \o chunk, call.todo \ {w})
            /\ assigned' = [assigned EXCEPT ![w] = @ \o chunk]
            /\ UNCHANGED workerVars
  /\ UNCHANGED spawned

(* The workers, in any order, are filled up; what a dead one does not take *)
(* goes behind the rest.                                                   *)
Fill(w) ==
  /\ call.op = "fill" /\ call.left # <<>> /\ w \in call.todo
  /\ LET chunk == First(call.left, Available(w))
         rest  == Rest(call.left, Available(w))
     IN  \/ /\ Available(w) > 0
            /\ Send(w, Subscribe(ToSet(chunk)))
            /\ assigned' = [assigned EXCEPT ![w] = @ \o chunk]
            /\ call' = Doing("fill", rest, call.todo \ {w})
         \/ /\ Available(w) = 0 \/ ~Running(w)
            /\ call' = Doing("fill", rest \o chunk, call.todo \ {w})
            /\ UNCHANGED <<workerVars, assigned>>
  /\ UNCHANGED spawned

(* spawn_worker_with_mappings, spawn_worker, for the ids still left.  (A   *)
(* call that needs more than MaxWorkers stays where it is.)                *)
Spawn(w) ==
  /\ call.op = "fill" /\ call.left # <<>> /\ call.todo = {}
  /\ w = spawned + 1
  /\ Start(w, ToSet(First(call.left, MaxSubs)))
  /\ spawned' = w
  /\ assigned' = [assigned EXCEPT ![w] = First(call.left, MaxSubs)]
  /\ call' = Doing("fill", Rest(call.left, MaxSubs), {})

EndSubscribe ==
  /\ call.op = "fill" /\ call.left = <<>>
  /\ call' = Ready
  /\ UNCHANGED <<workerVars, spawned, assigned>>

BeginUnsubscribe(request) ==
  /\ call.op = "ready"
  /\ call' = Doing("remove", request, Handles)
  /\ UNCHANGED <<workerVars, spawned, assigned>>

(* Bug: the ids are forgotten whether or not the worker was told. *)
WithdrawSilently(w) ==
  /\ call.op = "remove" /\ w \in call.todo
  /\ assigned' = [assigned EXCEPT ![w] = Without(@, ToSet(call.left))]
  /\ call' = Doing("remove", call.left, call.todo \ {w})
  /\ UNCHANGED <<workerVars, spawned>>

(* A worker that has some of the ids is told; a dead one keeps them. *)
Withdraw(w) ==
  /\ call.op = "remove" /\ w \in call.todo
  /\ LET removed == ToSet(call.left) \intersect ToSet(assigned[w])
     IN  \/ /\ removed # {}
            /\ Send(w, Unsubscribe(removed))
            /\ assigned' = [assigned EXCEPT ![w] = Without(@, removed)]
         \/ /\ removed = {} \/ ~Running(w)
            /\ UNCHANGED <<workerVars, assigned>>
  /\ call' = Doing("remove", call.left, call.todo \ {w})
  /\ UNCHANGED spawned

EndUnsubscribe ==
  /\ call.op = "remove" /\ call.todo = {}
  /\ call' = Ready
  /\ UNCHANGED <<workerVars, spawned, assigned>>

(* run, when the interrupt comes. *)
Interrupt ==
  /\ call.op = "ready"
  /\ call' = Doing("stop", <<>>, Handles)
  /\ UNCHANGED <<workerVars, spawned, assigned>>

(* Shutdown to every worker, one after the other; a dead one has no use    *)
(* for it.                                                                 *)
StopWorker(w) ==
  /\ call.op = "stop" /\ w \in call.todo
  /\ \/ Send(w, Shutdown)
     \/ ~Running(w) /\ UNCHANGED workerVars
  /\ call' = Doing("stop", <<>>, call.todo \ {w})
  /\ UNCHANGED <<spawned, assigned>>

(* Every worker has been joined: run returns and the program ends. *)
Join ==
  /\ call.op = "stop" /\ call.todo = {}
  /\ \A w \in Handles : ~Running(w)
  /\ call' = Doing("done", <<>>, {})
  /\ UNCHANGED <<workerVars, spawned, assigned>>

(* What the supervisor does once an operation has begun. *)
Proceed ==
  \/ \E w \in Workers : Fill(w) \/ Spawn(w) \/ Withdraw(w) \/ StopWorker(w)
  \/ EndSubscribe \/ EndUnsubscribe \/ Join

(* A step of a worker's task leaves the supervisor alone. *)
Apart == UNCHANGED <<spawned, assigned, call>>

SupervisorNext ==
  \/ \E request \in Requests : BeginSubscribe(request)
  \/ \E request \in Withdrawn : BeginUnsubscribe(request)
  \/ Interrupt
  \/ Proceed
  \/ \E w \in Workers : WorkerStep(w) /\ Apart

SupervisorSteps == SupervisorInit /\ [][SupervisorNext]_supervisorVars

(* The loops go on; no more is asked of the network than to succeed or to  *)
(* fail.                                                                   *)
SupervisorSpec ==
  /\ SupervisorSteps
  /\ WF_supervisorVars(Proceed)
  /\ \A w \in Workers : /\ WF_supervisorVars(Attempt(w) /\ Apart)
                        /\ WF_supervisorVars(Retry(w) /\ Apart)
                        /\ WF_supervisorVars(Handle(w) /\ Apart)

(* The exchange can be reached: attempts succeed again and again, and a    *)
(* connection lasts long enough, again and again, for a command.           *)
ReachableSpec ==
  /\ SupervisorSteps
  /\ WF_supervisorVars(Proceed)
  /\ \A w \in Workers : /\ SF_supervisorVars(Connect(w) /\ Apart)
                        /\ WF_supervisorVars(Retry(w) /\ Apart)
                        /\ SF_supervisorVars(Handle(w) /\ Apart)

-----------------------------------------------------------------------------
(* Every variable has its type. *)
SupervisorTypeOK ==
  /\ WorkerTypeOK
  /\ spawned \in 0 .. MaxWorkers
  /\ assigned \in [Workers -> Seq(Ids)]
  /\ call.op \in {"ready", "fill", "remove", "stop", "done"}
  /\ call.left \in Seq(Ids)
  /\ call.todo \in SUBSET Workers

(* No worker is ever given more ids than a connection may have, nor does   *)
(* it remember more once commands have piled up.                           *)
CapacityRespected ==
  \A w \in Workers : Len(assigned[w]) <= MaxSubs /\ Cardinality(ids[w]) <= MaxSubs

(* The lists that have been given to the workers, and (as that of a worker *)
(* 0) the one that is being given.                                         *)
InHand ==
  [w \in {0} \union Workers |->
     IF w # 0 THEN assigned[w] ELSE IF call.op = "fill" THEN call.left ELSE <<>>]

Positions(id, list) == {i \in DOMAIN list : list[i] = id}

Places(id) == UNION {{w} \X Positions(id, InHand[w]) : w \in DOMAIN InHand}

(* Whatever calls are made, and wherever workers die in their middle, an   *)
(* id is held, or about to be, no more often than one request names it: by *)
(* one worker only, unless a caller repeats itself.                        *)
NoExtraCopies ==
  \A id \in Ids : Places(id) # {} =>
     \E request \in Requests : Cardinality(Places(id)) <= Cardinality(Positions(id, request))

(* What a handler that knows these ids will remember once it has taken the *)
(* first n commands of a channel.                                          *)
RememberedAfter(known, channel) ==
  LET after[n \in 0 .. Len(channel)] ==
        IF n = 0 THEN known ELSE Remembered(after[n - 1], channel[n])
  IN  after

(* What the supervisor believes of a live worker is what the worker will   *)
(* have, once it has handled the commands in its channel.                  *)
BeliefIsPending ==
  \A w \in Workers : Running(w) =>
     RememberedAfter(ids[w], commands[w])[Len(commands[w])] = ToSet(assigned[w])

(* An id given to a worker is subscribed to at the exchange, at some time, *)
(* unless it is withdrawn or the worker ends; commands that arrive while   *)
(* the connection is down are not lost.                                    *)
SubscriptionsReachExchange ==
  \A w \in Workers, id \in Ids :
     id \in ToSet(assigned[w])
        ~> (id \in exchange[w] \/ id \notin ToSet(assigned[w]) \/ ~Running(w))

(* Stopping ends, although it waits for room in the channels.              *)
StopCompletes == call.op = "stop" ~> call.op = "done"

(* What the comment on run says, that a worker reconnects until shutdown:  *)
(* one that has been sent the command does not go on for ever.             *)
ShutdownStops ==
  \A w \in Workers :
     (\E i \in DOMAIN commands[w] : commands[w][i] = Shutdown) ~> ~Running(w)
=============================================================================
