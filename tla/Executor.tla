------------------------------ MODULE Executor ------------------------------
(***************************************************************************)
(* What the change feed connects: orderbook_service, the executor with its *)
(* cache and its calls, and a client of the gateway.  Both subscribers     *)
(* take an event in one step: neither sees the other, and each alone has   *)
(* all the behaviours it has with a queue of its own.                      *)
(***************************************************************************)
EXTENDS Orders, PriceView

executorVars == <<ordersVars, view>>

ExecutorInit == OrdersInit /\ view = EmptySizes

HandleMessage(m) == ProcessMessage(m) /\ UNCHANGED <<view, callVars>>

HearEvent == HandleChange /\ Deliver /\ UNCHANGED callVars

ServeCall == CallNext /\ UNCHANGED view

ExecutorNext ==
  \/ \E m \in Messages : HandleMessage(m)
  \/ HearEvent
  \/ ServeCall

ExecutorSpec == ExecutorInit /\ [][ExecutorNext]_executorVars

(* Every variable of the feed, of its subscribers and of the orders has    *)
(* its type.                                                               *)
ExecutorTypeOK == OrdersTypeOK /\ ViewTypeOK
=============================================================================
