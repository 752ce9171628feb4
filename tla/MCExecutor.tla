----------------------------- MODULE MCExecutor -----------------------------
(***************************************************************************)
(* A small instance of Executor.  The feed runs with all its messages and  *)
(* without calls, or with few messages and calls.                          *)
(***************************************************************************)
EXTENDS MCOrders, Executor

VARIABLE scenario

mcVars == <<executorVars, scenario>>

(* Repeated prices, removals, numbers that do not parse, a level with two  *)
(* platforms, both sides, and snapshots that clear.                        *)
FeedMessages ==
  {To("snapshot", Other, l, <<>>) : l \in {<<>>, <<At(1, 1)>>}}
  \union
  {To("delta", Executable, <<At(0, 0), At(1, Unparsable)>>, <<>>),
   To("delta", Executable, <<At(0, 0), At(1, 1), At(0, 1)>>, <<>>),
   To("delta", Executable, <<At(0, 1), At(Unparsable, 1), At(1, 1)>>, <<>>),
   To("delta", Executable, <<At(1, 1), At(0, 0)>>, <<At(Unparsable, 1), At(1, 1)>>)}

AllMessages == FeedMessages \union OrderMessages

MCInit ==
  /\ ExecutorInit
  /\ scenario \in {"feed", "orders"}
  /\ scenario = "feed" => ~dryRun

MCNext ==
  /\ UNCHANGED scenario
  /\ \/ \E m \in IF scenario = "feed" THEN FeedMessages ELSE OrderMessages : HandleMessage(m)
     \/ HearEvent
     \/ scenario = "orders" /\ ServeCall

MCSpec == MCInit /\ [][MCNext]_mcVars
=============================================================================
