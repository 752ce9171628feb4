------------------------------ MODULE MCOrders ------------------------------
(***************************************************************************)
(* A small instance of Orders: the platform with an executor quotes a bid  *)
(* and an ask, the other a better ask; six requests, two orders on the     *)
(* exchange, of which a listing shows one.                                 *)
(***************************************************************************)
EXTENDS Orders, MCFeed

CONSTANT Executable   \* the platform with an executor

MCRegistered == {Executable}

Other == CHOOSE pl \in Platforms : pl # Executable

OrderMessages ==
  {To("snapshot", Executable, <<At(0, 1)>>, <<At(1, 1)>>),
   To("delta", Other, <<>>, <<At(0, 1)>>)}

Market(endpoint, pl, side, amount) ==
  [endpoint |-> endpoint, platform |-> pl, side |-> side, type |-> "market",
   amount |-> amount, price |-> Missing, size |-> Missing]

Limit(endpoint, pl, side, price, size) ==
  [endpoint |-> endpoint, platform |-> pl, side |-> side, type |-> "limit",
   amount |-> Missing, price |-> price, size |-> size]

MCRequests ==
  {Market("smart", NoPlatform, "buy", MaxBuyAmount),
   Market("smart", NoPlatform, "buy", MaxBuyAmount + 1),
   Market("direct", Executable, "sell", Missing),
   Market("direct", Other, "sell", 1),
   Limit("smart", NoPlatform, "sell", 1, 2),
   Limit("smart", Executable, "buy", 0, 1)}
=============================================================================
