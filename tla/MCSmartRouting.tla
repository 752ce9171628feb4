--------------------------- MODULE MCSmartRouting ---------------------------
(***************************************************************************)
(* A small instance of SmartRouting: two platforms, of which one has an    *)
(* executor, on two prices; one event may be in flight.                    *)
(***************************************************************************)
EXTENDS SmartRouting, MCFeed

CONSTANT Executable   \* the platform with an executor

MCRegistered == {Executable}

Other == CHOOSE pl \in Platforms : pl # Executable

MCMessages ==
  {To("delta", Executable, <<At(p, z)>>, <<>>) : p \in Prices, z \in Sizes}
  \union
  {To("snapshot", Other, <<At(1, 1)>>, <<>>),
   To("snapshot", Executable, <<At(0, 1), At(1, 1)>>, <<>>),
   To("delta", Executable, <<At(0, 1), At(Unparsable, 1), At(1, 1)>>, <<>>),
   To("delta", Executable, <<>>, <<At(1, 1), At(1, Unparsable)>>)}
=============================================================================
