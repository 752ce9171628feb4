---------------------------- MODULE MCPriceView ----------------------------
(***************************************************************************)
(* A small instance of PriceView: one platform sends snapshots and deltas, *)
(* on both sides, the other snapshots; two events may be in flight.        *)
(***************************************************************************)
EXTENDS PriceView, MCFeed

One == CHOOSE pl \in Platforms : TRUE

MCMessages ==
  {To("snapshot", pl, l, <<>>) : pl \in Platforms, l \in {<<>>, <<At(0, 1)>>}}
  \union
  {To("delta", One, <<At(0, 0), At(1, 1), At(0, 1)>>, <<>>),
   To("delta", One, <<At(0, 0)>>, <<>>),
   To("delta", One, <<At(Unparsable, 1), At(1, 0)>>, <<At(1, 1), At(0, Unparsable)>>)}
=============================================================================
