------------------------------- MODULE MCFeed -------------------------------
(***************************************************************************)
(* How the MC modules of the change feed write down their messages.        *)
(***************************************************************************)
EXTENDS ChangeFeed

At(p, z) == [price |-> p, size |-> z]

(* A message of platform pl with levels for both sides. *)
To(t, pl, bids, asks) ==
  [type |-> t, platform |-> pl, levels |-> [buy |-> bids, sell |-> asks],
   best |-> [s \in Sides |-> NoPrice]]
=============================================================================
