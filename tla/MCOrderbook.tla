---------------------------- MODULE MCOrderbook ----------------------------
(***************************************************************************)
(* A small instance of Orderbook: two platforms, two prices, sizes zero    *)
(* and one.  Among the messages are repeated prices, zero sizes, numbers   *)
(* that do not parse, and messages that touch both sides.                  *)
(***************************************************************************)
EXTENDS BookReaders

At(p, z) == [price |-> p, size |-> z]

(* The levels of the bids, and those of the asks, of a message. *)
MCLevels ==
  {<< <<>>, <<>> >>}
  \union {<< <<At(p, z)>>, <<>> >> : p \in Prices, z \in Sizes}
  \union {<< <<At(0, 1), At(0, 0)>>, <<At(1, 1)>> >>,
          << <<At(0, 0), At(0, 1)>>, <<At(1, 0)>> >>,
          << <<At(Unparsable, 1), At(1, 1)>>, <<At(0, 1), At(1, 1)>> >>,
          << <<>>, <<At(0, 1), At(1, Unparsable)>> >>,
          << <<>>, <<At(0, 0)>> >>}

MCMessages ==
  {[type |-> t, platform |-> pl,
    levels |-> [buy |-> l[1], sell |-> l[2]],
    best |-> [buy |-> IF Len(l[2]) = 2 THEN 1 ELSE NoPrice, sell |-> NoPrice]] :
      t \in {"snapshot", "delta"}, pl \in Platforms, l \in MCLevels}

=============================================================================
