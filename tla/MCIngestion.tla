---------------------------- MODULE MCIngestion ----------------------------
(***************************************************************************)
(* A small instance of Ingestion: two assets of one connection, one price; *)
(* batches that name the traced asset once, twice, among others, or not.   *)
(***************************************************************************)
EXTENDS Ingestion

CONSTANTS traced, other   \* the asset of the book, and one beside it

To(a, s, z) == [asset |-> a, side |-> s, price |-> 0, size |-> z]

MCBatches ==
  {<<To(Traced, "buy", 1)>>,
   <<To(Traced, "buy", 1), To(other, "sell", 1), To(Traced, "buy", 0)>>,
   <<To(Traced, "sell", 1), To(Traced, "buy", 0)>>}
=============================================================================
