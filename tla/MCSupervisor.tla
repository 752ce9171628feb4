---------------------------- MODULE MCSupervisor ----------------------------
(***************************************************************************)
(* A small instance of Supervisor: two workers, of which each takes two    *)
(* ids.  One request names an id twice.                                    *)
(***************************************************************************)
EXTENDS Supervisor

CONSTANTS a, b

MCRequests == {<<a>>, <<b, a, b>>}

MCWithdrawn == {<<b, a>>}
=============================================================================
