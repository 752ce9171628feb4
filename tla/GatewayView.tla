---------------------------- MODULE GatewayView ----------------------------
(***************************************************************************)
(* A client at the far end of the gateway's WebSocket, which follows the   *)
(* documented protocol: a snapshot replaces its book, a price change       *)
(* brings it up to that change.  The client is not part of the repository. *)
(***************************************************************************)
EXTENDS Gateway

VARIABLE shown   \* shown[c][a]: the version of a that c shows, 0 for none

NothingShown == [a \in Assets |-> 0]

ShownInit == GatewayInit /\ shown = [c \in Clients |-> NothingShown]

Receive(c) ==
  /\ Write(c)
  /\ LET msg == Head(queue[c])
     IN  shown' = IF msg = Reply THEN shown
                  ELSE [shown EXCEPT ![c][msg.asset] = msg.version]

ShownNext ==
  \/ \E c \in Clients :
       \/ Receive(c)
       \/ /\ Connection(c) \/ WriteFails(c)
          /\ shown' = IF task'[c].at = "new"
                      THEN [shown EXCEPT ![c] = NothingShown] ELSE shown
  \/ (Route \/ \E a \in Assets : Update(a)) /\ UNCHANGED shown

ShownSpec == ShownInit /\ [][ShownNext]_<<gatewayVars, shown>>

-----------------------------------------------------------------------------
(* What "snapshot on subscribe + delta streaming" is for: a client that    *)
(* has its snapshot, lost nothing since, and has been sent everything      *)
(* there is to send, shows the book as it is.                              *)
DrainedClientIsCurrent ==
  \A c \in Clients, a \in Assets :
     ( /\ synced[c][a] = "yes"
       /\ task[c].at = "idle" /\ queue[c] = <<>> /\ c \in writers
       /\ feed = <<>> /\ route.at = "idle" )
     => shown[c][a] = version[a]
=============================================================================
