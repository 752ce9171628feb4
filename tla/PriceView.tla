----------------------------- MODULE PriceView -----------------------------
(***************************************************************************)
(* A subscriber of the change feed that follows the protocol the gateway   *)
(* documents: it replaces each price level that an event names, and drops  *)
(* a level with no platforms.  The subscriber is not part of the           *)
(* repository; the gateway hands the events through as they are.           *)
(***************************************************************************)
EXTENDS ChangeFeed

VARIABLE view   \* view[s][p]: what the subscriber shows at price p of side s

viewVars == <<feedVars, view>>

ViewInit ==
  /\ FeedInit
  /\ view = EmptySizes

(* The positions at which an event names a slot. *)
Naming(event, x) == {j \in DOMAIN event : <<event[j].side, event[j].price>> = x}

Deliver ==
  /\ Take
  /\ LET event == Head(feed)
     IN  view' = [s \in Sides |-> [p \in Prices |->
                    IF Naming(event, <<s, p>>) = {} THEN view[s][p]
                    ELSE event[LastOf(Naming(event, <<s, p>>))].row]]

ViewNext ==
  \/ \E m \in Messages : Process(m) /\ UNCHANGED view
  \/ Deliver

ViewSpec == ViewInit /\ [][ViewNext]_viewVars

-----------------------------------------------------------------------------
(* Every variable has its type. *)
ViewTypeOK ==
  /\ FeedTypeOK
  /\ view \in [Sides -> [Prices -> [Platforms -> Sizes]]]

(* What the subscriber shows at x once the events in flight have arrived:  *)
(* the row of the last change that names x, or what it shows now when none *)
(* does.                                                                   *)
Expected(x) ==
  LET naming == {i \in DOMAIN feed : Naming(feed[i], x) # {}}
  IN  IF naming = {} THEN view[x[1]][x[2]]
      ELSE feed[LastOf(naming)][LastOf(Naming(feed[LastOf(naming)], x))].row

(* However many events are in flight, the subscriber is on its way to the  *)
(* present state of every level, but for the levels whose last change was  *)
(* never announced.                                                        *)
ViewConverges ==
  \A x \in Slots \ unannounced : Expected(x) = sizes[x[1]][x[2]]

(* The only changes that no event carries are those of a snapshot and      *)
(* those of a failed publication: every change a delta makes, removals     *)
(* and repeated updates of one price included, is announced.               *)
OnlySnapshotsAndFailuresAreSilent ==
  [][unannounced' \subseteq unannounced
     \/ \E m \in Messages :
          PublishFails(m) \/ (m.type = "snapshot" /\ Publish(m))]_viewVars

(* What the comments of publish_change say, that the event carries the     *)
(* state of each changed level and that a removed level is sent with size  *)
(* zero: a publication leaves no level unannounced that its message        *)
(* changed.                                                                *)
EveryChangeIsAnnounced ==
  [][\A m \in Messages : Publish(m) => unannounced' \subseteq unannounced]_viewVars
=============================================================================
