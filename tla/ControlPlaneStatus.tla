------------------------- MODULE ControlPlaneStatus -------------------------
(***************************************************************************)
(* How a reconcile of a CoderControlPlane publishes the status it computed   *)
(* (reconcileStatus and mergeControlPlaneStatusDelta of                      *)
(* internal/controller/codercontrolplane_controller.go).                    *)
(*                                                                         *)
(* The reconcile works from a cached copy of the object.  At its end it      *)
(* reads the object anew, gives up if the object has another generation,     *)
(* and otherwise changes only the fields it has itself changed.              *)
(***************************************************************************)

\* Mutation: the conditions are forgotten in the list of fields.
MergeStatusDeltaWithoutConditions(base, next, latest) ==
    [f \in DOMAIN latest |-> IF f # "cond" /\ base[f] # next[f] THEN next[f] ELSE latest[f]]

\* Fields that the reconcile left alone keep what the object holds now.
MergeStatusDelta(base, next, latest) ==
    [f \in DOMAIN latest |-> IF base[f] # next[f] THEN next[f] ELSE latest[f]]

\* Mutation: a status computed for an older generation is written.
PublishAnyGeneration(base, next, latest, gen) ==
    IF base = next THEN latest ELSE MergeStatusDelta(base, next, latest)

\* What the object's status becomes when a reconcile that read base and computed
\* next ends; gen is the object's generation at that moment.
Publish(base, next, latest, gen) ==
    IF base = next \/ next.gen # gen THEN latest ELSE MergeStatusDelta(base, next, latest)

=============================================================================
