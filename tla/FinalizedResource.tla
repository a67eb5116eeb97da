------------------------- MODULE FinalizedResource --------------------------
(***************************************************************************)
(* What a controller promises that puts a finalizer on an object because it   *)
(* acquires things for it which Kubernetes does not collect: Roles in other  *)
(* namespaces for a CoderControlPlane (ensureWorkspaceRBACFinalizer and      *)
(* finalizeWorkspaceRBAC of codercontrolplane_controller.go), keys in coderd *)
(* for a CoderProvisioner (ensureCleanupFinalizer and reconcileDeletion of   *)
(* coderprovisioner_controller.go).                                         *)
(*                                                                         *)
(* Nothing is acquired without the finalizer, and the finalizer goes only     *)
(* when nothing is held; however the controllers get there, step by step,    *)
(* from cached copies, through failures and restarts.                        *)
(***************************************************************************)
CONSTANTS
    Things           \* what may be acquired

VARIABLES
    phase,           \* of the object: "live", "deleting", "gone"
    finalizer,       \* whether it carries the finalizer
    held             \* what is held for it

resourceVars == <<phase, finalizer, held>>

\* The object is new, or the finalizer is already there.
Init ==
    /\ phase = "live"
    /\ finalizer \in BOOLEAN
    /\ held \in SUBSET Things
    /\ ~finalizer => held = {}

Protect ==
    /\ phase = "live"
    /\ finalizer' = TRUE
    /\ UNCHANGED <<phase, held>>

\* Also for an object that is being deleted, from an older copy.
Acquire ==
    /\ finalizer
    /\ held' \in SUBSET Things
    /\ UNCHANGED <<phase, finalizer>>

\* The controller gives things up, or others take them away.
Lose ==
    /\ held' \subseteq held
    /\ UNCHANGED <<phase, finalizer>>

\* Kubernetes keeps an object that has a finalizer.
Delete ==
    /\ phase = "live"
    /\ phase' = IF finalizer THEN "deleting" ELSE "gone"
    /\ UNCHANGED <<finalizer, held>>

Release ==
    /\ phase = "deleting"
    /\ held = {}
    /\ phase' = "gone"
    /\ finalizer' = FALSE
    /\ UNCHANGED held

Next == Protect \/ Acquire \/ Lose \/ Delete \/ Release

Spec == Init /\ [][Next]_resourceVars

=============================================================================
