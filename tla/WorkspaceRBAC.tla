--------------------------- MODULE WorkspaceRBAC ---------------------------
(***************************************************************************)
(* Roles and RoleBindings for workspaces, kept by the controller of a        *)
(* CoderControlPlane in its own and in other namespaces (reconcileWorkspace- *)
(* RBAC, cleanupManagedWorkspaceRBAC, the finalizer and the ServiceAccount of *)
(* internal/controller/codercontrolplane_controller.go).                    *)
(*                                                                         *)
(* Kubernetes collects what the object owns in its own namespace.  In other  *)
(* namespaces there are no owner references: the controller finds its        *)
(* objects by label and annotation, gets no events for them, and only its    *)
(* finalizer removes them.  Their names contain a hash of the object's name, *)
(* and are told apart here by the ServiceAccount they are for.               *)
(***************************************************************************)
EXTENDS Integers, Sequences

CONSTANTS
    Namespaces,      \* namespaces other than Home
    Home,            \* the namespace of the object
    Accounts,        \* names of ServiceAccounts
    Rules,           \* contents of a Role
    Specs,           \* specs the object may be given
    InitSpecs,       \* those it may be created with
    InitObjects,     \* what may be in the cluster at first
    MaxDisturbances, \* bound: edits, faults, crashes, interferences, with (TRUE) and
                     \* without (FALSE) caches that lag behind
    None

Kinds == {"role", "binding"}

Slots == Kinds \X (Namespaces \cup {Home}) \X Accounts

\* mark: "uid" with the owner's UID (or owner reference), "labels" with the labels
\* only, as left by a former object of the same name, "none" somebody else's.
\* val: the rules; a binding is "subject" for the ServiceAccount it is for.
Objects == [mark : {"uid", "labels", "none"}, val : Rules \cup {"subject", "tampered"}]

SpecRecords ==
    [account : Accounts, create : BOOLEAN, perms : BOOLEAN, rules : Rules, others : Seq(Namespaces \cup {Home})]

ASSUME ConstantsAssumption ==
    /\ Home \notin Namespaces
    /\ {"subject", "tampered"} \cap Rules = {}
    /\ \A s \in Specs : s \in SpecRecords
    /\ InitSpecs \subseteq Specs
    /\ \A o \in InitObjects : o \in [Slots -> Objects \cup {None}]
    /\ MaxDisturbances \in [BOOLEAN -> Nat]

ASSUME NoneAssumption == None \notin SpecRecords

\* In other namespaces nothing carries the UID of an object that is new.
ASSUME NewAssumption ==
    \A o \in InitObjects : \A k \in Slots : k[2] # Home /\ o[k] # None => o[k].mark # "uid"

VARIABLES
    spec, phase, finalizer,      \* the object: "live", "deleting", "gone"
    seen, seenFresh,             \* the controller's cached copy of it
    objs, objsSeen, stale,       \* Roles and RoleBindings, the caches, and the objects
                                 \* with events that have not reached them
    accounts,                    \* ServiceAccounts: None, "owned", "free"
    lag,                         \* informer caches may lag behind
    queued, pc, loc,             \* the work queue and the reconcile in progress
    blind,                       \* a cleanup has overlooked an object, its cache being behind
    disturbances

crVars == <<spec, phase, finalizer, seen, seenFresh, lag>>
objVars == <<objs, objsSeen, stale>>
vars == <<crVars, objVars, accounts, queued, pc, loc, blind, disturbances>>

Steps == {"idle", "finalizer", "account", "write", "listRoles", "deleteRoles", "listBindings",
          "deleteBindings", "removeFinalizer"}

\* spec: the spec the reconcile works for; final: it serves the finalizer; at: the
\* next object to write; todo: the objects to delete.
NoLocal == [spec |-> None, final |-> FALSE, at |-> 0, todo |-> {}]

TypeOK ==
    /\ spec \in SpecRecords
    /\ phase \in {"live", "deleting", "gone"}
    /\ finalizer \in BOOLEAN
    /\ seen \in [spec : SpecRecords, phase : {"live", "deleting", "gone"}, finalizer : BOOLEAN]
    /\ seenFresh \in BOOLEAN
    /\ lag \in BOOLEAN
    /\ objs \in [Slots -> Objects \cup {None}]
    /\ objsSeen \in [Slots -> Objects \cup {None}]
    /\ stale \subseteq Slots
    /\ accounts \in [Accounts -> {None, "owned", "free"}]
    /\ queued \in BOOLEAN
    /\ pc \in Steps
    /\ loc.spec \in SpecRecords \cup {None}
    /\ pc \notin {"idle", "finalizer"} => loc.spec \in SpecRecords
    /\ loc.final \in BOOLEAN
    /\ loc.at \in Nat
    /\ pc \in {"deleteRoles", "deleteBindings"} => loc.todo \subseteq Slots
    /\ blind \in BOOLEAN
    /\ disturbances \in 0 .. MaxDisturbances[lag]

-----------------------------------------------------------------------------
(* What a spec asks for.                                                     *)

Foreign(k) == k[2] # Home

\* The object's namespace comes first.
Targets(s) == <<Home>> \o s.others

\* The objects in the order in which they are written: per namespace the Role,
\* then the RoleBinding.
Plan(s) ==
    IF s.perms
    THEN [i \in 1 .. 2 * Len(Targets(s)) |->
             <<IF i % 2 = 1 THEN "role" ELSE "binding", Targets(s)[(i + 1) \div 2], s.account>>]
    ELSE <<>>

\* What is left of the plan after position at: a namespace that was seen is skipped.
Rest(s, at) == {i \in DOMAIN Plan(s) : i > at /\ \A j \in 1 .. i - 1 : Plan(s)[j] # Plan(s)[i]}

Wanted(s) == {Plan(s)[i] : i \in DOMAIN Plan(s)}

Desired(s, k) == [mark |-> "uid", val |-> IF k[1] = "role" THEN s.rules ELSE "subject"]

\* isManagedWorkspaceRole and isManagedWorkspaceRoleBinding.
Managed(o, k, s) ==
    /\ o # None
    /\ \/ o.mark = "uid"
       \/ /\ o.mark = "labels"
          /\ Foreign(k) /\ k[3] = s.account
          /\ k[1] = "binding" => o.val = "subject"

\* Mutation: everything with the labels is taken to be the controller's.
DoomedByLabel(kind, s, final) ==
    {k \in Slots : /\ k[1] = kind
                   /\ objsSeen[k] # None /\ objsSeen[k].mark # "none"
                   /\ final \/ k \notin Wanted(s)}

\* Mutation: what the reconcile has just written is not kept.
DoomedAll(kind, s, final) ==
    {k \in Slots : k[1] = kind /\ Managed(objsSeen[k], k, s)}

\* The cache does not show an object that is to be deleted.
Overlooks(kind, s, final) ==
    \E k \in Slots : /\ k[1] = kind
                     /\ Managed(objs[k], k, s) /\ ~Managed(objsSeen[k], k, s)
                     /\ final \/ k \notin Wanted(s)

\* What cleanupManagedWorkspaceRBAC finds in the cache and deletes.
Doomed(kind, s, final) ==
    {k \in Slots : /\ k[1] = kind
                   /\ Managed(objsSeen[k], k, s)
                   /\ final \/ k \notin Wanted(s)}

-----------------------------------------------------------------------------
(* Kubernetes objects and the work queue.                                    *)

CR == [spec |-> spec, phase |-> phase, finalizer |-> finalizer]

Disturb ==
    /\ disturbances < MaxDisturbances[lag]
    /\ disturbances' = disturbances + 1

CacheFollows ==
    /\ seen' = IF lag THEN seen ELSE CR'
    /\ seenFresh' = ~lag
    /\ UNCHANGED lag

\* Slot k becomes o.  The controller hears of it when its cache does, and only in
\* the object's own namespace, where owner references lead to the object.
Put(k, o) ==
    /\ objs' = [objs EXCEPT ![k] = o]
    /\ objsSeen' = IF lag THEN objsSeen ELSE objs'
    /\ stale' = IF lag THEN stale \cup {k} ELSE {}

Heard(k) == ~Foreign(k)

Step(next) == pc' = next

End(again) ==
    /\ pc' = "idle"
    /\ loc' = NoLocal
    /\ queued' = (queued \/ again)

-----------------------------------------------------------------------------
(* A reconcile.                                                              *)

\* Mutation: the finalizer is taken to be there already.
StartReconcileUnprotected ==
    /\ pc = "idle"
    /\ queued
    /\ queued' = FALSE
    /\ seen.phase = "live"
    /\ Step("account")
    /\ loc' = [NoLocal EXCEPT !.spec = seen.spec]
    /\ UNCHANGED <<crVars, objVars, accounts, blind, disturbances>>

StartReconcile ==
    /\ pc = "idle"
    /\ queued
    /\ queued' = FALSE
    /\ \/ /\ seen.phase = "gone" \/ (seen.phase = "deleting" /\ ~seen.finalizer)
          /\ UNCHANGED <<pc, loc>>
       \/ /\ seen.phase = "deleting" /\ seen.finalizer
          /\ Step("listRoles")
          /\ loc' = [NoLocal EXCEPT !.spec = seen.spec, !.final = TRUE]
       \/ /\ seen.phase = "live" /\ ~seen.finalizer
          /\ Step("finalizer")
          /\ UNCHANGED loc
       \/ /\ seen.phase = "live" /\ seen.finalizer
          /\ Step("account")
          /\ loc' = [NoLocal EXCEPT !.spec = seen.spec]
    /\ UNCHANGED <<crVars, objVars, accounts, blind, disturbances>>

\* ensureWorkspaceRBACFinalizer: patch and reload.  The patch of an object that has the
\* finalizer already, which the cache does not show yet, changes nothing: the reconcile
\* then goes on even if the object is being deleted.
EnsureFinalizer ==
    /\ pc = "finalizer"
    /\ IF phase = "gone"
       THEN UNCHANGED crVars /\ End(TRUE)
       ELSE /\ finalizer' = TRUE
            /\ UNCHANGED <<spec, phase>>
            /\ IF finalizer THEN UNCHANGED <<seen, seenFresh, lag>> ELSE CacheFollows
            /\ Step("account")
            /\ loc' = [NoLocal EXCEPT !.spec = seen'.spec]
            /\ queued' = (queued \/ ~(finalizer \/ lag))
    /\ UNCHANGED <<objVars, accounts, blind, disturbances>>

\* reconcileServiceAccount: create or adopt the account, or let go of all.
ReconcileServiceAccount ==
    /\ pc = "account"
    /\ accounts' = IF loc.spec.create
                   THEN [accounts EXCEPT ![loc.spec.account] = "owned"]
                   ELSE [a \in Accounts |-> IF accounts[a] = None THEN None ELSE "free"]
    /\ IF loc.spec.perms
       THEN Step("write") /\ loc' = [loc EXCEPT !.at = 1]
       ELSE Step("listRoles") /\ UNCHANGED loc
    /\ UNCHANGED <<crVars, objVars, queued, blind, disturbances>>

\* CreateOrUpdate works from the cache: an object it does not show is created, which
\* fails if there is one, and one it shows is updated, which fails if it has changed.
WriteRefused(k) == IF objsSeen[k] = None THEN objs[k] # None ELSE k \in stale

\* CreateOrUpdate of the next Role or RoleBinding.
WriteObject ==
    /\ pc = "write"
    /\ LET k    == Plan(loc.spec)[loc.at]
           want == Desired(loc.spec, k)
       IN  IF objsSeen[k] # want /\ WriteRefused(k)
           THEN /\ End(TRUE)
                /\ UNCHANGED objVars
           ELSE /\ IF objsSeen[k] = want THEN UNCHANGED objVars ELSE Put(k, want)
                /\ \/ /\ Rest(loc.spec, loc.at) = {}
                      /\ Step("listRoles") /\ UNCHANGED loc
                   \/ \E i \in Rest(loc.spec, loc.at) :
                         /\ \A j \in Rest(loc.spec, loc.at) : i <= j
                         /\ UNCHANGED pc /\ loc' = [loc EXCEPT !.at = i]
                /\ queued' = (queued \/ (Heard(k) /\ objs' # objs /\ ~lag))
    /\ UNCHANGED <<crVars, accounts, blind, disturbances>>

\* cleanupManagedWorkspaceRBAC lists the Roles and deletes them one by one, then the
\* RoleBindings.
ListObjects ==
    /\ pc \in {"listRoles", "listBindings"}
    /\ LET kind == IF pc = "listRoles" THEN "role" ELSE "binding"
       IN  /\ loc' = [loc EXCEPT !.todo = Doomed(kind, loc.spec, loc.final)]
           /\ blind' = (blind \/ Overlooks(kind, loc.spec, loc.final))
    /\ Step(IF pc = "listRoles" THEN "deleteRoles" ELSE "deleteBindings")
    /\ UNCHANGED <<crVars, objVars, accounts, queued, disturbances>>

DeleteObject ==
    /\ pc \in {"deleteRoles", "deleteBindings"}
    /\ \E k \in loc.todo :
          /\ Put(k, None)
          /\ loc' = [loc EXCEPT !.todo = @ \ {k}]
          /\ queued' = (queued \/ (Heard(k) /\ ~lag))
    /\ UNCHANGED <<crVars, accounts, pc, blind, disturbances>>

\* Mutation: the reconcile is not repeated.
RequeueNever(s) == FALSE

\* requiresWorkspaceRBACDriftRequeue
Requeue(s) == s.perms /\ \E i \in DOMAIN s.others : s.others[i] # Home

\* Mutation: the cleanup of a deleted object ends with its Roles.
DeletionsDoneEarly ==
    /\ pc \in {"deleteRoles", "deleteBindings"}
    /\ loc.todo = {}
    /\ CASE pc = "deleteRoles" /\ ~loc.final -> Step("listBindings") /\ UNCHANGED <<loc, queued>>
         [] loc.final -> Step("removeFinalizer") /\ UNCHANGED <<loc, queued>>
         [] OTHER -> End(Requeue(loc.spec))
    /\ UNCHANGED <<crVars, objVars, accounts, blind, disturbances>>

DeletionsDone ==
    /\ pc \in {"deleteRoles", "deleteBindings"}
    /\ loc.todo = {}
    /\ CASE pc = "deleteRoles" -> Step("listBindings") /\ UNCHANGED <<loc, queued>>
         [] pc = "deleteBindings" /\ loc.final -> Step("removeFinalizer") /\ UNCHANGED <<loc, queued>>
         [] OTHER -> End(Requeue(loc.spec))
    /\ UNCHANGED <<crVars, objVars, accounts, blind, disturbances>>

\* Without its finalizer the object goes; Kubernetes collects what it owns.
RemoveFinalizer ==
    /\ pc = "removeFinalizer"
    /\ phase' = "gone"
    /\ finalizer' = FALSE
    /\ UNCHANGED spec
    /\ CacheFollows
    /\ objs' = [k \in Slots |-> IF ~Foreign(k) /\ objs[k] # None /\ objs[k].mark = "uid" THEN None ELSE objs[k]]
    /\ stale' = stale \cup {k \in Slots : objs'[k] # objs[k]}
    /\ UNCHANGED objsSeen
    /\ accounts' = [a \in Accounts |-> IF accounts[a] = "owned" THEN None ELSE accounts[a]]
    /\ End(FALSE)
    /\ UNCHANGED <<blind, disturbances>>

\* Mutation: a failure on the way to the end of the cleanup is not reported, and the
\* finalizer is removed.
CallFailsUnnoticed ==
    /\ pc \in Steps \ {"idle"}
    /\ Disturb
    /\ IF loc.final THEN Step("removeFinalizer") /\ UNCHANGED <<loc, queued>> ELSE End(TRUE)
    /\ UNCHANGED <<crVars, objVars, accounts, blind>>

\* Any call may fail; the reconcile returns the error and is retried.
CallFails ==
    /\ pc \in Steps \ {"idle"}
    /\ Disturb
    /\ End(TRUE)
    /\ UNCHANGED <<crVars, objVars, accounts, blind>>

-----------------------------------------------------------------------------
(* Everything around the controller.                                         *)

EditSpec ==
    /\ phase = "live"
    /\ Disturb
    /\ spec' \in Specs \ {spec}
    /\ UNCHANGED <<phase, finalizer>>
    /\ CacheFollows
    /\ queued' = (queued \/ ~lag)
    /\ UNCHANGED <<objVars, accounts, pc, loc, blind>>

DeleteCR ==
    /\ phase = "live"
    /\ phase' = IF finalizer THEN "deleting" ELSE "gone"
    /\ UNCHANGED <<spec, finalizer>>
    /\ CacheFollows
    /\ queued' = (queued \/ ~lag)
    /\ UNCHANGED <<objVars, accounts, pc, loc, blind, disturbances>>

\* Somebody deletes or changes an object.
Interfere(k) ==
    /\ objs[k] # None
    /\ Disturb
    /\ \E o \in {None, [objs[k] EXCEPT !.val = "tampered"]} \ {objs[k]} : Put(k, o)
    /\ queued' = (queued \/ (Heard(k) /\ ~lag))
    /\ UNCHANGED <<crVars, accounts, pc, loc, blind>>

SyncCR ==
    /\ ~seenFresh
    /\ seen' = CR
    /\ seenFresh' = TRUE
    /\ queued' = TRUE
    /\ UNCHANGED <<spec, phase, finalizer, lag, objVars, accounts, pc, loc, blind, disturbances>>

SyncObjects(kind) ==
    LET news == {k \in stale : k[1] = kind}
    IN  /\ news # {}
        /\ objsSeen' = [k \in Slots |-> IF k \in news THEN objs[k] ELSE objsSeen[k]]
        /\ stale' = stale \ news
        /\ queued' = (queued \/ \E k \in news : Heard(k))
        /\ UNCHANGED <<crVars, objs, accounts, pc, loc, blind, disturbances>>

\* The operator restarts; its caches are filled before it works.
Crash ==
    /\ Disturb
    /\ pc' = "idle"
    /\ loc' = NoLocal
    /\ seen' = CR
    /\ seenFresh' = TRUE
    /\ objsSeen' = objs
    /\ stale' = {}
    /\ queued' = TRUE
    /\ UNCHANGED <<spec, phase, finalizer, lag, objs, accounts, blind>>

-----------------------------------------------------------------------------
(* The specification.                                                        *)

Init ==
    /\ spec \in InitSpecs
    /\ phase = "live"
    /\ finalizer = FALSE
    /\ seen = CR
    /\ seenFresh = TRUE
    /\ lag \in BOOLEAN
    /\ objs \in InitObjects
    /\ objsSeen = objs
    /\ stale = {}
    /\ accounts = [a \in Accounts |-> None]
    /\ queued = TRUE
    /\ pc = "idle"
    /\ loc = NoLocal
    /\ blind = FALSE
    /\ disturbances = 0

Controller ==
    \/ StartReconcile
    \/ EnsureFinalizer
    \/ ReconcileServiceAccount
    \/ WriteObject
    \/ ListObjects
    \/ DeleteObject
    \/ DeletionsDone
    \/ RemoveFinalizer
    \/ CallFails

Sync ==
    \/ SyncCR
    \/ \E kind \in Kinds : SyncObjects(kind)

Next ==
    \/ Controller
    \/ Sync
    \/ EditSpec
    \/ DeleteCR
    \/ \E k \in Slots : Interfere(k)
    \/ Crash

Spec == Init /\ [][Next]_vars

\* The queue is worked off, requeue delays pass, informers deliver every change and
\* do not fall behind every reconcile forever.
FairSpec ==
    /\ Spec
    /\ WF_vars(Controller)
    /\ WF_vars(Sync)
    /\ <>[][StartReconcile => seenFresh /\ stale = {}]_vars

-----------------------------------------------------------------------------
(* Properties.                                                               *)

\* The objects in other namespaces that are the controller's to remove.
Held == {k \in Slots : Foreign(k) /\ objs[k] # None /\ objs[k].mark = "uid"}

\* The finalizer keeps its promise: when the object is gone no other namespace
\* grants anything for it, whatever was renamed, dropped or half done before and
\* whichever calls failed.  (Unless a cleanup overlooked an object because the
\* cache did not show it yet.)
NoLeftovers == phase = "gone" /\ ~blind => Held = {}

Resource == INSTANCE FinalizedResource WITH
    Things <- Slots, held <- IF blind THEN {} ELSE Held

\* Step by step: nothing is put into another namespace without the finalizer, and the
\* finalizer is removed only when nothing is left there.
FinalizerGuardsRBAC == Resource!Spec

\* The facts that make this inductive, first the part of the types that matters.
Shape ==
    /\ objs = [k \in Slots |-> objs[k]]
    /\ \A k \in Slots : objs[k] # None => objs[k] = [mark |-> objs[k].mark, val |-> objs[k].val]
    /\ loc = [spec |-> loc.spec, final |-> loc.final, at |-> loc.at, todo |-> loc.todo]
    /\ phase \in {"live", "deleting", "gone"}
    /\ finalizer \in BOOLEAN
    /\ blind \in BOOLEAN
    /\ pc \in Steps

\* The object's life: Kubernetes keeps it while it has the finalizer, and the copy in
\* the cache is one that it once was.
Life ==
    /\ phase = "deleting" => finalizer
    /\ phase = "gone" => ~finalizer
    /\ seen.phase # "live" => phase # "live"
    /\ seen.finalizer /\ phase # "gone" => finalizer
    /\ seen.phase = "live" /\ seen.finalizer => phase # "gone"

\* A reconcile that writes works for an object that has the finalizer; one that serves
\* the finalizer has seen that the object is being deleted, and so has the cache.
Work ==
    /\ pc \in {"account", "write"} => finalizer /\ ~loc.final
    /\ loc.final => pc \in {"listRoles", "deleteRoles", "listBindings", "deleteBindings", "removeFinalizer"}
    /\ pc = "removeFinalizer" => loc.final
    /\ loc.final => seen.phase # "live"

\* What is held in other namespaces, kind by kind.
HeldOf(kind) == {k \in Held : k[1] = kind}

\* How far a cleanup that serves the finalizer has come.
Cleaned ==
    ~blind =>
        /\ ~finalizer => Held = {}
        /\ loc.final /\ pc = "deleteRoles" => HeldOf("role") \subseteq loc.todo
        /\ loc.final /\ pc \in {"listBindings", "deleteBindings", "removeFinalizer"} => HeldOf("role") = {}
        /\ loc.final /\ pc = "deleteBindings" => HeldOf("binding") \subseteq loc.todo
        /\ loc.final /\ pc = "removeFinalizer" => HeldOf("binding") = {}

\* The inductive invariant behind NoLeftovers and FinalizerGuardsRBAC: the finalizer
\* outlives everything in other namespaces, between any two calls of a reconcile.
FinalizerInv == Shape /\ Life /\ Work /\ Cleaned

\* No outage: a reconcile for the current spec never takes away an object that this
\* spec asks for, not even to put it back.
NoOutage ==
    [][phase = "live" /\ loc.spec = spec /\ DeleteObject
       => \A k \in Wanted(spec) : objs'[k] = objs[k]]_vars

\* Objects of others are left alone: what carries no mark of this object is neither
\* changed nor deleted by the controller, unless the spec asks for an object of that
\* name, or somebody has changed the object (a cleanup that has listed it does not look
\* again before it deletes it).
OthersLeftAlone ==
    [][Controller
       => \A k \in Slots :
             /\ objs[k] # None /\ objs[k].mark # "uid" /\ objs[k].val # "tampered"
             /\ loc.spec # None => k \notin Wanted(loc.spec) /\ ~Managed(objs[k], k, loc.spec)
             => objs'[k] = objs[k]]_vars

\* Slot k is empty, this object's, or changed by somebody.
Touched(k) == objs[k] = None \/ objs[k].mark = "uid" \/ objs[k].val = "tampered"

\* The invariant behind NoOutage and OthersLeftAlone: the cache differs from the cluster
\* only where somebody has been at work; a reconcile writes what is in its plan; what it
\* is about to delete is managed, or touched since it was listed, and not asked for.
Aim ==
    /\ spec \in Specs /\ seen.spec \in Specs
    /\ loc.spec \in Specs \cup {None}
    /\ \A k \in Slots : objsSeen[k] = objs[k] \/ Touched(k)
    /\ pc = "write" => loc.at \in DOMAIN Plan(loc.spec)
    /\ pc \in {"deleteRoles", "deleteBindings"} =>
          \A k \in loc.todo : /\ Touched(k) \/ Managed(objs[k], k, loc.spec)
                              /\ ~loc.final => k \notin Wanted(loc.spec)

\* Types, and what the reconcile in progress is about.
AccessInv == TypeOK /\ Aim

\* The inductive invariant of the module: caches, the reconcile in progress and the
\* finalizer, between any two calls of reconcileWorkspaceRBAC and its finalization.
RBACInv == AccessInv /\ FinalizerInv

\* Once disturbances stop, the object is gone, or exactly the objects that the spec
\* asks for are there, in every namespace, with the right contents; drift in other
\* namespaces is repaired without any event.  ServiceAccounts are owned only if the
\* spec lets the controller create them.
RBACSettles ==
    <>[](\/ phase = "gone"
         \/ /\ phase = "live"
            /\ \A k \in Wanted(spec) : objs[k] = Desired(spec, k)
            /\ blind \/ \A k \in Slots \ Wanted(spec) : ~Managed(objs[k], k, spec)
            /\ IF spec.create THEN accounts[spec.account] = "owned"
               ELSE \A a \in Accounts : accounts[a] # "owned")

=============================================================================
