------------------------ MODULE WorkspaceRBAC_Proofs ------------------------
(***************************************************************************)
(* The finalizer of the workspace RBAC keeps its promise: WorkspaceRBAC       *)
(* implements FinalizedResource; nothing that the spec asks for is deleted,  *)
(* nor what others own.  For any namespaces, accounts, rules, specs and      *)
(* number of disturbances, with caches that lag behind.                      *)
(***************************************************************************)
EXTENDS WorkspaceRBAC, TLAPS

-----------------------------------------------------------------------------
(* Objects.                                                                  *)

\* A slot is of one of the two kinds.
LEMMA SlotKind ==
    ASSUME NEW k \in Slots
    PROVE  k[1] = "role" \/ k[1] = "binding"
BY DEF Slots, Kinds

\* What is held is held as a Role or as a RoleBinding.
LEMMA HeldByKind ==
    ASSUME HeldOf("role") = {}, HeldOf("binding") = {}
    PROVE  Held = {}
BY SlotKind DEF HeldOf, Held

\* Writing one slot leaves the others, and the deletion of one takes nothing else.
LEMMA PutOne ==
    ASSUME Shape, NEW k, NEW o, Put(k, o), o # None => o = [mark |-> o.mark, val |-> o.val]
    PROVE  /\ objs' = [j \in Slots |-> objs'[j]]
           /\ \A j \in Slots : objs'[j] # None => objs'[j] = [mark |-> objs'[j].mark, val |-> objs'[j].val]
           /\ \A j \in Slots : objs'[j] = IF j = k THEN o ELSE objs[j]
BY DEF Shape, Put

\* Where nothing changes but what an object says, or that it is gone, nothing new is held.
LEMMA HeldShrinks ==
    ASSUME \A k \in Slots : objs'[k] # None /\ objs'[k].mark = "uid" /\ Foreign(k)
                               => objs[k] # None /\ objs[k].mark = "uid"
    PROVE  Held' \subseteq Held /\ \A kind : HeldOf(kind)' \subseteq HeldOf(kind)
BY DEF Held, HeldOf, Foreign

\* Unless it overlooks one, a cleanup that serves the finalizer has every object of the
\* kind that is held on its list.
LEMMA ListComplete ==
    ASSUME NEW kind, NEW s, ~Overlooks(kind, s, TRUE)
    PROVE  HeldOf(kind) \subseteq Doomed(kind, s, TRUE)
BY DEF HeldOf, Held, Overlooks, Doomed, Managed

-----------------------------------------------------------------------------
(* The invariant.                                                            *)

\* It holds of a new object.
LEMMA InitInv == Init => FinalizerInv
<1> SUFFICES ASSUME Init PROVE FinalizerInv
  OBVIOUS
<1>1. Shape
  <2>1. objs \in [Slots -> Objects \cup {None}]
    BY ConstantsAssumption DEF Init
  <2>2. \A k \in Slots : objs[k] # None => objs[k] = [mark |-> objs[k].mark, val |-> objs[k].val]
    BY <2>1 DEF Objects
  <2> QED
    BY Zenon, <2>1, <2>2 DEF Init, Shape, NoLocal, Steps
<1>2. Held = {}
  BY NewAssumption DEF Init, Held, Foreign
<1>3. Life /\ Work
  BY DEF Init, Life, Work, CR, NoLocal
<1>4. Cleaned
  BY <1>2 DEF Init, Cleaned, NoLocal
<1> QED
  BY <1>1, <1>3, <1>4 DEF FinalizerInv

\* A step that leaves the objects, the finalizer and the cleanup alone keeps what was
\* cleaned.
LEMMA CleanedKept ==
    ASSUME Cleaned, UNCHANGED <<objs, blind>>, finalizer => finalizer',
           loc'.final => loc' = loc /\ pc' = pc
    PROVE  Cleaned'
BY DEF Cleaned, Held, HeldOf

\* A reconcile that ends leaves nothing behind.
LEMMA EndKeeps ==
    ASSUME NEW again, End(again)
    PROVE  /\ pc' = "idle" /\ ~loc'.final
           /\ loc' = [spec |-> loc'.spec, final |-> loc'.final, at |-> loc'.at, todo |-> loc'.todo]
           /\ Work'
BY DEF End, NoLocal, Work

\* Every step keeps the invariant.
LEMMA StepInv == FinalizerInv /\ [Next]_vars => FinalizerInv'
<1> SUFFICES ASSUME FinalizerInv, [Next]_vars PROVE FinalizerInv'
  OBVIOUS
<1> USE DEF FinalizerInv
<1>1. CASE StartReconcile
  <2>1. Shape' /\ Life'
    BY Zenon, <1>1 DEF StartReconcile, Shape, Life, NoLocal, Step, Steps, crVars, objVars
  <2>2. Work'
    BY <1>1 DEF StartReconcile, Shape, Life, Work, NoLocal, Step, crVars
  <2>3. UNCHANGED <<objs, blind, finalizer>>
    BY <1>1 DEF StartReconcile, crVars, objVars
  <2>4. Cleaned'
    <3>1. Held' = Held /\ \A kind : HeldOf(kind)' = HeldOf(kind)
      BY <2>3 DEF Held, HeldOf
    <3>2. pc' \in {"idle", "listRoles", "finalizer", "account"}
      BY <1>1 DEF StartReconcile, Step
    <3> QED
      BY <2>3, <3>1, <3>2 DEF Cleaned
  <2> QED
    BY <2>1, <2>2, <2>4
<1>2. CASE EnsureFinalizer
  <2>1. UNCHANGED <<objs, blind>>
    BY <1>2 DEF EnsureFinalizer, objVars
  <2>2. CASE phase # "gone"
    <3>1. /\ finalizer' = TRUE /\ phase' = phase /\ pc' = "account" /\ spec' = spec
          /\ seen' = seen \/ seen' = CR'
          /\ loc' = [NoLocal EXCEPT !.spec = seen'.spec]
      BY Zenon, <1>2, <2>2 DEF EnsureFinalizer, CacheFollows, Step
    <3>2. Shape' /\ Work'
      BY Zenon, <2>1, <3>1 DEF Shape, Work, NoLocal, Steps
    <3>3. Life'
      <4>1. CR'.phase = phase'
        BY DEF CR
      <4>2. seen'.phase # "live" => phase' # "live"
        BY <3>1, <4>1 DEF Life
      <4> QED
        BY <2>2, <3>1, <4>2 DEF Life
    <3>4. Cleaned'
      BY <2>1, <3>1, CleanedKept DEF NoLocal
    <3> QED
      BY <3>2, <3>3, <3>4
  <2>3. CASE phase = "gone"
    <3>1. UNCHANGED crVars /\ End(TRUE)
      BY Zenon, <1>2, <2>3 DEF EnsureFinalizer
    <3>2. Shape' /\ Work' /\ Life'
      BY Zenon, <2>1, <3>1, EndKeeps DEF Shape, Life, crVars, Steps
    <3>3. Cleaned'
      BY Zenon, <2>1, <3>1, EndKeeps, CleanedKept DEF crVars
    <3> QED
      BY <3>2, <3>3
  <2> QED
    BY <2>2, <2>3
<1>3. CASE ReconcileServiceAccount
  <2>1. UNCHANGED <<crVars, objs, blind>> /\ ~loc.final /\ finalizer
    BY <1>3 DEF ReconcileServiceAccount, objVars, Work
  <2>2. /\ pc' \in {"write", "listRoles"}
        /\ loc' = loc \/ loc' = [loc EXCEPT !.at = 1]
    BY <1>3 DEF ReconcileServiceAccount, Step
  <2>3. /\ loc'.final = loc.final
        /\ loc' = [spec |-> loc'.spec, final |-> loc'.final, at |-> loc'.at, todo |-> loc'.todo]
    BY <2>2 DEF Shape
  <2>4. Shape' /\ Life' /\ Work'
    BY <2>1, <2>2, <2>3 DEF Shape, Life, Work, Steps, crVars
  <2>5. Cleaned'
    BY <2>1, <2>3, CleanedKept DEF crVars
  <2> QED
    BY <2>4, <2>5
<1>4. CASE WriteObject
  <2>1. UNCHANGED <<crVars, blind>> /\ finalizer /\ ~loc.final
    BY <1>4 DEF WriteObject, Work
  <2>2. /\ objs' = [j \in Slots |-> objs'[j]]
        /\ \A j \in Slots : objs'[j] # None => objs'[j] = [mark |-> objs'[j].mark, val |-> objs'[j].val]
    <3>1. UNCHANGED objVars \/ \E k : Put(k, Desired(loc.spec, k))
      BY Zenon, <1>4 DEF WriteObject
    <3>2. \A k : Desired(loc.spec, k) = [mark |-> Desired(loc.spec, k).mark, val |-> Desired(loc.spec, k).val]
      BY DEF Desired
    <3> QED
      BY <3>1, <3>2, PutOne DEF Shape, objVars
  <2>3. \/ End(TRUE)
        \/ /\ pc' = "listRoles" \/ pc' = pc
           /\ loc' = loc \/ \E i : loc' = [loc EXCEPT !.at = i]
    BY Zenon, <1>4 DEF WriteObject, Step
  <2>4. /\ ~loc'.final
        /\ loc' = [spec |-> loc'.spec, final |-> loc'.final, at |-> loc'.at, todo |-> loc'.todo]
        /\ pc' \in Steps
    BY Zenon, <2>1, <2>3, EndKeeps DEF Shape, Steps
  <2>5. Shape' /\ Life'
    BY <2>1, <2>2, <2>4 DEF Shape, Life, crVars
  <2>6. Work'
    <3>1. pc' \in {"idle", "listRoles", "write"}
      BY Zenon, <1>4, <2>3, EndKeeps DEF WriteObject
    <3> QED
      BY <2>1, <2>4, <3>1 DEF Work, crVars
  <2>7. Cleaned'
    BY <2>1, <2>4 DEF Cleaned, crVars
  <2> QED
    BY <2>5, <2>6, <2>7
<1>5. CASE ListObjects
  <2> DEFINE kind == IF pc = "listRoles" THEN "role" ELSE "binding"
             todo == Doomed(kind, loc.spec, loc.final)
  <2>1. /\ UNCHANGED <<crVars, objs>>
        /\ loc' = [loc EXCEPT !.todo = todo]
        /\ blind' = (blind \/ Overlooks(kind, loc.spec, loc.final))
        /\ \/ pc = "listRoles" /\ pc' = "deleteRoles"
           \/ pc = "listBindings" /\ pc' = "deleteBindings"
    BY <1>5 DEF ListObjects, Step, objVars
  <2> HIDE DEF kind, todo
  <2>2. /\ loc'.final = loc.final /\ loc'.todo = todo
        /\ loc' = [spec |-> loc'.spec, final |-> loc'.final, at |-> loc'.at, todo |-> loc'.todo]
    BY <2>1 DEF Shape
  <2>3. blind' \in BOOLEAN
    BY <2>1
  <2>4. Shape' /\ Life' /\ Work'
    BY <2>1, <2>2, <2>3 DEF Shape, Life, Work, Steps, crVars
  <2>5. Cleaned'
    <3> SUFFICES ASSUME ~blind' PROVE Cleaned'
      BY DEF Cleaned
    <3>1. ~blind /\ ~Overlooks(kind, loc.spec, loc.final)
      BY Zenon, <2>1
    <3>2. Held' = Held /\ \A q : HeldOf(q)' = HeldOf(q)
      BY <2>1 DEF Held, HeldOf
    <3>3. loc.final => HeldOf(kind) \subseteq todo
      <4> SUFFICES ASSUME loc.final PROVE HeldOf(kind) \subseteq todo
        OBVIOUS
      <4>1. ~Overlooks(kind, loc.spec, TRUE)
        BY <3>1 DEF Overlooks
      <4>2. Doomed(kind, loc.spec, TRUE) \subseteq todo
        BY DEF Doomed, todo
      <4> QED
        BY Zenon, <4>1, <4>2, ListComplete
    <3>4. /\ pc = "listRoles" => kind = "role"
          /\ pc = "listBindings" => kind = "binding"
      BY DEF kind
    <3> QED
      BY <2>1, <2>2, <3>1, <3>2, <3>3, <3>4 DEF Cleaned, crVars
  <2> QED
    BY <2>4, <2>5
<1>6. CASE DeleteObject
  <2>1. PICK k \in loc.todo : Put(k, None) /\ loc' = [loc EXCEPT !.todo = @ \ {k}]
    BY <1>6 DEF DeleteObject
  <2>2. UNCHANGED <<crVars, pc, blind>> /\ pc \in {"deleteRoles", "deleteBindings"}
    BY <1>6 DEF DeleteObject
  <2>3. /\ loc'.final = loc.final /\ loc'.todo = loc.todo \ {k}
        /\ loc' = [spec |-> loc'.spec, final |-> loc'.final, at |-> loc'.at, todo |-> loc'.todo]
    BY <2>1 DEF Shape
  <2>4. /\ objs' = [j \in Slots |-> objs'[j]]
        /\ \A j \in Slots : objs'[j] # None => objs'[j] = [mark |-> objs'[j].mark, val |-> objs'[j].val]
        /\ \A j \in Slots : objs'[j] = IF j = k THEN None ELSE objs[j]
    BY <2>1, PutOne
  <2>5. Shape' /\ Life' /\ Work'
    BY <2>2, <2>3, <2>4 DEF Shape, Life, Work, crVars
  <2>6. Held' \subseteq Held \ {k} /\ \A q : HeldOf(q)' \subseteq HeldOf(q) \ {k}
    BY <2>4 DEF Held, HeldOf, Foreign
  <2>7. Cleaned'
    BY <2>2, <2>3, <2>6 DEF Cleaned, crVars
  <2> QED
    BY <2>5, <2>7
<1>7. CASE DeletionsDone
  <2>1. UNCHANGED <<crVars, objs, blind>> /\ loc.todo = {}
    BY <1>7 DEF DeletionsDone, objVars
  <2>2. \/ pc = "deleteRoles" /\ pc' = "listBindings" /\ loc' = loc
        \/ pc = "deleteBindings" /\ loc.final /\ pc' = "removeFinalizer" /\ loc' = loc
        \/ End(Requeue(loc.spec))
    BY <1>7 DEF DeletionsDone, Step
  <2>3. Held' = Held /\ \A q : HeldOf(q)' = HeldOf(q)
    BY <2>1 DEF Held, HeldOf
  <2>4. CASE pc = "deleteRoles" /\ pc' = "listBindings" /\ loc' = loc
    BY <2>1, <2>3, <2>4 DEF Shape, Life, Work, Cleaned, Steps, crVars
  <2>5. CASE pc = "deleteBindings" /\ loc.final /\ pc' = "removeFinalizer" /\ loc' = loc
    BY <2>1, <2>3, <2>5 DEF Shape, Life, Work, Cleaned, Steps, crVars
  <2>6. CASE End(Requeue(loc.spec))
    <3>1. Shape' /\ Life' /\ Work'
      BY <2>1, <2>6, EndKeeps DEF Shape, Life, Steps, crVars
    <3>2. Cleaned'
      BY <2>1, <2>6, EndKeeps, CleanedKept DEF crVars
    <3> QED
      BY <3>1, <3>2
  <2> QED
    BY <2>2, <2>4, <2>5, <2>6
<1>8. CASE RemoveFinalizer
  <2>1. /\ phase' = "gone" /\ finalizer' = FALSE /\ blind' = blind
        /\ seen' = seen \/ seen' = CR'
        /\ End(FALSE)
        /\ objs' = [k \in Slots |-> IF ~Foreign(k) /\ objs[k] # None /\ objs[k].mark = "uid"
                                    THEN None ELSE objs[k]]
    BY Zenon, <1>8 DEF RemoveFinalizer, CacheFollows
  <2>2. Shape'
    BY Zenon, <2>1, EndKeeps DEF Shape, Steps
  <2>3. loc.final /\ seen.phase # "live"
    BY <1>8 DEF RemoveFinalizer, Work
  <2>4. Life'
    BY <2>1, <2>3 DEF Life, CR
  <2>5. ~blind => Held = {}
    <3>1. ~blind => HeldOf("role") = {} /\ HeldOf("binding") = {}
      BY <1>8, <2>3 DEF RemoveFinalizer, Cleaned
    <3> QED
      BY <3>1, HeldByKind
  <2>6. Held' \subseteq Held
    BY <2>1 DEF Held, Foreign
  <2>7. Cleaned'
    BY Zenon, <2>1, <2>5, <2>6, EndKeeps DEF Cleaned
  <2> QED
    BY Zenon, <2>1, <2>2, <2>4, <2>7, EndKeeps
<1>9. CASE CallFails
  <2>1. UNCHANGED <<crVars, objs, blind>> /\ End(TRUE)
    BY Zenon, <1>9 DEF CallFails, objVars
  <2>2. Shape' /\ Life' /\ Work'
    BY Zenon, <2>1, EndKeeps DEF Shape, Life, Steps, crVars
  <2>3. Cleaned'
    BY Zenon, <2>1, EndKeeps, CleanedKept DEF crVars
  <2> QED
    BY <2>2, <2>3
<1>10. CASE EditSpec \/ DeleteCR
  <2>1. /\ UNCHANGED <<objs, blind, pc, loc, finalizer>>
        /\ seen' = seen \/ seen' = CR'
    BY <1>10 DEF EditSpec, DeleteCR, CacheFollows, objVars
  <2>2. /\ phase = "live"
        /\ phase' = "live" \/ phase' = IF finalizer THEN "deleting" ELSE "gone"
    BY <1>10 DEF EditSpec, DeleteCR
  <2>3. CR'.phase = phase' /\ CR'.finalizer = finalizer'
    BY DEF CR
  <2>4. seen.phase = "live" /\ ~loc.final /\ (seen.finalizer => finalizer)
    BY <2>2 DEF Life, Work
  <2>5. Shape'
    BY <2>1, <2>2 DEF Shape
  <2>6. Life'
    BY <2>1, <2>2, <2>3, <2>4 DEF Life
  <2>7. Work'
    BY <2>1, <2>4 DEF Work
  <2>8. Cleaned'
    BY <2>1, CleanedKept
  <2> QED
    BY <2>5, <2>6, <2>7, <2>8
<1>11. CASE SyncCR
  <2>1. UNCHANGED <<phase, finalizer, objs, blind, pc, loc>> /\ seen' = CR
    BY <1>11 DEF SyncCR, objVars
  <2>2. CR.phase = phase /\ CR.finalizer = finalizer
    BY DEF CR
  <2>3. Shape' /\ Life' /\ Work'
    BY <2>1, <2>2 DEF Shape, Life, Work
  <2>4. Cleaned'
    BY <2>1, CleanedKept
  <2> QED
    BY <2>3, <2>4
<1>12. CASE (\E kind \in Kinds : SyncObjects(kind)) \/ UNCHANGED vars
  <2>1. UNCHANGED <<crVars, objs, blind, pc, loc>>
    BY <1>12 DEF SyncObjects, vars, objVars
  <2>2. Shape' /\ Life' /\ Work'
    BY <2>1 DEF Shape, Life, Work, crVars
  <2>3. Cleaned'
    BY <2>1, CleanedKept DEF crVars
  <2> QED
    BY <2>2, <2>3
<1>13. CASE \E k \in Slots : Interfere(k)
  <2>1. PICK k \in Slots : Interfere(k)
    BY <1>13
  <2>2. UNCHANGED <<crVars, blind, pc, loc>>
    BY <2>1 DEF Interfere
  <2>3. PICK o : /\ Put(k, o)
                 /\ o = None \/ o = [objs[k] EXCEPT !.val = "tampered"]
    BY <2>1 DEF Interfere
  <2>4. /\ objs[k] # None
        /\ o # None => o = [mark |-> o.mark, val |-> o.val] /\ o.mark = objs[k].mark
    BY <2>1, <2>3 DEF Interfere, Shape
  <2>5. /\ objs' = [j \in Slots |-> objs'[j]]
        /\ \A j \in Slots : objs'[j] # None => objs'[j] = [mark |-> objs'[j].mark, val |-> objs'[j].val]
        /\ \A j \in Slots : objs'[j] = IF j = k THEN o ELSE objs[j]
    BY <2>3, <2>4, PutOne
  <2>6. Shape' /\ Life' /\ Work'
    BY <2>2, <2>5 DEF Shape, Life, Work, crVars
  <2>7. Held' \subseteq Held /\ \A kind : HeldOf(kind)' \subseteq HeldOf(kind)
    BY <2>4, <2>5, HeldShrinks
  <2>8. Cleaned'
    BY <2>2, <2>7 DEF Cleaned, crVars
  <2> QED
    BY <2>6, <2>8
<1>14. CASE Crash
  <2>1. /\ UNCHANGED <<phase, finalizer, objs, blind>> /\ seen' = CR
        /\ pc' = "idle" /\ loc' = NoLocal
    BY <1>14 DEF Crash
  <2>2. CR.phase = phase /\ CR.finalizer = finalizer
    BY DEF CR
  <2>3. Shape' /\ Life' /\ Work'
    BY <2>1, <2>2 DEF Shape, Life, Work, NoLocal, Steps
  <2>4. Cleaned'
    BY <2>1, CleanedKept DEF NoLocal
  <2> QED
    BY <2>3, <2>4
<1> QED
  BY <1>1, <1>2, <1>3, <1>4, <1>5, <1>6, <1>7, <1>8, <1>9, <1>10, <1>11, <1>12, <1>13, <1>14
     DEF Next, Controller, Sync

\* FinalizerInv is an invariant, for all constants: between any two calls of a reconcile
\* the finalizer outlives everything that the controller has put into other namespaces.
THEOREM FinalizerInvariant == Spec => []FinalizerInv
<1>1. Init => FinalizerInv
  BY InitInv
<1>2. FinalizerInv /\ [Next]_vars => FinalizerInv'
  BY StepInv
<1> QED
  BY <1>1, <1>2, PTL DEF Spec

\* Once the object is gone no other namespace holds a Role or RoleBinding of it, unless
\* a cleanup read a cache that did not show one yet: finalizeWorkspaceRBAC and
\* ensureWorkspaceRBACFinalizer, for all constants.
THEOREM NothingLeft == Spec => []NoLeftovers
<1>1. FinalizerInv => NoLeftovers
  BY DEF FinalizerInv, Life, Cleaned, NoLeftovers
<1> QED
  BY <1>1, FinalizerInvariant, PTL

-----------------------------------------------------------------------------
(* The refinement.                                                           *)

\* Where the objects, the object's life and what was overlooked stay, so does what
\* FinalizedResource sees.
LEMMA MapStutter ==
    ASSUME UNCHANGED <<phase, finalizer, objs, blind>>
    PROVE  UNCHANGED Resource!resourceVars
BY DEF Resource!resourceVars, Held

\* Where the finalizer stays and nothing new is held, FinalizedResource loses something.
LEMMA MapLose ==
    ASSUME UNCHANGED <<phase, finalizer>>, blind => blind', Held' \subseteq Held
    PROVE  Resource!Next
BY DEF Resource!Next, Resource!Lose

\* Every step is one of FinalizedResource, or none.
LEMMA MapStep == FinalizerInv /\ [Next]_vars => [Resource!Next]_(Resource!resourceVars)
<1> SUFFICES ASSUME FinalizerInv, [Next]_vars
             PROVE  Resource!Next \/ UNCHANGED Resource!resourceVars
  OBVIOUS
<1> DEFINE held == IF blind THEN {} ELSE Held
<1>1. CASE \/ StartReconcile \/ ReconcileServiceAccount \/ DeletionsDone \/ CallFails
           \/ EditSpec \/ SyncCR \/ (\E kind \in Kinds : SyncObjects(kind)) \/ Crash \/ UNCHANGED vars
  <2>1. UNCHANGED <<phase, finalizer, objs, blind>>
    BY Zenon, <1>1 DEF StartReconcile, ReconcileServiceAccount, DeletionsDone, CallFails, EditSpec,
                SyncCR, SyncObjects, Crash, vars, crVars, objVars
  <2> QED
    BY <2>1, MapStutter
<1>2. CASE EnsureFinalizer
  <2>1. UNCHANGED <<objs, blind>>
    BY <1>2 DEF EnsureFinalizer, objVars
  <2>2. CASE phase = "live"
    <3>1. finalizer' = TRUE /\ phase' = phase
      BY <1>2, <2>2 DEF EnsureFinalizer
    <3>2. held' = held
      BY <2>1 DEF Held
    <3> QED
      BY <2>2, <3>1, <3>2 DEF Resource!Next, Resource!Protect
  <2>3. CASE phase # "live"
    <3>1. UNCHANGED <<phase, finalizer>>
      BY <1>2, <2>3 DEF EnsureFinalizer, crVars, FinalizerInv, Life, Shape
    <3> QED
      BY <2>1, <3>1, MapStutter
  <2> QED
    BY <2>2, <2>3
<1>3. CASE WriteObject
  <2>1. finalizer /\ UNCHANGED <<phase, finalizer>>
    BY <1>3 DEF WriteObject, FinalizerInv, Work, crVars
  <2>2. held' \in SUBSET Slots
    BY DEF Held
  <2> QED
    BY <2>1, <2>2 DEF Resource!Next, Resource!Acquire
<1>4. CASE ListObjects
  <2>1. UNCHANGED <<phase, finalizer, objs>> /\ (blind => blind')
    BY Zenon, <1>4 DEF ListObjects, crVars, objVars
  <2>2. Held' = Held
    BY <2>1 DEF Held
  <2> QED
    BY <2>1, <2>2, MapLose
<1>5. CASE DeleteObject
  <2>1. UNCHANGED <<phase, finalizer, blind>>
    BY <1>5 DEF DeleteObject, crVars
  <2>2. PICK k : Put(k, None)
    BY <1>5 DEF DeleteObject
  <2>3. \A j \in Slots : objs'[j] = IF j = k THEN None ELSE objs[j]
    BY <2>2, PutOne DEF FinalizerInv
  <2>4. Held' \subseteq Held
    BY <2>3, HeldShrinks
  <2> QED
    BY <2>1, <2>4, MapLose
<1>6. CASE RemoveFinalizer
  <2>1. phase' = "gone" /\ finalizer' = FALSE /\ blind' = blind
    BY <1>6 DEF RemoveFinalizer
  <2>2. phase # "live" /\ loc.final
    BY <1>6 DEF RemoveFinalizer, FinalizerInv, Life, Work
  <2>3. held = {}
    <3>1. ~blind => HeldOf("role") = {} /\ HeldOf("binding") = {}
      BY <1>6, <2>2 DEF RemoveFinalizer, FinalizerInv, Cleaned
    <3> QED
      BY <3>1, HeldByKind
  <2>4. held' = {}
    <3>1. \A k \in Slots : Foreign(k) => objs'[k] = objs[k]
      BY <1>6 DEF RemoveFinalizer
    <3>2. Held' \subseteq Held
      BY <3>1, HeldShrinks
    <3> QED
      BY <2>1, <2>3, <3>2
  <2>5. CASE phase = "deleting"
    BY <2>1, <2>3, <2>4, <2>5 DEF Resource!Next, Resource!Release
  <2>6. CASE phase = "gone"
    <3>1. finalizer = FALSE
      BY <2>6 DEF FinalizerInv, Life, Shape
    <3> QED
      BY Zenon, <2>1, <2>3, <2>4, <2>6, <3>1 DEF Resource!resourceVars
  <2> QED
    BY <2>2, <2>5, <2>6 DEF FinalizerInv, Shape
<1>7. CASE DeleteCR
  <2>1. UNCHANGED <<objs, blind, finalizer>>
    BY <1>7 DEF DeleteCR, objVars
  <2>2. held' = held
    BY <2>1 DEF Held
  <2> QED
    BY <1>7, <2>1, <2>2 DEF DeleteCR, Resource!Next, Resource!Delete
<1>8. CASE \E k \in Slots : Interfere(k)
  <2>1. PICK k \in Slots : Interfere(k)
    BY <1>8
  <2>2. UNCHANGED <<phase, finalizer, blind>>
    BY <2>1 DEF Interfere, crVars
  <2>3. PICK o : /\ Put(k, o)
                 /\ o = None \/ o = [objs[k] EXCEPT !.val = "tampered"]
    BY <2>1 DEF Interfere
  <2>4. /\ objs[k] # None
        /\ o # None => o = [mark |-> o.mark, val |-> o.val] /\ o.mark = objs[k].mark
    BY <2>1, <2>3 DEF Interfere, FinalizerInv, Shape
  <2>5. \A j \in Slots : objs'[j] = IF j = k THEN o ELSE objs[j]
    BY <2>3, <2>4, PutOne DEF FinalizerInv
  <2>6. Held' \subseteq Held
    BY <2>4, <2>5, HeldShrinks
  <2> QED
    BY <2>2, <2>6, MapLose
<1> QED
  BY <1>1, <1>2, <1>3, <1>4, <1>5, <1>6, <1>7, <1>8 DEF Next, Controller, Sync

\* The controller implements FinalizedResource, for all constants: every Role and
\* RoleBinding in another namespace is written under the finalizer of
\* ensureWorkspaceRBACFinalizer, and finalizeWorkspaceRBAC removes the finalizer only
\* when none is left, whatever fails or restarts in between.
THEOREM GuardedByFinalizer == Spec => FinalizerGuardsRBAC
<1>1. Init => Resource!Init
  <2> SUFFICES ASSUME Init PROVE Resource!Init
    OBVIOUS
  <2>1. Held = {}
    BY NewAssumption DEF Init, Held, Foreign
  <2> QED
    BY Zenon, <2>1 DEF Init, Resource!Init
<1>2. FinalizerInv /\ [Next]_vars => [Resource!Next]_(Resource!resourceVars)
  BY MapStep
<1> QED
  BY <1>1, <1>2, FinalizerInvariant, PTL DEF Spec, FinalizerGuardsRBAC, Resource!Spec

-----------------------------------------------------------------------------
(* What a reconcile is about.                                                *)

\* The parts of AccessInv: the object and its cached copy, the Roles and RoleBindings
\* and theirs, the reconcile in progress, and the rest.
CopyOK ==
    /\ spec \in Specs
    /\ phase \in {"live", "deleting", "gone"}
    /\ finalizer \in BOOLEAN
    /\ seen \in [spec : Specs, phase : {"live", "deleting", "gone"}, finalizer : BOOLEAN]
    /\ seenFresh \in BOOLEAN
    /\ lag \in BOOLEAN
    /\ disturbances \in 0 .. MaxDisturbances[lag]

ObjectsOK ==
    /\ objs \in [Slots -> Objects \cup {None}]
    /\ objsSeen \in [Slots -> Objects \cup {None}]
    /\ stale \subseteq Slots
    /\ \A k \in Slots : objsSeen[k] = objs[k] \/ Touched(k)

RestOK ==
    /\ accounts \in [Accounts -> {None, "owned", "free"}]
    /\ queued \in BOOLEAN
    /\ blind \in BOOLEAN

Deleting == pc \in {"deleteRoles", "deleteBindings"}

BusyOK ==
    /\ pc \in Steps
    /\ loc.spec \in Specs \cup {None}
    /\ pc \notin {"idle", "finalizer"} => loc.spec \in SpecRecords
    /\ loc.final \in BOOLEAN
    /\ loc.at \in Nat
    /\ pc = "write" => loc.at \in DOMAIN Plan(loc.spec)
    /\ Deleting =>
          /\ loc.todo \subseteq Slots
          /\ \A k \in loc.todo : /\ Touched(k) \/ Managed(objs[k], k, loc.spec)
                                 /\ ~loc.final => k \notin Wanted(loc.spec)

LEMMA AccessParts == AccessInv <=> CopyOK /\ ObjectsOK /\ RestOK /\ BusyOK
<1>1. \A s \in Specs : s \in SpecRecords
  BY ConstantsAssumption
<1>2. AccessInv => CopyOK
  <2>1. ASSUME NEW c \in [spec : SpecRecords, phase : {"live", "deleting", "gone"}, finalizer : BOOLEAN],
               c.spec \in Specs
        PROVE  c \in [spec : Specs, phase : {"live", "deleting", "gone"}, finalizer : BOOLEAN]
    BY <2>1
  <2> QED
    BY <2>1 DEF AccessInv, TypeOK, Aim, CopyOK
<1>3. CopyOK => /\ spec \in SpecRecords /\ seen.spec \in Specs
                /\ seen \in [spec : SpecRecords, phase : {"live", "deleting", "gone"}, finalizer : BOOLEAN]
  BY <1>1 DEF CopyOK
<1>4. BusyOK => loc.spec \in SpecRecords \cup {None}
  BY <1>1 DEF BusyOK
<1>5. AccessInv => ObjectsOK /\ RestOK /\ BusyOK
  BY DEF AccessInv, TypeOK, Aim, ObjectsOK, RestOK, BusyOK, Deleting
<1>6. CopyOK /\ ObjectsOK /\ RestOK /\ BusyOK => TypeOK
  BY <1>3, <1>4 DEF TypeOK, CopyOK, ObjectsOK, RestOK, BusyOK, Deleting
<1>7. CopyOK /\ ObjectsOK /\ RestOK /\ BusyOK => Aim
  BY <1>3 DEF Aim, CopyOK, ObjectsOK, RestOK, BusyOK, Deleting
<1> QED
  BY <1>2, <1>5, <1>6, <1>7 DEF AccessInv

\* The plan names slots, and has one for the object's own namespace.
LEMMA PlanSlots ==
    ASSUME NEW s \in SpecRecords
    PROVE  /\ \A i \in DOMAIN Plan(s) : Plan(s)[i] \in Slots /\ i \in Nat
           /\ s.perms => 1 \in DOMAIN Plan(s)
<1>1. s.others \in Seq(Namespaces \cup {Home}) /\ s.account \in Accounts /\ s.perms \in BOOLEAN
  BY DEF SpecRecords
<1>2. /\ Targets(s) \in Seq(Namespaces \cup {Home})
      /\ Len(Targets(s)) = 1 + Len(s.others) /\ Len(s.others) \in Nat
  BY <1>1 DEF Targets
<1>3. CASE s.perms
  <2> DEFINE n == Len(Targets(s))
  <2>1. n \in Nat /\ n >= 1
    BY <1>2
  <2>2. DOMAIN Plan(s) = 1 .. 2 * n
    BY <1>3 DEF Plan
  <2>3. ASSUME NEW i \in 1 .. 2 * n
        PROVE  (i + 1) \div 2 \in 1 .. n
    BY <2>1, <2>3
  <2>4. ASSUME NEW i \in 1 .. 2 * n
        PROVE  Plan(s)[i] \in Slots
    <3>1. Targets(s)[(i + 1) \div 2] \in Namespaces \cup {Home}
      BY <1>2, <2>3
    <3>2. Plan(s)[i] = <<IF i % 2 = 1 THEN "role" ELSE "binding", Targets(s)[(i + 1) \div 2], s.account>>
      BY <1>3 DEF Plan
    <3> QED
      BY <1>1, <3>1, <3>2 DEF Slots, Kinds
  <2> QED
    BY <2>1, <2>2, <2>4
<1>4. CASE ~s.perms
  <2>1. DOMAIN Plan(s) = {}
    BY <1>4 DEF Plan
  <2> QED
    BY <1>4, <2>1
<1> QED
  BY <1>1, <1>3, <1>4

\* What a spec asks for is an object of the controller's.
LEMMA DesiredObject ==
    ASSUME NEW s \in SpecRecords, NEW k
    PROVE  Desired(s, k) \in Objects /\ Desired(s, k).mark = "uid"
BY DEF Desired, Objects, SpecRecords

\* A write or a deletion, by the controller or by somebody else, touches its slot.
LEMMA PutTouches ==
    ASSUME ObjectsOK, NEW k \in Slots, NEW o \in Objects \cup {None}, Put(k, o),
           o = None \/ o.mark = "uid" \/ o.val = "tampered"
    PROVE  /\ ObjectsOK'
           /\ \A j \in Slots : objs'[j] = objs[j] \/ Touched(j)'
           /\ \A j \in Slots : j # k => objs'[j] = objs[j]
<1>1. objs' = [objs EXCEPT ![k] = o]
  BY DEF Put
<1>2. objs' \in [Slots -> Objects \cup {None}] /\ objs'[k] = o /\ \A j \in Slots : j # k => objs'[j] = objs[j]
  BY <1>1 DEF ObjectsOK
<1>3. Touched(k)'
  BY <1>2 DEF Touched
<1>4. objsSeen' = objsSeen \/ objsSeen' = objs'
  BY DEF Put
<1>5. stale' \subseteq Slots
  BY DEF Put, ObjectsOK
<1>6. \A j \in Slots : objsSeen'[j] = objs'[j] \/ Touched(j)'
  BY <1>2, <1>3, <1>4 DEF ObjectsOK, Touched
<1> QED
  BY <1>2, <1>3, <1>4, <1>5, <1>6 DEF ObjectsOK

\* What the reconcile is about survives the steps of others.
LEMMA BusyKept ==
    ASSUME BusyOK, UNCHANGED <<pc, loc>>, \A k \in Slots : objs'[k] = objs[k] \/ Touched(k)'
    PROVE  BusyOK'
BY DEF BusyOK, Deleting, Touched

\* A reconcile that is not at work on an object is about nothing.
LEMMA BusyIdle ==
    ASSUME pc' = "idle", loc' = NoLocal
    PROVE  BusyOK'
BY DEF BusyOK, Deleting, NoLocal, Steps

LEMMA CopyKept ==
    ASSUME CopyOK, UNCHANGED crVars, UNCHANGED disturbances \/ Disturb
    PROVE  CopyOK'
<1>1. MaxDisturbances[lag] \in Nat
  BY ConstantsAssumption DEF CopyOK
<1>2. disturbances' \in 0 .. MaxDisturbances[lag]
  BY <1>1 DEF CopyOK, Disturb
<1> QED
  BY <1>2 DEF CopyOK, crVars

LEMMA ObjectsKept ==
    ASSUME ObjectsOK, UNCHANGED objVars
    PROVE  ObjectsOK' /\ \A k \in Slots : objs'[k] = objs[k] \/ Touched(k)'
BY DEF ObjectsOK, objVars, Touched

\* A step that changes the object changes the copy with it, or lets it lag behind.
LEMMA CopyFollows ==
    ASSUME CopyOK, CacheFollows, spec' \in Specs, phase' \in {"live", "deleting", "gone"},
           finalizer' \in BOOLEAN, UNCHANGED disturbances \/ Disturb
    PROVE  CopyOK'
<1>1. CR' \in [spec : Specs, phase : {"live", "deleting", "gone"}, finalizer : BOOLEAN]
  BY DEF CR
<1>2. MaxDisturbances[lag] \in Nat
  BY ConstantsAssumption DEF CopyOK
<1>3. disturbances' \in 0 .. MaxDisturbances[lag]
  BY <1>2 DEF CopyOK, Disturb
<1>4. lag' = lag /\ seenFresh' \in BOOLEAN /\ (seen' = seen \/ seen' = CR')
  BY DEF CacheFollows, CopyOK
<1> QED
  BY <1>1, <1>3, <1>4 DEF CopyOK

\* AccessInv holds of a new object.
LEMMA AccessInit == Init => AccessInv
<1> SUFFICES ASSUME Init PROVE AccessInv
  OBVIOUS
<1>1. CopyOK
  <2>1. spec \in Specs /\ lag \in BOOLEAN /\ MaxDisturbances[lag] \in Nat
    BY ConstantsAssumption DEF Init
  <2>2. CR \in [spec : Specs, phase : {"live", "deleting", "gone"}, finalizer : BOOLEAN]
    BY Zenon, <2>1 DEF Init, CR
  <2>3. 0 \in 0 .. MaxDisturbances[lag]
    BY <2>1
  <2> QED
    BY Zenon, <2>1, <2>2, <2>3 DEF Init, CopyOK
<1>2. ObjectsOK
  BY ConstantsAssumption DEF Init, ObjectsOK
<1>3. RestOK
  BY Zenon DEF Init, RestOK
<1>4. BusyOK
  BY DEF Init, BusyOK, Deleting, NoLocal, Steps
<1> QED
  BY <1>1, <1>2, <1>3, <1>4, AccessParts

\* Every step of the controller keeps it, ...
LEMMA AccessController == AccessInv /\ Shape /\ Controller => AccessInv'
<1> SUFFICES ASSUME CopyOK, ObjectsOK, RestOK, BusyOK, Shape, Controller
             PROVE  CopyOK' /\ ObjectsOK' /\ RestOK' /\ BusyOK'
  <2>1. (AccessInv <=> CopyOK /\ ObjectsOK /\ RestOK /\ BusyOK)'
    BY AccessParts, PTL
  <2> QED
    BY <2>1, AccessParts
<1>s. \A s \in Specs : s \in SpecRecords
  BY ConstantsAssumption
<1>1. CASE StartReconcile
  <2>1. CopyOK' /\ ObjectsOK'
    BY <1>1, CopyKept, ObjectsKept DEF StartReconcile
  <2>2. RestOK'
    BY Zenon, <1>1 DEF StartReconcile, RestOK
  <2>3. BusyOK'
    <3>1. seen.spec \in Specs /\ seen.spec \in SpecRecords
      BY <1>s DEF CopyOK
    <3>2. \/ UNCHANGED <<pc, loc>>
          \/ pc' = "finalizer" /\ UNCHANGED loc
          \/ /\ pc' \in {"listRoles", "account"}
             /\ loc'.spec = seen.spec /\ loc'.final \in BOOLEAN /\ loc'.at = 0
      BY Zenon, <1>1 DEF StartReconcile, Step, NoLocal
    <3>3. pc = "idle" /\ pc' \in Steps
      BY <1>1, <3>2 DEF StartReconcile, Steps
    <3> QED
      BY <3>1, <3>2, <3>3 DEF BusyOK, Deleting
  <2> QED
    BY <2>1, <2>2, <2>3
<1>2. CASE EnsureFinalizer
  <2>1. ObjectsOK'
    BY <1>2, ObjectsKept DEF EnsureFinalizer
  <2>2. CASE phase # "gone"
    <3>1. CopyOK'
      <4>1. UNCHANGED <<spec, phase, disturbances>> /\ finalizer' = TRUE
        BY <1>2, <2>2 DEF EnsureFinalizer
      <4>2. CASE ~finalizer
        BY <1>2, <2>2, <4>1, <4>2, CopyFollows DEF EnsureFinalizer, CopyOK
      <4>3. CASE finalizer
        BY <1>2, <2>2, <4>1, <4>3, CopyKept DEF EnsureFinalizer, crVars, Shape
      <4> QED
        BY <4>2, <4>3
    <3>2. RestOK'
      BY <1>2, <2>2 DEF EnsureFinalizer, RestOK
    <3>3. BusyOK'
      <4>1. pc' = "account" /\ loc' = [NoLocal EXCEPT !.spec = seen'.spec]
        BY <1>2, <2>2 DEF EnsureFinalizer, Step
      <4>2. seen'.spec \in Specs
        BY <3>1 DEF CopyOK
      <4>3. loc'.spec = seen'.spec /\ loc'.final \in BOOLEAN /\ loc'.at \in Nat
        BY <4>1 DEF NoLocal
      <4>4. loc'.spec \in Specs /\ loc'.spec \in SpecRecords
        BY <1>s, <4>2, <4>3
      <4>5. pc' = "account"
        BY <4>1
      <4> QED
        BY <4>3, <4>4, <4>5 DEF BusyOK, Deleting, Steps
    <3> QED
      BY <2>1, <3>1, <3>2, <3>3
  <2>3. CASE phase = "gone"
    <3>1. UNCHANGED crVars /\ End(TRUE) /\ UNCHANGED <<accounts, blind, disturbances>>
      BY Zenon, <1>2, <2>3 DEF EnsureFinalizer
    <3>2. RestOK'
      BY <3>1 DEF End, RestOK
    <3>3. BusyOK'
      BY <3>1, BusyIdle DEF End
    <3> QED
      BY <2>1, <3>1, <3>2, <3>3, CopyKept
  <2> QED
    BY <2>2, <2>3
<1>3. CASE ReconcileServiceAccount
  <2>1. CopyOK' /\ ObjectsOK'
    BY <1>3, CopyKept, ObjectsKept DEF ReconcileServiceAccount
  <2>2. loc.spec \in SpecRecords /\ loc.spec.account \in Accounts
    BY <1>3 DEF ReconcileServiceAccount, BusyOK, SpecRecords
  <2>3. RestOK'
    <3>1. accounts' \in [Accounts -> {None, "owned", "free"}]
      BY <1>3, <2>2 DEF ReconcileServiceAccount, RestOK
    <3> QED
      BY <1>3, <3>1 DEF ReconcileServiceAccount, RestOK
  <2>4. BusyOK'
    <3>1. \/ loc.spec.perms /\ pc' = "write" /\ loc' = [loc EXCEPT !.at = 1]
          \/ pc' = "listRoles" /\ loc' = loc
      BY <1>3 DEF ReconcileServiceAccount, Step
    <3>2. loc'.spec = loc.spec /\ loc'.final = loc.final /\ loc'.at \in Nat /\ (pc' = "write" => loc'.at = 1)
      BY <3>1 DEF Shape, BusyOK
    <3>3. pc' = "write" => 1 \in DOMAIN Plan(loc.spec)
      BY <2>2, <3>1, PlanSlots
    <3>4. pc' \in {"write", "listRoles"}
      BY <3>1
    <3> QED
      BY <2>2, <3>2, <3>3, <3>4 DEF BusyOK, Deleting, Steps
  <2> QED
    BY <2>1, <2>3, <2>4
<1>4. CASE WriteObject
  <2> DEFINE k == Plan(loc.spec)[loc.at]
             want == Desired(loc.spec, k)
  <2>1. CopyOK'
    BY <1>4, CopyKept DEF WriteObject
  <2>2. loc.spec \in SpecRecords /\ loc.at \in DOMAIN Plan(loc.spec)
    BY <1>4 DEF WriteObject, BusyOK
  <2>3. k \in Slots /\ want \in Objects /\ want.mark = "uid"
    BY <2>2, PlanSlots, DesiredObject
  <2>4. UNCHANGED objVars \/ Put(k, want)
    BY Zenon, <1>4 DEF WriteObject
  <2>5. \/ End(TRUE)
        \/ pc' = "listRoles" /\ loc' = loc
        \/ \E i \in Rest(loc.spec, loc.at) : pc' = pc /\ loc' = [loc EXCEPT !.at = i]
    BY Zenon, <1>4 DEF WriteObject, Step
  <2>6. queued' \in BOOLEAN /\ UNCHANGED <<accounts, blind>>
    BY Zenon, <1>4 DEF WriteObject, End
  <2> HIDE DEF k, want
  <2>7. ObjectsOK'
    BY <2>3, <2>4, PutTouches, ObjectsKept
  <2>8. BusyOK'
    <3>1. CASE End(TRUE)
      BY <3>1, BusyIdle DEF End
    <3>2. CASE pc' = "listRoles" /\ loc' = loc
      BY <2>2, <3>2 DEF BusyOK, Deleting, Steps
    <3>3. CASE \E i \in Rest(loc.spec, loc.at) : pc' = pc /\ loc' = [loc EXCEPT !.at = i]
      <4>1. PICK i \in Rest(loc.spec, loc.at) : pc' = pc /\ loc' = [loc EXCEPT !.at = i]
        BY <3>3
      <4>2. i \in DOMAIN Plan(loc.spec) /\ i \in Nat
        BY <2>2, PlanSlots DEF Rest
      <4>3. loc'.spec = loc.spec /\ loc'.final = loc.final /\ loc'.at = i /\ pc' = "write"
        BY <1>4, <4>1 DEF Shape, WriteObject
      <4> QED
        BY <2>2, <4>2, <4>3 DEF BusyOK, Deleting, Steps
    <3> QED
      BY Zenon, <2>5, <3>1, <3>2, <3>3
  <2> QED
    BY <2>1, <2>6, <2>7, <2>8 DEF RestOK
<1>5. CASE ListObjects
  <2> DEFINE kind == IF pc = "listRoles" THEN "role" ELSE "binding"
             todo == Doomed(kind, loc.spec, loc.final)
  <2>1. CopyOK' /\ ObjectsOK'
    BY <1>5, CopyKept, ObjectsKept DEF ListObjects
  <2>2. RestOK'
    BY <1>5 DEF ListObjects, RestOK
  <2>3. /\ loc' = [loc EXCEPT !.todo = todo] /\ objs' = objs
        /\ pc' \in {"deleteRoles", "deleteBindings"} /\ loc.spec \in SpecRecords
    BY <1>5 DEF ListObjects, Step, objVars, BusyOK
  <2>4. /\ todo \subseteq Slots
        /\ \A k \in todo : /\ Touched(k) \/ Managed(objs[k], k, loc.spec)
                           /\ ~loc.final => k \notin Wanted(loc.spec)
    <3> SUFFICES ASSUME NEW k \in todo
                 PROVE  /\ k \in Slots
                        /\ Touched(k) \/ Managed(objs[k], k, loc.spec)
                        /\ ~loc.final => k \notin Wanted(loc.spec)
      OBVIOUS
    <3>1. k \in Slots /\ Managed(objsSeen[k], k, loc.spec) /\ (loc.final \/ k \notin Wanted(loc.spec))
      BY DEF Doomed
    <3>2. objsSeen[k] = objs[k] \/ Touched(k)
      BY <3>1 DEF ObjectsOK
    <3> QED
      BY <3>1, <3>2
  <2> HIDE DEF todo
  <2>5. loc'.spec = loc.spec /\ loc'.final = loc.final /\ loc'.at = loc.at /\ loc'.todo = todo
    BY <2>3 DEF Shape
  <2>6. \A k \in todo : Touched(k)' <=> Touched(k)
    BY <2>3 DEF Touched
  <2>7. BusyOK'
    BY <2>3, <2>4, <2>5, <2>6 DEF BusyOK, Deleting, Steps
  <2> QED
    BY <2>1, <2>2, <2>7
<1>6. CASE DeleteObject
  <2>1. PICK k \in loc.todo : Put(k, None) /\ loc' = [loc EXCEPT !.todo = @ \ {k}]
    BY Zenon, <1>6 DEF DeleteObject
  <2>2. pc \in {"deleteRoles", "deleteBindings"} /\ pc' = pc /\ k \in Slots
    BY <1>6, <2>1 DEF DeleteObject, BusyOK, Deleting
  <2>3. CopyOK' /\ RestOK'
    BY <1>6, CopyKept DEF DeleteObject, RestOK
  <2>4. ObjectsOK' /\ \A j \in Slots : objs'[j] = objs[j] \/ Touched(j)'
    BY <2>1, <2>2, PutTouches
  <2>5. loc'.spec = loc.spec /\ loc'.final = loc.final /\ loc'.at = loc.at /\ loc'.todo = loc.todo \ {k}
    BY <2>1 DEF Shape
  <2>6. BusyOK'
    BY <2>2, <2>4, <2>5 DEF BusyOK, Deleting, Touched
  <2> QED
    BY <2>3, <2>4, <2>6
<1>7. CASE DeletionsDone
  <2>1. CopyOK' /\ ObjectsOK'
    BY <1>7, CopyKept, ObjectsKept DEF DeletionsDone
  <2>2. \/ pc' \in {"listBindings", "removeFinalizer"} /\ UNCHANGED <<loc, queued>>
        \/ End(Requeue(loc.spec))
    BY <1>7 DEF DeletionsDone, Step
  <2>3. RestOK'
    BY ZenonT(40), <1>7, <2>2 DEF DeletionsDone, End, RestOK
  <2>4. loc.spec \in SpecRecords
    BY <1>7 DEF DeletionsDone, BusyOK
  <2>5. BusyOK'
    BY <2>2, <2>4, BusyIdle DEF BusyOK, Deleting, End, Steps
  <2> QED
    BY <2>1, <2>3, <2>5
<1>8. CASE RemoveFinalizer
  <2>1. /\ CacheFollows /\ UNCHANGED <<spec, blind, disturbances>> /\ phase' = "gone" /\ finalizer' = FALSE
        /\ End(FALSE)
    BY Zenon, <1>8 DEF RemoveFinalizer
  <2>2. CopyOK'
    BY Zenon, <2>1, CopyFollows DEF CopyOK
  <2>3. ObjectsOK'
    <3>1. \A k \in Slots : objs'[k] = objs[k] \/ objs'[k] = None
      BY <1>8 DEF RemoveFinalizer
    <3>2. objs' \in [Slots -> Objects \cup {None}] /\ stale' \subseteq Slots /\ objsSeen' = objsSeen
      BY <1>8 DEF RemoveFinalizer, ObjectsOK
    <3> QED
      BY <3>1, <3>2 DEF ObjectsOK, Touched
  <2>4. RestOK'
    <3>1. accounts' \in [Accounts -> {None, "owned", "free"}]
      BY <1>8 DEF RemoveFinalizer, RestOK
    <3> QED
      BY <2>1, <3>1 DEF End, RestOK
  <2> QED
    BY <2>1, <2>2, <2>3, <2>4, BusyIdle DEF End
<1>9. CASE CallFails
  <2>1. CopyOK' /\ ObjectsOK'
    BY <1>9, CopyKept, ObjectsKept DEF CallFails
  <2> QED
    BY <1>9, <2>1, BusyIdle DEF CallFails, End, RestOK
<1> QED
  BY <1>1, <1>2, <1>3, <1>4, <1>5, <1>6, <1>7, <1>8, <1>9 DEF Controller

\* ... and so does every other step.
LEMMA AccessElsewhere ==
    ASSUME AccessInv, Shape,
           \/ Sync \/ EditSpec \/ DeleteCR \/ (\E k \in Slots : Interfere(k)) \/ Crash \/ UNCHANGED vars
    PROVE  AccessInv'
<1>p. (AccessInv <=> CopyOK /\ ObjectsOK /\ RestOK /\ BusyOK)'
  BY AccessParts, PTL
<1> SUFFICES CopyOK' /\ ObjectsOK' /\ RestOK' /\ BusyOK'
  BY <1>p
<1>a. CopyOK /\ ObjectsOK /\ RestOK /\ BusyOK
  BY AccessParts
<1>c. CR \in [spec : Specs, phase : {"live", "deleting", "gone"}, finalizer : BOOLEAN]
  BY <1>a DEF CopyOK, CR
<1>1. CASE EditSpec \/ DeleteCR
  <2>1. /\ CacheFollows /\ finalizer' = finalizer /\ (UNCHANGED disturbances \/ Disturb)
        /\ spec' \in Specs /\ phase' \in {"live", "deleting", "gone"}
    BY <1>1, <1>a DEF EditSpec, DeleteCR, CopyOK
  <2>2. UNCHANGED objVars /\ UNCHANGED <<pc, loc>>
    BY <1>1 DEF EditSpec, DeleteCR
  <2>3. RestOK'
    BY Zenon, <1>1, <1>a DEF EditSpec, DeleteCR, RestOK
  <2>4. CopyOK'
    BY <1>a, <2>1, CopyFollows DEF CopyOK
  <2> QED
    BY <1>a, <2>2, <2>3, <2>4, ObjectsKept, BusyKept
<1>2. CASE SyncCR
  <2>1. seen' = CR /\ seenFresh' = TRUE /\ UNCHANGED <<spec, phase, finalizer, lag, disturbances>>
    BY <1>2 DEF SyncCR
  <2>2. CopyOK'
    BY <1>a, <1>c, <2>1 DEF CopyOK
  <2>3. UNCHANGED objVars /\ UNCHANGED <<pc, loc>>
    BY <1>2 DEF SyncCR
  <2>4. RestOK'
    BY <1>2, <1>a DEF SyncCR, RestOK
  <2> QED
    BY <1>a, <2>2, <2>3, <2>4, ObjectsKept, BusyKept
<1>3. CASE \E kind \in Kinds : SyncObjects(kind)
  <2>1. PICK kind \in Kinds : SyncObjects(kind)
    BY <1>3
  <2>2. UNCHANGED crVars /\ UNCHANGED disturbances /\ UNCHANGED <<objs, pc, loc>>
    BY <2>1 DEF SyncObjects
  <2>3. ObjectsOK'
    <3>1. objsSeen' \in [Slots -> Objects \cup {None}] /\ stale' \subseteq Slots
      BY <1>a, <2>1 DEF SyncObjects, ObjectsOK
    <3>2. \A k \in Slots : objsSeen'[k] = objs[k] \/ objsSeen'[k] = objsSeen[k]
      BY <2>1 DEF SyncObjects
    <3> QED
      BY <1>a, <2>2, <3>1, <3>2 DEF ObjectsOK, Touched
  <2>4. RestOK'
    BY <1>a, <2>1 DEF SyncObjects, RestOK
  <2>5. BusyOK'
    BY <1>a, <2>2, BusyKept
  <2> QED
    BY <1>a, <2>2, <2>3, <2>4, <2>5, CopyKept
<1>4. CASE \E k \in Slots : Interfere(k)
  <2>1. PICK k \in Slots : Interfere(k)
    BY <1>4
  <2>2. UNCHANGED crVars /\ Disturb /\ UNCHANGED <<pc, loc>>
    BY <2>1 DEF Interfere
  <2>3. PICK o : /\ Put(k, o)
                 /\ o = None \/ o = [objs[k] EXCEPT !.val = "tampered"]
    BY <2>1 DEF Interfere
  <2>4. objs[k] \in Objects
    BY <1>a, <2>1 DEF Interfere, ObjectsOK
  <2>5. o \in Objects \cup {None} /\ (o = None \/ o.val = "tampered")
    BY <2>3, <2>4 DEF Objects
  <2>6. ObjectsOK' /\ \A j \in Slots : objs'[j] = objs[j] \/ Touched(j)'
    BY <1>a, <2>3, <2>5, PutTouches
  <2>7. RestOK'
    BY <1>a, <2>1 DEF Interfere, RestOK
  <2>8. BusyOK'
    BY <1>a, <2>2, <2>6, BusyKept
  <2> QED
    BY <1>a, <2>2, <2>6, <2>7, <2>8, CopyKept
<1>5. CASE Crash
  <2>1. /\ seen' = CR /\ seenFresh' = TRUE /\ UNCHANGED <<spec, phase, finalizer, lag, objs>> /\ Disturb
        /\ objsSeen' = objs /\ stale' = {} /\ pc' = "idle" /\ loc' = NoLocal
    BY <1>5 DEF Crash
  <2>2. CopyOK'
    <3>1. MaxDisturbances[lag] \in Nat
      BY <1>a, ConstantsAssumption DEF CopyOK
    <3>2. disturbances' \in 0 .. MaxDisturbances[lag]
      BY <1>a, <2>1, <3>1 DEF CopyOK, Disturb
    <3> QED
      BY <1>a, <1>c, <2>1, <3>2 DEF CopyOK
  <2>3. ObjectsOK'
    BY <1>a, <2>1 DEF ObjectsOK
  <2>4. RestOK'
    BY <1>a, <1>5 DEF Crash, RestOK
  <2> QED
    BY <2>1, <2>2, <2>3, <2>4, BusyIdle
<1>6. CASE UNCHANGED vars
  <2>1. UNCHANGED crVars /\ UNCHANGED objVars /\ UNCHANGED <<accounts, queued, pc, loc, blind, disturbances>>
    BY <1>6 DEF vars
  <2> QED
    BY <1>a, <2>1, CopyKept, ObjectsKept, BusyKept DEF RestOK
<1> QED
  BY <1>1, <1>2, <1>3, <1>4, <1>5, <1>6 DEF Sync

\* AccessInv is an invariant, for all constants: types, caches that differ from the
\* cluster only where somebody has been at work, and for every reconcileWorkspaceRBAC and
\* cleanupManagedWorkspaceRBAC in progress what it may still write and delete.
THEOREM AccessInvariant == Spec => []AccessInv
<1>1. Init => AccessInv
  BY AccessInit
<1>2. AccessInv /\ FinalizerInv /\ [Next]_vars => AccessInv'
  BY AccessController, AccessElsewhere DEF Next, FinalizerInv
<1> QED
  BY <1>1, <1>2, FinalizerInvariant, PTL DEF Spec

\* The two together are RBACInv, the invariant that relates caches, finalizer and the
\* reconcile or finalization in progress, for all constants.
THEOREM RBACInvariant == Spec => []RBACInv
BY AccessInvariant, FinalizerInvariant, PTL DEF RBACInv

\* No outage, for all constants: a cleanup for the current spec does not delete what
\* reconcileWorkspaceRBAC has just written for it.
THEOREM NothingNeededDeleted == Spec => NoOutage
<1>1. ASSUME AccessInv, FinalizerInv, phase = "live", loc.spec = spec, DeleteObject,
             NEW k \in Wanted(spec)
      PROVE  objs'[k] = objs[k]
  <2>1. CopyOK /\ ObjectsOK /\ RestOK /\ BusyOK
    BY <1>1, AccessParts
  <2>2. ~loc.final
    BY <1>1 DEF FinalizerInv, Life, Work
  <2>3. PICK j \in loc.todo : Put(j, None)
    BY <1>1 DEF DeleteObject
  <2>4. j \in Slots /\ j \notin Wanted(spec)
    BY <1>1, <2>1, <2>2 DEF DeleteObject, BusyOK, Deleting
  <2>5. \A i \in Slots : i # j => objs'[i] = objs[i]
    BY <2>1, <2>3, <2>4, PutTouches
  <2>6. k \in Slots
    <3>1. spec \in SpecRecords
      BY <2>1, ConstantsAssumption DEF CopyOK
    <3> QED
      BY <3>1, PlanSlots DEF Wanted
  <2> QED
    BY <2>4, <2>5, <2>6
<1>2. AccessInv /\ FinalizerInv =>
        (phase = "live" /\ loc.spec = spec /\ DeleteObject => \A k \in Wanted(spec) : objs'[k] = objs[k])
  BY <1>1
<1> QED
  BY <1>2, AccessInvariant, FinalizerInvariant, PTL DEF NoOutage

\* Roles and RoleBindings of others are left alone, for all constants: what bears no mark
\* of this object, and is not named by the spec nor changed under the controller's hands,
\* is neither overwritten by CreateOrUpdate nor deleted by a cleanup.
THEOREM StrangersKept == Spec => OthersLeftAlone
<1>1. ASSUME AccessInv, FinalizerInv, Controller, NEW k \in Slots,
             objs[k] # None, objs[k].mark # "uid", objs[k].val # "tampered",
             loc.spec # None => k \notin Wanted(loc.spec) /\ ~Managed(objs[k], k, loc.spec)
      PROVE  objs'[k] = objs[k]
  <2>1. CopyOK /\ ObjectsOK /\ RestOK /\ BusyOK
    BY <1>1, AccessParts
  <2>2. CASE WriteObject
    <3> DEFINE j == Plan(loc.spec)[loc.at]
               want == Desired(loc.spec, j)
    <3>1. loc.spec \in SpecRecords /\ loc.at \in DOMAIN Plan(loc.spec)
      BY <2>1, <2>2 DEF WriteObject, BusyOK
    <3>2. j \in Slots /\ j \in Wanted(loc.spec) /\ want \in Objects /\ want.mark = "uid"
      BY <3>1, PlanSlots, DesiredObject DEF Wanted
    <3>3. UNCHANGED objVars \/ Put(j, want)
      BY Zenon, <2>2 DEF WriteObject
    <3> HIDE DEF j, want
    <3>4. CASE Put(j, want)
      <4>1. \A i \in Slots : i # j => objs'[i] = objs[i]
        BY <2>1, <3>2, <3>4, PutTouches
      <4>2. k # j
        BY <1>1, <3>1, <3>2, NoneAssumption
      <4> QED
        BY <4>1, <4>2
    <3> QED
      BY <3>3, <3>4 DEF objVars
  <2>3. CASE DeleteObject
    <3>1. PICK j \in loc.todo : Put(j, None)
      BY <2>3 DEF DeleteObject
    <3>2. j \in Slots /\ (Touched(j) \/ Managed(objs[j], j, loc.spec)) /\ loc.spec \in SpecRecords
      BY <2>1, <2>3, <3>1 DEF DeleteObject, BusyOK, Deleting
    <3>3. \A i \in Slots : i # j => objs'[i] = objs[i]
      BY <2>1, <3>1, <3>2, PutTouches
    <3>4. k # j
      BY <1>1, <3>2, NoneAssumption DEF Touched
    <3> QED
      BY <3>3, <3>4
  <2>4. CASE RemoveFinalizer
    BY Zenon, <1>1, <2>4 DEF RemoveFinalizer
  <2>5. CASE ~WriteObject /\ ~DeleteObject /\ ~RemoveFinalizer
    BY Zenon, <1>1, <2>5 DEF Controller, StartReconcile, EnsureFinalizer, ReconcileServiceAccount, ListObjects,
                      DeletionsDone, CallFails, objVars
  <2> QED
    BY <2>2, <2>3, <2>4, <2>5
<1>2. AccessInv /\ FinalizerInv =>
        (Controller =>
           \A k \in Slots :
             /\ objs[k] # None /\ objs[k].mark # "uid" /\ objs[k].val # "tampered"
             /\ loc.spec # None => k \notin Wanted(loc.spec) /\ ~Managed(objs[k], k, loc.spec)
             => objs'[k] = objs[k])
  BY Zenon, <1>1
<1> QED
  BY <1>2, AccessInvariant, FinalizerInvariant, PTL DEF OthersLeftAlone

=============================================================================
