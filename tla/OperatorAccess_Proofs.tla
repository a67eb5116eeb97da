----------------------- MODULE OperatorAccess_Proofs ------------------------
(***************************************************************************)
(* Type correctness of OperatorAccess, its two safety properties, and that   *)
(* a reconcile does not interrupt the clients of ClientProvider, for every   *)
(* set of Secrets, databases and edits and any number of faults.             *)
(***************************************************************************)
EXTENDS ClientProvider, FiniteSetTheorems, TLAPS

\* Merging statuses field by field.
LEMMA MergeFields ==
    ASSUME NEW b \in Statuses, NEW n \in Statuses, NEW l \in Statuses
    PROVE  MergeStatusDelta(b, n, l) =
               [gen   |-> IF b.gen # n.gen THEN n.gen ELSE l.gen,
                ref   |-> IF b.ref # n.ref THEN n.ref ELSE l.ref,
                ready |-> IF b.ready # n.ready THEN n.ready ELSE l.ready]
<1>1. DOMAIN l = {"gen", "ref", "ready"}
  BY DEF Statuses
<1> QED
  BY <1>1 DEF MergeStatusDelta, Statuses

\* What reconcileStatus leaves in the object is a status.
LEMMA PublishType ==
    ASSUME NEW b \in Statuses, NEW n \in Statuses, NEW l \in Statuses, NEW g
    PROVE  Publish(b, n, l, g) \in Statuses
<1>1. PICK g1 \in Nat, r1 \in Opt(SecretNames), y1 \in BOOLEAN :
         MergeStatusDelta(b, n, l) = [gen |-> g1, ref |-> r1, ready |-> y1]
  <2>1. /\ (IF b.gen # n.gen THEN n.gen ELSE l.gen) \in Nat
        /\ (IF b.ref # n.ref THEN n.ref ELSE l.ref) \in Opt(SecretNames)
        /\ (IF b.ready # n.ready THEN n.ready ELSE l.ready) \in BOOLEAN
    BY DEF Statuses
  <2> QED
    BY <2>1, MergeFields
<1>2. MergeStatusDelta(b, n, l) \in Statuses
  BY <1>1 DEF Statuses
<1> QED
  BY <1>2 DEF Publish

\* The empty status and the empty local state have their types.
LEMMA NoLocalType == NoStatus \in Statuses /\ NoLocal \in Locals
<1>1. NoStatus \in Statuses
  BY DEF NoStatus, Statuses, Opt
<1> QED
  BY <1>1, ConstantsAssumption DEF NoLocal, Locals, Opt

\* A step that follows the object into the cache keeps the cached copy's type.
LEMMA CacheType ==
    ASSUME TypeOK, CacheFollows, spec' \in SpecRecords, gen' \in Nat, status' \in Statuses
    PROVE  seen' \in Objects /\ seenFresh' \in BOOLEAN
<1>1. CR' \in Objects
  BY DEF CR, Objects
<1> QED
  BY <1>1, ConstantsAssumption DEF CacheFollows, TypeOK

\* The same for a Secret.
LEMMA SecretCacheType ==
    ASSUME TypeOK, NEW s \in SecretNames, SecretCacheFollows(s),
           secrets' \in [SecretNames -> Opt(Tokens)]
    PROVE  /\ secretSeen' \in [SecretNames -> Opt(Tokens)]
           /\ secretFresh' \in [SecretNames -> BOOLEAN]
BY Zenon, ConstantsAssumption DEF SecretCacheFollows, TypeOK

\* Concluding a reconcile keeps the local state's type.
LEMMA ConcludeType ==
    ASSUME TypeOK, NEW ref \in Opt(SecretNames), NEW ready \in BOOLEAN,
           NEW again \in BOOLEAN, Conclude(ref, ready, again)
    PROVE  loc' \in Locals /\ pc' = "status"
<1> DEFINE next == [loc.next EXCEPT !.ref = ref, !.ready = ready]
<1>1. next \in Statuses
  BY Zenon DEF TypeOK, Locals, Statuses
<1>2. loc' = [loc EXCEPT !.next = next, !.token = None, !.again = again]
  BY DEF Conclude
<1> HIDE DEF next
<1> QED
  BY Zenon, <1>1, <1>2 DEF TypeOK, Locals, Opt, Conclude

\* The database transaction keeps the types of the tables.
LEMMA TransactionType ==
    ASSUME TypeOK, NEW d \in Databases, NEW t \in Tokens, TransactionCommits(d, t)
    PROVE  /\ rows' \in [Databases -> Opt(Rows)]
           /\ members' \in [Databases -> SUBSET Orgs]
           /\ orgs' \in [Databases -> SUBSET Orgs]
<1>1. [token |-> t, live |-> TRUE] \in Opt(Rows)
  BY DEF Rows, Opt
<1> QED
  BY Zenon, <1>1 DEF TransactionCommits, TypeOK

\* Initially the types are right.
LEMMA InitType == Init => TypeOK
<1> SUFFICES ASSUME Init PROVE TypeOK
  OBVIOUS
<1>1. seen \in Objects
  BY NoLocalType, ConstantsAssumption DEF Init, CR, Objects
<1>2. PICK os \in SUBSET Orgs : orgs = [d \in Databases |-> os]
  BY ConstantsAssumption DEF Init
<1> QED
  BY <1>1, <1>2, NoLocalType, ConstantsAssumption DEF Init, TypeOK, Opt, Steps

\* Every step keeps the types.
LEMMA TypeStep == TypeOK /\ [Next]_vars => TypeOK'
<1> SUFFICES ASSUME TypeOK, [Next]_vars PROVE TypeOK'
  OBVIOUS
<1>0. lag' \in BOOLEAN
  BY DEF TypeOK, Next, vars
<1> USE <1>0, NoLocalType, ConstantsAssumption
<1>1. CASE StartReconcile
  <2>1. [seen.status EXCEPT !.gen = seen.gen] \in Statuses
    BY DEF TypeOK, Objects, Statuses
  <2>2. (IF seen.spec.disabled THEN None ELSE secretSeen[seen.spec.secret]) \in Opt(Tokens)
    BY DEF TypeOK, Objects, SpecRecords, Opt
  <2>3. loc' \in Locals
    BY <1>1, <2>1, <2>2 DEF StartReconcile, TypeOK, Objects, Locals
  <2> QED
    BY Zenon, <1>1, <2>3 DEF StartReconcile, TypeOK, Steps, crVars, secretVars, dbVars
<1>2. CASE EnsureToken
  <2>1. PICK t \in Tokens : TransactionCommits(loc.spec.db, t) /\ loc' = [loc EXCEPT !.token = t]
    BY <1>2 DEF EnsureToken
  <2>2. loc.spec.db \in Databases
    BY <1>2 DEF EnsureToken, TypeOK, Locals, SpecRecords, Opt
  <2>3. loc' \in Locals /\ loc'.token = t
    BY <2>1 DEF TypeOK, Locals, Opt
  <2> QED
    BY <1>2, <2>1, <2>2, <2>3, TransactionType
    DEF EnsureToken, TypeOK, Steps, crVars, secretVars
<1>3. CASE EnsureTokenFails
  <2>1. loc' \in Locals /\ pc' = "status"
    BY Zenon, <1>3, ConcludeType DEF EnsureTokenFails, Opt
  <2>2. /\ rows' \in [Databases -> Opt(Rows)]
        /\ members' \in [Databases -> SUBSET Orgs]
        /\ orgs' \in [Databases -> SUBSET Orgs]
    <3>1. CASE UNCHANGED dbVars
      BY <3>1 DEF dbVars, TypeOK
    <3>2. CASE loc.spec.db # None /\ \E t \in Tokens : TransactionCommits(loc.spec.db, t)
      BY <3>2, TransactionType DEF TypeOK, Locals, SpecRecords, Opt
    <3> QED
      BY <1>3, <3>1, <3>2 DEF EnsureTokenFails
  <2>3. disturbances' \in 0 .. MaxDisturbances
    BY <1>3 DEF EnsureTokenFails, Disturb, TypeOK
  <2> QED
    BY <1>3, <2>1, <2>2, <2>3 DEF EnsureTokenFails, TypeOK, Steps, crVars, secretVars
<1>4. CASE WriteTokenSecret
  <2>1. loc.spec.secret \in SecretNames /\ loc.token \in Opt(Tokens)
    BY <1>4 DEF WriteTokenSecret, TypeOK, Locals, SpecRecords
  <2>2. loc' \in Locals /\ pc' = "status"
    BY Zenon, <1>4, <2>1, ConcludeType DEF WriteTokenSecret, Opt, TypeOK
  <2>3. /\ secrets' \in [SecretNames -> Opt(Tokens)]
        /\ secretSeen' \in [SecretNames -> Opt(Tokens)]
        /\ secretFresh' \in [SecretNames -> BOOLEAN]
        /\ queued' \in BOOLEAN
    <3>1. CASE UNCHANGED <<secretVars, queued>>
      BY <3>1 DEF secretVars, TypeOK
    <3>2. CASE /\ secrets' = [secrets EXCEPT ![loc.spec.secret] = loc.token]
               /\ SecretCacheFollows(loc.spec.secret)
               /\ Enqueue(~lag)
      <4>1. secrets' \in [SecretNames -> Opt(Tokens)]
        BY <3>2, <2>1 DEF TypeOK
      <4>2. queued' \in BOOLEAN
        BY <3>2 DEF Enqueue
      <4> QED
        BY <3>2, <4>1, <4>2, <2>1, SecretCacheType
    <3> QED
      BY <1>4, <3>1, <3>2 DEF WriteTokenSecret
  <2> QED
    BY <1>4, <2>2, <2>3 DEF WriteTokenSecret, TypeOK, Steps, crVars, dbVars
<1>5. CASE WriteTokenSecretFails
  <2>1. loc.spec.secret \in SecretNames /\ loc.token \in Opt(Tokens)
    BY DEF TypeOK, Locals, SpecRecords
  <2>2. /\ secrets' \in [SecretNames -> Opt(Tokens)]
        /\ secretSeen' \in [SecretNames -> Opt(Tokens)]
        /\ secretFresh' \in [SecretNames -> BOOLEAN]
    <3>1. CASE UNCHANGED secretVars
      BY <3>1 DEF secretVars, TypeOK
    <3>2. CASE /\ secrets' = [secrets EXCEPT ![loc.spec.secret] = loc.token]
               /\ SecretCacheFollows(loc.spec.secret)
      <4>1. secrets' \in [SecretNames -> Opt(Tokens)]
        BY <3>2, <2>1 DEF TypeOK
      <4> QED
        BY <3>2, <4>1, <2>1, SecretCacheType
    <3> QED
      BY <1>5, <3>1, <3>2 DEF WriteTokenSecretFails
  <2>3. disturbances' \in 0 .. MaxDisturbances
    BY <1>5 DEF WriteTokenSecretFails, Disturb, TypeOK
  <2> QED
    BY <1>5, <2>2, <2>3 DEF WriteTokenSecretFails, Fail, TypeOK, Steps, crVars, dbVars
<1>6. CASE DeleteTokenSecret
  <2>1. loc.spec.secret \in SecretNames
    BY DEF TypeOK, Locals, SpecRecords
  <2>2. /\ secrets' \in [SecretNames -> Opt(Tokens)]
        /\ secretSeen' \in [SecretNames -> Opt(Tokens)]
        /\ secretFresh' \in [SecretNames -> BOOLEAN]
        /\ queued' \in BOOLEAN
    <3>1. CASE UNCHANGED <<secretVars, queued>>
      BY <3>1 DEF secretVars, TypeOK
    <3>2. CASE /\ secrets' = [secrets EXCEPT ![loc.spec.secret] = None]
               /\ SecretCacheFollows(loc.spec.secret)
               /\ Enqueue(~lag)
      <4>1. secrets' \in [SecretNames -> Opt(Tokens)]
        BY Zenon, <3>2 DEF TypeOK, Opt
      <4>2. queued' \in BOOLEAN
        BY <3>2 DEF Enqueue
      <4> QED
        BY <3>2, <4>1, <4>2, <2>1, SecretCacheType
    <3> QED
      BY <1>6, <3>1, <3>2 DEF DeleteTokenSecret
  <2>3. loc' \in Locals /\ pc' \in {"revoke", "status"} /\ disturbances' \in 0 .. MaxDisturbances
    <3>1. CASE /\ pc' = "revoke"
               /\ loc' = [loc EXCEPT !.required =
                             secretSeen[loc.spec.secret] # None \/ loc.base.ref # None]
               /\ UNCHANGED disturbances
      <4>1. (secretSeen[loc.spec.secret] # None \/ loc.base.ref # None) \in BOOLEAN
        OBVIOUS
      <4> QED
        BY Zenon, <3>1, <4>1 DEF TypeOK, Locals
    <3>2. CASE Disturb /\ KeepPending
      <4>1. loc' \in Locals /\ pc' = "status"
        BY Zenon, <3>2, <2>1, ConcludeType DEF KeepPending, Opt
      <4> QED
        BY <3>2, <4>1 DEF Disturb, TypeOK
    <3> QED
      BY <1>6, <3>1, <3>2 DEF DeleteTokenSecret
  <2> QED
    BY <1>6, <2>2, <2>3 DEF DeleteTokenSecret, TypeOK, Steps, crVars, dbVars
<1>7. CASE RevokeToken
  <2>1. loc.spec.secret \in SecretNames
    BY DEF TypeOK, Locals, SpecRecords
  <2>2. loc' \in Locals /\ pc' = "status"
    BY Zenon, <1>7, <2>1, ConcludeType DEF RevokeToken, KeepPending, Opt
  <2>3. rows' \in [Databases -> Opt(Rows)] /\ disturbances' \in 0 .. MaxDisturbances
    <3>1. rows' = rows \/ rows' = [rows EXCEPT ![loc.spec.db] = None]
      BY Zenon, <1>7 DEF RevokeToken
    <3>2. UNCHANGED disturbances \/ Disturb
      BY Zenon, <1>7 DEF RevokeToken
    <3>3. rows' \in [Databases -> Opt(Rows)]
      BY <3>1 DEF TypeOK, Opt
    <3> QED
      BY <3>2, <3>3 DEF Disturb, TypeOK
  <2>4. UNCHANGED <<crVars, secretVars, members, orgs, serving, queued>>
    BY <1>7 DEF RevokeToken
  <2> QED
    BY <2>2, <2>3, <2>4 DEF TypeOK, Steps, crVars, secretVars
<1>8. CASE WriteStatus
  <2>1. status' \in Statuses /\ spec' \in SpecRecords /\ gen' \in Nat
    BY <1>8, PublishType DEF WriteStatus, TypeOK, Locals
  <2>2. seen' \in Objects /\ seenFresh' \in BOOLEAN
    BY <1>8, <2>1, CacheType DEF WriteStatus, TypeOK
  <2>3. queued' \in BOOLEAN
    BY Zenon, <1>8 DEF WriteStatus, Enqueue
  <2> QED
    BY <1>8, <2>1, <2>2, <2>3 DEF WriteStatus, TypeOK, Steps, secretVars, dbVars
<1>9. CASE WriteStatusFails
  <2>1. status' \in Statuses /\ spec' \in SpecRecords /\ gen' \in Nat
    BY <1>9, PublishType DEF WriteStatusFails, TypeOK, Locals, crVars
  <2>2. seen' \in Objects /\ seenFresh' \in BOOLEAN
    BY <1>9, <2>1, CacheType DEF WriteStatusFails, TypeOK, crVars
  <2>3. disturbances' \in 0 .. MaxDisturbances
    BY <1>9 DEF WriteStatusFails, Disturb, TypeOK
  <2> QED
    BY <1>9, <2>1, <2>2, <2>3 DEF WriteStatusFails, Fail, TypeOK, Steps, secretVars, dbVars
<1>10. CASE EditSpec
  <2>1. status' \in Statuses /\ spec' \in SpecRecords /\ gen' \in Nat
    BY <1>10 DEF EditSpec, TypeOK
  <2>2. seen' \in Objects /\ seenFresh' \in BOOLEAN
    BY <1>10, <2>1, CacheType DEF EditSpec
  <2>3. disturbances' \in 0 .. MaxDisturbances /\ queued' \in BOOLEAN
    BY <1>10 DEF EditSpec, Disturb, TypeOK, Enqueue
  <2> QED
    BY <1>10, <2>1, <2>2, <2>3 DEF EditSpec, TypeOK, secretVars, dbVars
<1>11. ASSUME NEW s \in SecretNames, DeleteSecret(s)
       PROVE  TypeOK'
  <2>1. secrets' \in [SecretNames -> Opt(Tokens)]
    BY <1>11 DEF DeleteSecret, TypeOK, Opt
  <2>2. /\ secretSeen' \in [SecretNames -> Opt(Tokens)]
        /\ secretFresh' \in [SecretNames -> BOOLEAN]
    BY <1>11, <2>1, SecretCacheType DEF DeleteSecret
  <2>3. disturbances' \in 0 .. MaxDisturbances /\ queued' \in BOOLEAN
    BY <1>11 DEF DeleteSecret, Disturb, TypeOK, Enqueue
  <2> QED
    BY <1>11, <2>1, <2>2, <2>3 DEF DeleteSecret, TypeOK, crVars, dbVars
<1>12. ASSUME NEW d \in Databases, ExpireToken(d)
       PROVE  TypeOK'
  <2>1. rows[d] \in Rows
    BY <1>12 DEF ExpireToken, TypeOK, Opt
  <2>2. [rows[d] EXCEPT !.live = FALSE] \in Opt(Rows)
    BY Zenon, <2>1 DEF Rows, Opt
  <2>3. rows' = [rows EXCEPT ![d] = [rows[d] EXCEPT !.live = FALSE]]
    BY <1>12 DEF ExpireToken
  <2>4. rows' \in [Databases -> Opt(Rows)]
    BY <2>2, <2>3 DEF TypeOK
  <2>5. disturbances' \in 0 .. MaxDisturbances
    BY <1>12 DEF ExpireToken, Disturb, TypeOK
  <2> QED
    BY <1>12, <2>4, <2>5 DEF ExpireToken, TypeOK, crVars, secretVars
<1>13. ASSUME NEW d \in Databases, NEW o \in Orgs, AddOrganization(d, o)
       PROVE  TypeOK'
  <2>1. orgs' \in [Databases -> SUBSET Orgs]
    BY <1>13 DEF AddOrganization, TypeOK
  <2>2. disturbances' \in 0 .. MaxDisturbances
    BY <1>13 DEF AddOrganization, Disturb, TypeOK
  <2> QED
    BY <1>13, <2>1, <2>2 DEF AddOrganization, TypeOK, crVars, secretVars
<1>14. CASE ServingChanges
  BY <1>14 DEF ServingChanges, Disturb, TypeOK, crVars, secretVars, dbVars
<1>15. CASE SyncObject
  BY <1>15 DEF SyncObject, CR, Objects, TypeOK, secretVars, dbVars
<1>16. ASSUME NEW s \in SecretNames, SyncSecret(s)
       PROVE  TypeOK'
  BY <1>16 DEF SyncSecret, TypeOK, crVars, dbVars
<1>17. CASE Crash
  BY <1>17 DEF Crash, Fail, Disturb, CR, Objects, TypeOK, Steps, dbVars
<1>18. CASE UNCHANGED vars
  BY <1>18 DEF vars, crVars, secretVars, dbVars, TypeOK
<1> QED
  BY <1>1, <1>2, <1>3, <1>4, <1>5, <1>6, <1>7, <1>8, <1>9, <1>10, <1>11, <1>12, <1>13,
     <1>14, <1>15, <1>16, <1>17, <1>18
  DEF Next, Controller, Sync, Environment

\* Types are right in every reachable state.
THEOREM TypeCorrect == Spec => []TypeOK
BY InitType, TypeStep, PTL DEF Spec

-----------------------------------------------------------------------------

\* A step that leaves the object, the reconcile and the databases alone.
LEMMA AccessKept ==
    ASSUME AccessInv, UNCHANGED <<spec, gen, status, seen, pc, loc, rows>>
    PROVE  AccessInv'
BY DEF AccessInv, Generations, FirstWriter, Conclusion, DisabledNotReady,
       ForgottenOnlyWhenRevoked, Observed

\* A reconcile of a spec that is not disabled may write the database: the status
\* does not speak of a disabled spec then.
LEMMA EnabledStep ==
    ASSUME TypeOK, AccessInv, pc \in {"ensure", "writeSecret"},
           pc' \in {"writeSecret", "status"},
           UNCHANGED <<spec, gen, status, seen>>,
           loc'.spec = loc.spec, loc'.base = loc.base, loc'.next.gen = loc.next.gen
    PROVE  AccessInv'
<1>1. ~loc.spec.disabled
  BY DEF AccessInv, Conclusion
<1>2. Observed => loc.next.gen = gen
  BY DEF AccessInv, Generations, Observed, TypeOK, Statuses, Locals, Objects
<1>3. Observed => ~spec.disabled
  BY <1>1, <1>2 DEF AccessInv, Generations
<1>4. Generations' /\ FirstWriter'
  BY DEF AccessInv, Generations, FirstWriter
<1>5. Conclusion'
  BY <1>1 DEF Conclusion
<1>6. DisabledNotReady' /\ ForgottenOnlyWhenRevoked'
  BY <1>3 DEF DisabledNotReady, ForgottenOnlyWhenRevoked, Observed
<1> QED
  BY <1>4, <1>5, <1>6 DEF AccessInv

\* The reconcile ends without writing the status.
LEMMA FailStep ==
    ASSUME AccessInv, Fail, UNCHANGED <<spec, gen, status, seen, rows>>
    PROVE  AccessInv'
BY DEF Fail, AccessInv, Generations, FirstWriter, Conclusion, DisabledNotReady,
       ForgottenOnlyWhenRevoked, Observed

\* Publishing a status: either it is the first of its generation, and then it was
\* computed from the latest one, or an earlier one of the same generation said
\* nothing that would be contradicted.
LEMMA PublishStep ==
    ASSUME TypeOK, AccessInv, pc = "status",
           status' = Publish(loc.base, loc.next, status, gen),
           UNCHANGED <<spec, gen, rows>>,
           seen' = seen \/ (seen' = CR' /\ status' # status),
           pc' = "idle"
    PROVE  AccessInv'
<1> DEFINE b == loc.base
           n == loc.next
<1>1. /\ b \in Statuses /\ n \in Statuses /\ status \in Statuses
      /\ gen \in Nat /\ seen.gen \in Nat /\ n.gen \in Nat /\ status.gen \in Nat
      /\ seen \in Objects
  BY DEF TypeOK, Locals, Objects, Statuses
<1>2. CASE status' = status
  <2>1. seen' = seen
    BY <1>2
  <2> QED
    BY <1>2, <2>1 DEF AccessInv, Generations, FirstWriter, Conclusion, DisabledNotReady,
                      ForgottenOnlyWhenRevoked, Observed
<1>3. CASE status' # status
  <2>1. n.gen = gen /\ status' = MergeStatusDelta(b, n, status)
    BY <1>3 DEF Publish
  <2>2. /\ status'.gen = IF b.gen # n.gen THEN n.gen ELSE status.gen
        /\ status'.ref = IF b.ref # n.ref THEN n.ref ELSE status.ref
        /\ status'.ready = IF b.ready # n.ready THEN n.ready ELSE status.ready
    BY <1>1, <2>1, MergeFields
  <2>3. seen.gen = gen /\ loc.spec = spec /\ seen.spec = spec
    BY <1>1, <2>1 DEF AccessInv, Generations
  <2>4. status.gen < gen => b = status
    BY <2>1 DEF AccessInv, FirstWriter
  <2>5. status'.gen = gen
    BY <1>1, <2>1, <2>2, <2>3, <2>4 DEF AccessInv, Generations
  <2>6. seen'.gen = gen /\ seen'.spec = spec
    BY <2>3 DEF CR
  <2>7. spec.disabled => ~n.ready /\ (n.ref = None /\ spec.db # None => rows[spec.db] = None)
    BY <2>3 DEF AccessInv, Conclusion
  <2>8. Generations' /\ FirstWriter' /\ Conclusion'
    BY <1>1, <2>5, <2>6 DEF Generations, FirstWriter, Conclusion
  <2>9. DisabledNotReady'
    <3>1. CASE status.gen < gen
      BY <3>1, <2>2, <2>4, <2>7 DEF DisabledNotReady
    <3>2. CASE status.gen = gen
      BY <3>2, <2>2, <2>7 DEF DisabledNotReady, AccessInv, Observed
    <3> QED
      BY <3>1, <3>2, <1>1, <2>3 DEF AccessInv, Generations
  <2>10. ForgottenOnlyWhenRevoked'
    <3>1. CASE status.gen < gen
      BY <3>1, <2>2, <2>4, <2>7 DEF ForgottenOnlyWhenRevoked
    <3>2. CASE status.gen = gen
      BY <3>2, <2>2, <2>7 DEF ForgottenOnlyWhenRevoked, AccessInv, Observed
    <3> QED
      BY <3>1, <3>2, <1>1, <2>3 DEF AccessInv, Generations
  <2> QED
    BY <2>8, <2>9, <2>10 DEF AccessInv
<1> QED
  BY <1>2, <1>3

\* Concluding leaves the snapshot alone and sets the two access fields.
LEMMA ConcludeEffect ==
    ASSUME TypeOK, NEW ref \in Opt(SecretNames), NEW ready \in BOOLEAN, NEW again,
           Conclude(ref, ready, again)
    PROVE  /\ pc' = "status"
           /\ loc'.spec = loc.spec
           /\ loc'.base = loc.base
           /\ loc'.next.gen = loc.next.gen
           /\ loc'.next.ref = ref
           /\ loc'.next.ready = ready
BY Zenon DEF Conclude, TypeOK, Locals, Statuses

\* A reconcile of a disabled spec goes on, or concludes what it has done.
LEMMA DisabledStep ==
    ASSUME TypeOK, AccessInv, pc \in {"deleteSecret", "revoke"},
           UNCHANGED <<spec, gen, status, seen>>,
           loc'.spec = loc.spec, loc'.base = loc.base, loc'.next.gen = loc.next.gen,
           rows' = rows \/ rows' = [rows EXCEPT ![loc.spec.db] = None],
           \/ pc' = "revoke"
           \/ /\ pc' = "status"
              /\ ~loc'.next.ready
              /\ loc'.next.ref = None /\ loc.spec.db # None => rows'[loc.spec.db] = None
    PROVE  AccessInv'
<1>1. loc.spec.disabled
  BY DEF AccessInv, Conclusion
<1>2. Generations' /\ FirstWriter'
  BY DEF AccessInv, Generations, FirstWriter
<1>3. Conclusion'
  BY <1>1 DEF Conclusion
<1>4. DisabledNotReady'
  BY DEF AccessInv, DisabledNotReady, Observed
<1>5. ForgottenOnlyWhenRevoked'
  <2>1. \A d \in Databases : rows[d] = None => rows'[d] = None
    BY DEF TypeOK
  <2>2. spec.db # None => spec.db \in Databases
    BY DEF TypeOK, SpecRecords, Opt
  <2> QED
    BY <2>1, <2>2 DEF AccessInv, ForgottenOnlyWhenRevoked, Observed
<1> QED
  BY <1>2, <1>3, <1>4, <1>5 DEF AccessInv

\* Initially the invariant holds.
LEMMA InitAccess == Init => AccessInv
<1> SUFFICES ASSUME Init PROVE AccessInv
  OBVIOUS
<1>1. status.gen = 0 /\ gen = 1 /\ seen.gen = 1 /\ seen.spec = spec /\ seen.status = status
  BY DEF Init, NoStatus, CR
<1> QED
  BY <1>1 DEF Init, AccessInv, Generations, FirstWriter, Conclusion, DisabledNotReady,
              ForgottenOnlyWhenRevoked, Observed

\* Every step keeps the invariant.
LEMMA AccessStep == TypeOK /\ AccessInv /\ [Next]_vars => AccessInv'
<1> SUFFICES ASSUME TypeOK, AccessInv, [Next]_vars PROVE AccessInv'
  OBVIOUS
<1> USE ConstantsAssumption
<1>1. CASE StartReconcile
  <2>1. /\ loc'.spec = seen.spec /\ loc'.base = seen.status /\ loc'.next.gen = seen.gen
        /\ pc' \in {"ensure", "deleteSecret"} /\ (pc' = "deleteSecret" <=> seen.spec.disabled)
    BY <1>1 DEF StartReconcile, TypeOK, Objects, Statuses
  <2>2. UNCHANGED <<spec, gen, status, seen, rows>>
    BY <1>1 DEF StartReconcile, crVars, dbVars
  <2>3. Generations' /\ FirstWriter' /\ Conclusion'
    BY <2>1, <2>2 DEF AccessInv, Generations, FirstWriter, Conclusion, TypeOK, Objects, Statuses
  <2>4. DisabledNotReady' /\ ForgottenOnlyWhenRevoked'
    BY <2>2 DEF AccessInv, DisabledNotReady, ForgottenOnlyWhenRevoked, Observed
  <2> QED
    BY <2>3, <2>4 DEF AccessInv
<1>2. CASE EnsureToken
  <2>1. PICK t \in Tokens : loc' = [loc EXCEPT !.token = t]
    BY <1>2 DEF EnsureToken
  <2>2. loc'.spec = loc.spec /\ loc'.base = loc.base /\ loc'.next.gen = loc.next.gen
    BY <2>1 DEF TypeOK, Locals
  <2> QED
    BY <1>2, <2>2, EnabledStep DEF EnsureToken, crVars
<1>3. CASE EnsureTokenFails
  <2>1. Conclude(None, FALSE, TRUE) /\ None \in Opt(SecretNames)
    BY Zenon, <1>3 DEF EnsureTokenFails, Opt
  <2> QED
    BY Zenon, <1>3, <2>1, ConcludeEffect, EnabledStep DEF EnsureTokenFails, crVars
<1>4. CASE WriteTokenSecret
  <2>1. Conclude(loc.spec.secret, TRUE, serving) /\ loc.spec.secret \in Opt(SecretNames)
    BY Zenon, <1>4 DEF WriteTokenSecret, TypeOK, Locals, SpecRecords, Opt
  <2> QED
    BY Zenon, <1>4, <2>1, ConcludeEffect, EnabledStep DEF WriteTokenSecret, crVars
<1>5. CASE WriteTokenSecretFails
  BY Zenon, <1>5, FailStep DEF WriteTokenSecretFails, crVars, dbVars
<1>6. CASE DeleteTokenSecret
  <2>1. UNCHANGED <<spec, gen, status, seen, rows>> /\ pc = "deleteSecret"
    BY <1>6 DEF DeleteTokenSecret, crVars, dbVars
  <2>2. CASE /\ pc' = "revoke"
             /\ loc' = [loc EXCEPT !.required =
                           secretSeen[loc.spec.secret] # None \/ loc.base.ref # None]
    <3>1. loc'.spec = loc.spec /\ loc'.base = loc.base /\ loc'.next.gen = loc.next.gen
      BY <2>2 DEF TypeOK, Locals
    <3> QED
      BY <2>1, <2>2, <3>1, DisabledStep
  <2>3. CASE KeepPending
    <3>1. loc.spec.secret \in SecretNames /\ loc.spec.secret # None
      BY NoneAssumption DEF TypeOK, Locals, SpecRecords
    <3>2. Conclude(loc.spec.secret, FALSE, TRUE) /\ loc.spec.secret \in Opt(SecretNames)
      BY Zenon, <2>3, <3>1 DEF KeepPending, Opt
    <3> QED
      BY Zenon, <2>1, <3>1, <3>2, ConcludeEffect, DisabledStep
  <2> QED
    BY <1>6, <2>2, <2>3 DEF DeleteTokenSecret
<1>7. CASE RevokeToken
  <2>1. UNCHANGED <<spec, gen, status, seen>> /\ pc = "revoke"
    BY <1>7 DEF RevokeToken, crVars
  <2>2. loc.spec.secret \in SecretNames /\ loc.spec.secret # None
    BY NoneAssumption DEF TypeOK, Locals, SpecRecords
  <2>3. rows' = rows \/ rows' = [rows EXCEPT ![loc.spec.db] = None]
    BY Zenon, <1>7 DEF RevokeToken
  <2>4. CASE KeepPending
    <3>1. Conclude(loc.spec.secret, FALSE, TRUE) /\ loc.spec.secret \in Opt(SecretNames)
      BY Zenon, <2>4, <2>2 DEF KeepPending, Opt
    <3> QED
      BY Zenon, <2>1, <2>2, <2>3, <3>1, ConcludeEffect, DisabledStep
  <2>5. CASE /\ Conclude(None, FALSE, FALSE)
             /\ loc.spec.db = None \/ rows' = [rows EXCEPT ![loc.spec.db] = None]
    <3>1. loc.spec.db # None => rows'[loc.spec.db] = None
      BY <2>5 DEF TypeOK, Locals, SpecRecords, Opt
    <3>2. None \in Opt(SecretNames)
      BY DEF Opt
    <3> QED
      BY Zenon, <2>1, <2>3, <2>5, <3>1, <3>2, ConcludeEffect, DisabledStep
  <2> QED
    BY Zenon, <1>7, <2>4, <2>5 DEF RevokeToken
<1>8. CASE WriteStatus
  <2>1. seen' = seen \/ (seen' = CR' /\ status' # status)
    BY <1>8 DEF WriteStatus, CacheFollows
  <2> QED
    BY <1>8, <2>1, PublishStep DEF WriteStatus, dbVars
<1>9. CASE WriteStatusFails
  <2>1. CASE UNCHANGED crVars
    BY <1>9, <2>1, FailStep DEF WriteStatusFails, crVars, dbVars
  <2>2. CASE ~UNCHANGED crVars
    <3>1. seen' = seen \/ (seen' = CR' /\ status' # status)
      BY <1>9, <2>2 DEF WriteStatusFails, CacheFollows
    <3> QED
      BY <1>9, <2>2, <3>1, PublishStep DEF WriteStatusFails, Fail, dbVars
  <2> QED
    BY <2>1, <2>2
<1>10. CASE EditSpec
  <2>1. /\ gen' = gen + 1 /\ status' = status /\ UNCHANGED <<pc, loc, rows>>
        /\ gen \in Nat /\ status.gen \in Nat /\ seen.gen \in Nat
        /\ loc.next.gen \in Nat
    BY <1>10 DEF EditSpec, TypeOK, Statuses, Objects, Locals, dbVars
  <2>2. seen' = seen \/ seen' = CR'
    BY <1>10 DEF EditSpec, CacheFollows
  <2>3. status'.gen < gen'
    BY <2>1 DEF AccessInv, Generations
  <2>4. seen'.gen = gen' => seen'.spec = spec' /\ seen'.status = status'
    BY <2>1, <2>2 DEF CR, AccessInv, Generations
  <2>5. pc # "idle" => loc.next.gen < gen'
    BY <2>1 DEF AccessInv, Generations
  <2>6. seen'.gen \in Nat /\ seen.gen <= seen'.gen /\ seen'.gen <= gen'
    BY <2>1, <2>2 DEF CR, AccessInv, Generations
  <2>7. Generations'
    <3>1. status'.gen <= seen'.gen /\ (pc # "idle" => loc.next.gen <= seen'.gen)
      BY <2>1, <2>6 DEF AccessInv, Generations
    <3>2. pc # "idle" => status.gen <= loc.next.gen /\ loc.next.gen # gen'
      BY <2>1, <2>5 DEF AccessInv, Generations
    <3> QED
      BY <2>1, <2>4, <2>6, <3>1, <3>2 DEF Generations
  <2>8. FirstWriter' /\ Conclusion'
    BY <2>1, <2>4, <2>5 DEF AccessInv, FirstWriter, Conclusion
  <2>9. DisabledNotReady' /\ ForgottenOnlyWhenRevoked'
    BY <2>1, <2>3 DEF DisabledNotReady, ForgottenOnlyWhenRevoked, Observed
  <2> QED
    BY <2>7, <2>8, <2>9 DEF AccessInv
<1>11. ASSUME NEW s \in SecretNames, DeleteSecret(s) \/ SyncSecret(s)
       PROVE  AccessInv'
  BY <1>11, AccessKept DEF DeleteSecret, SyncSecret, crVars, dbVars
<1>12. ASSUME NEW d \in Databases, ExpireToken(d)
       PROVE  AccessInv'
  <2>1. UNCHANGED <<spec, gen, status, seen, pc, loc>>
    BY <1>12 DEF ExpireToken, crVars
  <2>2. \A e \in Databases : rows[e] = None => rows'[e] = None
    <3>1. rows' = [rows EXCEPT ![d] = [rows[d] EXCEPT !.live = FALSE]] /\ rows[d] # None
      BY <1>12 DEF ExpireToken
    <3> QED
      BY <3>1 DEF TypeOK
  <2>3. \A sp \in SpecRecords : sp.db # None => sp.db \in Databases
    BY DEF SpecRecords, Opt
  <2>4. spec \in SpecRecords /\ loc.spec \in SpecRecords
    BY DEF TypeOK, Locals
  <2>5. Generations' /\ FirstWriter' /\ DisabledNotReady'
    BY <2>1 DEF AccessInv, Generations, FirstWriter, DisabledNotReady, Observed
  <2>6. Conclusion'
    BY <2>1, <2>2, <2>3, <2>4 DEF AccessInv, Conclusion
  <2>7. ForgottenOnlyWhenRevoked'
    BY <2>1, <2>2, <2>3, <2>4 DEF AccessInv, ForgottenOnlyWhenRevoked, Observed
  <2> QED
    BY <2>5, <2>6, <2>7 DEF AccessInv
<1>13. ASSUME NEW d \in Databases, NEW o \in Orgs, AddOrganization(d, o)
       PROVE  AccessInv'
  BY <1>13, AccessKept DEF AddOrganization, crVars
<1>14. CASE ServingChanges
  BY <1>14, AccessKept DEF ServingChanges, crVars, dbVars
<1>15. CASE SyncObject \/ Crash
  <2>1. UNCHANGED <<spec, gen, status, rows>> /\ seen' = CR
    BY <1>15 DEF SyncObject, Crash, dbVars
  <2>2. (pc' = pc /\ loc' = loc) \/ pc' = "idle"
    BY <1>15 DEF SyncObject, Crash, Fail
  <2>3. seen'.gen = gen /\ seen'.spec = spec /\ seen'.status = status
    BY <2>1 DEF CR
  <2>4. gen \in Nat /\ status.gen \in Nat /\ seen.gen \in Nat /\ loc.next.gen \in Nat
    BY DEF TypeOK, Statuses, Objects, Locals
  <2>5. Generations'
    BY <2>1, <2>2, <2>3, <2>4 DEF AccessInv, Generations
  <2>6. FirstWriter' /\ Conclusion'
    BY <2>1, <2>2, <2>3 DEF AccessInv, FirstWriter, Conclusion
  <2>7. DisabledNotReady' /\ ForgottenOnlyWhenRevoked'
    BY <2>1 DEF AccessInv, DisabledNotReady, ForgottenOnlyWhenRevoked, Observed
  <2> QED
    BY <2>5, <2>6, <2>7 DEF AccessInv
<1>16. CASE UNCHANGED vars
  BY <1>16, AccessKept DEF vars, crVars, dbVars
<1> QED
  BY <1>1, <1>2, <1>3, <1>4, <1>5, <1>6, <1>7, <1>8, <1>9, <1>10, <1>11, <1>12, <1>13,
     <1>14, <1>15, <1>16
  DEF Next, Controller, Sync, Environment

\* The facts about generations, statuses and conclusions hold in every reachable
\* state.
THEOREM AccessInvariant == Spec => []AccessInv
<1>1. Init => TypeOK /\ AccessInv
  BY InitType, InitAccess
<1>2. TypeOK /\ AccessInv /\ [Next]_vars => (TypeOK /\ AccessInv)'
  BY TypeStep, AccessStep
<1> QED
  BY <1>1, <1>2, PTL DEF Spec

\* Access that is disabled is never announced: for any edits, any number of crashes,
\* failed calls and stale reads, although reconcileStatus merges what it computed
\* from an old copy into the latest status.
THEOREM NeverAnnouncedWhenDisabled == Spec => []DisabledNotReady
<1>1. AccessInv => DisabledNotReady
  BY DEF AccessInv
<1> QED
  BY <1>1, AccessInvariant, PTL

\* The reference to the token Secret goes only when the token has been revoked, so a
\* cleanup that failed is never forgotten.
THEOREM CleanupNotForgotten == Spec => []ForgottenOnlyWhenRevoked
<1>1. AccessInv => ForgottenOnlyWhenRevoked
  BY DEF AccessInv
<1> QED
  BY <1>1, AccessInvariant, PTL

-----------------------------------------------------------------------------
(* Service.                                                                  *)

\* How the object and its cached copy change.
LEMMA ObjectEffect ==
    ASSUME [Next]_vars
    PROVE  \/ UNCHANGED <<spec, gen, status, seen>>
           \/ CacheFollows
           \/ UNCHANGED <<spec, gen, status>> /\ seen' = CR
<1>1. CASE WriteStatus \/ WriteStatusFails \/ EditSpec
  BY Zenon, <1>1 DEF WriteStatus, WriteStatusFails, EditSpec, crVars
<1>2. CASE SyncObject \/ Crash
  BY Zenon, <1>2 DEF SyncObject, Crash
<1>3. CASE UNCHANGED crVars
  BY Zenon, <1>3 DEF crVars
<1> QED
  BY Zenon, <1>1, <1>2, <1>3
  DEF Next, Controller, Sync, Environment, vars, StartReconcile, EnsureToken,
      EnsureTokenFails, WriteTokenSecret, WriteTokenSecretFails, DeleteTokenSecret,
      RevokeToken, DeleteSecret, ExpireToken, AddOrganization, ServingChanges, SyncSecret

\* How the Secrets and their cached copies change: the worker writes its token, and
\* worker and users delete.
LEMMA SecretEffect ==
    ASSUME TypeOK, [Next]_vars
    PROVE  \/ UNCHANGED <<secrets, secretSeen>>
           \/ \E s \in SecretNames, x \in {None, loc.token} :
                 /\ x # None => pc = "writeSecret" /\ pc' # pc
                 /\ secrets' = [secrets EXCEPT ![s] = x]
                 /\ SecretCacheFollows(s)
           \/ UNCHANGED secrets /\ secretSeen' = secrets
           \/ UNCHANGED secrets /\ \E s \in SecretNames :
                 secretSeen' = [secretSeen EXCEPT ![s] = secrets[s]]
<1>1. loc.spec.secret \in SecretNames
  BY DEF TypeOK, Locals, SpecRecords
<1>2. CASE WriteTokenSecret
  <2>1. pc = "writeSecret" /\ pc' # pc
    BY <1>2 DEF WriteTokenSecret, Conclude
  <2> QED
    BY Zenon, <1>1, <1>2, <2>1 DEF WriteTokenSecret, secretVars
<1>3. CASE WriteTokenSecretFails
  <2>1. pc = "writeSecret" /\ pc' # pc
    BY <1>3 DEF WriteTokenSecretFails, Fail
  <2> QED
    BY Zenon, <1>1, <1>3, <2>1 DEF WriteTokenSecretFails, secretVars
<1>4. CASE DeleteTokenSecret
  BY Zenon, <1>1, <1>4 DEF DeleteTokenSecret, secretVars
<1>5. ASSUME NEW s \in SecretNames, DeleteSecret(s) \/ SyncSecret(s)
      PROVE  \/ /\ secrets' = [secrets EXCEPT ![s] = None]
                /\ SecretCacheFollows(s)
             \/ UNCHANGED secrets /\ secretSeen' = [secretSeen EXCEPT ![s] = secrets[s]]
  BY Zenon, <1>5 DEF DeleteSecret, SyncSecret
<1>6. CASE Crash
  BY Zenon, <1>6 DEF Crash
<1>7. CASE UNCHANGED secretVars
  BY Zenon, <1>7 DEF secretVars
<1> QED
  BY Zenon, <1>2, <1>3, <1>4, <1>5, <1>6, <1>7
  DEF Next, Controller, Sync, Environment, vars, StartReconcile, EnsureToken,
      EnsureTokenFails, RevokeToken, WriteStatus, WriteStatusFails, EditSpec,
      ExpireToken, AddOrganization, ServingChanges, SyncObject

\* Caches that do not lag agree after every step.
LEMMA CachesAgreeStep ==
    ASSUME TypeOK, CachesAgree, [Next]_vars
    PROVE  CachesAgree'
<1> SUFFICES ASSUME ~lag' PROVE seen' = CR' /\ secretSeen' = secrets'
  BY DEF CachesAgree
<1>1. ~lag /\ seen = CR /\ secretSeen = secrets
  BY DEF Next, vars, CachesAgree
<1>2. seen' = CR'
  BY Zenon, <1>1, ObjectEffect DEF CacheFollows, CR
<1>3. secretSeen' = secrets'
  <2>1. ASSUME NEW s \in SecretNames, NEW x \in {None, loc.token},
               secrets' = [secrets EXCEPT ![s] = x], SecretCacheFollows(s)
        PROVE  secretSeen' = secrets'
    BY Zenon, <1>1, <2>1 DEF SecretCacheFollows, TypeOK
  <2>2. ASSUME NEW s \in SecretNames, UNCHANGED secrets,
               secretSeen' = [secretSeen EXCEPT ![s] = secrets[s]]
        PROVE  secretSeen' = secrets'
    BY Zenon, <1>1, <2>2 DEF TypeOK
  <2> QED
    BY Zenon, <1>1, <2>1, <2>2, SecretEffect
<1> QED
  BY <1>2, <1>3

\* How the worker moves: it starts, it obtains a token, it concludes, it stops.
LEMMA WorkerEffect ==
    ASSUME [Next]_vars
    PROVE  \/ UNCHANGED <<pc, loc>>
           \/ StartReconcile
           \/ EnsureToken
           \/ pc' = "revoke"
           \/ \E again \in {TRUE, FALSE, serving} :
                 \/ Conclude(loc.spec.secret, TRUE, again)
                 \/ Conclude(loc.spec.secret, FALSE, again)
                 \/ Conclude(None, FALSE, again)
           \/ pc' = "idle"
BY Zenon DEF Next, Controller, Sync, Environment, vars, EnsureTokenFails, WriteTokenSecret,
   WriteTokenSecretFails, DeleteTokenSecret, KeepPending, RevokeToken, WriteStatus,
   WriteStatusFails, Fail, EditSpec, DeleteSecret, ExpireToken, AddOrganization,
   ServingChanges, SyncObject, SyncSecret, Crash

\* Rows change under the worker's feet only by expiring.
LEMMA RowsEffect ==
    ASSUME TypeOK, [Next]_vars, UNCHANGED pc, pc = "writeSecret"
    PROVE  \A d \in Databases : rows'[d].token = rows[d].token
<1>1. CASE UNCHANGED rows
  BY Zenon, <1>1
<1>2. ASSUME NEW d \in Databases, ExpireToken(d)
      PROVE  \A e \in Databases : rows'[e].token = rows[e].token
  <2>1. rows' = [rows EXCEPT ![d] = [rows[d] EXCEPT !.live = FALSE]] /\ rows[d] # None
    BY <1>2 DEF ExpireToken
  <2>2. rows[d] \in Rows
    BY <2>1 DEF TypeOK, Opt
  <2>3. rows'[d] = [rows[d] EXCEPT !.live = FALSE]
    BY Zenon, <2>1 DEF TypeOK
  <2>4. rows'[d].token = rows[d].token
    BY <2>2, <2>3 DEF Rows
  <2>5. \A e \in Databases : e # d => rows'[e] = rows[e]
    BY Zenon, <2>1 DEF TypeOK
  <2> QED
    BY Zenon, <2>4, <2>5
<1>3. UNCHANGED rows \/ \E d \in Databases : ExpireToken(d)
  BY Zenon DEF Next, Controller, Sync, Environment, vars, dbVars, StartReconcile, EnsureToken,
     EnsureTokenFails, WriteTokenSecret, WriteTokenSecretFails, DeleteTokenSecret,
     RevokeToken, WriteStatus, WriteStatusFails, EditSpec, DeleteSecret, AddOrganization,
     ServingChanges, SyncObject, SyncSecret, Crash
<1> QED
  BY Zenon, <1>1, <1>2, <1>3

\* What the worker carries stays what the Secret, the database and the status hold.
LEMMA HandoverStep ==
    ASSUME TypeOK, CachesAgree, Handover, [Next]_vars
    PROVE  Handover'
<1>1. CASE UNCHANGED <<pc, loc>>
  <2>1. loc.spec \in SpecRecords /\ loc.spec.secret \in SecretNames
    BY DEF TypeOK, Locals, SpecRecords
  <2>2. ASSUME ~lag', pc = "ensure"
        PROVE  secrets'[loc.spec.secret] \in {None, loc.token}
    <3>1. secrets[loc.spec.secret] \in {None, loc.token}
      BY <2>2 DEF Next, vars, Handover
    <3>2. ASSUME NEW s \in SecretNames, NEW x \in {None, loc.token},
                 secrets' = [secrets EXCEPT ![s] = x], x # None => pc = "writeSecret"
          PROVE  secrets'[loc.spec.secret] \in {None, loc.token}
      BY Zenon, <2>1, <3>1, <3>2 DEF TypeOK
    <3> QED
      BY Zenon, <3>1, <3>2, SecretEffect
  <2>3. ASSUME pc = "writeSecret"
        PROVE  loc.spec.db # None /\ rows'[loc.spec.db].token = loc.token
    <3>1. loc.spec.db # None /\ rows[loc.spec.db].token = loc.token
      BY Zenon, <2>3 DEF Handover
    <3>2. loc.spec.db \in Databases
      BY <2>1, <3>1 DEF SpecRecords, Opt
    <3> QED
      BY Zenon, <1>1, <2>3, <3>1, <3>2, RowsEffect
  <2> QED
    BY Zenon, <1>1, <2>2, <2>3 DEF Handover
<1>2. CASE StartReconcile
  <2>1. /\ pc' \in {"ensure", "deleteSecret"}
        /\ pc' = "ensure" => ~seen.spec.disabled
        /\ loc'.spec = seen.spec /\ secrets' = secrets
        /\ loc'.token = IF seen.spec.disabled THEN None ELSE secretSeen[seen.spec.secret]
    BY <1>2 DEF StartReconcile, secretVars
  <2>2. ~lag' => secretSeen = secrets
    BY DEF Next, vars, CachesAgree
  <2> QED
    BY <2>1, <2>2 DEF Handover
<1>3. CASE EnsureToken
  <2>1. PICK t \in Tokens : TransactionCommits(loc.spec.db, t) /\ loc' = [loc EXCEPT !.token = t]
    BY Zenon, <1>3 DEF EnsureToken
  <2>2. loc.spec.db # None /\ loc.spec.db \in Databases /\ pc' = "writeSecret"
    BY <1>3 DEF EnsureToken, TypeOK, Locals, SpecRecords, Opt
  <2>3. loc'.spec = loc.spec /\ loc'.token = t
    BY Zenon, <2>1 DEF TypeOK, Locals
  <2>4. rows'[loc.spec.db].token = t
    <3>1. CASE StillValid(loc.spec.db, loc.token)
      BY <2>1, <3>1 DEF TransactionCommits, StillValid
    <3>2. CASE ~StillValid(loc.spec.db, loc.token)
      <4>1. rows' = [rows EXCEPT ![loc.spec.db] = [token |-> t, live |-> TRUE]]
        BY Zenon, <2>1, <3>2 DEF TransactionCommits
      <4> QED
        BY Zenon, <2>2, <4>1 DEF TypeOK
    <3> QED
      BY <3>1, <3>2
  <2> QED
    BY <2>2, <2>3, <2>4 DEF Handover
<1>4. ASSUME NEW again, NEW ready \in BOOLEAN, NEW ref \in Opt(SecretNames),
             ready => ref = loc.spec.secret, Conclude(ref, ready, again)
      PROVE  Handover'
  BY Zenon, <1>4, ConcludeEffect DEF Handover
<1>5. CASE pc' = "revoke" \/ pc' = "idle"
  BY <1>5 DEF Handover
<1>6. loc.spec.secret \in Opt(SecretNames) /\ None \in Opt(SecretNames)
  BY DEF TypeOK, Locals, SpecRecords, Opt
<1>7. ASSUME NEW again,
             \/ Conclude(loc.spec.secret, TRUE, again)
             \/ Conclude(loc.spec.secret, FALSE, again)
             \/ Conclude(None, FALSE, again)
      PROVE  Handover'
  <2>1. TRUE \in BOOLEAN /\ FALSE \in BOOLEAN
    OBVIOUS
  <2> QED
    BY Zenon, <1>4, <1>6, <1>7, <2>1
<1> QED
  BY Zenon, <1>1, <1>2, <1>3, <1>5, <1>7, WorkerEffect

\* Initially the whole invariant holds.
LEMMA InitService == Init => ServiceInv
<1>1. Init => CachesAgree
  BY Zenon DEF Init, CachesAgree
<1>2. Init => Handover
  BY DEF Init, Handover
<1> QED
  BY Zenon, <1>1, <1>2, InitType, InitAccess DEF ServiceInv

\* Every step keeps it.
LEMMA ServiceStep == ServiceInv /\ [Next]_vars => ServiceInv'
BY Zenon, TypeStep, AccessStep, CachesAgreeStep, HandoverStep DEF ServiceInv

\* It holds in every reachable state: what the worker carries from the database to the
\* Secret and the status is what each of them holds.
THEOREM ServiceInvariant == Spec => []ServiceInv
BY InitService, ServiceStep, PTL DEF Spec

\* With no other contender in the namespace the provider chooses ours if it is
\* eligible, and nobody otherwise.
LEMMA OursOrNobody ==
    ASSUME SoleInNamespace, NEW ours, ours.ns = Namespace
    PROVE  LET found == {cp \in Neighbours \cup {ours} : Eligible(cp) /\ cp.ns = Namespace}
           IN  /\ Eligible(ours) => Cardinality(found) = 1 /\ (CHOOSE cp \in found : TRUE) = ours
               /\ ~Eligible(ours) => Cardinality(found) # 1
<1> DEFINE found == {cp \in Neighbours \cup {ours} : Eligible(cp) /\ cp.ns = Namespace}
<1>1. ASSUME Eligible(ours)
      PROVE  Cardinality(found) = 1 /\ (CHOOSE cp \in found : TRUE) = ours
  <2>1. found = {ours}
    BY Zenon, <1>1 DEF SoleInNamespace
  <2>2. (CHOOSE cp \in found : TRUE) = ours
    BY <2>1
  <2> QED
    BY Zenon, <2>1, <2>2, FS_Singleton
<1>2. ASSUME ~Eligible(ours)
      PROVE  Cardinality(found) # 1
  <2>1. found = {}
    BY Zenon, <1>2 DEF SoleInNamespace
  <2>2. Cardinality(found) = 0
    BY Zenon, <2>1, FS_EmptySet
  <2> QED
    BY <2>2
<1> QED
  BY <1>1, <1>2

\* A client works exactly because status, Secret and database agree on the token.
Served ==
    /\ ~spec.disabled
    /\ status.ready
    /\ status.ref = spec.secret
    /\ status.gen # 0
    /\ spec.db # None
    /\ secrets[spec.secret] # None
    /\ StillValid(spec.db, secrets[spec.secret])

\* A client that works is ours, by the token in our Secret.
LEMMA WorksOnlyIfServed ==
    ASSUME SoleInNamespace, seen = CR, status.ref = spec.secret, ClientWorks
    PROVE  Served
<1>1. Ours.ns = Namespace
  BY DEF Ours
<1>2. Eligible(Ours) /\ ClientForNamespace(Namespace) = secrets[Ours.ref]
  BY Zenon, <1>1, OursOrNobody DEF ClientWorks, ClientForNamespace, EligibleIn, ControlPlanes
<1>3. /\ Ours.disabled = spec.disabled /\ Ours.ready = status.ready
      /\ Ours.ref = status.ref /\ Ours.url = (status.gen # 0)
  BY Zenon DEF Ours, CR
<1> QED
  BY Zenon, <1>2, <1>3 DEF ClientWorks, Served, Eligible

\* When they agree, and the cache holds the status, a client works.
LEMMA ServedSoWorks ==
    ASSUME SoleInNamespace, seen' = CR', spec' \in SpecRecords, Served'
    PROVE  ClientWorks'
<1>1. Ours'.ns = Namespace
  BY Zenon DEF Ours
<1>2. /\ Ours'.disabled = spec'.disabled /\ Ours'.ready = status'.ready
      /\ Ours'.ref = status'.ref /\ Ours'.url = (status'.gen # 0) /\ Ours'.dotted = FALSE
  BY DEF Ours, CR
<1>3. status'.ref # None
  BY NoneAssumption DEF Served, SpecRecords
<1>4. Eligible(Ours')
  BY Zenon, <1>2, <1>3 DEF Served, Eligible
<1>5. ClientForNamespace(Namespace)' = secrets'[Ours'.ref]
  BY Zenon, <1>1, <1>4, OursOrNobody DEF ClientForNamespace, EligibleIn, ControlPlanes
<1> QED
  BY Zenon, <1>2, <1>5 DEF ClientWorks, Served, StillValid

\* A step of an undisturbed reconcile of the current spec keeps the agreement: the
\* token is found valid and not rotated, the Secret already holds it, and the status
\* that is merged says what the object says already.
LEMMA ServedStep ==
    ASSUME ServiceInv, ~lag, Controller, UNCHANGED disturbances,
           pc # "idle" => loc.spec = spec, pc = "status" => loc.next.ready, Served
    PROVE  Served'
<1>1. TypeOK /\ AccessInv /\ Handover /\ seen = CR /\ secretSeen = secrets
  BY Zenon DEF ServiceInv, CachesAgree
<1>2. ~Disturb
  BY <1>1 DEF Disturb, TypeOK
<1>3. spec.secret \in SecretNames /\ spec.db \in Databases
  BY Zenon, <1>1 DEF TypeOK, SpecRecords, Opt, Served
<1>4. ASSUME UNCHANGED <<spec, status, secrets, rows>>
      PROVE  Served'
  BY Zenon, <1>4 DEF Served, StillValid
<1>5. CASE StartReconcile
  BY Zenon, <1>4, <1>5 DEF StartReconcile, crVars, secretVars, dbVars
<1>6. CASE EnsureToken
  <2>1. pc = "ensure" /\ pc # "idle"
    BY <1>6 DEF EnsureToken
  <2>2. loc.spec = spec /\ loc.token = secrets[spec.secret]
    BY Zenon, <1>1, <2>1 DEF Handover, Served
  <2>3. UNCHANGED rows
    BY Zenon, <1>6, <2>2 DEF EnsureToken, TransactionCommits, Served
  <2> QED
    BY Zenon, <1>4, <1>6, <2>3 DEF EnsureToken, crVars, secretVars
<1>7. CASE EnsureTokenFails
  <2>1. loc.spec = spec
    BY <1>7 DEF EnsureTokenFails
  <2> QED
    BY Zenon, <1>2, <1>7, <2>1 DEF EnsureTokenFails, Served
<1>8. CASE WriteTokenSecret \/ WriteTokenSecretFails
  <2>1. pc = "writeSecret" /\ pc # "idle"
    BY Zenon, <1>8 DEF WriteTokenSecret, WriteTokenSecretFails
  <2>2. loc.spec = spec /\ rows[spec.db].token = loc.token
    BY Zenon, <1>1, <2>1 DEF Handover
  <2>3. rows[spec.db].token = secrets[spec.secret]
    BY DEF Served, StillValid
  <2>4. secretSeen[loc.spec.secret] = loc.token
    BY Zenon, <1>1, <2>2, <2>3
  <2> QED
    BY Zenon, <1>4, <1>8, <2>4
    DEF WriteTokenSecret, WriteTokenSecretFails, crVars, secretVars, dbVars
<1>9. CASE DeleteTokenSecret \/ RevokeToken
  <2>1. pc \in {"deleteSecret", "revoke"} /\ pc # "idle"
    BY Zenon, <1>9 DEF DeleteTokenSecret, RevokeToken
  <2> QED
    BY Zenon, <1>1, <2>1 DEF AccessInv, Conclusion, Served
<1>10. CASE WriteStatus
  <2>1. pc = "status" /\ pc # "idle"
    BY <1>10 DEF WriteStatus
  <2>2. loc.spec = spec /\ loc.next.ready /\ loc.next.ref = spec.secret
    BY Zenon, <1>1, <2>1 DEF Handover
  <2>3. /\ status' = Publish(loc.base, loc.next, status, gen)
        /\ UNCHANGED <<spec, secrets, rows>>
    BY Zenon, <1>10 DEF WriteStatus, secretVars, dbVars
  <2>4. CASE status' = status
    BY Zenon, <1>4, <2>3, <2>4
  <2>5. CASE status' # status
    <3>1. loc.base \in Statuses /\ loc.next \in Statuses /\ status \in Statuses
      BY <1>1 DEF TypeOK, Locals
    <3>2. status' = MergeStatusDelta(loc.base, loc.next, status)
      BY Zenon, <2>3, <2>5 DEF Publish
    <3>3. /\ status'.gen = IF loc.base.gen # loc.next.gen THEN loc.next.gen ELSE status.gen
          /\ status'.ref = IF loc.base.ref # loc.next.ref THEN loc.next.ref ELSE status.ref
          /\ status'.ready =
                 IF loc.base.ready # loc.next.ready THEN loc.next.ready ELSE status.ready
      BY <3>1, <3>2, MergeFields
    <3>4. loc.next.gen # 0
      <4>1. status.gen <= loc.next.gen
        BY Zenon, <1>1, <2>1 DEF AccessInv, Generations
      <4> QED
        BY <3>1, <4>1 DEF Statuses, Served
    <3>5. status'.ready /\ status'.ref = spec.secret /\ status'.gen # 0
      BY Zenon, <2>2, <3>3, <3>4 DEF Served
    <3> QED
      BY Zenon, <2>3, <3>5 DEF Served, StillValid
  <2> QED
    BY <2>4, <2>5
<1>11. CASE WriteStatusFails
  BY Zenon, <1>2, <1>11 DEF WriteStatusFails
<1> QED
  BY Zenon, <1>5, <1>6, <1>7, <1>8, <1>9, <1>10, <1>11 DEF Controller

\* The periodic reconcile does not interrupt service, for any edits, faults and
\* databases, where the control plane is the only one in its namespace that takes
\* part: ensureOperatorToken leaves a valid token alone, ensureOperatorTokenSecret
\* has nothing to write, and reconcileStatus keeps what the provider looks at.
THEOREM ServiceNotInterrupted ==
    ASSUME SoleInNamespace
    PROVE  Spec => NoInterruption
<1> DEFINE Undisturbed == /\ ~lag
                          /\ Controller
                          /\ UNCHANGED disturbances
                          /\ pc # "idle" => loc.spec = spec
                          /\ pc = "status" => loc.next.ready
                          /\ status.ref = spec.secret
                          /\ ClientWorks
<1>1. ServiceInv /\ [Next]_vars => [Undisturbed => ClientWorks']_vars
  <2> SUFFICES ASSUME ServiceInv, Next, Undisturbed PROVE ClientWorks'
    BY Zenon
  <2>1. seen = CR
    BY Zenon DEF ServiceInv, CachesAgree
  <2>2. Served
    BY Zenon, <2>1, WorksOnlyIfServed
  <2>3. Served'
    BY Zenon, <2>2, ServedStep
  <2>4. ServiceInv'
    BY Zenon, ServiceStep
  <2>5. seen' = CR'
    BY Zenon, <2>4 DEF ServiceInv, CachesAgree, Next
  <2>6. spec' \in SpecRecords
    BY Zenon, <2>4 DEF ServiceInv, TypeOK
  <2> QED
    BY Zenon, <2>3, <2>5, <2>6, ServedSoWorks
<1> HIDE DEF Undisturbed
<1>2. Spec => [][Undisturbed => ClientWorks']_vars
  BY <1>1, ServiceInvariant, PTL DEF Spec
<1> QED
  BY <1>2 DEF Undisturbed, NoInterruption

=============================================================================
