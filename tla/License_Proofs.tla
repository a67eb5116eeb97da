--------------------------- MODULE License_Proofs ---------------------------
(***************************************************************************)
(* Type correctness of License, and its two safety properties for any        *)
(* Secrets and licenses and any number of disturbances.                      *)
(***************************************************************************)
EXTENDS License, TLAPS

-----------------------------------------------------------------------------
(* Statuses and the local state of a reconcile.                              *)

\* Merging statuses field by field.
LEMMA MergeFields ==
    ASSUME NEW b \in Statuses, NEW n \in Statuses, NEW l \in Statuses
    PROVE  MergeStatusDelta(b, n, l) =
               [gen  |-> IF b.gen # n.gen THEN n.gen ELSE l.gen,
                hash |-> IF b.hash # n.hash THEN n.hash ELSE l.hash,
                cond |-> IF b.cond # n.cond THEN n.cond ELSE l.cond,
                tier |-> IF b.tier # n.tier THEN n.tier ELSE l.tier]
<1>1. DOMAIN l = {"gen", "hash", "cond", "tier"}
  BY DEF Statuses
<1> QED
  BY <1>1 DEF MergeStatusDelta, Statuses

\* What reconcileStatus leaves in the object is a status.
LEMMA PublishType ==
    ASSUME NEW b \in Statuses, NEW n \in Statuses, NEW l \in Statuses, NEW g
    PROVE  Publish(b, n, l, g) \in Statuses
<1>1. /\ (IF b.gen # n.gen THEN n.gen ELSE l.gen) \in Nat
      /\ (IF b.hash # n.hash THEN n.hash ELSE l.hash) \in Opt(Licenses)
      /\ (IF b.cond # n.cond THEN n.cond ELSE l.cond) \in Conditions
      /\ (IF b.tier # n.tier THEN n.tier ELSE l.tier) \in Tiers
  BY DEF Statuses
<1>2. PICK g1 \in Nat, h1 \in Opt(Licenses), c1 \in Conditions, t1 \in Tiers :
         MergeStatusDelta(b, n, l) = [gen |-> g1, hash |-> h1, cond |-> c1, tier |-> t1]
  BY <1>1, MergeFields
<1>3. MergeStatusDelta(b, n, l) \in Statuses
  BY <1>2 DEF Statuses
<1> QED
  BY <1>3 DEF Publish

\* The empty status and the empty local state have their types.
LEMMA NoLocalType == NoStatus \in Statuses /\ NoLocal \in Locals
<1>1. NoStatus \in Statuses
  BY DEF NoStatus, Statuses, Conditions, Reasons, Tiers, Opt
<1> QED
  BY <1>1 DEF NoLocal, Locals, Opt, Gates

\* A condition replaced in a status.
LEMMA WithReasonFields ==
    ASSUME NEW st \in Statuses, NEW r \in Reasons
    PROVE  /\ WithReason(st, r) \in Statuses
           /\ WithReason(st, r).gen = st.gen
           /\ WithReason(st, r).hash = st.hash
           /\ WithReason(st, r).cond.reason = r
           /\ WithReason(st, r).cond.gen = st.gen
<1> DEFINE c == [reason |-> r, gen |-> st.gen]
<1>1. c \in Conditions
  BY DEF Conditions, Statuses
<1>2. c.reason = r /\ c.gen = st.gen
  OBVIOUS
<1>3. WithReason(st, r) = [st EXCEPT !.cond = c]
  BY DEF WithReason
<1> HIDE DEF c
<1> QED
  BY <1>1, <1>2, <1>3 DEF Statuses

\* The conclusion of reconcileLicense leaves what was read, and the license that was
\* recorded.
LEMMA ConcludedFields ==
    ASSUME NEW l \in Locals, NEW r \in Reasons
    PROVE  /\ Concluded(l, r) \in Locals
           /\ Concluded(l, r).base = l.base
           /\ Concluded(l, r).next.gen = l.next.gen
           /\ Concluded(l, r).next.hash = l.next.hash
           /\ Concluded(l, r).next.cond.reason = r
           /\ Concluded(l, r).next.cond.gen = l.next.gen
<1> DEFINE n == WithReason(l.next, r)
<1>1. l.next \in Statuses
  BY DEF Locals
<1>2. /\ n \in Statuses /\ n.gen = l.next.gen /\ n.hash = l.next.hash
      /\ n.cond.reason = r /\ n.cond.gen = l.next.gen
  BY <1>1, WithReasonFields
<1>3. Concluded(l, r) = [l EXCEPT !.next = n, !.jwt = None]
  BY DEF Concluded
<1> HIDE DEF n
<1>4. Concluded(l, r) \in Locals
  BY Zenon, <1>2, <1>3 DEF Locals, Opt
<1>5. Concluded(l, r).base = l.base /\ Concluded(l, r).next = n
  BY <1>3 DEF Locals
<1> QED
  BY <1>2, <1>4, <1>5

\* So does the hash that is recorded with it.
LEMMA WithHashFields ==
    ASSUME NEW l \in Locals, NEW h \in Licenses
    PROVE  /\ [l EXCEPT !.next.hash = h] \in Locals
           /\ [l EXCEPT !.next.hash = h].base = l.base
           /\ [l EXCEPT !.next.hash = h].next.gen = l.next.gen
           /\ [l EXCEPT !.next.hash = h].next.hash = h
<1> DEFINE n == [l.next EXCEPT !.hash = h]
<1>1. l.next \in Statuses
  BY DEF Locals
<1>2. n \in Statuses /\ n.gen = l.next.gen /\ n.hash = h
  BY <1>1 DEF Statuses, Opt
<1>3. [l EXCEPT !.next.hash = h] = [l EXCEPT !.next = n]
  BY DEF Locals
<1> HIDE DEF n
<1> QED
  BY <1>2, <1>3 DEF Locals

\* A new reconcile starts from the cached status.
LEMMA ReadFields ==
    ASSUME TypeOK, NEW jwt \in Opt(Licenses),
           NEW l, l = [base |-> seen.status, next |-> [seen.status EXCEPT !.gen = seen.gen],
                       jwt |-> jwt, gate |-> gate]
    PROVE  /\ l \in Locals
           /\ l.base = seen.status /\ l.jwt = jwt
           /\ l.next.gen = seen.gen /\ l.next.hash = seen.status.hash
<1> DEFINE n == [seen.status EXCEPT !.gen = seen.gen]
<1>1. seen.status \in Statuses /\ seen.gen \in Nat
  BY DEF TypeOK, Objects
<1>2. n \in Statuses /\ n.gen = seen.gen /\ n.hash = seen.status.hash
  BY <1>1 DEF Statuses
<1>3. l = [base |-> seen.status, next |-> n, jwt |-> jwt, gate |-> gate]
  OBVIOUS
<1> HIDE DEF n
<1> QED
  BY <1>1, <1>2, <1>3 DEF Locals, TypeOK

\* Why a reconcile stops before it calls coderd.
LEMMA StopReasonFacts ==
    ASSUME TypeOK, NEW jwt \in Opt(Licenses)
    PROVE  /\ StopReason(jwt) \in Reasons \cup {"go"}
           /\ StopReason(jwt) = "go" => jwt \in Licenses /\ seen.ref # None
           /\ StopReason(jwt) \notin AppliedReasons
           /\ StopReason(jwt) = "unconfigured" <=> seen.ref = None
BY DEF StopReason, TypeOK, Opt, Gates, Reasons, AppliedReasons

\* What a reconcile has when it starts.
LEMMA StartFacts ==
    ASSUME TypeOK, StartReconcile
    PROVE  /\ loc' \in Locals
           /\ loc'.base = seen.status
           /\ loc'.next.gen = seen.gen /\ loc'.next.hash = seen.status.hash
           /\ \/ /\ pc' \in {"query", "upload"}
                 /\ pc' = "query" => seen.status.hash = loc'.jwt
                 /\ loc'.jwt \in Licenses /\ seen.ref # None
              \/ /\ pc' = "entitlements"
                 /\ loc'.next.cond.gen = seen.gen
                 /\ loc'.next.cond.reason \notin AppliedReasons
                 /\ loc'.next.cond.reason = "unconfigured" <=> seen.ref = None
<1> DEFINE jwt == IF seen.ref = None THEN None ELSE secretSeen[seen.ref]
           l   == [base |-> seen.status, next |-> [seen.status EXCEPT !.gen = seen.gen],
                   jwt |-> jwt, gate |-> gate]
<1>1. jwt \in Opt(Licenses)
  BY DEF TypeOK, Objects, Opt
<1>2. IF StopReason(jwt) = "go"
      THEN loc' = l /\ pc' = IF seen.status.hash = jwt THEN "query" ELSE "upload"
      ELSE loc' = Concluded(l, StopReason(jwt)) /\ pc' = "entitlements"
  BY DEF StartReconcile
<1> HIDE DEF jwt
<1>3. /\ l \in Locals /\ l.base = seen.status /\ l.jwt = jwt
      /\ l.next.gen = seen.gen /\ l.next.hash = seen.status.hash
  BY <1>1, ReadFields
<1> HIDE DEF l
<1>4. CASE StopReason(jwt) = "go"
  BY <1>1, <1>2, <1>3, <1>4, StopReasonFacts
<1>5. CASE StopReason(jwt) # "go"
  <2>1. StopReason(jwt) \in Reasons
    BY <1>1, <1>5, StopReasonFacts
  <2> QED
    BY <1>1, <1>2, <1>3, <1>5, <2>1, ConcludedFields, StopReasonFacts
<1> QED
  BY <1>4, <1>5

\* reconcileLicense comes to its conclusion, with or without a license that it records.
LEMMA ConclusionFacts ==
    ASSUME TypeOK, NEW r \in Reasons, pc \in {"query", "upload"}, Conclude(r) \/ Recorded(r)
    PROVE  /\ pc' = "entitlements" /\ loc' \in Locals
           /\ loc'.base = loc.base /\ loc'.next.gen = loc.next.gen
           /\ loc'.next.cond.reason = r /\ loc'.next.cond.gen = loc.next.gen
           /\ Conclude(r) => loc'.next.hash = loc.next.hash
           /\ loc'.next.hash \in {loc.next.hash, loc.jwt}
           /\ Recorded(r) => loc'.next.hash = loc.jwt
<1>1. loc \in Locals /\ loc.jwt \in Licenses
  BY DEF TypeOK
<1>2. Conclude(r) => loc' = Concluded(loc, r) /\ pc' = "entitlements"
  BY DEF Conclude
<1> DEFINE l == [loc EXCEPT !.next.hash = loc.jwt]
<1>3. Recorded(r) => loc' = Concluded(l, r) /\ pc' = "entitlements"
  BY DEF Recorded
<1>4. l \in Locals /\ l.base = loc.base /\ l.next.gen = loc.next.gen /\ l.next.hash = loc.jwt
  BY <1>1, WithHashFields
<1> HIDE DEF l
<1>5. Conclude(r) => /\ loc'.next.hash = loc.next.hash
                     /\ loc' \in Locals /\ loc'.base = loc.base /\ loc'.next.gen = loc.next.gen
                     /\ loc'.next.cond.reason = r /\ loc'.next.cond.gen = loc.next.gen
  BY <1>1, <1>2, ConcludedFields
<1>6. Recorded(r) => /\ loc'.next.hash = loc.jwt
                     /\ loc' \in Locals /\ loc'.base = loc.base /\ loc'.next.gen = loc.next.gen
                     /\ loc'.next.cond.reason = r /\ loc'.next.cond.gen = loc.next.gen
  BY <1>3, <1>4, ConcludedFields
<1> QED
  BY <1>2, <1>3, <1>5, <1>6

\* A reconcile that reads the entitlements changes nothing else that it computed.
LEMMA EntitlementsFacts ==
    ASSUME TypeOK, ReadEntitlements
    PROVE  /\ loc' \in Locals /\ loc'.base = loc.base
           /\ loc'.next.gen = loc.next.gen /\ loc'.next.hash = loc.next.hash
           /\ loc'.next.cond = loc.next.cond
<1> DEFINE t == TierOf(licenses)
           n == [loc.next EXCEPT !.tier = t]
<1>1. loc \in Locals /\ loc.next \in Statuses
  BY DEF TypeOK, Locals
<1>2. t \in Tiers
  BY DEF TierOf, Tiers
<1>3. loc' = loc \/ loc' = [loc EXCEPT !.next.tier = t]
  BY DEF ReadEntitlements
<1> HIDE DEF t
<1>4. n \in Statuses /\ n.gen = loc.next.gen /\ n.hash = loc.next.hash /\ n.cond = loc.next.cond
  BY <1>1, <1>2 DEF Statuses
<1>5. [loc EXCEPT !.next.tier = t] = [loc EXCEPT !.next = n]
  BY <1>1 DEF Locals
<1> HIDE DEF n
<1> QED
  BY <1>1, <1>3, <1>4, <1>5 DEF Locals

-----------------------------------------------------------------------------
(* Types.                                                                    *)

\* The state of the object and of the caches, and the rest.
ClusterOK ==
    /\ ref \in Opt(SecretNames)
    /\ gen \in Nat
    /\ status \in Statuses
    /\ seen \in Objects
    /\ seenFresh \in BOOLEAN
    /\ secrets \in [SecretNames -> Opt(Licenses)]
    /\ secretSeen \in [SecretNames -> Opt(Licenses)]

ReconcileOK ==
    /\ queued \in BOOLEAN
    /\ pc \in Steps
    /\ loc \in Locals
    /\ pc \in {"query", "upload"} => loc.jwt \in Licenses

OthersOK ==
    /\ gate \in Gates
    /\ api \in Answers
    /\ licenses \subseteq Licenses
    /\ lost \in BOOLEAN
    /\ disturbances \in 0 .. MaxDisturbances

\* Together these are the types.
LEMMA TypeParts ==
    /\ ClusterOK /\ ReconcileOK /\ OthersOK => TypeOK
    /\ ClusterOK' /\ ReconcileOK' /\ OthersOK' => TypeOK'
BY DEF TypeOK, ClusterOK, ReconcileOK, OthersOK

\* A change of the object that the cache follows, or not, keeps its types.
LEMMA CacheType ==
    ASSUME TypeOK, CacheFollows \/ UNCHANGED <<seen, seenFresh>>,
           ref' \in Opt(SecretNames), gen' \in Nat, status' \in Statuses
    PROVE  seen' \in Objects /\ seenFresh' \in BOOLEAN
<1>1. CR' \in Objects
  BY DEF CR, Objects
<1> QED
  BY Zenon, <1>1, ConstantsAssumption DEF CacheFollows, TypeOK

\* The counter of disturbances stays within its bound.
LEMMA DisturbType ==
    ASSUME TypeOK, Disturb
    PROVE  disturbances' \in 0 .. MaxDisturbances
BY ConstantsAssumption DEF Disturb, TypeOK

\* The end of a reconcile keeps its types.
LEMMA FinishType ==
    ASSUME TypeOK, NEW again \in BOOLEAN, Finish(again)
    PROVE  ReconcileOK'
BY NoLocalType DEF Finish, ReconcileOK, TypeOK, Steps

\* Every step keeps the types.
LEMMA TypeStep == TypeOK /\ [Next]_vars => TypeOK'
<1> SUFFICES ASSUME TypeOK, [Next]_vars PROVE TypeOK'
  OBVIOUS
<1>1. CASE StartReconcile
  <2>1. ClusterOK' /\ OthersOK'
    BY <1>1 DEF StartReconcile, TypeOK, ClusterOK, OthersOK, crVars, secretVars, coderdVars
  <2>2. ReconcileOK'
    <3>1. queued' \in BOOLEAN
      BY Zenon, <1>1 DEF StartReconcile
    <3> QED
      BY <1>1, <3>1, StartFacts DEF ReconcileOK, Steps
  <2> QED
    BY <2>1, <2>2, TypeParts
<1>2. CASE QueryLicenses \/ QueryFails \/ UploadLicense \/ UploadFails
  <2>1. \/ pc' = "upload" /\ loc' = loc /\ pc = "query"
        \/ \E r \in Reasons : pc \in {"query", "upload"} /\ (Conclude(r) \/ Recorded(r))
    BY <1>2 DEF QueryLicenses, QueryFails, UploadLicense, UploadFails, Reasons, AppliedReasons
  <2>2. queued' = queued
    BY <1>2 DEF QueryLicenses, QueryFails, UploadLicense, UploadFails
  <2>3. ReconcileOK'
    BY <2>1, <2>2, ConclusionFacts DEF ReconcileOK, TypeOK, Steps
  <2>4. ClusterOK'
    BY <1>2 DEF QueryLicenses, QueryFails, UploadLicense, UploadFails, TypeOK, ClusterOK, crVars, secretVars
  <2>5. OthersOK'
    <3>1. disturbances' = disturbances \/ Disturb
      BY <1>2 DEF QueryLicenses, QueryFails, UploadLicense, UploadFails
    <3>2. disturbances' \in 0 .. MaxDisturbances
      BY <3>1, DisturbType DEF TypeOK
    <3>3. licenses' = licenses \/ (pc = "upload" /\ licenses' = licenses \cup {loc.jwt})
      BY <1>2 DEF QueryLicenses, QueryFails, UploadLicense, UploadFails, coderdVars
    <3>4. UNCHANGED <<gate, api, lost>>
      BY <1>2 DEF QueryLicenses, QueryFails, UploadLicense, UploadFails, coderdVars
    <3> QED
      BY <3>2, <3>3, <3>4 DEF OthersOK, TypeOK
  <2> QED
    BY <2>3, <2>4, <2>5, TypeParts
<1>3. CASE ReadEntitlements
  <2>1. ClusterOK'
    BY <1>3 DEF ReadEntitlements, TypeOK, ClusterOK, crVars, secretVars
  <2>2. OthersOK'
    <3>1. disturbances' = disturbances \/ Disturb
      BY <1>3 DEF ReadEntitlements
    <3> QED
      BY <1>3, <3>1, DisturbType DEF ReadEntitlements, TypeOK, OthersOK, coderdVars
  <2>3. ReconcileOK'
    BY <1>3, EntitlementsFacts DEF ReadEntitlements, TypeOK, ReconcileOK, Steps
  <2> QED
    BY <2>1, <2>2, <2>3, TypeParts
<1>4. CASE WriteStatus \/ WriteStatusFails
  <2>1. status' \in Statuses /\ UNCHANGED <<ref, gen>>
    <3>1. loc.base \in Statuses /\ loc.next \in Statuses /\ status \in Statuses
      BY DEF TypeOK, Locals
    <3>2. StatusWritten \/ UNCHANGED crVars
      BY Zenon, <1>4 DEF WriteStatus, WriteStatusFails
    <3> QED
      BY <3>1, <3>2, PublishType DEF StatusWritten, crVars
  <2>2. CacheFollows \/ UNCHANGED <<seen, seenFresh>>
    BY Zenon, <1>4 DEF WriteStatus, WriteStatusFails, StatusWritten, crVars
  <2>3. UNCHANGED secretVars
    BY Zenon, <1>4 DEF WriteStatus, WriteStatusFails
  <2>4. ClusterOK'
    BY <2>1, <2>2, <2>3, CacheType DEF TypeOK, ClusterOK, secretVars
  <2>5. OthersOK'
    <3>1. disturbances' = disturbances \/ Disturb
      BY Zenon, <1>4 DEF WriteStatus, WriteStatusFails
    <3> QED
      BY Zenon, <1>4, <3>1, DisturbType DEF WriteStatus, WriteStatusFails, TypeOK, OthersOK, coderdVars
  <2>6. ReconcileOK'
    <3>1. \E b \in BOOLEAN : Finish(b)
      BY Zenon, <1>4, ConstantsAssumption DEF WriteStatus, WriteStatusFails
    <3> QED
      BY <3>1, FinishType
  <2> QED
    BY <2>4, <2>5, <2>6, TypeParts
<1>5. CASE EditSpec
  <2>1. ref' \in Opt(SecretNames) /\ gen' \in Nat /\ status' \in Statuses /\ CacheFollows
    BY <1>5 DEF EditSpec, TypeOK
  <2>2. ClusterOK'
    BY <1>5, <2>1, CacheType DEF EditSpec, TypeOK, ClusterOK, secretVars
  <2>3. OthersOK'
    BY <1>5, DisturbType DEF EditSpec, TypeOK, OthersOK, coderdVars
  <2>4. ReconcileOK'
    BY <1>5 DEF EditSpec, Enqueue, TypeOK, ReconcileOK
  <2> QED
    BY <2>2, <2>3, <2>4, TypeParts
<1>6. CASE \E s \in SecretNames : EditSecret(s)
  <2>1. PICK s \in SecretNames : EditSecret(s)
    BY <1>6
  <2>2. PICK l \in Opt(Licenses) : secrets' = [secrets EXCEPT ![s] = l]
    BY Zenon, <2>1 DEF EditSecret
  <2>3. secrets' \in [SecretNames -> Opt(Licenses)]
    BY <2>2 DEF TypeOK
  <2>4. secretSeen' = secretSeen \/ secretSeen' = secrets'
    BY <2>1 DEF EditSecret
  <2>5. ClusterOK'
    BY <2>1, <2>3, <2>4 DEF EditSecret, TypeOK, ClusterOK, crVars
  <2>6. OthersOK'
    BY <2>1, DisturbType DEF EditSecret, TypeOK, OthersOK, coderdVars
  <2>7. ReconcileOK'
    BY <2>1 DEF EditSecret, Enqueue, TypeOK, ReconcileOK
  <2> QED
    BY <2>5, <2>6, <2>7, TypeParts
<1>7. CASE GateChanges \/ ApiChanges \/ LoseLicenses
  <2>1. ClusterOK' /\ ReconcileOK'
    BY Zenon, <1>7 DEF GateChanges, ApiChanges, LoseLicenses, TypeOK, ClusterOK, ReconcileOK, crVars, secretVars
  <2>2. OthersOK'
    BY Zenon, <1>7, DisturbType DEF GateChanges, ApiChanges, LoseLicenses, TypeOK, OthersOK, coderdVars
  <2> QED
    BY <2>1, <2>2, TypeParts
<1>8. CASE SyncObject \/ Crash
  <2>1. CR \in Objects
    BY DEF CR, Objects, TypeOK
  <2>2. /\ seen' = CR /\ seenFresh' = TRUE /\ UNCHANGED <<ref, gen, status, secrets>>
        /\ secretSeen' = secretSeen \/ secretSeen' = secrets
    BY Zenon, <1>8 DEF SyncObject, Crash, secretVars
  <2>3. ClusterOK'
    BY <2>1, <2>2 DEF TypeOK, ClusterOK
  <2>4. OthersOK'
    <3>1. disturbances' = disturbances \/ Disturb
      BY Zenon, <1>8 DEF SyncObject, Crash
    <3> QED
      BY Zenon, <1>8, <3>1, DisturbType DEF SyncObject, Crash, TypeOK, OthersOK, coderdVars
  <2>5. ReconcileOK'
    BY Zenon, <1>8, FinishType DEF SyncObject, Crash, TypeOK, ReconcileOK
  <2> QED
    BY <2>3, <2>4, <2>5, TypeParts
<1>9. CASE \E s \in SecretNames : SyncSecret(s)
  <2>1. PICK s \in SecretNames : SyncSecret(s)
    BY <1>9
  <2>2. ClusterOK'
    BY <2>1 DEF SyncSecret, TypeOK, ClusterOK, crVars
  <2>3. OthersOK' /\ ReconcileOK'
    BY <2>1 DEF SyncSecret, Enqueue, TypeOK, OthersOK, ReconcileOK, coderdVars
  <2> QED
    BY <2>2, <2>3, TypeParts
<1>10. CASE UNCHANGED vars
  BY <1>10 DEF TypeOK, vars, crVars, secretVars, coderdVars
<1> QED
  BY <1>1, <1>2, <1>3, <1>4, <1>5, <1>6, <1>7, <1>8, <1>9, <1>10
     DEF Next, Controller, Sync, Environment

\* Every reachable state is well-typed, for all constants: reconcileLicense never gets
\* as far as a call to coderd without a license from the Secret.
THEOREM TypeCorrect == Spec => []TypeOK
<1>1. Init => TypeOK
  <2> SUFFICES ASSUME Init PROVE TypeOK
    OBVIOUS
  <2>1. CR \in Objects
    BY NoLocalType DEF Init, CR, Objects
  <2>2. ClusterOK
    BY <2>1, NoLocalType DEF Init, ClusterOK, Opt
  <2>3. ReconcileOK
    BY NoLocalType DEF Init, ReconcileOK, Steps
  <2>4. OthersOK
    <3>1. 0 \in 0 .. MaxDisturbances
      BY ConstantsAssumption
    <3> QED
      BY Zenon, <3>1 DEF Init, OthersOK, Gates, Answers
  <2> QED
    BY <2>2, <2>3, <2>4, TypeParts
<1>2. TypeOK /\ [Next]_vars => TypeOK'
  BY TypeStep
<1> QED
  BY <1>1, <1>2, PTL DEF Spec

-----------------------------------------------------------------------------
(* The invariant.                                                            *)

\* What LicenseInv says of the object and of its cached copy, and of the reconcile.
StatusInv ==
    /\ Honest(status) /\ status.gen <= gen
    /\ status.gen = gen => Fits(status.cond)

SeenInv ==
    /\ Honest(seen.status) /\ Older(seen.status, status)
    /\ seen.gen <= gen
    /\ seen.gen = gen => seen.ref = ref

WorkInv ==
    /\ pc # "idle" =>
          /\ Honest(loc.base) /\ Older(loc.base, status)
          /\ loc.next.gen <= gen
          /\ loc.base.hash # None => loc.next.hash # None
          /\ ~lost => loc.next.hash \in Opt(licenses)
    /\ pc = "query" => loc.next.hash = loc.jwt
    /\ pc \in {"query", "upload"} /\ loc.next.gen = gen => ref # None
    /\ pc \in {"entitlements", "status"} =>
          Honest(loc.next) /\ (loc.next.gen = gen => Fits(loc.next.cond))

\* Together these are LicenseInv.
LEMMA InvParts ==
    /\ LicenseInv <=> StatusInv /\ SeenInv /\ WorkInv
    /\ LicenseInv' <=> StatusInv' /\ SeenInv' /\ WorkInv'
BY DEF LicenseInv, StatusInv, SeenInv, WorkInv

\* The generations that the invariant compares are numbers.
LEMMA Numbers ==
    ASSUME TypeOK
    PROVE  /\ gen \in Nat /\ status.gen \in Nat /\ seen.gen \in Nat /\ seen.status.gen \in Nat
           /\ loc.base.gen \in Nat /\ loc.next.gen \in Nat
BY DEF TypeOK, Statuses, Objects, Locals

\* reconcileStatus keeps the object's part: what is merged from a reconcile that
\* compared with an older status fits what is there.
LEMMA PublishKeeps ==
    ASSUME TypeOK, StatusInv, WorkInv, pc = "status", StatusWritten, UNCHANGED <<licenses, lost>>
    PROVE  StatusInv' /\ Older(status, status')
<1> DEFINE b == loc.base
           n == loc.next
<1>1. b \in Statuses /\ n \in Statuses /\ status \in Statuses /\ gen \in Nat
  BY DEF TypeOK, Locals
<1>2. /\ Honest(b) /\ b.gen <= status.gen /\ (b.hash # None => status.hash # None)
      /\ Honest(n) /\ n.gen <= gen /\ (b.hash # None => n.hash # None)
      /\ n.gen = gen => Fits(n.cond)
      /\ ~lost => n.hash \in Opt(licenses)
  BY DEF WorkInv, Older
<1>3. UNCHANGED <<ref, gen>> /\ status' = Publish(b, n, status, gen)
  BY DEF StatusWritten
<1> HIDE DEF b, n
<1>4. b.gen \in Nat /\ n.gen \in Nat /\ status.gen \in Nat
  BY <1>1 DEF Statuses
<1>5. CASE b = n \/ n.gen # gen
  <2>1. status' = status
    BY <1>3, <1>5 DEF Publish
  <2> QED
    BY <1>3, <1>4, <2>1 DEF StatusInv, Honest, Older, Fits, Opt
<1>6. CASE b # n /\ n.gen = gen
  <2>1. status' = [gen  |-> IF b.gen # n.gen THEN n.gen ELSE status.gen,
                   hash |-> IF b.hash # n.hash THEN n.hash ELSE status.hash,
                   cond |-> IF b.cond # n.cond THEN n.cond ELSE status.cond,
                   tier |-> IF b.tier # n.tier THEN n.tier ELSE status.tier]
    BY <1>1, <1>3, <1>6, MergeFields DEF Publish
  <2>2. /\ status'.gen = IF b.gen # n.gen THEN n.gen ELSE status.gen
        /\ status'.hash = IF b.hash # n.hash THEN n.hash ELSE status.hash
        /\ status'.cond = IF b.cond # n.cond THEN n.cond ELSE status.cond
    BY <2>1
  <2>3. status'.gen = gen
    BY <1>1, <1>2, <1>4, <1>6, <2>2 DEF StatusInv
  <2>4. status'.cond.gen = gen /\ Fits(status'.cond)
    <3>1. CASE b.cond # n.cond
      BY <1>2, <1>6, <2>2, <3>1 DEF Honest
    <3>2. CASE b.cond = n.cond
      <4>1. b.gen = gen
        BY <1>2, <1>6, <3>2 DEF Honest
      <4>2. status.gen = gen
        BY <1>1, <1>2, <1>4, <4>1 DEF StatusInv
      <4> QED
        BY <2>2, <3>2, <4>2 DEF StatusInv, Honest
    <3> QED
      BY <3>1, <3>2
  <2>5. status'.cond.reason \in AppliedReasons => status'.hash # None
    BY <1>2, <2>2 DEF StatusInv, Honest
  <2>6. ~lost => status'.hash \in Opt(licenses)
    BY <1>2, <2>2 DEF StatusInv, Honest
  <2>7. status.hash # None => status'.hash # None
    BY <1>2, <2>2
  <2>8. Older(status, status')
    BY <1>4, <2>3, <2>7 DEF Older, StatusInv
  <2>9. StatusInv'
    BY <1>1, <1>3, <2>3, <2>4, <2>5, <2>6 DEF StatusInv, Honest, Fits, Opt
  <2> QED
    BY <2>8, <2>9
<1> QED
  BY <1>5, <1>6

\* Every step keeps the invariant.
LEMMA InvStep == TypeOK /\ LicenseInv /\ [Next]_vars => LicenseInv'
<1> SUFFICES ASSUME TypeOK, LicenseInv, [Next]_vars PROVE LicenseInv'
  OBVIOUS
<1> StatusInv /\ SeenInv /\ WorkInv
  BY InvParts
<1>1. CASE StartReconcile
  <2>1. UNCHANGED <<crVars, licenses, lost>>
    BY <1>1 DEF StartReconcile, coderdVars
  <2>2. StatusInv' /\ SeenInv'
    BY <2>1 DEF StatusInv, SeenInv, Honest, Older, Fits, Opt, crVars
  <2>3. WorkInv'
    BY <1>1, <2>1, StartFacts DEF SeenInv, WorkInv, Honest, Older, Fits, Opt, crVars
  <2> QED
    BY <2>2, <2>3, InvParts
<1>2. CASE QueryLicenses \/ QueryFails \/ UploadLicense \/ UploadFails
  <2>1. UNCHANGED <<crVars, lost>> /\ licenses \subseteq licenses'
    BY <1>2 DEF QueryLicenses, QueryFails, UploadLicense, UploadFails, coderdVars
  <2>2. StatusInv' /\ SeenInv'
    BY <2>1 DEF StatusInv, SeenInv, Honest, Older, Fits, Opt, crVars
  <2>3. \/ pc' = "upload" /\ loc' = loc /\ pc = "query"
        \/ \E r \in Reasons \ {"unconfigured"} :
              /\ pc \in {"query", "upload"}
              /\ \/ Conclude(r) /\ (r \in AppliedReasons => pc = "query")
                 \/ Recorded(r) /\ loc.jwt \in licenses'
    BY <1>2 DEF QueryLicenses, QueryFails, UploadLicense, UploadFails, Reasons, AppliedReasons
  <2>4. CASE pc' = "upload" /\ loc' = loc /\ pc = "query"
    <3>1. WorkInv'
      BY <2>1, <2>4 DEF WorkInv, Honest, Older, Fits, Opt, crVars
    <3> QED
      BY <2>2, <3>1, InvParts
  <2>5. ASSUME NEW r \in Reasons \ {"unconfigured"}, pc \in {"query", "upload"},
               \/ Conclude(r) /\ (r \in AppliedReasons => pc = "query")
               \/ Recorded(r) /\ loc.jwt \in licenses'
        PROVE  WorkInv'
    <3>1. loc.jwt # None
      BY <2>5, ConstantsAssumption DEF TypeOK
    <3>2. /\ pc' = "entitlements"
          /\ loc'.base = loc.base /\ loc'.next.gen = loc.next.gen
          /\ loc'.next.cond.reason = r /\ loc'.next.cond.gen = loc.next.gen
          /\ loc'.next.hash \in {loc.next.hash, loc.jwt}
      BY <2>5, ConclusionFacts
    <3>3. /\ r \in AppliedReasons => loc'.next.hash = loc.jwt
          /\ loc'.next.hash = loc.next.hash \/ loc'.next.hash \in licenses'
      BY <2>5, ConclusionFacts DEF WorkInv
    <3>4. ~lost' => loc'.next.hash \in Opt(licenses)'
      BY <2>1, <2>5, <3>3 DEF WorkInv, Opt
    <3>5. Honest(loc.next)'
      BY <3>1, <3>2, <3>3, <3>4 DEF Honest
    <3>6. (Honest(loc.base) /\ Older(loc.base, status))'
      BY <2>1, <2>5, <3>2 DEF WorkInv, Honest, Older, Opt, crVars
    <3>7. loc'.next.gen = gen' => Fits(loc.next.cond)'
      BY <2>1, <2>5, <3>2 DEF WorkInv, Fits, crVars
    <3>8. loc'.base.hash # None => loc'.next.hash # None
      BY <2>5, <3>1, <3>2 DEF WorkInv
    <3>9. loc'.next.gen <= gen'
      BY <2>1, <2>5, <3>2 DEF WorkInv, crVars
    <3> QED
      BY Zenon, <3>2, <3>4, <3>5, <3>6, <3>7, <3>8, <3>9 DEF WorkInv
  <2> QED
    BY <2>2, <2>3, <2>4, <2>5, InvParts
<1>3. CASE ReadEntitlements
  <2>1. UNCHANGED <<crVars, licenses, lost>> /\ pc = "entitlements" /\ pc' = "status"
    BY <1>3 DEF ReadEntitlements, coderdVars
  <2>2. StatusInv' /\ SeenInv'
    BY <2>1 DEF StatusInv, SeenInv, Honest, Older, Fits, Opt, crVars
  <2>3. WorkInv'
    BY <1>3, <2>1, EntitlementsFacts DEF WorkInv, Honest, Older, Fits, Opt, crVars
  <2> QED
    BY <2>2, <2>3, InvParts
<1>4. CASE WriteStatus \/ WriteStatusFails
  <2>1. pc = "status" /\ pc' = "idle" /\ UNCHANGED <<licenses, lost>>
    BY <1>4 DEF WriteStatus, WriteStatusFails, Finish, coderdVars
  <2>2. WorkInv'
    BY <2>1 DEF WorkInv
  <2>3. CASE UNCHANGED crVars
    <3>1. StatusInv' /\ SeenInv'
      BY <2>1, <2>3 DEF StatusInv, SeenInv, Honest, Older, Fits, Opt, crVars
    <3> QED
      BY <2>2, <3>1, InvParts
  <2>4. CASE StatusWritten
    <3>1. StatusInv' /\ Older(status, status')
      BY <2>1, <2>4, PublishKeeps
    <3>2. UNCHANGED <<ref, gen>> /\ (seen' = seen \/ seen' = CR')
      BY <2>4 DEF StatusWritten, CacheFollows
    <3>3. CASE seen' = seen
      <4>1. Older(seen.status, status')
        <5>1. status' \in Statuses
          BY <2>4, PublishType DEF StatusWritten, TypeOK, Locals
        <5>2. status'.gen \in Nat
          BY <5>1 DEF Statuses
        <5> QED
          BY <3>1, <5>2, Numbers DEF SeenInv, Older
      <4>2. SeenInv'
        BY <2>1, <3>2, <3>3, <4>1 DEF SeenInv, Honest, Older, Opt
      <4> QED
        BY <2>2, <3>1, <4>2, InvParts
    <3>4. CASE seen' = CR'
      <4>1. seen'.status = status' /\ seen'.gen = gen' /\ seen'.ref = ref'
        BY <3>4 DEF CR
      <4>2. status' \in Statuses /\ gen' \in Nat
        BY <2>4, <3>2, PublishType DEF StatusWritten, TypeOK, Locals
      <4>3. status'.gen \in Nat
        BY <4>2 DEF Statuses
      <4>4. SeenInv'
        BY <3>1, <4>1, <4>2, <4>3 DEF SeenInv, StatusInv, Honest, Older, Opt
      <4> QED
        BY <2>2, <3>1, <4>4, InvParts
    <3> QED
      BY <3>2, <3>3, <3>4
  <2> QED
    BY Zenon, <1>4, <2>3, <2>4 DEF WriteStatus, WriteStatusFails
<1>5. CASE EditSpec
  <2>1. /\ gen' = gen + 1 /\ UNCHANGED <<status, licenses, lost, pc, loc>>
        /\ seen' = seen \/ seen' = CR'
    BY <1>5 DEF EditSpec, CacheFollows, coderdVars
  <2>2. StatusInv'
    BY <2>1, Numbers DEF StatusInv, Honest, Opt
  <2>3. WorkInv'
    <3>1. loc.next.gen <= gen => loc.next.gen <= gen' /\ loc.next.gen # gen'
      BY <2>1, Numbers
    <3>2. pc # "idle" => loc'.next.gen <= gen' /\ loc'.next.gen # gen'
      BY Zenon, <2>1, <3>1 DEF WorkInv
    <3> QED
      BY Zenon, <2>1, <3>2, Numbers DEF WorkInv, Honest, Older, Opt, TypeOK, Steps
  <2>4. SeenInv'
    <3>1. CASE seen' = seen
      BY <2>1, <3>1, Numbers DEF SeenInv, Honest, Older, Opt
    <3>2. CASE seen' = CR'
      <4>1. seen'.status = status' /\ seen'.gen = gen' /\ seen'.ref = ref'
        BY <3>2 DEF CR
      <4> QED
        BY <2>1, <2>2, <4>1, Numbers DEF SeenInv, StatusInv, Older
    <3> QED
      BY <2>1, <3>1, <3>2
  <2> QED
    BY <2>2, <2>3, <2>4, InvParts
<1>6. CASE \/ \E s \in SecretNames : EditSecret(s)
           \/ GateChanges \/ ApiChanges \/ LoseLicenses
           \/ \E s \in SecretNames : SyncSecret(s)
           \/ UNCHANGED vars
  <2>1. UNCHANGED <<crVars, pc, loc>> /\ ((licenses' = licenses /\ lost' = lost) \/ lost' = TRUE)
    BY <1>6 DEF EditSecret, GateChanges, ApiChanges, LoseLicenses, SyncSecret, vars, coderdVars
  <2>2. StatusInv' /\ SeenInv'
    BY Zenon, <2>1 DEF StatusInv, SeenInv, Honest, Older, Fits, Opt, crVars
  <2>3. WorkInv'
    BY <2>1 DEF WorkInv, Honest, Older, Fits, Opt, crVars
  <2> QED
    BY <2>2, <2>3, InvParts
<1>7. CASE SyncObject \/ Crash
  <2>1. /\ UNCHANGED <<ref, gen, status, licenses, lost>> /\ seen' = CR
        /\ (pc' = "idle" \/ UNCHANGED <<pc, loc>>)
    BY <1>7 DEF SyncObject, Crash, Finish, coderdVars
  <2>2. seen'.status = status /\ seen'.gen = gen /\ seen'.ref = ref
    BY <2>1 DEF CR
  <2>3. StatusInv' /\ SeenInv'
    BY <2>1, <2>2, Numbers DEF StatusInv, SeenInv, Honest, Older, Fits, Opt
  <2>4. WorkInv'
    BY <2>1 DEF WorkInv, Honest, Older, Fits, Opt
  <2> QED
    BY <2>3, <2>4, InvParts
<1> QED
  BY <1>1, <1>2, <1>3, <1>4, <1>5, <1>6, <1>7 DEF Next, Controller, Sync, Environment

\* LicenseInv is an invariant, for all constants.
THEOREM LicenseInvariant == Spec => []LicenseInv
<1>1. Init => LicenseInv
  <2> SUFFICES ASSUME Init PROVE LicenseInv
    OBVIOUS
  <2>1. seen.status = NoStatus /\ seen.gen = 1 /\ seen.ref = ref
    BY DEF Init, CR
  <2>2. /\ NoStatus.gen = 0 /\ NoStatus.hash = None
        /\ NoStatus.cond.gen = 0 /\ NoStatus.cond.reason = "unset"
    BY DEF NoStatus
  <2>3. StatusInv /\ SeenInv
    BY <2>1, <2>2 DEF Init, StatusInv, SeenInv, Honest, Older, Opt, AppliedReasons
  <2>4. WorkInv
    BY DEF Init, WorkInv
  <2> QED
    BY <2>3, <2>4, InvParts
<1>2. TypeOK /\ LicenseInv /\ [Next]_vars => LicenseInv'
  BY InvStep
<1> QED
  BY <1>1, <1>2, TypeCorrect, PTL DEF Spec

\* A status that says a license is applied records one that coderd was given
\* (reconcileLicense and mergeControlPlaneStatusDelta), for all constants.
THEOREM AnnouncedLicenseUploaded == Spec => []AppliedMeansUploaded
<1>1. LicenseInv => AppliedMeansUploaded
  BY DEF LicenseInv, Honest, Opt, AppliedMeansUploaded
<1> QED
  BY <1>1, LicenseInvariant, PTL

\* A status that has observed the current spec has a condition about this spec,
\* for all constants.
THEOREM ConditionOfCurrentSpec == Spec => []ConditionFitsSpec
<1>1. LicenseInv => ConditionFitsSpec
  BY DEF LicenseInv, Fits, ConditionFitsSpec
<1> QED
  BY <1>1, LicenseInvariant, PTL

=============================================================================
