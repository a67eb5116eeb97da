------------------------ MODULE ProvisionerKey_Proofs ------------------------
(***************************************************************************)
(* Proofs about the provisioner key controller, for any control planes,     *)
(* organizations, names, tags, Secrets, specs and edits.                    *)
(***************************************************************************)
EXTENDS ProvisionerKey, TLAPS

-----------------------------------------------------------------------------
(* Types.                                                                    *)

USE DEF Opt

LEMMA SpecFields ==
    ASSUME NEW s \in Specs
    PROVE  /\ s.cp \in ControlPlanes
           /\ s.org \in Orgs
           /\ s.name \in KeyNames
           /\ s.tags \in Tags
           /\ s.secret \in SecretNames
BY ConstantsAssumption DEF SpecRecords

LEMMA NoneIsNew ==
    /\ None \notin URLs
    /\ None \notin ControlPlanes
    /\ None \notin Orgs
    /\ None \notin KeyNames
    /\ None \notin Tags
    /\ None \notin SecretNames
    /\ None \notin Specs
    /\ None \notin Keys
    /\ None \notin Materials
BY NoneAssumption, ConstantsAssumption DEF Materials

LEMMA NoStatusType == NoStatus \in Statuses
BY DEF NoStatus, Statuses

LEMMA NoLocalType == NoLocal \in Locals
BY NoStatusType DEF NoLocal, Locals, Modes

\* The cached copy keeps its type when the object does.
LEMMA CacheFollowsType ==
    ASSUME TypeOK, CacheFollows,
           spec' \in Specs, status' \in Statuses, phase' \in Phases, finalizer' \in BOOLEAN
    PROVE  seen' \in Objects /\ seenFresh' \in BOOLEAN
BY ConstantsAssumption DEF CacheFollows, TypeOK, CR, Objects

LEMMA SecretCacheType ==
    ASSUME TypeOK, NEW s \in SecretNames, SecretCacheFollows(s),
           secrets' \in [SecretNames -> Opt(Materials)]
    PROVE  /\ secretSeen' \in [SecretNames -> Opt(Materials)]
           /\ secretFresh' \in [SecretNames -> BOOLEAN]
BY Zenon, ConstantsAssumption DEF SecretCacheFollows, TypeOK

LEMMA DisturbType ==
    ASSUME TypeOK, Disturb
    PROVE  disturbances' \in 0 .. MaxDisturbances
BY ConstantsAssumption DEF Disturb, TypeOK

LEMMA CreateKeyType ==
    ASSUME TypeOK, NEW spot, NEW tags \in Tags, NEW m \in Materials, CreateKey(spot, tags, m)
    PROVE  coderd' \in [Spots -> Opt(Keys)] /\ touched' \in BOOLEAN
BY Zenon DEF CreateKey, TypeOK, Keys

LEMMA DeleteKeyType ==
    ASSUME TypeOK, NEW spot, DeleteKey(spot)
    PROVE  coderd' \in [Spots -> Opt(Keys)] /\ touched' \in BOOLEAN
BY Zenon DEF DeleteKey, TypeOK

\* The type invariant of what a status write leaves behind.
LEMMA KeyStatusType ==
    ASSUME TypeOK, loc.spec \in Specs
    PROVE  KeyStatus \in Statuses
<1>1. loc \in Locals
  BY DEF TypeOK
<1> USE SpecFields DEF KeyStatus, Statuses, OrElse
<1>2. CASE loc.mode = "keep"
  <2>1. loc.status \in Statuses
    BY <1>1 DEF Locals
  <2>2. OrElse(loc.status.name, loc.spec.name) \in Opt(KeyNames)
    BY <2>1
  <2>3. loc.spec.secret \in Opt(SecretNames)
    OBVIOUS
  <2> HIDE DEF OrElse
  <2> QED
    BY Zenon, <1>2, <2>1, <2>2, <2>3
<1>3. CASE loc.mode # "keep"
  BY <1>1, <1>3 DEF Locals
<1> QED
  BY <1>2, <1>3

LEMMA ReportFailureType ==
    ASSUME TypeOK, ReportFailure
    PROVE  /\ spec' \in Specs /\ status' \in Statuses /\ phase' \in Phases
           /\ finalizer' \in BOOLEAN /\ seen' \in Objects /\ seenFresh' \in BOOLEAN
           /\ pc' = "idle" /\ loc' = NoLocal
<1>1. spec' \in Specs /\ phase' \in Phases /\ finalizer' \in BOOLEAN /\ pc' = "idle" /\ loc' = NoLocal
  BY DEF ReportFailure, TypeOK, Done
<1>2. status' \in Statuses
  <2>1. loc.status \in Statuses /\ status \in Statuses
    BY DEF TypeOK, Locals
  <2>2. [loc.status EXCEPT !.ready = "false"] \in Statuses
    BY <2>1 DEF Statuses
  <2> QED
    BY <2>1, <2>2 DEF ReportFailure
<1>3. seen' \in Objects /\ seenFresh' \in BOOLEAN
  <2>1. CASE loc.fresh
    BY <1>1, <1>2, <2>1, CacheFollowsType DEF ReportFailure
  <2>2. CASE ~loc.fresh
    BY <2>2 DEF ReportFailure, TypeOK
  <2> QED
    BY <2>1, <2>2
<1> QED
  BY <1>1, <1>2, <1>3

LEMMA KeyCallFailsType ==
    ASSUME TypeOK, KeyCallFails
    PROVE  /\ spec' \in Specs /\ status' \in Statuses /\ phase' \in Phases
           /\ finalizer' \in BOOLEAN /\ seen' \in Objects /\ seenFresh' \in BOOLEAN
           /\ pc' = "idle" /\ loc' = NoLocal
<1>1. CASE ReportFailure
  BY <1>1, ReportFailureType
<1>2. CASE FailSilently
  BY <1>2 DEF FailSilently, Done, crVars, TypeOK
<1> QED
  BY <1>1, <1>2 DEF KeyCallFails

LEMMA OvertakenTypes ==
    ASSUME TypeOK, InFlight, Overtaken, pc' = pc
    PROVE  loc' \in Locals /\ InFlight'
<1>1. loc' \in Locals
  BY Zenon DEF Overtaken, TypeOK, Locals
<1>2. CASE pc = "idle"
  <2>1. loc = NoLocal
    BY <1>2 DEF InFlight
  <2>2. loc' = NoLocal
    BY Zenon, <2>1 DEF Overtaken, NoLocal
  <2> QED
    BY <1>1, <1>2, <2>2 DEF InFlight
<1>3. CASE pc # "idle"
  <2>1. loc \in Locals /\ loc' = [loc EXCEPT !.fresh = FALSE]
    BY DEF Overtaken, TypeOK
  <2>2. loc'.spec = loc.spec /\ loc'.url = loc.url /\ loc'.mode = loc.mode /\ loc'.val = loc.val
    BY <2>1 DEF Locals
  <2> QED
    BY <1>1, <1>3, <2>2 DEF InFlight
<1> QED
  BY <1>1, <1>2, <1>3

LEMMA InitTypes == Init => TypeOK /\ InFlight
<1> SUFFICES ASSUME Init PROVE TypeOK /\ InFlight
  OBVIOUS
<1>1. /\ spec \in Specs /\ InitCommon
      /\ status \in Statuses /\ finalizer \in BOOLEAN
      /\ secrets \in [SecretNames -> Opt(Materials)]
      /\ coderd \in [Spots -> Opt(Keys)]
  <2>1. CASE InitNew
    BY Zenon, <2>1, ConstantsAssumption, NoStatusType DEF InitNew, NoSecrets, NoKeys
  <2>2. CASE InitLegacy
    <3>1. spec \in Specs /\ InitCommon /\ finalizer \in BOOLEAN
      BY <2>2, ConstantsAssumption DEF InitLegacy
    <3>2. 1 \in Materials
      BY ConstantsAssumption DEF Materials
    <3>3. status \in Statuses
      <4>1. status = [NoStatus EXCEPT !.name = spec.name, !.id = 1, !.secret = spec.secret,
                                      !.ready = "true"]
        BY <2>2 DEF InitLegacy
      <4>2. spec.name \in Opt(KeyNames) /\ spec.secret \in Opt(SecretNames)
        BY <3>1, SpecFields
      <4> HIDE DEF Opt
      <4>3. 1 \in Opt(Materials)
        BY <3>2 DEF Opt
      <4> QED
        BY Zenon, <4>1, <4>2, <4>3, NoStatusType DEF Statuses
    <3>4. secrets \in [SecretNames -> Opt(Materials)]
      BY Zenon, <2>2, <3>2 DEF InitLegacy, NoSecrets
    <3>5. coderd \in [Spots -> Opt(Keys)]
      <4>1. PICK t \in Tags :
               coderd = [NoKeys EXCEPT ![<<HomeOf[spec.cp], spec.org, spec.name>>] =
                            [tags |-> t, mat |-> 1]]
        BY Zenon, <2>2 DEF InitLegacy
      <4>2. [tags |-> t, mat |-> 1] \in Keys
        BY <3>2 DEF Keys
      <4>3. NoKeys \in [Spots -> Opt(Keys)]
        BY DEF NoKeys
      <4> QED
        BY Zenon, <4>1, <4>2, <4>3
    <3> QED
      BY <3>1, <3>3, <3>4, <3>5
  <2> QED
    BY <2>1, <2>2 DEF Init
<1>2. phase \in Phases /\ seen \in Objects /\ seenFresh \in BOOLEAN
  BY <1>1 DEF InitCommon, Phases, Objects, CR
<1>3. cps \in [ControlPlanes -> CPStatus]
  BY <1>1, ConstantsAssumption DEF InitCommon
<1>4. /\ secretSeen \in [SecretNames -> Opt(Materials)]
      /\ secretFresh \in [SecretNames -> BOOLEAN]
      /\ deploy \in Opt(Deployments)
      /\ pc \in Steps
      /\ touched \in BOOLEAN
  BY Zenon, <1>1 DEF InitCommon, Steps
<1>5. disturbances \in 0 .. MaxDisturbances
  BY <1>1, ConstantsAssumption DEF InitCommon
<1>6. loc \in Locals
  BY <1>1, NoLocalType DEF InitCommon
<1>7. InFlight
  BY <1>1 DEF InitCommon, InFlight
<1> QED
  BY <1>1, <1>2, <1>3, <1>4, <1>5, <1>6, <1>7 DEF TypeOK

LEMMA TypeStep == TypeOK /\ InFlight /\ [Next]_vars => TypeOK' /\ InFlight'
<1> SUFFICES ASSUME TypeOK, InFlight, [Next]_vars
             PROVE  TypeOK' /\ InFlight'
  OBVIOUS
<1> USE DEF crVars, secretVars
<1>1. CASE AddFinalizer
  <2>1. seen' \in Objects /\ seenFresh' \in BOOLEAN
    BY <1>1, CacheFollowsType DEF AddFinalizer, TypeOK
  <2> QED
    BY <1>1, <2>1 DEF AddFinalizer, TypeOK, InFlight
<1>2. CASE WaitForControlPlane
  <2>1. seen' \in Objects /\ seenFresh' \in BOOLEAN
    BY <1>2, CacheFollowsType DEF WaitForControlPlane, TypeOK
  <2> QED
    BY <1>2, <2>1 DEF WaitForControlPlane, TypeOK, InFlight
<1>3. CASE StartReconcile
  <2> DEFINE url == cps[seen.spec.cp].url
             mode == Mode(seen.spec, seen.status, url, secretSeen[seen.spec.secret] # None)
  <2>1. seen.spec \in Specs /\ seen.status \in Statuses
    BY DEF TypeOK, Objects
  <2>2. url \in URLs
    <3>1. cps[seen.spec.cp] \in CPStatus
      BY <2>1, SpecFields DEF TypeOK
    <3> QED
      BY <1>3, <3>1 DEF StartReconcile, GatesOpen, CPStatus
  <2>3. mode \in Modes /\ mode # "none"
    BY DEF Mode, Modes
  <2>4. pc' \in {"deleteOld", "writeSecret", "ensure"}
    BY <1>3 DEF StartReconcile
  <2>5. loc' = [spec |-> seen.spec, status |-> seen.status, fresh |-> seenFresh,
                url |-> url, mode |-> mode, mat |-> None, val |-> None]
    BY <1>3 DEF StartReconcile
  <2> HIDE DEF url, mode
  <2>6. loc' \in Locals
    BY <2>1, <2>2, <2>3, <2>5 DEF Locals, TypeOK
  <2>7. InFlight'
    BY <2>1, <2>2, <2>3, <2>4, <2>5 DEF InFlight
  <2> QED
    BY <1>3, <2>4, <2>6, <2>7 DEF StartReconcile, TypeOK, Steps
<1>4. CASE DeleteOldKey
  <2>1. disturbances' \in 0 .. MaxDisturbances
    BY <1>4, DisturbType DEF DeleteOldKey, RemoteFault, TypeOK
  <2>2. coderd' \in [Spots -> Opt(Keys)] /\ touched' \in BOOLEAN
    BY <1>4, DeleteKeyType DEF DeleteOldKey, TypeOK
  <2> QED
    BY <1>4, <2>1, <2>2 DEF DeleteOldKey, Proceed, TypeOK, InFlight, Steps
<1>5. CASE EnsureFindsKey
  BY <1>5 DEF EnsureFindsKey, Proceed, TypeOK, InFlight, Steps
<1>6. CASE EnsureCreatesKey
  <2>1. loc.spec \in Specs /\ loc.url \in URLs /\ loc.mode # "none"
    BY <1>6 DEF EnsureCreatesKey, InFlight
  <2>2. PICK m \in Materials :
           /\ CreateKey(DesiredSpot(loc.spec, loc.url), loc.spec.tags, m)
           /\ loc' = [loc EXCEPT !.mat = m]
    BY <1>6 DEF EnsureCreatesKey
  <2>3. coderd' \in [Spots -> Opt(Keys)] /\ touched' \in BOOLEAN
    BY Zenon, <2>1, <2>2, SpecFields, CreateKeyType
  <2>4. loc' \in Locals
    BY <2>2 DEF TypeOK, Locals
  <2>5. InFlight'
    BY <1>6, <2>1, <2>2 DEF EnsureCreatesKey, InFlight, TypeOK, Locals
  <2> QED
    BY <1>6, <2>3, <2>4, <2>5 DEF EnsureCreatesKey, TypeOK, Steps
<1>7. CASE EnsureFails
  <2>1. loc.spec \in Specs
    BY <1>7 DEF EnsureFails, InFlight
  <2>2. coderd' \in [Spots -> Opt(Keys)] /\ touched' \in BOOLEAN
    BY Zenon, <1>7, <2>1, SpecFields, CreateKeyType DEF EnsureFails, TypeOK
  <2>3. disturbances' \in 0 .. MaxDisturbances
    BY <1>7, DisturbType DEF EnsureFails, RemoteFault
  <2> QED
    BY <1>7, <2>2, <2>3, KeyCallFailsType, NoLocalType DEF EnsureFails, TypeOK, InFlight, Steps
<1>8. CASE DeleteForRotation
  <2>1. coderd' \in [Spots -> Opt(Keys)] /\ touched' \in BOOLEAN
    BY <1>8, DeleteKeyType DEF DeleteForRotation, TypeOK
  <2>2. disturbances' \in 0 .. MaxDisturbances
    BY <1>8, DisturbType DEF DeleteForRotation, RemoteFault, TypeOK
  <2>3. CASE Proceed("recreate")
    BY <1>8, <2>1, <2>2, <2>3 DEF DeleteForRotation, Proceed, TypeOK, InFlight, Steps
  <2>4. CASE KeyCallFails
    BY <1>8, <2>1, <2>2, <2>4, KeyCallFailsType, NoLocalType
       DEF DeleteForRotation, TypeOK, InFlight, Steps
  <2> QED
    BY <1>8, <2>3, <2>4 DEF DeleteForRotation
<1>9. CASE SecretUpToDate
  <2>1. SecretTarget \in Materials
    BY <1>9, SpecFields DEF SecretUpToDate, SecretTarget, OrElse, InFlight, TypeOK, Locals
  <2>2. loc' = [loc EXCEPT !.val = SecretTarget] /\ pc' = "persist"
    BY <1>9 DEF SecretUpToDate
  <2> HIDE DEF SecretTarget
  <2>3. loc' \in Locals
    BY <2>1, <2>2 DEF TypeOK, Locals
  <2>4. InFlight'
    BY <1>9, <2>1, <2>2 DEF SecretUpToDate, InFlight, TypeOK, Locals
  <2> QED
    BY <1>9, <2>3, <2>4 DEF SecretUpToDate, TypeOK, Steps
<1>10. CASE WriteSecret
  <2>1. loc.spec \in Specs /\ loc.spec.secret \in SecretNames
    BY <1>10, SpecFields DEF WriteSecret, InFlight
  <2>2. SecretTarget \in Materials
    BY <1>10, <2>1 DEF WriteSecret, SecretTarget, OrElse, TypeOK, Locals
  <2>3. loc' = [loc EXCEPT !.val = SecretTarget] /\ pc' = "persist"
    BY <1>10 DEF WriteSecret
  <2>4. /\ secrets' \in [SecretNames -> Opt(Materials)]
        /\ secretSeen' \in [SecretNames -> Opt(Materials)]
        /\ secretFresh' \in [SecretNames -> BOOLEAN]
    <3>1. secrets' \in [SecretNames -> Opt(Materials)]
      BY Zenon, <1>10, <2>2 DEF WriteSecret, SecretWritten, TypeOK
    <3> QED
      BY <1>10, <2>1, <3>1, SecretCacheType DEF WriteSecret, SecretWritten
  <2> HIDE DEF SecretTarget
  <2>5. loc' \in Locals
    BY <2>2, <2>3 DEF TypeOK, Locals
  <2>6. InFlight'
    BY <1>10, <2>2, <2>3 DEF WriteSecret, InFlight, TypeOK, Locals
  <2> QED
    BY <1>10, <2>4, <2>5, <2>6 DEF WriteSecret, TypeOK, Steps
<1>11. CASE WriteSecretFails
  <2>1. loc.spec \in Specs /\ loc.spec.secret \in SecretNames
    BY <1>11, SpecFields DEF WriteSecretFails, InFlight
  <2>2. disturbances' \in 0 .. MaxDisturbances
    BY <1>11, DisturbType DEF WriteSecretFails, TypeOK
  <2>3. /\ secrets' \in [SecretNames -> Opt(Materials)]
        /\ secretSeen' \in [SecretNames -> Opt(Materials)]
        /\ secretFresh' \in [SecretNames -> BOOLEAN]
    <3>1. CASE UNCHANGED secretVars
      BY <3>1 DEF TypeOK
    <3>2. CASE SecretTarget # None /\ SecretWritten(loc.spec.secret)
      <4>1. SecretTarget \in Materials
        BY <2>1, <3>2 DEF SecretTarget, OrElse, TypeOK, Locals
      <4>2. secrets' \in [SecretNames -> Opt(Materials)]
        BY Zenon, <3>2, <4>1 DEF SecretWritten, TypeOK
      <4> QED
        BY <2>1, <3>2, <4>2, SecretCacheType DEF SecretWritten
    <3> QED
      BY <1>11, <3>1, <3>2 DEF WriteSecretFails
  <2> QED
    BY <1>11, <2>2, <2>3, NoLocalType DEF WriteSecretFails, FailSilently, Done, TypeOK, InFlight, Steps
<1>12. CASE PersistKeyStatus
  <2>1. loc.spec \in Specs /\ loc.url \in URLs /\ loc.mode # "none" /\ loc.val \in Materials
    BY <1>12 DEF PersistKeyStatus, InFlight
  <2>2. KeyStatus \in Statuses
    BY <2>1, KeyStatusType
  <2>3. loc' = [loc EXCEPT !.status = KeyStatus, !.mat = None] /\ pc' = "deploy"
    BY <1>12 DEF PersistKeyStatus
  <2>4. /\ spec' \in Specs /\ status' \in Statuses /\ phase' \in Phases
        /\ finalizer' \in BOOLEAN /\ seen' \in Objects /\ seenFresh' \in BOOLEAN
        /\ touched' \in BOOLEAN
    <3>1. CASE StatusWritten
      <4>1. spec' \in Specs /\ status' \in Statuses /\ phase' \in Phases /\ finalizer' \in BOOLEAN
        BY <2>2, <3>1 DEF StatusWritten, TypeOK
      <4> QED
        BY <3>1, <4>1, CacheFollowsType DEF StatusWritten, TypeOK
    <3>2. CASE UNCHANGED <<crVars, touched>>
      BY <3>2 DEF TypeOK
    <3> QED
      BY <1>12, <3>1, <3>2 DEF PersistKeyStatus
  <2> HIDE DEF KeyStatus
  <2>5. loc' \in Locals
    BY Zenon, <2>2, <2>3 DEF TypeOK, Locals
  <2>6. InFlight'
    BY <1>12, <2>1, <2>3, <2>4 DEF PersistKeyStatus, InFlight, TypeOK, Locals
  <2> QED
    BY <1>12, <2>3, <2>4, <2>5, <2>6 DEF PersistKeyStatus, TypeOK, Steps
<1>13. CASE PersistFails
  <2>1. KeyStatus \in Statuses
    BY <1>13, KeyStatusType DEF PersistFails, InFlight
  <2>2. disturbances' \in 0 .. MaxDisturbances
    BY <1>13, DisturbType DEF PersistFails, TypeOK
  <2>3. /\ spec' \in Specs /\ status' \in Statuses /\ phase' \in Phases
        /\ finalizer' \in BOOLEAN /\ seen' \in Objects /\ seenFresh' \in BOOLEAN
        /\ touched' \in BOOLEAN
    <3>1. CASE StatusWritten
      <4>1. spec' \in Specs /\ status' \in Statuses /\ phase' \in Phases /\ finalizer' \in BOOLEAN
        BY <2>1, <3>1 DEF StatusWritten, TypeOK
      <4> QED
        BY <3>1, <4>1, CacheFollowsType DEF StatusWritten, TypeOK
    <3>2. CASE UNCHANGED <<crVars, touched>>
      BY <3>2 DEF TypeOK
    <3> QED
      BY <1>13, <3>1, <3>2 DEF PersistFails
  <2> QED
    BY <1>13, <2>2, <2>3, NoLocalType DEF PersistFails, Done, TypeOK, InFlight, Steps
<1>14. CASE ReconcileWorkload
  <2>1. deploy' \in Opt(Deployments)
    <3>1. loc.url \in URLs /\ loc.spec.secret \in SecretNames /\ loc.val \in Materials
      BY <1>14, SpecFields DEF ReconcileWorkload, InFlight
    <3> QED
      BY <1>14, <3>1 DEF ReconcileWorkload, TypeOK, Deployments
  <2>2. disturbances' \in 0 .. MaxDisturbances
    BY <1>14, DisturbType DEF ReconcileWorkload, TypeOK
  <2>3. /\ spec' \in Specs /\ status' \in Statuses /\ phase' \in Phases
        /\ finalizer' \in BOOLEAN
    BY <1>14 DEF ReconcileWorkload, TypeOK
  <2>4. seen' \in Objects /\ seenFresh' \in BOOLEAN
    BY <1>14, <2>3, CacheFollowsType DEF ReconcileWorkload, TypeOK
  <2> QED
    BY <1>14, <2>1, <2>2, <2>3, <2>4, NoLocalType
       DEF ReconcileWorkload, Done, TypeOK, InFlight, Steps
<1>15. CASE CleanUpRemoteKey
  <2>1. coderd' \in [Spots -> Opt(Keys)] /\ touched' \in BOOLEAN
    BY <1>15, DeleteKeyType DEF CleanUpRemoteKey, TypeOK
  <2>2. disturbances' \in 0 .. MaxDisturbances
    BY Zenon, <1>15, DisturbType DEF CleanUpRemoteKey, RemoteFault, TypeOK
  <2>3. loc' = [NoLocal EXCEPT !.spec = seen.spec, !.status = seen.status, !.fresh = seenFresh]
    BY <1>15 DEF CleanUpRemoteKey
  <2>4. seen.spec \in Specs /\ seen.status \in Statuses /\ seenFresh \in BOOLEAN
    BY DEF TypeOK, Objects
  <2>5. loc' \in Locals /\ loc'.spec = seen.spec
    BY Zenon, <2>3, <2>4 DEF NoLocal, Locals, Modes
  <2> QED
    BY Zenon, <1>15, <2>1, <2>2, <2>4, <2>5 DEF CleanUpRemoteKey, TypeOK, InFlight, Steps
<1>16. CASE RemoveFinalizer
  <2>1. disturbances' \in 0 .. MaxDisturbances
    BY <1>16, DisturbType DEF RemoveFinalizer, TypeOK
  <2>2. spec' \in Specs /\ status' \in Statuses /\ phase' \in Phases /\ finalizer' \in BOOLEAN
    BY Zenon, <1>16 DEF RemoveFinalizer, TypeOK, Phases
  <2>3. seen' \in Objects /\ seenFresh' \in BOOLEAN
    BY <1>16, <2>2, CacheFollowsType DEF RemoveFinalizer, TypeOK
  <2> QED
    BY <1>16, <2>1, <2>2, <2>3, NoLocalType DEF RemoveFinalizer, Done, TypeOK, InFlight, Steps
<1>17. CASE SyncObject
  BY <1>17 DEF SyncObject, TypeOK, InFlight, CR, Objects
<1>18. ASSUME NEW s \in SecretNames, SyncSecret(s)
       PROVE  TypeOK' /\ InFlight'
  <2>1. /\ secretSeen' \in [SecretNames -> Opt(Materials)]
        /\ secretFresh' \in [SecretNames -> BOOLEAN]
    BY <1>18 DEF SyncSecret, TypeOK
  <2> QED
    BY <1>18, <2>1 DEF SyncSecret, TypeOK, InFlight
<1>19. CASE EditSpec
  <2>1. spec' \in Specs /\ status' \in Statuses /\ phase' \in Phases /\ finalizer' \in BOOLEAN
    BY <1>19, ConstantsAssumption DEF EditSpec, TypeOK
  <2>2. seen' \in Objects /\ seenFresh' \in BOOLEAN
    BY <1>19, <2>1, CacheFollowsType DEF EditSpec
  <2>3. disturbances' \in 0 .. MaxDisturbances
    BY <1>19, DisturbType DEF EditSpec
  <2>4. loc' \in Locals /\ InFlight'
    BY <1>19, OvertakenTypes DEF EditSpec
  <2> QED
    BY <1>19, <2>1, <2>2, <2>3, <2>4 DEF EditSpec, TypeOK
<1>20. CASE DeleteObject
  <2>1. spec' \in Specs /\ status' \in Statuses /\ phase' \in Phases /\ finalizer' \in BOOLEAN
    BY <1>20 DEF DeleteObject, TypeOK, Phases
  <2>2. seen' \in Objects /\ seenFresh' \in BOOLEAN
    BY <1>20, <2>1, CacheFollowsType DEF DeleteObject
  <2>3. disturbances' \in 0 .. MaxDisturbances
    BY <1>20, DisturbType DEF DeleteObject
  <2>4. loc' \in Locals /\ InFlight'
    BY <1>20, OvertakenTypes DEF DeleteObject
  <2> QED
    BY <1>20, <2>1, <2>2, <2>3, <2>4 DEF DeleteObject, TypeOK
<1>21. ASSUME NEW s \in SecretNames, DeleteSecret(s)
       PROVE  TypeOK' /\ InFlight'
  <2>1. secrets' \in [SecretNames -> Opt(Materials)]
    BY <1>21 DEF DeleteSecret, TypeOK
  <2>2. /\ secretSeen' \in [SecretNames -> Opt(Materials)]
        /\ secretFresh' \in [SecretNames -> BOOLEAN]
    BY <1>21, <2>1, SecretCacheType DEF DeleteSecret
  <2>3. disturbances' \in 0 .. MaxDisturbances
    BY <1>21, DisturbType DEF DeleteSecret
  <2> QED
    BY <1>21, <2>1, <2>2, <2>3 DEF DeleteSecret, TypeOK, InFlight
<1>22. ASSUME NEW c \in ControlPlanes, ControlPlaneChanges(c)
       PROVE  TypeOK' /\ InFlight'
  <2>1. cps' \in [ControlPlanes -> CPStatus]
    <3>1. PICK st \in CPStates[c] : cps' = [cps EXCEPT ![c] = st]
      BY Zenon, <1>22 DEF ControlPlaneChanges
    <3>2. st \in CPStatus
      BY ConstantsAssumption
    <3> QED
      BY <3>1, <3>2 DEF TypeOK
  <2>2. disturbances' \in 0 .. MaxDisturbances
    BY <1>22, DisturbType DEF ControlPlaneChanges
  <2> QED
    BY Zenon, <1>22, <2>1, <2>2 DEF ControlPlaneChanges, TypeOK, InFlight
<1>23. CASE Crash
  <2>1. disturbances' \in 0 .. MaxDisturbances
    BY <1>23, DisturbType DEF Crash
  <2>2. seen' \in Objects
    BY <1>23 DEF Crash, TypeOK, CR, Objects
  <2> QED
    BY <1>23, <2>1, <2>2, NoLocalType DEF Crash, Done, TypeOK, InFlight, Steps
<1>24. CASE UNCHANGED vars
  BY <1>24 DEF vars, TypeOK, InFlight
<1> QED
  BY <1>1, <1>2, <1>3, <1>4, <1>5, <1>6, <1>7, <1>8, <1>9, <1>10, <1>11, <1>12, <1>13,
     <1>14, <1>15, <1>16, <1>17, <1>18, <1>19, <1>20, <1>21, <1>22, <1>23, <1>24
     DEF Next, Controller, Sync, Environment

\* In every reachable state, for every value of the constants, the object, its
\* copies and the locals of the reconcile have their types, and a step of Reconcile
\* runs only with the local variables it needs set.
THEOREM TypeCorrect == Spec => [](TypeOK /\ InFlight)
<1>1. Init => TypeOK /\ InFlight
  BY InitTypes
<1>2. TypeOK /\ InFlight /\ [Next]_vars => (TypeOK /\ InFlight)'
  BY TypeStep
<1> QED
  BY <1>1, <1>2, PTL DEF Spec

-----------------------------------------------------------------------------
(* Custody.                                                                  *)

\* The next lemmas say what each kind of write does to the parts of CustodyInv.

LEMMA DeleteKeyEffect ==
    ASSUME TypeOK, NEW spot, DeleteKey(spot)
    PROVE  /\ touched => touched'
           /\ touched' \/ coderd' = coderd
<1>1. touched => touched'
  BY Zenon DEF DeleteKey, TypeOK
<1>2. CASE coderd[spot] # None
  BY Zenon, <1>1, <1>2 DEF DeleteKey, TypeOK
<1>3. CASE coderd[spot] = None
  <2>1. coderd' = coderd
    BY <1>3 DEF DeleteKey, TypeOK
  <2> QED
    BY <1>1, <2>1
<1> QED
  BY <1>2, <1>3

\* The cached copy stays truthful about its version and about the Secret's name.
LEMMA CacheFollowsCurrent ==
    ASSUME TypeOK, CacheFollows, seen.spec.secret = spec'.secret
    PROVE  /\ seenFresh' => seen' = CR'
           /\ seen'.spec.secret = spec'.secret
BY Zenon, ConstantsAssumption DEF CacheFollows, CR

LEMMA CopyFollowsOrStays ==
    ASSUME TypeOK, VersionsCurrent, SecretAgreed, UNCHANGED <<spec, status, phase, finalizer>>,
           CacheFollows \/ UNCHANGED <<seen, seenFresh>>
    PROVE  /\ seenFresh' => seen' = CR'
           /\ seen'.spec.secret = spec'.secret
<1>1. CASE CacheFollows
  BY Zenon, <1>1, CacheFollowsCurrent DEF SecretAgreed
<1>2. CASE UNCHANGED <<seen, seenFresh>>
  BY Zenon, <1>2 DEF VersionsCurrent, SecretAgreed, CR
<1> QED
  BY Zenon, <1>1, <1>2

LEMMA DoneSettles ==
    ASSUME Done
    PROVE  MaterialHeld' /\ loc'.fresh = FALSE /\ pc' = "idle"
BY DEF Done, NoLocal, MaterialHeld

\* Custody survives any step that leaves key metadata alone, at most loses Secrets,
\* and records in the history variable whether it changed coderd.
LEMMA CustodyKept ==
    ASSUME TypeOK, Custody,
           status' \in {status, [status EXCEPT !.ready = "false"]},
           \A s \in SecretNames : secrets'[s] \in {None, secrets[s]},
           touched => touched',
           touched' \/ coderd' = coderd,
           Complete(status) => status.secret \in SecretNames
    PROVE  Custody'
<1>1. /\ status'.org = status.org /\ status'.name = status.name /\ status'.tags = status.tags
      /\ status'.cp = status.cp /\ status'.url = status.url /\ status'.id = status.id
      /\ status'.secret = status.secret
  BY DEF TypeOK, Statuses
<1>2. SUFFICES ASSUME ~touched', Complete(status')
               PROVE  /\ coderd'[Spot(status'.url, status'.org, status'.name)] =
                             [tags |-> status'.tags, mat |-> status'.id]
                      /\ secrets'[status'.secret] \in {None, status'.id}
  BY DEF Custody
<1>3. ~touched /\ coderd' = coderd /\ Complete(status)
  BY <1>1, <1>2 DEF Complete
<1>4. /\ coderd[Spot(status.url, status.org, status.name)] = [tags |-> status.tags, mat |-> status.id]
      /\ secrets[status.secret] \in {None, status.id}
  BY <1>3 DEF Custody
<1> QED
  BY <1>1, <1>3, <1>4

\* A failure report changes nothing but ProvisionerKeyReady.
LEMMA ReportFailureEffect ==
    ASSUME TypeOK, VersionsCurrent, SecretAgreed, KeyCallFails
    PROVE  /\ VersionsCurrent' /\ SecretAgreed' /\ MaterialHeld'
           /\ status' \in {status, [status EXCEPT !.ready = "false"]}
<1>1. Done
  BY DEF KeyCallFails, ReportFailure, FailSilently
<1>2. MaterialHeld' /\ loc'.fresh = FALSE /\ pc' = "idle"
  BY Zenon, <1>1, DoneSettles
<1>3. status' \in {status, [status EXCEPT !.ready = "false"]} /\ spec' = spec
  BY DEF KeyCallFails, ReportFailure, FailSilently, VersionsCurrent, crVars
<1>4. /\ seenFresh' => seen' = CR'
      /\ seen'.spec.secret = spec'.secret
  <2>1. CASE CacheFollows
    BY <1>3, <2>1, CacheFollowsCurrent DEF SecretAgreed
  <2>2. CASE UNCHANGED <<seen, seenFresh>> /\ UNCHANGED <<spec, status, phase, finalizer>>
    BY Zenon, <2>2 DEF VersionsCurrent, SecretAgreed, CR
  <2> QED
    BY <2>1, <2>2 DEF KeyCallFails, ReportFailure, FailSilently, crVars
<1>5. Complete(status') => status'.secret = spec'.secret /\ status'.name # None
  BY <1>3 DEF SecretAgreed, Complete, TypeOK, Statuses
<1> QED
  BY <1>2, <1>3, <1>4, <1>5 DEF VersionsCurrent, SecretAgreed

LEMMA InitCustody == Init => CustodyInv
<1> SUFFICES ASSUME Init PROVE CustodyInv
  OBVIOUS
<1>1. TypeOK /\ InFlight
  BY InitTypes
<1>2. InitCommon
  BY DEF Init, InitNew, InitLegacy
<1>3. ~Complete(status)
  <2>1. CASE InitNew
    BY <2>1 DEF InitNew, NoStatus, Complete
  <2>2. CASE InitLegacy
    BY <2>2 DEF InitLegacy, NoStatus, Complete
  <2> QED
    BY <2>1, <2>2 DEF Init
<1>4. VersionsCurrent
  BY <1>2 DEF InitCommon, VersionsCurrent, NoLocal
<1>5. SecretAgreed
  BY Zenon, <1>2, <1>3 DEF InitCommon, SecretAgreed, CR
<1>6. MaterialHeld
  BY Zenon, <1>2 DEF InitCommon, MaterialHeld, NoLocal
<1>7. Custody
  BY <1>3 DEF Custody
<1> QED
  BY <1>1, <1>4, <1>5, <1>6, <1>7 DEF CustodyInv

LEMMA CustodyStep ==
    ASSUME SecretNameFixed, TypeOK, CustodyInv, TypeOK', InFlight', [Next]_vars
    PROVE  CustodyInv'
<1> USE DEF crVars, secretVars
<1>0. InFlight /\ VersionsCurrent /\ SecretAgreed /\ MaterialHeld /\ Custody
  BY DEF CustodyInv
<1>s. Complete(status) => status.secret \in SecretNames
  BY Zenon, <1>0, SpecFields DEF SecretAgreed, TypeOK
<1> SUFFICES VersionsCurrent' /\ SecretAgreed' /\ MaterialHeld' /\ Custody'
  BY DEF CustodyInv
\* Steps that touch neither coderd nor Secrets nor key metadata.
<1>c. ASSUME UNCHANGED <<status, secrets, coderd, touched>>
      PROVE  Custody'
  BY Zenon, <1>c, <1>0 DEF Custody, Complete, Spot
<1>m. ASSUME UNCHANGED <<secrets, secretSeen, coderd, pc, touched>>,
             loc' \in {loc, [loc EXCEPT !.fresh = FALSE]}
      PROVE  MaterialHeld'
  <2>1. /\ loc'.spec = loc.spec /\ loc'.status = loc.status /\ loc'.url = loc.url
        /\ loc'.mode = loc.mode /\ loc'.mat = loc.mat
    BY <1>m DEF TypeOK, Locals
  <2> QED
    BY <1>m, <1>0, <2>1 DEF MaterialHeld, DesiredSpot, Spot
<1>1. CASE AddFinalizer \/ WaitForControlPlane
  <2>1. /\ UNCHANGED <<spec, status, secrets, secretSeen, coderd, touched, pc, loc>>
        /\ CacheFollows /\ pc = "idle"
    BY <1>1 DEF AddFinalizer, WaitForControlPlane
  <2>2. loc = NoLocal
    BY <1>0, <2>1 DEF InFlight
  <2>3. VersionsCurrent' /\ SecretAgreed'
    BY Zenon, <1>0, <2>1, <2>2, CacheFollowsCurrent DEF VersionsCurrent, SecretAgreed, NoLocal
  <2> QED
    BY <1>c, <1>m, <2>1, <2>3
<1>2. CASE StartReconcile
  <2> DEFINE url == cps[seen.spec.cp].url
             usable == secretSeen[seen.spec.secret] # None
  <2>1. /\ loc'.spec = seen.spec /\ loc'.status = seen.status /\ loc'.fresh = seenFresh
        /\ loc'.mat = None
        /\ loc'.mode = Mode(seen.spec, seen.status, url, usable)
        /\ pc' = CASE loc'.mode = "drift" -> "deleteOld"
                   [] loc'.mode = "keep"  -> "writeSecret"
                   [] OTHER               -> "ensure"
        /\ UNCHANGED <<spec, status, phase, finalizer, seen, seenFresh, secrets, coderd, touched>>
    BY <1>2 DEF StartReconcile
  <2>2. VersionsCurrent'
    BY <1>0, <2>1 DEF VersionsCurrent, CR
  <2>3. SecretAgreed'
    BY <1>0, <2>1 DEF SecretAgreed, Complete
  <2>4. loc'.mode = "keep" => Complete(seen.status)
    BY <2>1 DEF Mode
  <2>5. pc' \in {"writeSecret", "persist"} => loc'.mode = "keep"
    BY <2>1
  <2>6. MaterialHeld'
    BY Zenon, <2>1, <2>4, <2>5 DEF MaterialHeld, Complete
  <2> QED
    BY <1>c, <2>1, <2>2, <2>3, <2>6
\* Calls to coderd.
<1>3. CASE DeleteOldKey
  <2>1. /\ pc = "deleteOld" /\ pc' = "ensure" /\ UNCHANGED <<spec, status, phase, finalizer, seen, seenFresh, loc, secrets>>
    BY <1>3 DEF DeleteOldKey, Proceed
  <2>2. (touched => touched') /\ (touched' \/ coderd' = coderd)
    BY <1>3, DeleteKeyEffect DEF DeleteOldKey
  <2>3. MaterialHeld'
    BY ZenonT(40), <1>0, <2>1 DEF MaterialHeld, Complete
  <2>4. VersionsCurrent' /\ SecretAgreed'
    BY Zenon, <1>0, <2>1 DEF VersionsCurrent, SecretAgreed, CR, Complete
  <2> QED
    BY <1>0, <1>s, <2>1, <2>2, <2>3, <2>4, CustodyKept
<1>4. CASE EnsureFindsKey
  <2>1. /\ pc = "ensure" /\ pc' = "rotate"
        /\ UNCHANGED <<spec, status, phase, finalizer, seen, seenFresh, loc, secrets, coderd, touched>>
    BY <1>4 DEF EnsureFindsKey, Proceed
  <2>2. MaterialHeld'
    BY Zenon, <1>0, <2>1 DEF MaterialHeld, Complete
  <2>3. VersionsCurrent' /\ SecretAgreed'
    BY Zenon, <1>0, <2>1 DEF VersionsCurrent, SecretAgreed, CR, Complete
  <2> QED
    BY <1>c, <2>1, <2>2, <2>3
<1>5. CASE EnsureCreatesKey
  <2>1. PICK m \in Materials :
           /\ CreateKey(DesiredSpot(loc.spec, loc.url), loc.spec.tags, m)
           /\ loc' = [loc EXCEPT !.mat = m]
    BY <1>5 DEF EnsureCreatesKey
  <2>2. /\ pc \in {"ensure", "recreate"} /\ pc' = "writeSecret"
        /\ UNCHANGED <<spec, status, phase, finalizer, seen, seenFresh, secrets, secretSeen>>
    BY <1>5 DEF EnsureCreatesKey
  <2>3. /\ loc'.spec = loc.spec /\ loc'.status = loc.status /\ loc'.url = loc.url
        /\ loc'.mode = loc.mode /\ loc'.mat = m /\ loc'.fresh = loc.fresh
    BY <2>1 DEF TypeOK, Locals
  <2>4. loc.spec \in Specs /\ loc.url \in URLs /\ loc.spec.secret \in SecretNames
    BY <1>0, <2>2, SpecFields DEF InFlight
  <2>5. touched' /\ coderd'[DesiredSpot(loc.spec, loc.url)] = [tags |-> loc.spec.tags, mat |-> m]
    <3>1. DesiredSpot(loc.spec, loc.url) \in Spots
      BY <2>4, SpecFields, ConstantsAssumption DEF DesiredSpot, Spot, Spots
    <3> QED
      BY <2>1, <3>1 DEF CreateKey, TypeOK
  <2>6. secrets[loc.spec.secret] # m /\ secretSeen[loc.spec.secret] # m /\ loc.status.id # m
    BY <2>1, <2>4 DEF CreateKey, Fresh, InUse
  <2>7. m # None
    BY NoneIsNew
  <2>8. loc.mode # "keep"
    BY Zenon, <1>0, <2>2 DEF MaterialHeld
  <2>9. MaterialHeld'
    BY Zenon, <2>2, <2>3, <2>5, <2>6, <2>7, <2>8 DEF MaterialHeld, DesiredSpot, Spot
  <2>10. VersionsCurrent' /\ SecretAgreed'
    BY ZenonT(40), <1>0, <2>2, <2>3 DEF VersionsCurrent, SecretAgreed, CR, Complete
  <2>11. Custody'
    BY Zenon, <2>5 DEF Custody
  <2> QED
    BY <2>9, <2>10, <2>11
<1>6. CASE EnsureFails
  <2>1. KeyCallFails /\ UNCHANGED secrets
    BY <1>6 DEF EnsureFails
  <2>2. (touched => touched') /\ (touched' \/ coderd' = coderd)
    <3>1. CASE UNCHANGED <<coderd, touched>>
      BY <3>1
    <3>2. ASSUME NEW m \in Materials,
                 CreateKey(DesiredSpot(loc.spec, loc.url), loc.spec.tags, m)
          PROVE  touched'
      BY <3>2 DEF CreateKey
    <3> QED
      BY <1>6, <3>1, <3>2 DEF EnsureFails
  <2> QED
    BY <1>0, <1>s, <2>1, <2>2, ReportFailureEffect, CustodyKept
<1>7. CASE DeleteForRotation
  <2>1. UNCHANGED secrets
    BY <1>7 DEF DeleteForRotation
  <2>2. (touched => touched') /\ (touched' \/ coderd' = coderd)
    BY <1>7, DeleteKeyEffect DEF DeleteForRotation
  <2>3. CASE Proceed("recreate")
    <3>1. pc = "rotate" /\ pc' = "recreate" /\ UNCHANGED <<spec, status, phase, finalizer, seen, seenFresh, loc>>
      BY <1>7, <2>3 DEF DeleteForRotation, Proceed
    <3>2. MaterialHeld'
      BY Zenon, <1>0, <3>1 DEF MaterialHeld, Complete
    <3>3. VersionsCurrent' /\ SecretAgreed'
      BY Zenon, <1>0, <3>1 DEF VersionsCurrent, SecretAgreed, CR, Complete
    <3> QED
      BY <1>0, <1>s, <2>1, <2>2, <3>1, <3>2, <3>3, CustodyKept
  <2>4. CASE KeyCallFails
    BY <1>0, <1>s, <2>1, <2>2, <2>4, ReportFailureEffect, CustodyKept
  <2> QED
    BY <1>7, <2>3, <2>4 DEF DeleteForRotation
\* Storing the plaintext: only a rotation has anything to write.
<1>8. CASE SecretUpToDate
  <2>1. /\ pc = "writeSecret" /\ pc' = "persist"
        /\ UNCHANGED <<spec, status, phase, finalizer, seen, seenFresh, secrets, secretSeen, coderd, touched>>
        /\ loc' = [loc EXCEPT !.val = SecretTarget]
    BY <1>8 DEF SecretUpToDate
  <2>2. /\ loc'.spec = loc.spec /\ loc'.status = loc.status /\ loc'.url = loc.url
        /\ loc'.mode = loc.mode /\ loc'.mat = loc.mat /\ loc'.fresh = loc.fresh
    BY <2>1 DEF TypeOK, Locals
  <2>3. loc.mat = None
    BY <1>0, <1>8, <2>1 DEF SecretUpToDate, SecretTarget, OrElse, MaterialHeld
  <2>4. MaterialHeld'
    BY <1>0, <2>1, <2>2, <2>3 DEF MaterialHeld, Complete
  <2>5. VersionsCurrent' /\ SecretAgreed'
    BY <1>0, <2>1, <2>2 DEF VersionsCurrent, SecretAgreed, CR, Complete
  <2> QED
    BY <1>c, <2>1, <2>4, <2>5
<1>9. CASE WriteSecret
  <2>1. /\ pc = "writeSecret" /\ pc' = "persist"
        /\ UNCHANGED <<spec, status, phase, finalizer, seen, seenFresh, coderd, touched>>
        /\ loc' = [loc EXCEPT !.val = SecretTarget]
        /\ secrets' = [secrets EXCEPT ![loc.spec.secret] = SecretTarget]
    BY <1>9 DEF WriteSecret, SecretWritten
  <2>2. /\ loc'.spec = loc.spec /\ loc'.status = loc.status /\ loc'.url = loc.url
        /\ loc'.mode = loc.mode /\ loc'.mat = loc.mat /\ loc'.fresh = loc.fresh
    BY <2>1 DEF TypeOK, Locals
  <2>3. loc.mat # None /\ SecretTarget = loc.mat
    BY <1>9 DEF WriteSecret, SecretTarget, OrElse
  <2>4. loc.spec.secret \in SecretNames
    BY <1>0, <2>1, SpecFields DEF InFlight
  <2>5. secrets'[loc.spec.secret] = loc.mat
    BY <2>1, <2>3, <2>4 DEF TypeOK
  <2>6. MaterialHeld'
    BY <1>0, <2>1, <2>2, <2>3, <2>5 DEF MaterialHeld, DesiredSpot, Spot
  <2>7. VersionsCurrent' /\ SecretAgreed'
    BY <1>0, <2>1, <2>2 DEF VersionsCurrent, SecretAgreed, CR, Complete
  <2>8. Custody'
    BY <1>0, <2>1, <2>3 DEF Custody, MaterialHeld
  <2> QED
    BY <2>6, <2>7, <2>8
<1>10. CASE WriteSecretFails
  <2>1. Done /\ UNCHANGED <<spec, status, phase, finalizer, seen, seenFresh, coderd, touched>>
    BY Zenon, <1>10 DEF WriteSecretFails, FailSilently
  <2>2. VersionsCurrent' /\ SecretAgreed' /\ MaterialHeld'
    BY ZenonT(40), <1>0, <2>1, DoneSettles DEF VersionsCurrent, SecretAgreed, CR, Complete
  <2>3. CASE UNCHANGED secrets
    BY <1>c, <2>1, <2>2, <2>3
  <2>4. CASE SecretTarget # None /\ secretSeen[loc.spec.secret] # SecretTarget
    <3>1. touched
      BY Zenon, <1>0, <2>4 DEF SecretTarget, OrElse, MaterialHeld
    <3> QED
      BY Zenon, <2>1, <2>2, <3>1 DEF Custody
  <2> QED
    BY Zenon, <1>10, <2>3, <2>4 DEF WriteSecretFails
\* Persisting key metadata.
<1>11. ASSUME pc = "persist", loc.fresh, KeyStatusChanged, StatusWritten, UNCHANGED <<secrets, coderd>>
       PROVE  /\ Custody'
              /\ seenFresh' => seen' = CR'
              /\ spec' = spec /\ status' = KeyStatus
              /\ seen'.spec.secret = spec'.secret
              /\ Complete(status') => status'.secret = spec'.secret /\ status'.name # None
  <2>1. /\ status' = KeyStatus /\ spec' = spec /\ CacheFollows
        /\ touched' = (touched /\ loc.mat = None)
    BY <1>11 DEF StatusWritten
  <2>2. loc.spec = spec /\ loc.status = status
    BY <1>0, <1>11 DEF VersionsCurrent
  <2>3. (seenFresh' => seen' = CR') /\ seen'.spec.secret = spec'.secret
    BY Zenon, <1>0, <2>1, CacheFollowsCurrent DEF SecretAgreed
  <2>4. CASE loc.mode = "keep"
    \* The status is complete already, so only what it names again is written.
    <3>1. Complete(status) /\ status.secret = spec.secret /\ status.name # None /\ loc.mat = None
      BY Zenon, <1>0, <2>2, <2>4 DEF MaterialHeld, SecretAgreed
    <3>2. KeyStatus = status
      <4>1. KeyStatus = [status EXCEPT !.name = status.name, !.secret = status.secret]
        BY <2>2, <2>4, <3>1 DEF KeyStatus, OrElse
      <4>2. status \in Statuses
        BY DEF TypeOK
      <4> QED
        BY ZenonT(40), <4>1, <4>2 DEF Statuses
    <3>3. UNCHANGED <<status, touched>>
      BY Zenon, <2>1, <3>1, <3>2 DEF TypeOK
    <3> QED
      BY <1>c, <1>11, <2>1, <2>3, <3>1, <3>3 DEF Complete
  <2>5. CASE loc.mode # "keep"
    <3>1. loc.mat # None
      BY Zenon, <1>0, <1>11, <2>5 DEF MaterialHeld
    <3>2. /\ coderd[DesiredSpot(loc.spec, loc.url)] = [tags |-> loc.spec.tags, mat |-> loc.mat]
          /\ secrets[loc.spec.secret] \in {None, loc.mat}
      BY Zenon, <1>0, <1>11, <3>1 DEF MaterialHeld
    <3>3. /\ status'.org = loc.spec.org /\ status'.name = loc.spec.name
          /\ status'.tags = loc.spec.tags /\ status'.url = loc.url /\ status'.id = loc.mat
          /\ status'.secret = loc.spec.secret
      BY <2>1, <2>5 DEF KeyStatus
    <3>4. Custody'
      BY Zenon, <1>11, <3>2, <3>3 DEF Custody, DesiredSpot, Spot
    <3>5. status'.name # None
      <4>1. spec \in Specs
        BY DEF TypeOK
      <4>2. spec.name \in KeyNames
        BY <4>1, SpecFields
      <4>3. None \notin KeyNames
        BY NoneIsNew
      <4> QED
        BY <2>2, <3>3, <4>2, <4>3
    <3> QED
      BY Zenon, <2>1, <2>2, <2>3, <3>3, <3>4, <3>5
  <2> QED
    BY <2>4, <2>5
<1>12. CASE PersistKeyStatus
  <2>1. /\ pc = "persist" /\ pc' = "deploy" /\ UNCHANGED <<secrets, coderd>>
        /\ loc' = [loc EXCEPT !.status = KeyStatus, !.mat = None]
    BY <1>12 DEF PersistKeyStatus
  <2>2. /\ loc'.spec = loc.spec /\ loc'.status = KeyStatus /\ loc'.mode = loc.mode
        /\ loc'.mat = None /\ loc'.fresh = loc.fresh
    BY <2>1 DEF TypeOK, Locals
  <2>3. MaterialHeld'
    <3>1. loc.mode = "keep" => Complete(KeyStatus)
      <4>1. SUFFICES ASSUME loc.mode = "keep" PROVE Complete(KeyStatus)
        OBVIOUS
      <4>2. Complete(loc.status) /\ loc.status \in Statuses
        BY Zenon, <1>0, <4>1 DEF MaterialHeld, TypeOK, Locals
      <4>3. /\ KeyStatus.org = loc.status.org /\ KeyStatus.tags = loc.status.tags
            /\ KeyStatus.cp = loc.status.cp /\ KeyStatus.url = loc.status.url
        BY <4>1, <4>2 DEF KeyStatus, Statuses
      <4> QED
        BY <4>2, <4>3 DEF Complete
    <3> QED
      BY <2>1, <2>2, <3>1 DEF MaterialHeld, Complete
  <2>4. CASE KeyStatusChanged
    <3>1. loc.fresh /\ StatusWritten
      BY <1>12, <2>4 DEF PersistKeyStatus
    <3>2. loc.spec = spec
      BY <1>0, <3>1 DEF VersionsCurrent
    <3>3. VersionsCurrent' /\ SecretAgreed' /\ Custody'
      BY <1>11, <2>1, <2>2, <2>4, <3>1, <3>2 DEF VersionsCurrent, SecretAgreed
    <3> QED
      BY <2>3, <3>3
  <2>5. CASE ~KeyStatusChanged
    <3>1. UNCHANGED <<spec, status, phase, finalizer, seen, seenFresh, touched>>
      BY <1>12, <2>5 DEF PersistKeyStatus
    <3>2. loc.fresh => KeyStatus = status
      \* A rotation always changes the recorded key ID.
      <4>1. loc.mode = "keep" => KeyStatus = loc.status
        <5>1. SUFFICES ASSUME loc.mode = "keep" PROVE KeyStatus = loc.status
          OBVIOUS
        <5>2. loc.status \in Statuses /\ KeyStatus \in Statuses
          BY <1>0, <2>1, KeyStatusType DEF TypeOK, Locals, InFlight
        <5>3. KeyStatus.ready = loc.status.ready
          BY <5>1, <5>2 DEF KeyStatus, Statuses
        <5>4. [KeyStatus EXCEPT !.ready = loc.status.ready] = KeyStatus
          BY <5>2, <5>3 DEF Statuses
        <5> QED
          BY <2>5, <5>4 DEF KeyStatusChanged
      <4>2. loc.mode = "keep"
        <5>1. SUFFICES ASSUME loc.mode # "keep" PROVE KeyStatusChanged
          BY <2>5
        <5>2. loc.mat # loc.status.id
          BY <1>0, <2>1, <5>1 DEF MaterialHeld
        <5>3. [KeyStatus EXCEPT !.ready = loc.status.ready].id = loc.mat
          BY <5>1 DEF KeyStatus
        <5> QED
          BY Zenon, <5>2, <5>3 DEF KeyStatusChanged
      <4> QED
        BY <1>0, <4>1, <4>2 DEF VersionsCurrent
    <3>3. VersionsCurrent' /\ SecretAgreed'
      BY <1>0, <2>1, <2>2, <3>1, <3>2 DEF VersionsCurrent, SecretAgreed, CR, Complete
    <3> QED
      BY <1>c, <2>1, <2>3, <3>1, <3>3
  <2> QED
    BY <2>4, <2>5
<1>13. CASE PersistFails
  <2>1. pc = "persist" /\ KeyStatusChanged /\ Done /\ UNCHANGED <<secrets, coderd>>
    BY <1>13 DEF PersistFails
  <2>2. MaterialHeld' /\ loc'.fresh = FALSE /\ pc' = "idle"
    BY Zenon, <2>1, DoneSettles
  <2>3. CASE UNCHANGED <<crVars, touched>>
    <3>1. VersionsCurrent' /\ SecretAgreed'
      BY Zenon, <1>0, <2>2, <2>3 DEF VersionsCurrent, SecretAgreed, CR, Complete
    <3> QED
      BY <1>c, <2>1, <2>2, <2>3, <3>1
  <2>4. CASE loc.fresh /\ StatusWritten
    <3>1. VersionsCurrent' /\ SecretAgreed' /\ Custody'
      BY Zenon, <1>11, <2>1, <2>2, <2>4 DEF VersionsCurrent, SecretAgreed
    <3> QED
      BY <2>2, <3>1
  <2> QED
    BY <1>13, <2>3, <2>4 DEF PersistFails
<1>14. CASE ReconcileWorkload
  <2>1. Done /\ UNCHANGED <<spec, status, phase, finalizer, secrets, coderd, touched>>
    BY <1>14 DEF ReconcileWorkload
  <2>2. CacheFollows \/ UNCHANGED <<seen, seenFresh>>
    BY <1>14 DEF ReconcileWorkload
  <2>3. (seenFresh' => seen' = CR') /\ seen'.spec.secret = spec'.secret
    BY Zenon, <1>0, <2>1, <2>2, CopyFollowsOrStays
  <2>4. VersionsCurrent' /\ SecretAgreed' /\ MaterialHeld'
    BY Zenon, <1>0, <2>1, <2>3, DoneSettles DEF VersionsCurrent, SecretAgreed, Complete
  <2> QED
    BY <1>c, <2>1, <2>4
\* Deletion.
<1>15. CASE CleanUpRemoteKey
  <2>1. /\ pc' = "unfinalize" /\ UNCHANGED <<spec, status, phase, finalizer, seen, seenFresh, secrets>>
        /\ loc' = [NoLocal EXCEPT !.spec = seen.spec, !.status = seen.status, !.fresh = seenFresh]
    BY <1>15 DEF CleanUpRemoteKey
  <2>2. (touched => touched') /\ (touched' \/ coderd' = coderd)
    BY <1>15, DeleteKeyEffect DEF CleanUpRemoteKey
  <2>3. /\ loc'.spec = seen.spec /\ loc'.status = seen.status /\ loc'.fresh = seenFresh
        /\ loc'.mode = "none" /\ loc'.mat = None
    BY <2>1 DEF NoLocal
  <2>4. MaterialHeld'
    BY <2>1, <2>3 DEF MaterialHeld
  <2>5. VersionsCurrent' /\ SecretAgreed'
    BY <1>0, <2>1, <2>3 DEF VersionsCurrent, SecretAgreed, CR, Complete
  <2> QED
    BY <1>0, <1>s, <2>1, <2>2, <2>4, <2>5, CustodyKept
<1>16. CASE RemoveFinalizer
  <2>1. Done /\ UNCHANGED <<spec, status, secrets, coderd, touched>>
    BY <1>16 DEF RemoveFinalizer
  <2>2. CacheFollows \/ UNCHANGED crVars
    BY <1>16 DEF RemoveFinalizer
  <2>3. (seenFresh' => seen' = CR') /\ seen'.spec.secret = spec'.secret
    <3>1. CASE CacheFollows
      BY Zenon, <1>0, <2>1, <3>1, CacheFollowsCurrent DEF SecretAgreed
    <3>2. CASE UNCHANGED crVars
      BY Zenon, <1>0, <3>2 DEF VersionsCurrent, SecretAgreed, CR
    <3> QED
      BY Zenon, <2>2, <3>1, <3>2
  <2>4. VersionsCurrent' /\ SecretAgreed' /\ MaterialHeld'
    BY Zenon, <1>0, <2>1, <2>3, DoneSettles DEF VersionsCurrent, SecretAgreed, Complete
  <2> QED
    BY <1>c, <2>1, <2>4
\* Caches, users and crashes.
<1>17. CASE SyncObject
  <2>1. /\ seen' = CR /\ UNCHANGED <<spec, status, phase, finalizer, secrets, secretSeen, coderd, pc, loc, touched>>
    BY <1>17 DEF SyncObject
  <2>2. VersionsCurrent' /\ SecretAgreed'
    BY Zenon, <1>0, <2>1 DEF VersionsCurrent, SecretAgreed, CR, Complete
  <2> QED
    BY <1>c, <1>m, <2>1, <2>2
<1>18. ASSUME NEW s \in SecretNames, SyncSecret(s)
       PROVE  VersionsCurrent' /\ SecretAgreed' /\ MaterialHeld' /\ Custody'
  <2>1. /\ secretSeen' = [secretSeen EXCEPT ![s] = secrets[s]]
        /\ UNCHANGED <<spec, status, phase, finalizer, seen, seenFresh, secrets, coderd, pc, loc, touched>>
    BY Zenon, <1>18 DEF SyncSecret
  <2>2. VersionsCurrent' /\ SecretAgreed'
    BY Zenon, <1>0, <2>1 DEF VersionsCurrent, SecretAgreed, CR, Complete
  <2>3. \A x \in SecretNames : secretSeen'[x] \in {secretSeen[x], secrets[x]}
    BY Zenon, <2>1 DEF TypeOK
  <2>4. pc = "writeSecret" => loc.spec.secret \in SecretNames
    BY <1>0, SpecFields DEF InFlight
  <2>5. MaterialHeld'
    BY Zenon, <1>0, <2>1, <2>3, <2>4 DEF MaterialHeld, DesiredSpot, Spot, Complete
  <2> QED
    BY <1>c, <2>1, <2>2, <2>5
<1>19. CASE EditSpec
  <2>1. /\ UNCHANGED <<status, phase, finalizer, secrets, secretSeen, coderd, pc, touched>>
        /\ CacheFollows /\ loc' = [loc EXCEPT !.fresh = FALSE]
    BY <1>19 DEF EditSpec, Overtaken
  <2>2. spec'.secret = spec.secret
    BY <1>19 DEF EditSpec, SecretNameFixed
  <2>3. loc'.fresh = FALSE /\ loc'.spec = loc.spec
    BY <2>1 DEF TypeOK, Locals
  <2>4. VersionsCurrent' /\ SecretAgreed'
    BY <1>0, <2>1, <2>2, <2>3, CacheFollowsCurrent DEF VersionsCurrent, SecretAgreed, Complete
  <2> QED
    BY <1>c, <1>m, <2>1, <2>4
<1>20. CASE DeleteObject
  <2>1. /\ UNCHANGED <<spec, status, secrets, secretSeen, coderd, pc, touched>>
        /\ CacheFollows /\ loc' = [loc EXCEPT !.fresh = FALSE]
    BY <1>20 DEF DeleteObject, Overtaken
  <2>2. loc'.fresh = FALSE /\ loc'.spec = loc.spec
    BY <2>1 DEF TypeOK, Locals
  <2>3. VersionsCurrent' /\ SecretAgreed'
    BY <1>0, <2>1, <2>2, CacheFollowsCurrent DEF VersionsCurrent, SecretAgreed, Complete
  <2> QED
    BY <1>c, <1>m, <2>1, <2>3
<1>21. ASSUME NEW s \in SecretNames, DeleteSecret(s)
       PROVE  VersionsCurrent' /\ SecretAgreed' /\ MaterialHeld' /\ Custody'
  <2>1. /\ secrets' = [secrets EXCEPT ![s] = None] /\ SecretCacheFollows(s)
        /\ UNCHANGED <<spec, status, phase, finalizer, seen, seenFresh, coderd, pc, loc, touched>>
    BY <1>21 DEF DeleteSecret
  <2>2. VersionsCurrent' /\ SecretAgreed'
    BY Zenon, <1>0, <2>1 DEF VersionsCurrent, SecretAgreed, CR, Complete
  <2>3. \A x \in SecretNames : secrets'[x] \in {None, secrets[x]}
    BY Zenon, <2>1 DEF TypeOK
  <2>4. \A x \in SecretNames : secretSeen'[x] \in {None, secretSeen[x]}
    BY Zenon, <2>1, ConstantsAssumption DEF SecretCacheFollows, TypeOK
  <2>5. pc \in {"writeSecret", "persist"} => loc.spec.secret \in SecretNames
    BY <1>0, SpecFields DEF InFlight
  <2>6. MaterialHeld'
    BY ZenonT(40), <1>0, <2>1, <2>3, <2>4, <2>5 DEF MaterialHeld, DesiredSpot, Spot, Complete
  <2>7. Custody'
    BY <1>0, <1>s, <2>1, <2>3, CustodyKept
  <2> QED
    BY <2>2, <2>6, <2>7
<1>22. ASSUME NEW c \in ControlPlanes, ControlPlaneChanges(c)
       PROVE  VersionsCurrent' /\ SecretAgreed' /\ MaterialHeld' /\ Custody'
  <2>1. UNCHANGED <<spec, status, phase, finalizer, seen, seenFresh, secrets, secretSeen, coderd, pc, loc, touched>>
    BY ZenonT(40), <1>22 DEF ControlPlaneChanges
  <2>2. VersionsCurrent' /\ SecretAgreed'
    BY Zenon, <1>0, <2>1 DEF VersionsCurrent, SecretAgreed, CR, Complete
  <2> QED
    BY <1>c, <1>m, <2>1, <2>2
<1>23. CASE Crash
  <2>1. Done /\ seen' = CR /\ UNCHANGED <<spec, status, phase, finalizer, secrets, coderd, touched>>
    BY <1>23 DEF Crash
  <2>2. VersionsCurrent' /\ SecretAgreed' /\ MaterialHeld'
    BY Zenon, <1>0, <2>1, DoneSettles DEF VersionsCurrent, SecretAgreed, CR, Complete
  <2> QED
    BY <1>c, <2>1, <2>2
<1>24. CASE UNCHANGED vars
  <2>1. UNCHANGED <<spec, status, phase, finalizer, seen, seenFresh, secrets, secretSeen, coderd, pc, loc, touched>>
    BY <1>24 DEF vars
  <2>2. VersionsCurrent' /\ SecretAgreed'
    BY Zenon, <1>0, <2>1 DEF VersionsCurrent, SecretAgreed, CR, Complete
  <2> QED
    BY <1>c, <1>m, <2>1, <2>2
<1> QED
  BY Zenon, <1>1, <1>2, <1>3, <1>4, <1>5, <1>6, <1>7, <1>8, <1>9, <1>10, <1>12, <1>13,
     <1>14, <1>15, <1>16, <1>17, <1>18, <1>19, <1>20, <1>21, <1>22, <1>23, <1>24
     DEF Next, Controller, Sync, Environment

\* If no edit moves the key Secret, the facts about versions, Secrets and key
\* material that custody rests on hold in every reachable state.
THEOREM CustodyInvariant ==
    ASSUME SecretNameFixed
    PROVE  Spec => []CustodyInv
<1>1. Init => TypeOK /\ CustodyInv
  BY InitTypes, InitCustody
<1>2. TypeOK /\ CustodyInv /\ [Next]_vars => (TypeOK /\ CustodyInv)'
  <2> SUFFICES ASSUME TypeOK, CustodyInv, [Next]_vars
               PROVE  TypeOK' /\ CustodyInv'
    OBVIOUS
  <2>1. TypeOK' /\ InFlight'
    BY TypeStep DEF CustodyInv
  <2> QED
    BY <2>1, CustodyStep, SecretNameFixed
<1> QED
  BY <1>1, <1>2, PTL DEF Spec

\* If no edit moves the key Secret, then in every reachable state persisted key
\* metadata that coderd has not outrun is truthful: whatever the specs, the edits,
\* the number of failed calls, crashes and conflicts, and the cache's lag.
THEOREM CustodyCorrect ==
    ASSUME SecretNameFixed
    PROVE  Spec => []Custody
<1>1. CustodyInv => Custody
  BY DEF CustodyInv
<1>2. Spec => []CustodyInv
  BY CustodyInvariant, SecretNameFixed
<1> QED
  BY <1>1, <1>2, PTL

-----------------------------------------------------------------------------
(* What a step may change.                                                   *)

\* The object: users edit it, the reconcile writes its status, and everything else
\* leaves it alone.
LEMMA ObjectEffect ==
    ASSUME [Next]_vars
    PROVE  \/ UNCHANGED <<spec, status, phase, finalizer>>
           \/ EditSpec \/ AddFinalizer \/ DeleteObject \/ RemoveFinalizer
           \/ StatusWritten /\ pc = "persist" /\ pc' \in {"idle", "deploy"} /\ loc.fresh
           \/ ReportFailure /\ pc \in {"ensure", "recreate", "rotate"} /\ loc.fresh
<1> USE DEF crVars
<1>1. CASE WaitForControlPlane \/ StartReconcile \/ SecretUpToDate \/ WriteSecret \/ WriteSecretFails
  BY Zenon, <1>1 DEF WaitForControlPlane, StartReconcile, SecretUpToDate, WriteSecret, WriteSecretFails,
                     FailSilently
<1>2. CASE DeleteOldKey \/ EnsureFindsKey \/ EnsureCreatesKey \/ ReconcileWorkload \/ CleanUpRemoteKey
  BY Zenon, <1>2 DEF DeleteOldKey, EnsureFindsKey, EnsureCreatesKey, ReconcileWorkload, CleanUpRemoteKey,
                     Proceed
<1>3. CASE EnsureFails \/ DeleteForRotation
  <2>1. CASE KeyCallFails
    BY Zenon, <1>3, <2>1 DEF EnsureFails, DeleteForRotation, KeyCallFails, ReportFailure, FailSilently
  <2>2. CASE Proceed("recreate")
    BY Zenon, <2>2 DEF Proceed
  <2> QED
    BY Zenon, <1>3, <2>1, <2>2 DEF EnsureFails, DeleteForRotation
<1>4. CASE PersistKeyStatus \/ PersistFails
  BY Zenon, <1>4 DEF PersistKeyStatus, PersistFails, Done
<1>5. CASE Sync
  BY Zenon, <1>5 DEF Sync, SyncObject, SyncSecret
<1>6. CASE Environment
  BY Zenon, <1>6 DEF Environment, DeleteSecret, ControlPlaneChanges, Crash
<1>7. CASE UNCHANGED vars
  BY Zenon, <1>7 DEF vars
<1> QED
  BY Zenon, <1>1, <1>2, <1>3, <1>4, <1>5, <1>6, <1>7 DEF Next, Controller

\* The cached copy: it stays as it is while the object does, becomes the object, or
\* falls behind a write.
LEMMA CopyEffect ==
    ASSUME TypeOK, [Next]_vars
    PROVE  \/ UNCHANGED <<spec, status, phase, finalizer, seen, seenFresh>>
           \/ seen' = CR'
           \/ CacheLag /\ seen' = seen /\ ~seenFresh'
<1> USE DEF crVars
<1>c. CacheFollows => seen' = CR' \/ (CacheLag /\ seen' = seen /\ ~seenFresh')
  BY Zenon DEF CacheFollows
<1>1. CASE AddFinalizer \/ WaitForControlPlane \/ StartReconcile \/ SecretUpToDate \/ WriteSecret
  BY Zenon, <1>1, <1>c DEF AddFinalizer, WaitForControlPlane, StartReconcile, SecretUpToDate, WriteSecret
<1>2. CASE DeleteOldKey \/ EnsureFindsKey \/ EnsureCreatesKey \/ CleanUpRemoteKey
  BY Zenon, <1>2 DEF DeleteOldKey, EnsureFindsKey, EnsureCreatesKey, CleanUpRemoteKey, Proceed
<1>3. CASE EnsureFails \/ DeleteForRotation \/ WriteSecretFails
  <2>1. CASE ReportFailure
    BY Zenon, <2>1, <1>c DEF ReportFailure
  <2>2. CASE Proceed("recreate") \/ FailSilently
    BY Zenon, <2>2 DEF Proceed, FailSilently
  <2> QED
    BY Zenon, <1>3, <2>1, <2>2 DEF EnsureFails, DeleteForRotation, WriteSecretFails, KeyCallFails
<1>4. CASE PersistKeyStatus \/ PersistFails \/ ReconcileWorkload \/ RemoveFinalizer
  BY Zenon, <1>4, <1>c DEF PersistKeyStatus, PersistFails, ReconcileWorkload, RemoveFinalizer, StatusWritten
<1>5. CASE Sync
  BY Zenon, <1>5 DEF Sync, SyncObject, SyncSecret, CR
<1>6. CASE Environment
  BY Zenon, <1>6, <1>c DEF Environment, EditSpec, DeleteObject, DeleteSecret, ControlPlaneChanges, Crash, CR
<1>7. CASE UNCHANGED vars
  BY Zenon, <1>7 DEF vars
<1> QED
  BY Zenon, <1>1, <1>2, <1>3, <1>4, <1>5, <1>6, <1>7 DEF Next, Controller

\* Keys in coderd: only five steps of the reconcile change them.
LEMMA KeysEffect ==
    ASSUME [Next]_vars
    PROVE  \/ UNCHANGED coderd
           \/ DeleteOldKey \/ DeleteForRotation \/ CleanUpRemoteKey
           \/ EnsureCreatesKey \/ EnsureFails
<1>1. CASE Controller
  BY Zenon, <1>1 DEF Controller, AddFinalizer, WaitForControlPlane, StartReconcile, EnsureFindsKey,
     SecretUpToDate, WriteSecret, WriteSecretFails, PersistKeyStatus, PersistFails, ReconcileWorkload,
     RemoveFinalizer
<1>2. CASE Sync \/ Environment
  BY Zenon, <1>2 DEF Sync, SyncObject, SyncSecret, Environment, EditSpec, DeleteObject, DeleteSecret,
     ControlPlaneChanges, Crash
<1>3. CASE UNCHANGED vars
  BY Zenon, <1>3 DEF vars
<1> QED
  BY Zenon, <1>1, <1>2, <1>3 DEF Next

LEMMA ControlPlaneEffect ==
    ASSUME [Next]_vars
    PROVE  UNCHANGED cps \/ \E c \in ControlPlanes : ControlPlaneChanges(c)
<1>1. CASE Controller
  BY Zenon, <1>1 DEF Controller, AddFinalizer, WaitForControlPlane, StartReconcile, DeleteOldKey,
     EnsureFindsKey, EnsureCreatesKey, EnsureFails, DeleteForRotation,
     SecretUpToDate, WriteSecret, WriteSecretFails, PersistKeyStatus, PersistFails, ReconcileWorkload,
     CleanUpRemoteKey, RemoveFinalizer
<1>2. CASE Sync \/ Environment
  BY Zenon, <1>2 DEF Sync, SyncObject, SyncSecret, Environment, EditSpec, DeleteObject, DeleteSecret, Crash
<1>3. CASE UNCHANGED vars
  BY Zenon, <1>3 DEF vars
<1> QED
  BY Zenon, <1>1, <1>2, <1>3 DEF Next

\* The reconcile in flight: it starts, proceeds, ends, or its snapshot is overtaken.
LEMMA WorkerEffect ==
    ASSUME [Next]_vars
    PROVE  \/ UNCHANGED <<pc, loc>>
           \/ Done
           \/ Overtaken /\ UNCHANGED pc
           \/ StartReconcile \/ CleanUpRemoteKey
           \/ pc \in {"deleteOld", "ensure", "rotate"} /\ pc' \in {"ensure", "rotate", "recreate"} /\ UNCHANGED loc
           \/ EnsureCreatesKey \/ SecretUpToDate \/ WriteSecret \/ PersistKeyStatus
<1>1. CASE AddFinalizer \/ WaitForControlPlane \/ DeleteOldKey \/ EnsureFindsKey
  BY Zenon, <1>1 DEF AddFinalizer, WaitForControlPlane, DeleteOldKey, EnsureFindsKey, Proceed
<1>2. CASE EnsureFails \/ DeleteForRotation \/ WriteSecretFails
  BY Zenon, <1>2 DEF EnsureFails, DeleteForRotation, WriteSecretFails, KeyCallFails, ReportFailure,
     FailSilently, Proceed
<1>3. CASE PersistFails \/ ReconcileWorkload \/ RemoveFinalizer
  BY Zenon, <1>3 DEF PersistFails, ReconcileWorkload, RemoveFinalizer
<1>4. CASE Sync
  BY Zenon, <1>4 DEF Sync, SyncObject, SyncSecret
<1>5. CASE Environment
  BY Zenon, <1>5 DEF Environment, EditSpec, DeleteObject, DeleteSecret, ControlPlaneChanges, Crash
<1>6. CASE UNCHANGED vars
  BY Zenon, <1>6 DEF vars
<1> QED
  BY Zenon, <1>1, <1>2, <1>3, <1>4, <1>5, <1>6 DEF Next, Controller

\* Secrets: a reconcile writes the one its snapshot names, users delete them.
LEMMA SecretsEffect ==
    ASSUME [Next]_vars
    PROVE  \/ UNCHANGED <<secrets, secretSeen>>
           \/ Crash \/ \E s \in SecretNames : SyncSecret(s)
           \/ \E s \in SecretNames : DeleteSecret(s)
           \/ /\ pc = "writeSecret" /\ pc' \in {"idle", "persist"}
              /\ SecretTarget # None /\ secretSeen[loc.spec.secret] # SecretTarget
              /\ SecretWritten(loc.spec.secret)
<1> USE DEF secretVars
<1>1. CASE AddFinalizer \/ WaitForControlPlane \/ StartReconcile \/ DeleteOldKey \/ EnsureFindsKey
  BY Zenon, <1>1 DEF AddFinalizer, WaitForControlPlane, StartReconcile, DeleteOldKey, EnsureFindsKey
<1>2. CASE EnsureCreatesKey \/ EnsureFails \/ DeleteForRotation \/ SecretUpToDate
  BY Zenon, <1>2 DEF EnsureCreatesKey, EnsureFails, DeleteForRotation, SecretUpToDate
<1>3. CASE WriteSecret \/ WriteSecretFails
  BY Zenon, <1>3 DEF WriteSecret, WriteSecretFails, FailSilently, Done
<1>4. CASE PersistKeyStatus \/ PersistFails \/ ReconcileWorkload \/ CleanUpRemoteKey \/ RemoveFinalizer
  BY Zenon, <1>4 DEF PersistKeyStatus, PersistFails, ReconcileWorkload, CleanUpRemoteKey, RemoveFinalizer
<1>5. CASE Sync \/ Environment
  BY Zenon, <1>5 DEF Sync, SyncObject, Environment, EditSpec, DeleteObject, ControlPlaneChanges
<1>6. CASE UNCHANGED vars
  BY Zenon, <1>6 DEF vars
<1> QED
  BY Zenon, <1>1, <1>2, <1>3, <1>4, <1>5, <1>6 DEF Next, Controller

-----------------------------------------------------------------------------
(* Deletion.                                                                 *)

\* Edits leave the key where it is.
LEMMA PlaceStays ==
    ASSUME KeyPlaceFixed, TypeOK, [Next]_vars
    PROVE  spec'.cp = spec.cp /\ spec'.org = spec.org /\ spec'.name = spec.name
<1>1. CASE EditSpec
  BY <1>1 DEF EditSpec, KeyPlaceFixed
<1>2. CASE spec' = spec
  BY <1>2
<1> QED
  BY Zenon, <1>1, <1>2, ObjectEffect DEF AddFinalizer, DeleteObject, RemoveFinalizer, StatusWritten,
     ReportFailure, crVars

LEMMA KeyStatusAtHome ==
    ASSUME TypeOK, InFlight, OnePlace, pc = "persist"
    PROVE  AtHome(KeyStatus)
<1>1. /\ loc.spec.org = spec.org /\ loc.spec.name = spec.name
      /\ loc.url # None => ServerOf[loc.url] = HomeOf[spec.cp]
      /\ AtHome(loc.status)
      /\ loc.status \in Statuses
  BY Zenon DEF OnePlace, SamePlace, TypeOK, Locals
<1>2. CASE loc.mode = "keep"
  <2>1. /\ KeyStatus.url = loc.status.url /\ KeyStatus.org = loc.status.org
        /\ KeyStatus.name = OrElse(loc.status.name, loc.spec.name)
    BY <1>1, <1>2 DEF KeyStatus, Statuses
  <2> QED
    BY Zenon, <1>1, <2>1 DEF AtHome, OrElse
<1>3. CASE loc.mode # "keep"
  BY <1>1, <1>3 DEF KeyStatus, AtHome
<1> QED
  BY <1>2, <1>3

LEMMA StatusesAtHome ==
    ASSUME KeyPlaceFixed, TypeOK, InFlight, OnePlace, [Next]_vars
    PROVE  AtHome(status)' /\ AtHome(seen.status)' /\ SamePlace(seen.spec)'
<1>0. spec'.cp = spec.cp /\ spec'.org = spec.org /\ spec'.name = spec.name
  BY PlaceStays
<1>1. /\ AtHome(status) /\ AtHome(loc.status) /\ AtHome(seen.status) /\ SamePlace(seen.spec)
      /\ loc.status \in Statuses
  BY Zenon DEF OnePlace, TypeOK, Locals
<1>2. AtHome(status)'
  <2>1. CASE status' = status
    BY Zenon, <1>0, <1>1, <2>1 DEF AtHome
  <2>2. CASE pc = "persist" /\ status' = KeyStatus
    <3>1. AtHome(KeyStatus)
      BY <2>2, KeyStatusAtHome
    <3> HIDE DEF KeyStatus
    <3> QED
      BY Zenon, <1>0, <2>2, <3>1 DEF AtHome
  <2>3. CASE status' = [loc.status EXCEPT !.ready = "false"]
    <3>1. status'.url = loc.status.url /\ status'.org = loc.status.org /\ status'.name = loc.status.name
      BY <1>1, <2>3 DEF Statuses
    <3> QED
      BY Zenon, <1>0, <1>1, <3>1 DEF AtHome
  <2> QED
    BY Zenon, <2>1, <2>2, <2>3, ObjectEffect DEF EditSpec, AddFinalizer, DeleteObject, RemoveFinalizer,
       StatusWritten, ReportFailure, crVars
<1>3. AtHome(seen.status)' /\ SamePlace(seen.spec)'
  <2>1. CASE seen' = seen
    BY Zenon, <1>0, <1>1, <2>1 DEF AtHome, SamePlace
  <2>2. CASE seen' = CR'
    <3>1. seen'.status = status' /\ seen'.spec = spec'
      BY <2>2 DEF CR
    <3> QED
      BY Zenon, <1>2, <3>1 DEF AtHome, SamePlace
  <2> QED
    BY Zenon, <2>1, <2>2, CopyEffect
<1> QED
  BY <1>2, <1>3

LEMMA SnapshotAtHome ==
    ASSUME KeyPlaceFixed, TypeOK, InFlight, OnePlace, [Next]_vars
    PROVE  /\ (pc # "idle" => SamePlace(loc.spec))'
           /\ AtHome(loc.status)'
           /\ (loc.url # None => ServerOf[loc.url] = HomeOf[spec.cp])'
<1>0. spec'.cp = spec.cp /\ spec'.org = spec.org /\ spec'.name = spec.name
  BY PlaceStays
<1>1. /\ AtHome(loc.status) /\ AtHome(seen.status) /\ SamePlace(seen.spec)
      /\ pc # "idle" => SamePlace(loc.spec)
      /\ loc.url # None => ServerOf[loc.url] = HomeOf[spec.cp]
  BY Zenon DEF OnePlace
<1>2. loc \in Locals
  BY DEF TypeOK
\* The snapshot stays, with one of its other fields set.
<1>3. ASSUME loc'.spec = loc.spec, loc'.status = loc.status, loc'.url = loc.url,
             pc # "idle" \/ pc' = "idle"
      PROVE  /\ (pc # "idle" => SamePlace(loc.spec))'
             /\ AtHome(loc.status)'
             /\ (loc.url # None => ServerOf[loc.url] = HomeOf[spec.cp])'
  BY Zenon, <1>0, <1>1, <1>3 DEF AtHome, SamePlace
<1>4. CASE Done
  BY Zenon, <1>0, <1>4 DEF Done, NoLocal, NoStatus, AtHome
<1>5. CASE Overtaken /\ UNCHANGED pc
  <2>1. loc'.spec = loc.spec /\ loc'.status = loc.status /\ loc'.url = loc.url
    BY <1>2, <1>5 DEF Overtaken, Locals
  <2> QED
    BY Zenon, <1>3, <1>5, <2>1
<1>6. CASE StartReconcile
  <2>1. /\ loc'.spec = seen.spec /\ loc'.status = seen.status
        /\ loc'.url = cps[seen.spec.cp].url
    BY <1>6 DEF StartReconcile
  <2>2. cps[seen.spec.cp].url # None => ServerOf[cps[seen.spec.cp].url] = HomeOf[seen.spec.cp]
    <3>1. seen.spec.cp \in ControlPlanes
      BY SpecFields DEF TypeOK, Objects
    <3> QED
      BY Zenon, <3>1, ConstantsAssumption DEF OnePlace
  <2> QED
    BY Zenon, <1>0, <1>1, <2>1, <2>2 DEF AtHome, SamePlace
<1>7. CASE CleanUpRemoteKey
  <2>1. loc'.spec = seen.spec /\ loc'.status = seen.status /\ loc'.url = None
    BY <1>7 DEF CleanUpRemoteKey, NoLocal
  <2> QED
    BY Zenon, <1>0, <1>1, <2>1 DEF AtHome, SamePlace
<1>8. CASE EnsureCreatesKey \/ SecretUpToDate \/ WriteSecret
  <2>1. \/ \E m \in Materials : loc' = [loc EXCEPT !.mat = m]
        \/ loc' = [loc EXCEPT !.val = SecretTarget]
    BY Zenon, <1>8 DEF EnsureCreatesKey, SecretUpToDate, WriteSecret
  <2>2. loc'.spec = loc.spec /\ loc'.status = loc.status /\ loc'.url = loc.url
    BY <1>2, <2>1 DEF Locals
  <2> QED
    BY Zenon, <1>3, <1>8, <2>2 DEF EnsureCreatesKey, SecretUpToDate, WriteSecret
<1>9. CASE PersistKeyStatus
  <2>1. pc = "persist" /\ loc' = [loc EXCEPT !.status = KeyStatus, !.mat = None]
    BY <1>9 DEF PersistKeyStatus
  <2>2. AtHome(KeyStatus)
    BY <2>1, KeyStatusAtHome
  <2> HIDE DEF KeyStatus
  <2>3. loc'.spec = loc.spec /\ loc'.status = KeyStatus /\ loc'.url = loc.url
    BY <1>2, <2>1 DEF Locals
  <2> QED
    BY Zenon, <1>0, <1>1, <2>1, <2>2, <2>3 DEF AtHome, SamePlace
<1>10. CASE UNCHANGED loc /\ (pc # "idle" \/ UNCHANGED pc)
  BY Zenon, <1>3, <1>10
<1> QED
  BY Zenon, <1>4, <1>5, <1>6, <1>7, <1>8, <1>9, <1>10, WorkerEffect

\* Every step that changes keys in coderd works on the one place.
LEMMA DesiredIsHome ==
    ASSUME TypeOK, InFlight, OnePlace, pc \in {"ensure", "recreate", "rotate"}
    PROVE  DesiredSpot(loc.spec, loc.url) = Home
<1>1. loc.spec.org = spec.org /\ loc.spec.name = spec.name
  BY Zenon DEF OnePlace, SamePlace
<1>2. ServerOf[loc.url] = HomeOf[spec.cp]
  BY Zenon, NoneIsNew DEF OnePlace, InFlight
<1> QED
  BY <1>1, <1>2 DEF DesiredSpot, Spot, Home

\* A key appears only through a reconcile that asks for it, and only there.
LEMMA KeysAtHome ==
    ASSUME KeyPlaceFixed, TypeOK, InFlight, OnePlace, [Next]_vars
    PROVE  /\ (\A k \in Spots : coderd[k] # None => k = Home)'
           /\ pc \in {"ensure", "recreate"} \/ (NoKeyLeft => NoKeyLeft')
<1>0. Home' = Home
  BY Zenon, PlaceStays DEF Home
<1>1. \A k \in Spots : coderd[k] # None => k = Home
  BY DEF OnePlace
<1>2. coderd \in [Spots -> Opt(Keys)]
  BY DEF TypeOK
<1>3. ASSUME \A k \in Spots : coderd'[k] # None => coderd[k] # None
      PROVE  /\ (\A k \in Spots : coderd[k] # None => k = Home)'
             /\ NoKeyLeft => NoKeyLeft'
  BY Zenon, <1>0, <1>1, <1>3 DEF NoKeyLeft
<1>4. ASSUME NEW spot, DeleteKey(spot)
      PROVE  \A k \in Spots : coderd'[k] # None => coderd[k] # None
  BY Zenon, <1>2, <1>4 DEF DeleteKey
<1>5. CASE UNCHANGED coderd
  BY Zenon, <1>3, <1>5
<1>6. CASE DeleteOldKey \/ CleanUpRemoteKey \/ DeleteForRotation
  BY Zenon, <1>3, <1>4, <1>5, <1>6 DEF DeleteOldKey, CleanUpRemoteKey, DeleteForRotation
<1>7. CASE EnsureCreatesKey \/ EnsureFails
  <2>1. pc \in {"ensure", "recreate"}
    BY <1>7 DEF EnsureCreatesKey, EnsureFails
  <2>2. ASSUME NEW m, CreateKey(DesiredSpot(loc.spec, loc.url), loc.spec.tags, m)
        PROVE  (\A k \in Spots : coderd[k] # None => k = Home)'
    <3>1. coderd' = [coderd EXCEPT ![Home] = [tags |-> loc.spec.tags, mat |-> m]]
      BY Zenon, <2>1, <2>2, DesiredIsHome DEF CreateKey
    <3> QED
      BY Zenon, <1>0, <1>1, <1>2, <3>1
  <2> QED
    BY Zenon, <1>5, <1>7, <2>1, <2>2 DEF EnsureCreatesKey, EnsureFails
<1> QED
  BY Zenon, <1>5, <1>6, <1>7, KeysEffect

LEMMA OnePlaceStep ==
    ASSUME KeyPlaceFixed, TypeOK, InFlight, OnePlace, [Next]_vars
    PROVE  OnePlace'
<1>1. \A c \in ControlPlanes : cps'[c] \in CPStates[c]
  <2>1. ASSUME NEW d \in ControlPlanes, ControlPlaneChanges(d)
        PROVE  \A c \in ControlPlanes : cps'[c] \in CPStates[c]
    BY Zenon, <2>1 DEF ControlPlaneChanges, OnePlace, TypeOK
  <2> QED
    BY Zenon, <2>1, ControlPlaneEffect DEF OnePlace
<1> QED
  BY Zenon, <1>1, StatusesAtHome, SnapshotAtHome, KeysAtHome DEF OnePlace

\* The cleanup of a deleted object finds the key.
LEMMA CleanupFinds ==
    ASSUME AlwaysReachable, TypeOK, OnePlace, CleanUpRemoteKey
    PROVE  NoKeyLeft'
<1> DEFINE cp == cps[seen.spec.cp]
           url == OrElse(seen.status.url, cp.url)
<1>1. /\ seen.spec.cp = spec.cp /\ seen.spec.org = spec.org /\ seen.spec.name = spec.name
      /\ AtHome(seen.status)
  BY Zenon DEF OnePlace, SamePlace
<1>2. spec.cp \in ControlPlanes
  BY SpecFields DEF TypeOK
<1>3. cp \in CPStates[spec.cp]
  BY Zenon, <1>1, <1>2 DEF OnePlace
<1>4. cp.url # None /\ cp.access /\ ServerOf[cp.url] = HomeOf[spec.cp]
  BY ZenonT(40), <1>2, <1>3, ConstantsAssumption DEF AlwaysReachable
<1>5. url # None /\ ServerOf[url] = HomeOf[spec.cp]
  BY Zenon, <1>1, <1>4 DEF AtHome, OrElse
<1>6. AppliedSpot(seen.status, seen.spec, url) = Home
  <2>1. OrElse(seen.status.url, url) = url
    BY DEF OrElse
  <2>2. OrElse(seen.status.org, seen.spec.org) = spec.org
    BY <1>1 DEF AtHome, OrElse
  <2>3. OrElse(seen.status.name, seen.spec.name) = spec.name
    BY <1>1 DEF AtHome, OrElse
  <2> QED
    BY Zenon, <1>5, <2>1, <2>2, <2>3 DEF AppliedSpot, Spot, Home
<1>7. DeleteKey(AppliedSpot(seen.status, seen.spec, url))
  BY <1>1, <1>4, <1>5 DEF CleanUpRemoteKey, RemoteFault, AlwaysReachable
<1>8. coderd' = [coderd EXCEPT ![Home] = None]
  BY Zenon, <1>6, <1>7 DEF DeleteKey
<1> QED
  BY Zenon, <1>8 DEF OnePlace, NoKeyLeft, TypeOK

\* What becomes of the finalizer, and when.
LEMMA FinalizerEffect ==
    ASSUME Guarded, [Next]_vars
    PROVE  \/ UNCHANGED <<phase, finalizer>>
           \/ phase = "live" /\ finalizer' /\ UNCHANGED phase
           \/ /\ phase = "live" /\ UNCHANGED finalizer
              /\ phase' = IF finalizer THEN "deleting" ELSE "gone"
           \/ pc = "unfinalize" /\ Done /\ loc.fresh /\ phase' = "gone" /\ finalizer' = FALSE
<1>1. CASE AddFinalizer
  <2>1. seenFresh /\ seen.phase = "live" /\ finalizer' = TRUE /\ UNCHANGED phase
    BY <1>1 DEF AddFinalizer
  <2>2. phase = "live"
    BY <2>1 DEF Guarded, CR
  <2> QED
    BY <2>1, <2>2
<1>2. CASE RemoveFinalizer
  BY Zenon, <1>2 DEF RemoveFinalizer, crVars
<1> QED
  BY Zenon, <1>1, <1>2, ObjectEffect DEF EditSpec, DeleteObject, StatusWritten, ReportFailure

LEMMA GuardedStep ==
    ASSUME KeyPlaceFixed, AlwaysReachable, TypeOK, InFlight, OnePlace, Guarded, [Next]_vars
    PROVE  Guarded'
<1> DEFINE Kept == UNCHANGED <<phase, finalizer>>
           Protected == phase = "live" /\ finalizer' /\ UNCHANGED phase
           Deleted == /\ phase = "live" /\ UNCHANGED finalizer
                      /\ phase' = IF finalizer THEN "deleting" ELSE "gone"
           Released == pc = "unfinalize" /\ Done /\ loc.fresh /\ phase' = "gone" /\ finalizer' = FALSE
<1>1. Kept \/ Protected \/ Deleted \/ Released
  BY Zenon, FinalizerEffect
<1>2. \/ seen'.phase = seen.phase /\ seen'.finalizer = seen.finalizer
      \/ seen'.phase = phase' /\ seen'.finalizer = finalizer'
  BY CopyEffect DEF CR
<1>3. phase \in {"live", "deleting", "gone"} /\ finalizer \in BOOLEAN /\ seen.finalizer \in BOOLEAN
  BY DEF TypeOK, Phases, Objects
<1>4. Done => pc' = "idle"
  BY DEF Done
<1>g. /\ finalizer \/ NoKeyLeft
      /\ phase = "deleting" => finalizer
      /\ phase = "gone" => ~finalizer /\ ~(seen.phase = "live" /\ seen.finalizer)
      /\ seen.finalizer /\ phase # "gone" => finalizer
      /\ seen.phase # "live" => phase # "live"
      /\ pc \notin {"idle", "unfinalize"} => finalizer
      /\ pc = "unfinalize" => NoKeyLeft /\ seen.phase # "live" /\ (loc.fresh => phase = "deleting")
  BY Zenon DEF Guarded
<1>k. pc \in {"ensure", "recreate"} \/ (NoKeyLeft => NoKeyLeft')
  BY KeysAtHome
<1> HIDE DEF Kept, Protected, Deleted, Released
<1>5. (seenFresh => seen = CR)'
  BY Zenon, CopyEffect DEF Guarded, CR
<1>6. /\ (finalizer \/ NoKeyLeft)'
      /\ (phase = "deleting" => finalizer)'
  BY <1>1, <1>3, <1>g, <1>k DEF Kept, Protected, Deleted, Released
<1>7. (phase = "gone" => ~finalizer /\ ~(seen.phase = "live" /\ seen.finalizer))'
  BY <1>1, <1>2, <1>3, <1>g DEF Kept, Protected, Deleted, Released
<1>8. /\ (seen.finalizer /\ phase # "gone" => finalizer)'
      /\ (seen.phase # "live" => phase # "live")'
  BY <1>1, <1>2, <1>3, <1>g DEF Kept, Protected, Deleted, Released
<1>9. (pc \notin {"idle", "unfinalize"} => finalizer)'
  <2>1. CASE StartReconcile
    <3>1. seen.phase = "live" /\ seen.finalizer /\ UNCHANGED finalizer
      BY <2>1 DEF StartReconcile, crVars
    <3> QED
      BY <3>1, <1>3, <1>g
  <2>2. pc' \in {"idle", "unfinalize"} \/ StartReconcile \/ pc \notin {"idle", "unfinalize"}
    BY Zenon, WorkerEffect DEF Done, CleanUpRemoteKey, EnsureCreatesKey, SecretUpToDate, WriteSecret,
       PersistKeyStatus
  <2> QED
    BY <1>1, <1>3, <1>4, <1>g, <2>1, <2>2 DEF Kept, Protected, Deleted, Released
<1>10. (pc = "unfinalize" => NoKeyLeft /\ seen.phase # "live" /\ (loc.fresh => phase = "deleting"))'
  <2>1. CASE CleanUpRemoteKey
    <3>1. /\ seen.phase = "deleting" /\ loc'.fresh = seenFresh
          /\ UNCHANGED <<phase, seen>>
      BY <2>1 DEF CleanUpRemoteKey, crVars, NoLocal
    <3>2. seenFresh => phase = "deleting"
      BY <3>1 DEF Guarded, CR
    <3> QED
      BY <2>1, <3>1, <3>2, CleanupFinds
  <2>2. pc' # "unfinalize" \/ CleanUpRemoteKey \/ pc = "unfinalize"
    BY Zenon, WorkerEffect DEF Done, StartReconcile, EnsureCreatesKey, SecretUpToDate, WriteSecret,
       PersistKeyStatus
  <2>3. CASE pc = "unfinalize"
    <3>1. CASE Done
      BY <3>1, <1>4
    <3>2. CASE UNCHANGED pc /\ (loc' = loc \/ loc' = [loc EXCEPT !.fresh = FALSE])
      <4>1. loc'.fresh => loc.fresh
        BY <3>2 DEF TypeOK, Locals
      <4>2. ~Released
        BY <2>3, <3>2, <1>4 DEF Released
      <4>3. Kept /\ NoKeyLeft'
        BY <1>1, <1>g, <1>k, <2>3, <4>2 DEF Protected, Deleted
      <4> QED
        BY Zenon, <1>2, <1>g, <2>3, <4>1, <4>3 DEF Kept
    <3> QED
      BY Zenon, <2>3, <3>1, <3>2, WorkerEffect DEF Overtaken, StartReconcile, CleanUpRemoteKey,
         EnsureCreatesKey, SecretUpToDate, WriteSecret, PersistKeyStatus
  <2> QED
    BY <2>1, <2>2, <2>3
<1> QED
  BY Zenon, <1>5, <1>6, <1>7, <1>8, <1>9, <1>10 DEF Guarded

LEMMA InitDeletion == Init => OnePlace /\ Guarded
<1> SUFFICES ASSUME Init PROVE OnePlace /\ Guarded
  OBVIOUS
<1>1. InitCommon /\ spec \in Specs
  BY ConstantsAssumption DEF Init, InitNew, InitLegacy
<1>2. /\ phase = "live" /\ seen = CR /\ seen.spec = spec /\ seen.status = status
      /\ seen.phase = phase /\ seen.finalizer = finalizer
      /\ pc = "idle" /\ loc.status = NoStatus /\ loc.url = None
      /\ \A c \in ControlPlanes : cps[c] \in CPStates[c]
  BY Zenon, <1>1 DEF InitCommon, CR, NoLocal
<1>3. AtHome(NoStatus)
  BY Zenon DEF AtHome, NoStatus
<1>4. /\ AtHome(status)
      /\ finalizer \/ NoKeyLeft
      /\ \A k \in Spots : coderd[k] # None => k = Home
  <2>1. CASE InitNew
    BY Zenon, <1>3, <2>1 DEF InitNew, NoKeyLeft, NoKeys
  <2>2. CASE InitLegacy
    <3>1. status.url = None /\ status.org = None /\ status.name = spec.name /\ finalizer = TRUE
      BY <2>2 DEF InitLegacy, NoStatus
    <3>2. \E t \in Tags : coderd = [NoKeys EXCEPT ![Home] = [tags |-> t, mat |-> 1]]
      BY Zenon, <2>2 DEF InitLegacy, Home
    <3>3. \A k \in Spots : coderd[k] # None => k = Home
      BY Zenon, <3>2 DEF NoKeys
    <3> QED
      BY <3>1, <3>3 DEF AtHome
  <2> QED
    BY <2>1, <2>2 DEF Init
<1>5. OnePlace
  BY Zenon, <1>2, <1>3, <1>4 DEF OnePlace, SamePlace
<1>6. Guarded
  BY Zenon, <1>2, <1>4 DEF Guarded
<1> QED
  BY <1>5, <1>6

\* Whatever copy of the object a reconcile works from, and whatever crashes, conflicts
\* and failed Kubernetes calls there are, keys are created under the finalizer only and
\* the finalizer goes when no key is left: provided edits do not move the key and coderd
\* can be reached, the cases in which reconcileDeletion gives the key up.
THEOREM DeletionInvariant ==
    ASSUME KeyPlaceFixed, AlwaysReachable
    PROVE  Spec => []DeletionInv
<1>1. Init => DeletionInv
  BY InitTypes, InitDeletion DEF DeletionInv
<1>2. DeletionInv /\ [Next]_vars => DeletionInv'
  BY KeyPlaceFixed, AlwaysReachable, TypeStep, OnePlaceStep, GuardedStep DEF DeletionInv
<1> QED
  BY <1>1, <1>2, PTL DEF Spec

\* Under the same conditions, when the object is gone so are its keys in coderd.
THEOREM NothingOrphaned ==
    ASSUME KeyPlaceFixed, AlwaysReachable
    PROVE  Spec => []NoOrphanedKey
<1>1. DeletionInv => NoOrphanedKey
  BY DEF DeletionInv, Guarded, NoKeyLeft, NoOrphanedKey
<1> QED
  BY <1>1, DeletionInvariant, KeyPlaceFixed, AlwaysReachable, PTL

\* Every step of the controller and of its surroundings is one of the abstract
\* finalizer's steps, or none.
LEMMA MapStep ==
    ASSUME KeyPlaceFixed, AlwaysReachable, DeletionInv, [Next]_vars
    PROVE  [Resource!Next]_(Resource!resourceVars)
<1> DEFINE held == {k \in Spots : coderd[k] # None}
<1>0. TypeOK /\ InFlight /\ OnePlace /\ Guarded
  BY DEF DeletionInv
<1>1. held \in SUBSET Spots /\ held' \in SUBSET Spots
  OBVIOUS
<1>2. NoKeyLeft <=> held = {}
  BY DEF NoKeyLeft
<1>3. CASE UNCHANGED <<phase, finalizer>>
  <2>1. CASE finalizer
    BY Zenon, <1>1, <1>3, <2>1 DEF Resource!Next, Resource!Acquire
  <2>2. CASE ~finalizer
    <3>1. NoKeyLeft /\ pc \in {"idle", "unfinalize"}
      BY <1>0, <2>2 DEF Guarded
    <3>2. NoKeyLeft'
      BY <1>0, <3>1, KeysAtHome
    <3>3. held' \subseteq held
      BY <3>2 DEF NoKeyLeft
    <3> QED
      BY Zenon, <1>3, <3>3 DEF Resource!Next, Resource!Lose
  <2> QED
    BY <2>1, <2>2
<1>4. CASE AddFinalizer
  BY <1>0, <1>4 DEF AddFinalizer, Guarded, CR, Resource!Next, Resource!Protect
<1>5. CASE DeleteObject
  BY Zenon, <1>5 DEF DeleteObject, Resource!Next, Resource!Delete
<1>6. CASE RemoveFinalizer /\ ~UNCHANGED <<phase, finalizer>>
  <2>1. pc = "unfinalize" /\ loc.fresh /\ phase' = "gone" /\ finalizer' = FALSE /\ UNCHANGED coderd
    BY Zenon, <1>6 DEF RemoveFinalizer, crVars
  <2>2. phase = "deleting" /\ held = {}
    BY <1>0, <1>2, <2>1 DEF Guarded
  <2> QED
    BY Zenon, <2>1, <2>2 DEF Resource!Next, Resource!Release
<1> QED
  BY Zenon, <1>3, <1>4, <1>5, <1>6, ObjectEffect DEF EditSpec, StatusWritten, ReportFailure

\* The controller implements the abstract finalizer: the key calls of its reconciles,
\* from whatever copy of the object, are acquisitions under the finalizer, and it
\* releases the object only when no key is left in coderd.
THEOREM GuardedByFinalizer ==
    ASSUME KeyPlaceFixed, AlwaysReachable
    PROVE  Spec => FinalizerGuardsKeys
<1>1. Init => Resource!Init
  <2> SUFFICES ASSUME Init PROVE Resource!Init
    OBVIOUS
  <2>1. Guarded /\ TypeOK
    BY InitDeletion, InitTypes
  <2>2. phase = "live" /\ finalizer \in BOOLEAN
    BY <2>1 DEF Init, InitNew, InitLegacy, InitCommon, TypeOK
  <2>3. ~finalizer => {k \in Spots : coderd[k] # None} = {}
    BY <2>1 DEF Guarded, NoKeyLeft
  <2> QED
    BY Zenon, <2>2, <2>3 DEF Resource!Init
<1>2. DeletionInv /\ [Next]_vars => [Resource!Next]_(Resource!resourceVars)
  BY MapStep, KeyPlaceFixed, AlwaysReachable
<1> QED
  BY <1>1, <1>2, DeletionInvariant, KeyPlaceFixed, AlwaysReachable, PTL
     DEF Spec, FinalizerGuardsKeys, Resource!Spec

-----------------------------------------------------------------------------
(* Damage and repair.                                                        *)

URLsOf(c) == {s.url : s \in CPStates[c]} \ {None}

\* A status records that a spec was applied.
Stamped(st, s) ==
    /\ st.org = s.org
    /\ st.tags = s.tags
    /\ st.cp = s.cp
    /\ st.name \in {None, s.name}

\* The reconcile has not yet written what it found wrong.
Repairing == pc \in {"deleteOld", "ensure", "rotate", "recreate"}

\* Without cache lag the copies are current; so are the URLs, and the snapshot's status.
Prompt ==
    /\ seen = CR
    /\ secretSeen = secrets
    /\ \A c \in ControlPlanes : cps[c] \in CPStates[c]
    /\ Complete(status) => status.url \in URLsOf(status.cp)
    /\ pc \notin {"idle", "unfinalize"} => loc.url \in URLsOf(loc.spec.cp)
    /\ Repairing \/ pc \in {"writeSecret", "persist"} => loc.status = status

\* A reconcile touches the key only for a reason it can still see.
Excused ==
    Repairing \/ (pc = "writeSecret" /\ loc.mode # "keep") =>
        \/ ~Complete(loc.status)
        \/ ~Stamped(loc.status, loc.spec)
        \/ secrets[loc.spec.secret] = None

PromptInv == TypeOK /\ InFlight /\ Prompt /\ Excused

\* What was recorded was asked for before what is asked for now.
AppliedBefore(rank, st, s) ==
    Complete(st) =>
        \E a \in Specs : Stamped(st, a) /\ a.secret = s.secret /\ rank[a] <= rank[s]

Ranked(rank) ==
    /\ AppliedBefore(rank, status, spec)
    /\ pc # "idle" => loc.spec = spec \/ rank[loc.spec] < rank[spec]
    /\ Repairing \/ pc \in {"writeSecret", "persist"} => AppliedBefore(rank, loc.status, loc.spec)

\* A record of the current spec, with a Secret, means that the key is in order.
InOrder ==
    phase = "live" /\ Complete(status) /\ Stamped(status, spec) /\ secrets[spec.secret] # None =>
        coderd[Home] = [tags |-> spec.tags, mat |-> secrets[spec.secret]]

DamageInv(rank) == CustodyInv /\ PromptInv /\ Ranked(rank) /\ InOrder

\* Until it persists the key's status, a reconcile works from one snapshot, and the
\* status in the API server is not written.
LEMMA SnapshotStays ==
    ASSUME TypeOK, [Next]_vars,
           Repairing' \/ pc' \in {"writeSecret", "persist"}
    PROVE  \/ StartReconcile
           \/ /\ Repairing \/ pc \in {"writeSecret", "persist"}
              /\ Repairing' => Repairing
              /\ pc' = "writeSecret" => Repairing \/ pc = "writeSecret"
              /\ pc' = "persist" => pc \in {"writeSecret", "persist"}
              /\ UNCHANGED status
              /\ loc'.spec = loc.spec /\ loc'.status = loc.status
              /\ loc'.url = loc.url /\ loc'.mode = loc.mode
<1>0. loc \in Locals
  BY DEF TypeOK
<1>1. pc' \in {"deleteOld", "ensure", "rotate", "recreate", "writeSecret", "persist"}
  BY DEF Repairing
<1>2. UNCHANGED status
  BY Zenon, <1>1, ObjectEffect DEF EditSpec, AddFinalizer, DeleteObject, RemoveFinalizer, ReportFailure, Done,
     crVars
<1>3. ~Done /\ ~CleanUpRemoteKey /\ ~PersistKeyStatus
  BY <1>1 DEF Done, CleanUpRemoteKey, PersistKeyStatus
<1>4. CASE UNCHANGED <<pc, loc>>
  BY Zenon, <1>2, <1>4 DEF Repairing
<1>5. CASE Overtaken /\ UNCHANGED pc
  <2>1. /\ loc'.spec = loc.spec /\ loc'.status = loc.status
        /\ loc'.url = loc.url /\ loc'.mode = loc.mode
    BY <1>0, <1>5 DEF Overtaken, Locals
  <2> QED
    BY Zenon, <1>2, <1>5, <2>1 DEF Repairing
<1>6. CASE /\ pc \in {"deleteOld", "ensure", "rotate"} /\ pc' \in {"ensure", "rotate", "recreate"}
           /\ UNCHANGED loc
  BY <1>2, <1>6 DEF Repairing
<1>7. CASE EnsureCreatesKey \/ SecretUpToDate \/ WriteSecret
  <2>1. \/ \E m \in Materials : loc' = [loc EXCEPT !.mat = m]
        \/ loc' = [loc EXCEPT !.val = SecretTarget]
    BY Zenon, <1>7 DEF EnsureCreatesKey, SecretUpToDate, WriteSecret
  <2>2. /\ loc'.spec = loc.spec /\ loc'.status = loc.status
        /\ loc'.url = loc.url /\ loc'.mode = loc.mode
    BY <1>0, <2>1 DEF Locals
  <2>3. \/ pc \in {"ensure", "recreate"} /\ pc' = "writeSecret"
        \/ pc = "writeSecret" /\ pc' = "persist"
    BY Zenon, <1>7 DEF EnsureCreatesKey, SecretUpToDate, WriteSecret
  <2> QED
    BY <1>2, <2>2, <2>3 DEF Repairing
<1> QED
  BY Zenon, <1>3, <1>4, <1>5, <1>6, <1>7, WorkerEffect

LEMMA CompleteStatusCopied ==
    ASSUME NEW st \in Statuses, NEW x
    PROVE  LET t == [st EXCEPT !.ready = x]
           IN  /\ t.org = st.org /\ t.name = st.name /\ t.tags = st.tags /\ t.cp = st.cp
               /\ t.url = st.url /\ t.secret = st.secret
BY DEF Statuses

\* What a status write records: what was there before, or what was just applied.
LEMMA StatusRecords ==
    ASSUME TypeOK, InFlight, Prompt, [Next]_vars
    PROVE  \/ /\ status'.org = status.org /\ status'.tags = status.tags /\ status'.cp = status.cp
              /\ status'.url = status.url
              /\ status'.name \in {status.name, OrElse(status.name, loc.spec.name)}
              /\ status'.name # status.name =>
                    pc = "persist" /\ loc.fresh /\ UNCHANGED <<spec, secrets, coderd>>
           \/ /\ pc = "persist" /\ loc.fresh /\ loc.mode # "keep"
              /\ status' = KeyStatus
              /\ UNCHANGED <<spec, phase, secrets, coderd>>
<1>1. CASE UNCHANGED status
  BY <1>1
<1>2. CASE ReportFailure /\ pc \in {"ensure", "recreate", "rotate"} /\ loc.fresh
  <2>1. loc.status = status /\ status' = [status EXCEPT !.ready = "false"] /\ status \in Statuses
    BY <1>2 DEF Prompt, Repairing, ReportFailure, TypeOK
  <2> QED
    BY <2>1, CompleteStatusCopied
<1>3. CASE StatusWritten /\ pc = "persist" /\ loc.fresh /\ status' # status
  <2>1. loc.status = status /\ status' = KeyStatus /\ status \in Statuses /\ UNCHANGED <<spec, phase>>
    BY Zenon, <1>3 DEF Prompt, StatusWritten, TypeOK
  <2>2. UNCHANGED <<secrets, coderd>>
    BY Zenon, <1>3, KeysEffect, SecretsEffect
       DEF DeleteOldKey, DeleteForRotation, CleanUpRemoteKey, EnsureCreatesKey, EnsureFails,
           Crash, SyncSecret, DeleteSecret, crVars
  <2>3. CASE loc.mode # "keep"
    BY Zenon, <1>3, <2>1, <2>2, <2>3
  <2>4. CASE loc.mode = "keep"
    <3>1. status' = [status EXCEPT !.name = OrElse(status.name, loc.spec.name), !.secret = loc.spec.secret]
      BY <2>1, <2>4 DEF KeyStatus
    <3>2. /\ status'.org = status.org /\ status'.tags = status.tags /\ status'.cp = status.cp
          /\ status'.url = status.url /\ status'.name = OrElse(status.name, loc.spec.name)
      BY <2>1, <3>1 DEF Statuses
    <3> QED
      BY Zenon, <1>3, <2>1, <2>2, <3>2
  <2> QED
    BY Zenon, <2>3, <2>4
<1> QED
  BY Zenon, <1>1, <1>2, <1>3, ObjectEffect DEF EditSpec, AddFinalizer, DeleteObject, RemoveFinalizer, crVars

LEMMA URLsOfControlPlane ==
    ASSUME NEW c \in ControlPlanes, NEW u \in URLsOf(c)
    PROVE  /\ u # None /\ ServerOf[u] = HomeOf[c]
           /\ URLFixed => \A v \in URLsOf(c) : v = u
<1>1. u # None /\ ServerOf[u] = HomeOf[c]
  BY ZenonT(40), ConstantsAssumption DEF URLsOf
<1>2. ASSUME URLFixed, NEW v \in URLsOf(c) PROVE v = u
  BY Zenon, <1>2 DEF URLsOf, URLFixed
<1> QED
  BY <1>1, <1>2

LEMMA PromptStep ==
    ASSUME ~CacheLag, TypeOK, InFlight, Prompt, [Next]_vars
    PROVE  Prompt'
<1>1. seen' = CR'
  BY Zenon, CopyEffect DEF Prompt, CR
<1>2. secretSeen' = secrets'
  <2>1. ASSUME NEW s \in SecretNames, SecretCacheFollows(s),
               secrets' \in [SecretNames -> Opt(Materials)],
               \A t \in SecretNames : t # s => secrets'[t] = secrets[t]
        PROVE  secretSeen' = secrets'
    <3>1. secretSeen' = [secrets EXCEPT ![s] = secrets'[s]] /\ secrets \in [SecretNames -> Opt(Materials)]
      BY Zenon, <2>1 DEF SecretCacheFollows, Prompt, TypeOK
    <3> QED
      BY Zenon, <2>1, <3>1
  <2>2. ASSUME NEW s \in SecretNames, SyncSecret(s)
        PROVE  secretSeen' = secrets'
    BY Zenon, <2>2 DEF SyncSecret, Prompt, TypeOK
  <2>3. ASSUME NEW s \in SecretNames, DeleteSecret(s)
        PROVE  secretSeen' = secrets'
    <3>1. secrets' = [secrets EXCEPT ![s] = None] /\ SecretCacheFollows(s)
      BY <2>3 DEF DeleteSecret
    <3>2. secrets' \in [SecretNames -> Opt(Materials)]
      BY <3>1 DEF TypeOK
    <3>3. \A t \in SecretNames : t # s => secrets'[t] = secrets[t]
      BY Zenon, <3>1 DEF TypeOK
    <3> QED
      BY Zenon, <2>1, <3>1, <3>2, <3>3
  <2>4. CASE pc = "writeSecret" /\ SecretWritten(loc.spec.secret)
    <3>1. loc.spec.secret \in SecretNames
      BY <2>4, SpecFields DEF InFlight
    <3>2. SecretTarget \in Opt(Materials)
      BY <3>1 DEF SecretTarget, OrElse, TypeOK, Locals
    <3> HIDE DEF SecretTarget
    <3> QED
      BY Zenon, <2>1, <2>4, <3>1, <3>2 DEF SecretWritten, TypeOK
  <2> QED
    BY Zenon, <2>2, <2>3, <2>4, SecretsEffect DEF Prompt, Crash
<1>3. \A c \in ControlPlanes : cps'[c] \in CPStates[c]
  <2>1. ASSUME NEW d \in ControlPlanes, ControlPlaneChanges(d)
        PROVE  \A c \in ControlPlanes : cps'[c] \in CPStates[c]
    BY Zenon, <2>1 DEF ControlPlaneChanges, Prompt, TypeOK
  <2> QED
    BY Zenon, <2>1, ControlPlaneEffect DEF Prompt
<1>4. (Complete(status) => status.url \in URLsOf(status.cp))'
  <2>1. CASE status'.org = status.org /\ status'.tags = status.tags /\ status'.cp = status.cp
             /\ status'.url = status.url
    BY Zenon, <2>1 DEF Prompt, Complete
  <2>2. CASE pc = "persist" /\ loc.mode # "keep" /\ status' = KeyStatus
    <3>1. status'.url = loc.url /\ status'.cp = loc.spec.cp
      BY <2>2 DEF KeyStatus
    <3> QED
      BY Zenon, <2>2, <3>1 DEF Prompt
  <2> QED
    BY Zenon, <2>1, <2>2, StatusRecords
<1>5. (pc \notin {"idle", "unfinalize"} => loc.url \in URLsOf(loc.spec.cp))'
  <2>1. CASE StartReconcile
    <3>1. loc'.spec = seen.spec /\ loc'.url = cps[seen.spec.cp].url /\ cps[seen.spec.cp].url # None
      BY <2>1 DEF StartReconcile, GatesOpen
    <3>2. seen.spec.cp \in ControlPlanes
      BY SpecFields DEF TypeOK, Objects
    <3> QED
      BY Zenon, <3>1, <3>2 DEF Prompt, URLsOf
  <2>2. CASE Repairing' \/ pc' \in {"writeSecret", "persist"}
    <3>1. StartReconcile \/ (/\ Repairing \/ pc \in {"writeSecret", "persist"}
                             /\ loc'.spec = loc.spec /\ loc'.url = loc.url)
      BY Zenon, <2>2, SnapshotStays
    <3> QED
      BY Zenon, <2>1, <3>1 DEF Prompt, Repairing
  <2>3. CASE pc' = "deploy"
    <3>1. \/ PersistKeyStatus
          \/ pc = "deploy" /\ loc' \in {loc, [loc EXCEPT !.fresh = FALSE]}
      BY Zenon, <2>3, WorkerEffect DEF Done, Overtaken, StartReconcile, CleanUpRemoteKey,
         EnsureCreatesKey, SecretUpToDate, WriteSecret
    <3>2. loc'.spec = loc.spec /\ loc'.url = loc.url /\ pc \notin {"idle", "unfinalize"}
      BY Zenon, <3>1 DEF PersistKeyStatus, TypeOK, Locals
    <3> QED
      BY <3>2 DEF Prompt
  <2>4. pc' \in {"idle", "unfinalize", "deploy", "writeSecret", "persist"} \/ Repairing'
    BY Zenon, TypeStep DEF TypeOK, Steps, Repairing
  <2> QED
    BY <2>2, <2>3, <2>4
<1>6. (Repairing \/ pc \in {"writeSecret", "persist"} => loc.status = status)'
  <2> SUFFICES ASSUME Repairing' \/ pc' \in {"writeSecret", "persist"}
               PROVE  loc'.status = status'
    OBVIOUS
  <2>1. CASE StartReconcile
    BY <2>1 DEF StartReconcile, Prompt, CR, crVars
  <2> QED
    BY Zenon, <2>1, SnapshotStays DEF Prompt
<1> QED
  BY Zenon, <1>1, <1>2, <1>3, <1>4, <1>5, <1>6 DEF Prompt

\* Without drift of the URL, a reconcile that rotates has a reason in the object.
LEMMA ReasonToRotate ==
    ASSUME URLFixed, TypeOK, Prompt, NEW usable, usable = (secrets[spec.secret] # None),
           Mode(spec, status, cps[spec.cp].url, usable) # "keep",
           cps[spec.cp].url # None, Complete(status), Stamped(status, spec)
    PROVE  secrets[spec.secret] = None
<1> DEFINE url == cps[spec.cp].url
<1>1. spec.cp \in ControlPlanes
  BY SpecFields DEF TypeOK
<1>2. url \in URLsOf(spec.cp)
  BY Zenon, <1>1 DEF Prompt, URLsOf
<1>3. status.url \in URLsOf(spec.cp)
  BY Zenon DEF Prompt, Stamped
<1>4. status.url = url
  BY ZenonT(40), <1>1, <1>2, <1>3, URLsOfControlPlane
<1>5. ~Drift(spec, status, url)
  BY Zenon, <1>4 DEF Drift, Differs, Stamped
<1> QED
  BY Zenon, <1>5 DEF Mode

LEMMA ExcusedStep ==
    ASSUME URLFixed, TypeOK, InFlight, Prompt, Excused, [Next]_vars
    PROVE  Excused'
<1>1. SUFFICES ASSUME (Repairing \/ (pc = "writeSecret" /\ loc.mode # "keep"))',
                      Complete(loc'.status), Stamped(loc'.status, loc'.spec)
               PROVE  secrets'[loc'.spec.secret] = None
  BY Zenon DEF Excused, Complete, Stamped
<1>2. CASE StartReconcile
  <2> DEFINE url == cps[spec.cp].url
             usable == secrets[spec.secret] # None
  <2>1. seen.spec = spec /\ seen.status = status /\ secretSeen = secrets
    BY Zenon DEF Prompt, CR
  <2>2. /\ loc'.spec = spec /\ loc'.status = status
        /\ url # None
        /\ loc'.mode = Mode(spec, status, url, usable)
        /\ pc' = CASE loc'.mode = "drift" -> "deleteOld"
                   [] loc'.mode = "keep"  -> "writeSecret"
                   [] OTHER               -> "ensure"
        /\ UNCHANGED secrets
    BY <1>2, <2>1 DEF StartReconcile, GatesOpen, secretVars
  <2>3. loc'.mode # "keep"
    BY <1>1, <2>2 DEF Repairing
  <2> HIDE DEF usable
  <2>4. Mode(spec, status, cps[spec.cp].url, usable) # "keep" /\ Complete(status) /\ Stamped(status, spec)
    BY Zenon, <1>1, <2>2, <2>3
  <2>5. usable = (secrets[spec.secret] # None)
    BY DEF usable
  <2>6. secrets[spec.secret] = None
    BY Zenon, <2>2, <2>4, <2>5, ReasonToRotate
  <2> QED
    BY Zenon, <2>2, <2>6
<1>3. CASE ~StartReconcile
  <2>1. /\ Repairing \/ (pc = "writeSecret" /\ loc.mode # "keep")
        /\ loc'.spec = loc.spec /\ loc'.status = loc.status
    BY Zenon, <1>1, <1>3, SnapshotStays
  <2>2. secrets[loc.spec.secret] = None
    BY Zenon, <1>1, <2>1 DEF Excused
  <2>3. loc.spec.secret \in SecretNames
    BY <2>1, SpecFields DEF InFlight, Repairing
  <2>4. pc' \notin {"idle", "persist"}
    BY <1>1 DEF Repairing
  <2>5. \/ UNCHANGED secrets
        \/ \E s \in SecretNames : secrets' = [secrets EXCEPT ![s] = None]
    BY Zenon, <2>4, SecretsEffect DEF Crash, SyncSecret, DeleteSecret
  <2> QED
    BY Zenon, <2>1, <2>2, <2>3, <2>5 DEF TypeOK
<1> QED
  BY Zenon, <1>2, <1>3

LEMMA InitPrompt == Init => Prompt /\ Excused
<1> SUFFICES ASSUME Init PROVE Prompt /\ Excused
  OBVIOUS
<1>1. InitCommon
  BY DEF Init, InitNew, InitLegacy
<1>2. ~Complete(status)
  <2>1. CASE InitNew
    BY <2>1 DEF InitNew, NoStatus, Complete
  <2>2. CASE InitLegacy
    BY <2>2 DEF InitLegacy, NoStatus, Complete
  <2> QED
    BY <2>1, <2>2 DEF Init
<1> QED
  BY Zenon, <1>1, <1>2 DEF InitCommon, Prompt, Excused, Repairing

\* Without cache lag a reconcile rotates only for a reason that its snapshot still
\* shows: key metadata that is incomplete or differs from the spec, or a lost Secret.
LEMMA PromptInvariant ==
    ASSUME ~CacheLag, URLFixed
    PROVE  Spec => []PromptInv
<1>1. Init => PromptInv
  BY InitTypes, InitPrompt DEF PromptInv
<1>2. PromptInv /\ [Next]_vars => PromptInv'
  BY URLFixed, TypeStep, PromptStep, ExcusedStep DEF PromptInv
<1> QED
  BY <1>1, <1>2, PTL DEF Spec

LEMMA KeyLeftAloneStep ==
    ASSUME PromptInv, [Next]_vars,
           phase = "live", secrets[spec.secret] # None,
           ~Drift(spec, status, cps[spec.cp].url), Complete(status),
           loc.spec \in {None, spec}
    PROVE  UNCHANGED coderd
<1>1. ~CleanUpRemoteKey
  BY DEF PromptInv, Prompt, CR, CleanUpRemoteKey
<1>2. ~Repairing
  <2> SUFFICES ASSUME Repairing PROVE FALSE
    BY Zenon
  <2>1. loc.spec = spec
    BY Zenon, NoneIsNew DEF PromptInv, InFlight, Repairing
  <2>2. loc.status = status
    BY Zenon DEF PromptInv, Prompt
  <2>3. ~Stamped(status, spec)
    BY Zenon, <2>1, <2>2 DEF PromptInv, Excused
  <2> QED
    BY <2>3 DEF Stamped, Drift, Differs, Complete
<1> QED
  BY Zenon, <1>1, <1>2, KeysEffect DEF Repairing, DeleteOldKey, DeleteForRotation, EnsureCreatesKey, EnsureFails

\* A good key is not rotated, whatever crashes, conflicts, failed calls and edits there
\* are: without cache lag, and while control planes keep their URL.
THEOREM GoodKeyLeftAlone ==
    ASSUME ~CacheLag, URLFixed
    PROVE  Spec => KeyLeftAlone
<1>1. PromptInv /\ [Next]_vars =>
         [/\ phase = "live"
          /\ ~touched
          /\ secrets[spec.secret] # None
          /\ ~Drift(spec, status, cps[spec.cp].url) /\ Complete(status)
          /\ loc.spec \in {None, spec}
          => UNCHANGED coderd]_vars
  BY Zenon, KeyLeftAloneStep
<1> QED
  BY <1>1, PromptInvariant, URLFixed, PTL DEF Spec, KeyLeftAlone

\* A complete record names one spec, given the Secret's name.
LEMMA OneSpecRecorded ==
    ASSUME NEW st, NEW a \in Specs, NEW b \in Specs,
           Stamped(st, a), Stamped(st, b), st.name # None, a.secret = b.secret
    PROVE  a = b
<1>1. a \in SpecRecords /\ b \in SpecRecords
  BY Zenon, ConstantsAssumption
<1>2. a.cp = b.cp /\ a.org = b.org /\ a.name = b.name /\ a.tags = b.tags
  BY DEF Stamped
<1> QED
  BY <1>1, <1>2 DEF SpecRecords

\* What is still to be asked for has not been recorded.
LEMMA NotRecordedAhead ==
    ASSUME NEW rank, Onward(rank), NEW st, NEW s \in Specs, NEW t \in Specs,
           Complete(st), st.name # None, AppliedBefore(rank, st, s),
           t.secret = s.secret, rank[s] < rank[t]
    PROVE  ~Stamped(st, t)
<1> SUFFICES ASSUME Stamped(st, t) PROVE FALSE
  OBVIOUS
<1>1. PICK a \in Specs : Stamped(st, a) /\ a.secret = s.secret /\ rank[a] <= rank[s]
  BY DEF AppliedBefore
<1>2. a = t
  BY <1>1, OneSpecRecorded
<1>3. rank[s] \in Nat /\ rank[t] \in Nat
  BY DEF Onward
<1> QED
  BY <1>1, <1>2, <1>3

\* A complete status is rewritten with the same fields, or with those of a rotation for
\* the current spec.
LEMMA RecordKept ==
    ASSUME CustodyInv, PromptInv, [Next]_vars, Complete(status')
    PROVE  \/ /\ Complete(status)
              /\ status.name # None
              /\ \A s : Stamped(status', s) <=> Stamped(status, s)
           \/ /\ pc = "persist" /\ loc.mode # "keep" /\ loc.spec = spec
              /\ status' = KeyStatus
              /\ UNCHANGED <<spec, phase, secrets, coderd>>
<1>1. CASE /\ status'.org = status.org /\ status'.tags = status.tags /\ status'.cp = status.cp
           /\ status'.url = status.url
           /\ status'.name \in {status.name, OrElse(status.name, loc.spec.name)}
  <2>1. Complete(status)
    BY Zenon, <1>1 DEF Complete
  <2>2. status.name # None
    BY Zenon, <2>1 DEF CustodyInv, SecretAgreed
  <2>3. status'.name = status.name
    BY <1>1, <2>2 DEF OrElse
  <2> QED
    BY Zenon, <1>1, <2>1, <2>2, <2>3 DEF Stamped
<1>2. CASE /\ pc = "persist" /\ loc.fresh /\ loc.mode # "keep"
           /\ status' = KeyStatus
           /\ UNCHANGED <<spec, phase, secrets, coderd>>
  BY Zenon, <1>2 DEF CustodyInv, VersionsCurrent
<1> QED
  BY Zenon, <1>1, <1>2, StatusRecords DEF PromptInv

LEMMA SpecAdvances ==
    ASSUME NEW rank, Onward(rank), SecretNameFixed, TypeOK, [Next]_vars
    PROVE  \/ spec' = spec
           \/ /\ spec' \in Specs /\ spec'.secret = spec.secret /\ rank[spec] < rank[spec']
              /\ EditSpec
<1>1. CASE EditSpec
  <2>1. PICK e \in Edits : e[1] = spec /\ spec' = e[2]
    BY <1>1 DEF EditSpec
  <2>2. e[1].secret = e[2].secret /\ rank[e[1]] < rank[e[2]]
    BY DEF SecretNameFixed, Onward
  <2>3. e[2] \in Specs
    BY ConstantsAssumption
  <2> QED
    BY Zenon, <1>1, <2>1, <2>2, <2>3
<1> QED
  BY Zenon, <1>1, ObjectEffect DEF AddFinalizer, DeleteObject, RemoveFinalizer, StatusWritten, ReportFailure,
     crVars

LEMMA RankedStep ==
    ASSUME NEW rank, Onward(rank), SecretNameFixed, CustodyInv, PromptInv, Ranked(rank), [Next]_vars
    PROVE  Ranked(rank)'
<1>0. TypeOK /\ InFlight /\ Prompt /\ spec \in Specs /\ loc \in Locals
  BY DEF PromptInv, TypeOK
<1>1. \/ spec' = spec
      \/ /\ spec' \in Specs /\ spec'.secret = spec.secret /\ rank[spec] < rank[spec']
         /\ EditSpec
  BY Zenon, <1>0, SpecAdvances
<1>2. \A s \in Specs : rank[s] \in Nat
  BY DEF Onward
<1>3. AppliedBefore(rank, status', spec')
  <2> SUFFICES ASSUME Complete(status')
               PROVE  \E a \in Specs : Stamped(status', a) /\ a.secret = spec'.secret /\ rank[a] <= rank[spec']
    BY Zenon DEF AppliedBefore
  <2>1. CASE Complete(status) /\ \A s : Stamped(status', s) <=> Stamped(status, s)
    <3>1. PICK a \in Specs : Stamped(status, a) /\ a.secret = spec.secret /\ rank[a] <= rank[spec]
      BY Zenon, <2>1 DEF Ranked, AppliedBefore
    <3>2. Stamped(status', a)
      BY Zenon, <2>1, <3>1
    <3>3. a.secret = spec'.secret /\ rank[a] <= rank[spec']
      BY <1>0, <1>1, <1>2, <3>1
    <3> QED
      BY Zenon, <3>2, <3>3
  <2>2. CASE pc = "persist" /\ loc.mode # "keep" /\ loc.spec = spec /\ status' = KeyStatus /\ spec' = spec
    <3>1. Stamped(status', spec)
      BY <2>2 DEF KeyStatus, Stamped
    <3>2. rank[spec] <= rank[spec]
      BY <1>0, <1>2
    <3> QED
      BY Zenon, <1>0, <2>2, <3>1, <3>2
  <2> QED
    BY Zenon, <2>1, <2>2, RecordKept
<1>4. (pc # "idle" => loc.spec = spec \/ rank[loc.spec] < rank[spec])'
  <2> SUFFICES ASSUME pc' # "idle" PROVE loc'.spec = spec' \/ rank[loc'.spec] < rank[spec']
    BY Zenon
  <2>1. CASE StartReconcile \/ CleanUpRemoteKey
    <3>1. seen.spec = spec
      BY Zenon, <1>0 DEF Prompt, CR
    <3>2. CASE StartReconcile
      BY <3>1, <3>2 DEF StartReconcile, crVars
    <3>3. CASE CleanUpRemoteKey
      <4>1. /\ loc' = [NoLocal EXCEPT !.spec = seen.spec, !.status = seen.status, !.fresh = seenFresh]
            /\ UNCHANGED spec
        BY <3>3 DEF CleanUpRemoteKey, crVars
      <4> QED
        BY <3>1, <4>1 DEF NoLocal
    <3> QED
      BY Zenon, <2>1, <3>2, <3>3
  <2>2. CASE pc # "idle" /\ loc'.spec = loc.spec
    <3>1. loc.spec = spec \/ rank[loc.spec] < rank[spec]
      BY Zenon, <2>2 DEF Ranked
    <3>2. loc.spec \in Specs
      BY <1>0, <2>2 DEF InFlight
    <3> QED
      BY <1>0, <1>1, <1>2, <2>2, <3>1, <3>2
  <2>3. \/ StartReconcile \/ CleanUpRemoteKey
        \/ /\ pc # "idle"
           /\ \/ loc' = loc \/ loc' = [loc EXCEPT !.fresh = FALSE]
              \/ \E m \in Materials : loc' = [loc EXCEPT !.mat = m]
              \/ loc' = [loc EXCEPT !.val = SecretTarget]
              \/ loc' = [loc EXCEPT !.status = KeyStatus, !.mat = None]
    BY Zenon, WorkerEffect DEF Done, Overtaken, EnsureCreatesKey, SecretUpToDate, WriteSecret, PersistKeyStatus
  <2> HIDE DEF SecretTarget, KeyStatus
  <2>4. \/ StartReconcile \/ CleanUpRemoteKey
        \/ pc # "idle" /\ loc'.spec = loc.spec
    BY Zenon, <1>0, <2>3 DEF Locals
  <2> QED
    BY <2>1, <2>2, <2>4
<1>5. (Repairing \/ pc \in {"writeSecret", "persist"} => AppliedBefore(rank, loc.status, loc.spec))'
  <2> SUFFICES ASSUME Repairing' \/ pc' \in {"writeSecret", "persist"}
               PROVE  AppliedBefore(rank, loc'.status, loc'.spec)
    BY Zenon DEF AppliedBefore, Complete, Stamped
  <2>1. CASE StartReconcile
    <3>1. loc'.status = status /\ loc'.spec = spec
      BY <1>0, <2>1 DEF StartReconcile, Prompt, CR
    <3> QED
      BY Zenon, <3>1 DEF Ranked
  <2> QED
    BY Zenon, <1>0, <2>1, SnapshotStays DEF Ranked
<1>6. AppliedBefore(rank, status, spec)'
  BY Zenon, <1>3 DEF AppliedBefore, Complete, Stamped
<1> QED
  BY Zenon, <1>4, <1>5, <1>6 DEF Ranked

\* A reconcile that repairs, or is about to store what it rotated, does so because the
\* object does not record the current spec or the Secret is lost.
LEMMA NothingToRepair ==
    ASSUME NEW rank, Onward(rank), CustodyInv, PromptInv, Ranked(rank),
           Repairing \/ (pc = "writeSecret" /\ loc.mode # "keep"),
           Complete(status), Stamped(status, spec)
    PROVE  loc.spec = spec /\ secrets[spec.secret] = None
<1>0. TypeOK /\ InFlight /\ Prompt /\ Excused /\ spec \in Specs
  BY Zenon DEF PromptInv, TypeOK
<1>1. pc # "idle" /\ loc.spec \in Specs /\ loc.status = status
  BY Zenon, <1>0 DEF Repairing, InFlight, Prompt
<1>2. loc.spec.secret = spec.secret /\ status.name # None
  BY Zenon, <1>1 DEF CustodyInv, SecretAgreed
<1>3. AppliedBefore(rank, status, loc.spec)
  BY Zenon, <1>1 DEF Ranked
<1>4. ~(rank[loc.spec] < rank[spec])
  BY Zenon, <1>0, <1>1, <1>2, <1>3, NotRecordedAhead
<1>5. loc.spec = spec
  BY Zenon, <1>1, <1>4 DEF Ranked
<1> QED
  BY Zenon, <1>0, <1>1, <1>5 DEF Excused

\* The key in the reconcile's hands is the one at home.
LEMMA MaterialAtHome ==
    ASSUME CustodyInv, PromptInv, pc \in {"writeSecret", "persist"}, loc.mode # "keep", loc.spec = spec
    PROVE  loc.mat # None /\ coderd[Home] = [tags |-> spec.tags, mat |-> loc.mat]
<1>1. loc.mat # None /\ coderd[DesiredSpot(loc.spec, loc.url)] = [tags |-> loc.spec.tags, mat |-> loc.mat]
  BY Zenon DEF CustodyInv, MaterialHeld
<1>2. spec.cp \in ControlPlanes
  BY SpecFields DEF PromptInv, TypeOK
<1>3. ServerOf[loc.url] = HomeOf[spec.cp]
  BY Zenon, <1>2, URLsOfControlPlane DEF PromptInv, Prompt
<1>4. DesiredSpot(loc.spec, loc.url) = Home
  BY Zenon, <1>3 DEF DesiredSpot, Spot, Home
<1> QED
  BY Zenon, <1>1, <1>4

LEMMA InOrderStep ==
    ASSUME NEW rank, Onward(rank), SecretNameFixed, CustodyInv, PromptInv, Ranked(rank), InOrder,
           [Next]_vars
    PROVE  InOrder'
<1>0. TypeOK /\ InFlight /\ Prompt /\ spec \in Specs
  BY DEF PromptInv, TypeOK
<1>s. spec.secret \in SecretNames /\ secrets \in [SecretNames -> Opt(Materials)]
  BY <1>0, SpecFields DEF TypeOK
<1>1. SUFFICES ASSUME phase' = "live", Complete(status'), Stamped(status', spec'),
                      secrets'[spec'.secret] # None
               PROVE  coderd'[Home'] = [tags |-> spec'.tags, mat |-> secrets'[spec'.secret]]
  BY Zenon DEF InOrder, Complete, Stamped
<1>2. CASE /\ pc = "persist" /\ loc.mode # "keep" /\ loc.spec = spec
           /\ UNCHANGED <<spec, phase, secrets, coderd>>
  <2>1. loc.mat # None /\ coderd[Home] = [tags |-> spec.tags, mat |-> loc.mat]
    BY Zenon, <1>2, MaterialAtHome
  <2>2. secrets[spec.secret] \in {None, loc.mat}
    BY Zenon, <1>2, <2>1 DEF CustodyInv, MaterialHeld
  <2>3. secrets[spec.secret] = loc.mat
    BY Zenon, <1>1, <1>2, <2>2
  <2>4. Home' = Home
    BY <1>2 DEF Home
  <2> QED
    BY Zenon, <1>2, <2>1, <2>3, <2>4
<1>3. CASE Complete(status) /\ status.name # None /\ \A s : Stamped(status', s) <=> Stamped(status, s)
  <2>1. spec' = spec
    <3>1. ASSUME spec' \in Specs, spec'.secret = spec.secret, rank[spec] < rank[spec']
          PROVE  FALSE
      <4>1. AppliedBefore(rank, status, spec)
        BY Zenon DEF Ranked
      <4>2. ~Stamped(status, spec')
        BY Zenon, <1>0, <1>3, <3>1, <4>1, NotRecordedAhead
      <4> QED
        BY Zenon, <1>1, <1>3, <4>2
    <3> QED
      BY Zenon, <1>0, <3>1, SpecAdvances
  <2>2. Stamped(status, spec) /\ Home' = Home
    BY Zenon, <1>1, <1>3, <2>1 DEF Home
  <2>3. phase = "live"
    BY Zenon, <1>1, ObjectEffect DEF EditSpec, AddFinalizer, DeleteObject, RemoveFinalizer, StatusWritten,
       ReportFailure, crVars
  \* No key is changed: the Secret would be missing, and still is.
  <2>4. ~Repairing
    <3> SUFFICES ASSUME Repairing PROVE FALSE
      OBVIOUS
    <3>1. secrets[spec.secret] = None
      BY Zenon, <1>3, <2>2, NothingToRepair
    <3>2. \/ UNCHANGED secrets
          \/ \E s \in SecretNames : secrets' = [secrets EXCEPT ![s] = None]
      BY Zenon, SecretsEffect DEF Crash, SyncSecret, DeleteSecret, Repairing
    <3>3. secrets'[spec.secret] = None
      BY Zenon, <1>s, <3>1, <3>2
    <3> QED
      BY Zenon, <1>1, <2>1, <3>3
  <2>5. UNCHANGED coderd
    <3>1. ~CleanUpRemoteKey
      BY <1>0, <2>3 DEF CleanUpRemoteKey, Prompt, CR
    <3> QED
      BY Zenon, <2>4, <3>1, KeysEffect DEF Repairing, DeleteOldKey, DeleteForRotation, EnsureCreatesKey, EnsureFails
  <2>6. CASE secrets'[spec.secret] = secrets[spec.secret]
    <3>1. coderd[Home] = [tags |-> spec.tags, mat |-> secrets[spec.secret]]
      BY Zenon, <1>1, <1>3, <2>1, <2>2, <2>3, <2>6 DEF InOrder
    <3> QED
      BY Zenon, <2>1, <2>2, <2>5, <2>6, <3>1
  <2>7. CASE pc = "writeSecret" /\ SecretTarget # None /\ secretSeen[loc.spec.secret] # SecretTarget
             /\ SecretWritten(loc.spec.secret)
    <3>1. loc.mat # None
      BY <2>7 DEF SecretTarget, OrElse
    <3>2. loc.mode # "keep"
      BY Zenon, <3>1 DEF CustodyInv, MaterialHeld
    <3>3. loc.spec = spec
      BY Zenon, <1>3, <2>2, <2>7, <3>2, NothingToRepair
    <3>4. coderd[Home] = [tags |-> spec.tags, mat |-> loc.mat]
      BY Zenon, <2>7, <3>2, <3>3, MaterialAtHome
    <3>5. secrets'[spec.secret] = loc.mat
      BY Zenon, <1>s, <2>7, <3>1, <3>3 DEF SecretWritten, SecretTarget, OrElse
    <3> QED
      BY Zenon, <2>1, <2>2, <2>5, <3>4, <3>5
  <2>8. ASSUME NEW s \in SecretNames, secrets' = [secrets EXCEPT ![s] = None]
        PROVE  secrets'[spec.secret] = secrets[spec.secret]
    BY Zenon, <1>1, <1>s, <2>1, <2>8
  <2> QED
    BY Zenon, <2>6, <2>7, <2>8, SecretsEffect DEF Crash, SyncSecret, DeleteSecret
<1> QED
  BY Zenon, <1>1, <1>2, <1>3, RecordKept

LEMMA DamageInvariant ==
    ASSUME NEW rank, Onward(rank), SecretNameFixed, ~CacheLag, URLFixed
    PROVE  Spec => []DamageInv(rank)
<1> DEFINE Inv == DamageInv(rank)
<1>1. Init => Inv
  <2> SUFFICES ASSUME Init PROVE DamageInv(rank)
    OBVIOUS
  <2>1. CustodyInv /\ PromptInv
    BY InitTypes, InitCustody, InitPrompt DEF PromptInv
  <2>2. ~Complete(status) /\ pc = "idle"
    <3>1. CASE InitNew
      BY Zenon, <3>1 DEF InitNew, InitCommon, NoStatus, Complete
    <3>2. CASE InitLegacy
      BY <3>2 DEF InitLegacy, InitCommon, NoStatus, Complete
    <3> QED
      BY <3>1, <3>2 DEF Init
  <2> QED
    BY Zenon, <2>1, <2>2 DEF DamageInv, Ranked, AppliedBefore, InOrder, Repairing
<1>2. Inv /\ [Next]_vars => Inv'
  <2> SUFFICES ASSUME DamageInv(rank), [Next]_vars PROVE DamageInv(rank)'
    OBVIOUS
  <2>1. CustodyInv /\ PromptInv /\ Ranked(rank) /\ InOrder /\ TypeOK /\ InFlight
    BY DEF DamageInv, PromptInv
  <2>2. TypeOK' /\ InFlight'
    BY <2>1, TypeStep
  <2>3. CustodyInv'
    BY Zenon, <2>1, <2>2, CustodyStep, SecretNameFixed
  <2>4. PromptInv'
    BY <2>1, <2>2, PromptStep, ExcusedStep, URLFixed DEF PromptInv
  <2>5. Ranked(rank)' /\ InOrder'
    BY Zenon, <2>1, RankedStep, InOrderStep, SecretNameFixed
  <2> QED
    BY Zenon, <2>3, <2>4, <2>5 DEF DamageInv
<1> HIDE DEF Inv
<1>3. Spec => []Inv
  BY <1>1, <1>2, PTL DEF Spec
<1> QED
  BY <1>3 DEF Inv

\* A broken key is never mistaken for a good one, whatever crashes, conflicts and
\* failed calls there are: if edits never return to an earlier spec and do not move the
\* Secret, caches follow at once, and control planes keep their URL.
THEOREM DamageStaysVisible ==
    ASSUME NEW rank, Onward(rank), SecretNameFixed, ~CacheLag, URLFixed
    PROVE  Spec => []DamageIsVisible
<1> DEFINE Inv == DamageInv(rank)
<1>1. Inv => DamageIsVisible
  <2> SUFFICES ASSUME DamageInv(rank), phase = "live", GatesOpen(spec),
                      Mode(spec, status, cps[spec.cp].url, secrets[spec.secret] # None) = "keep"
               PROVE  KeyUsable
    BY Zenon DEF DamageIsVisible
  <2>1. CustodyInv /\ PromptInv /\ InOrder
    BY Zenon DEF DamageInv
  <2>2. /\ ~Drift(spec, status, cps[spec.cp].url) /\ Complete(status)
        /\ secrets[spec.secret] # None
    BY DEF Mode
  <2>3. Stamped(status, spec)
    BY Zenon, <2>2 DEF Drift, Differs, Complete, Stamped
  <2>4. coderd[Home] = [tags |-> spec.tags, mat |-> secrets[spec.secret]]
    BY Zenon, <2>1, <2>2, <2>3 DEF InOrder
  <2>5. spec.cp \in ControlPlanes
    BY <2>1, SpecFields DEF PromptInv, TypeOK
  <2>6. cps[spec.cp] \in CPStates[spec.cp] /\ cps[spec.cp].url # None
    BY Zenon, <2>1, <2>5 DEF PromptInv, Prompt, GatesOpen
  <2>7. DesiredSpot(spec, cps[spec.cp].url) = Home
    BY Zenon, <2>5, <2>6, ConstantsAssumption DEF DesiredSpot, Spot, Home
  <2>8. spec.tags \in Tags /\ secrets[spec.secret] \in Materials
    BY Zenon, <2>1, <2>2, SpecFields DEF PromptInv, TypeOK
  <2>9. [tags |-> spec.tags, mat |-> secrets[spec.secret]] \in Keys
    BY Zenon, <2>8 DEF Keys
  <2>10. [tags |-> spec.tags, mat |-> secrets[spec.secret]] # None
    BY Zenon, <2>9, NoneIsNew
  <2>11. /\ [tags |-> spec.tags, mat |-> secrets[spec.secret]].tags = spec.tags
         /\ [tags |-> spec.tags, mat |-> secrets[spec.secret]].mat = secrets[spec.secret]
    BY Zenon
  <2> QED
    BY Zenon, <2>4, <2>7, <2>10, <2>11 DEF KeyUsable
<1>2. Spec => []Inv
  BY DamageInvariant, SecretNameFixed, URLFixed
<1> HIDE DEF Inv
<1> QED
  BY <1>1, <1>2, PTL

=============================================================================
