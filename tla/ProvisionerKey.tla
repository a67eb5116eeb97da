--------------------------- MODULE ProvisionerKey ---------------------------
(***************************************************************************)
(* The CoderProvisioner controller: how one CoderProvisioner object, the    *)
(* Kubernetes Secret that holds its provisioner key, the Deployment that    *)
(* mounts it and the keys stored in coderd are kept in step                 *)
(* (internal/controller/coderprovisioner_controller.go, and the coderd      *)
(* calls of internal/coderbootstrap/provisionerkeys.go).                    *)
(*                                                                         *)
(* A reconcile is a sequence of calls to two remote systems.  Every call    *)
(* that changes one of them is a step of its own, so that users' edits,     *)
(* crashes of the operator and failed calls fall between any two of them.   *)
(* The controller runs one worker, so at most one reconcile is in flight.   *)
(*                                                                         *)
(* Objects are read from the informer cache, which may lag behind the API   *)
(* server, and written with optimistic concurrency: a write succeeds only   *)
(* if the object has not changed since the version that was read.           *)
(***************************************************************************)
EXTENDS Integers

CONSTANTS
    ControlPlanes,   \* names of CoderControlPlane objects
    URLs,            \* values of a control plane's status.url
    Servers,         \* coderd deployments
    ServerOf,        \* the deployment an URL leads to
    HomeOf,          \* the deployment whose database a control plane's token is in
    CPStates,        \* per control plane, the states its status goes through
    Orgs, KeyNames, Tags, SecretNames,
    Specs,           \* the specs the CoderProvisioner object may be given
    InitSpecs,       \* the specs it may be created with
    Edits,           \* the edits users make, as pairs of specs
    MaxKeys,         \* bound: plaintext keys that may be in existence at once
    MaxDisturbances, \* bound: edits, deletions, failed calls, crashes
    RemoteFaults,    \* whether calls to coderd may fail
    CacheLag,        \* whether the informer cache may lag behind
    None             \* an absent object or an empty field

Materials == 1 .. MaxKeys

SpecRecords == [cp : ControlPlanes, org : Orgs, name : KeyNames,
                tags : Tags, secret : SecretNames]

Keys == [tags : Tags, mat : Materials]

CPStatus == [url : URLs \cup {None}, access : BOOLEAN, entitled : BOOLEAN]

ASSUME ConstantsAssumption ==
    /\ ServerOf \in [URLs -> Servers]
    /\ HomeOf \in [ControlPlanes -> Servers]
    /\ CPStates \in [ControlPlanes -> SUBSET CPStatus]
    /\ \A c \in ControlPlanes : \A s \in CPStates[c] :
          s.url # None => ServerOf[s.url] = HomeOf[c]
    /\ Specs \subseteq SpecRecords
    /\ InitSpecs \subseteq Specs
    /\ Edits \subseteq Specs \X Specs
    /\ MaxKeys \in Nat \ {0}
    /\ MaxDisturbances \in Nat
    /\ RemoteFaults \in BOOLEAN
    /\ CacheLag \in BOOLEAN

ASSUME NoneAssumption ==
    /\ \A S \in {URLs, Servers, ControlPlanes, Orgs, KeyNames, Tags, SecretNames} : None \notin S
    /\ None \notin Specs
    /\ None \notin Keys
    /\ None \notin Nat

VARIABLES
    \* The CoderProvisioner object in the API server.
    spec, status, phase, finalizer,
    \* The informer cache's copy of it, and whether it is the latest version.
    seen, seenFresh,
    \* Key Secrets: plaintext by Secret name; cached copies and their freshness.
    secrets, secretSeen, secretFresh,
    \* Status of the control planes, keys stored in coderd, the Deployment.
    cps, coderd, deploy,
    \* The reconcile in flight: the step it is at, and its local variables.
    pc, loc,
    \* History: coderd has changed since key metadata was last persisted.
    touched,
    \* Disturbances so far.
    disturbances

crVars == <<spec, status, phase, finalizer, seen, seenFresh>>
secretVars == <<secrets, secretSeen, secretFresh>>
vars == <<crVars, secretVars, cps, coderd, deploy, pc, loc, touched, disturbances>>

-----------------------------------------------------------------------------
(* Types.                                                                    *)

Opt(S) == S \cup {None}

\* The key-related part of CoderProvisionerStatus.  "id" is the key's ID: coderd
\* creates ID and plaintext together, so one value stands for both.  "ready" is
\* the ProvisionerKeyReady condition.
Statuses == [org : Opt(Orgs), name : Opt(KeyNames), tags : Opt(Tags),
             cp : Opt(ControlPlanes), url : Opt(URLs), id : Opt(Materials),
             secret : Opt(SecretNames), ready : {"unset", "true", "false"}]

NoStatus == [org |-> None, name |-> None, tags |-> None, cp |-> None,
             url |-> None, id |-> None, secret |-> None, ready |-> "unset"]

Phases == {"live", "deleting", "gone"}

Objects == [spec : Specs, status : Statuses, phase : Phases, finalizer : BOOLEAN]

Spots == Servers \X Orgs \X KeyNames

Deployments == [url : URLs, secret : SecretNames, sum : Materials]

Steps == {"idle", "deleteOld", "ensure", "rotate", "recreate",
          "writeSecret", "persist", "deploy", "unfinalize"}

Modes == {"none", "drift", "missing", "backfill", "keep"}

Locals == [spec : Opt(Specs), status : Statuses, fresh : BOOLEAN,
           url : Opt(URLs), mode : Modes, mat : Opt(Materials), val : Opt(Materials)]

NoLocal == [spec |-> None, status |-> NoStatus, fresh |-> FALSE, url |-> None,
            mode |-> "none", mat |-> None, val |-> None]

TypeOK ==
    /\ spec \in Specs
    /\ status \in Statuses
    /\ phase \in Phases
    /\ finalizer \in BOOLEAN
    /\ seen \in Objects
    /\ seenFresh \in BOOLEAN
    /\ secrets \in [SecretNames -> Opt(Materials)]
    /\ secretSeen \in [SecretNames -> Opt(Materials)]
    /\ secretFresh \in [SecretNames -> BOOLEAN]
    /\ cps \in [ControlPlanes -> CPStatus]
    /\ coderd \in [Spots -> Opt(Keys)]
    /\ deploy \in Opt(Deployments)
    /\ pc \in Steps
    /\ loc \in Locals
    /\ touched \in BOOLEAN
    /\ disturbances \in 0 .. MaxDisturbances

-----------------------------------------------------------------------------
(* Reading and writing Kubernetes objects.                                   *)

CR == [spec |-> spec, status |-> status, phase |-> phase, finalizer |-> finalizer]

\* After a write to the object the informer cache holds an old version until it
\* is synchronised; without lag it follows at once.
CacheFollows ==
    /\ seen' = IF CacheLag THEN seen ELSE CR'
    /\ seenFresh' = ~CacheLag

SecretCacheFollows(s) ==
    /\ secretSeen' = IF CacheLag THEN secretSeen ELSE [secretSeen EXCEPT ![s] = secrets'[s]]
    /\ secretFresh' = [secretFresh EXCEPT ![s] = ~CacheLag]

Disturb ==
    /\ disturbances < MaxDisturbances
    /\ disturbances' = disturbances + 1

\* A call to coderd fails: throttled, timed out, refused.
RemoteFault == RemoteFaults /\ Disturb

Done ==
    /\ pc' = "idle"
    /\ loc' = NoLocal

-----------------------------------------------------------------------------
(* Keys in coderd.                                                           *)

OrElse(x, y) == IF x = None THEN y ELSE x

\* Where a key named by a spec, or by a status that falls back on a spec, lives.
Spot(url, org, name) == <<ServerOf[url], org, name>>
DesiredSpot(s, url) == Spot(url, s.org, s.name)
AppliedSpot(st, s, url) == Spot(OrElse(st.url, url), OrElse(st.org, s.org), OrElse(st.name, s.name))

InUse(m) ==
    \/ \E k \in Spots : coderd[k] # None /\ coderd[k].mat = m
    \/ \E s \in SecretNames : m \in {secrets[s], secretSeen[s]}
    \/ m \in {status.id, seen.status.id, loc.status.id, loc.mat, loc.val}
    \/ deploy # None /\ deploy.sum = m

\* coderd generates a plaintext nobody holds; the least one, to keep the state
\* space small.
Fresh(m) == ~InUse(m) /\ \A k \in Materials : k < m => InUse(k)

\* EnsureProvisionerKey on a name that is not taken.
CreateKey(spot, tags, m) ==
    /\ Fresh(m)
    /\ coderd' = [coderd EXCEPT ![spot] = [tags |-> tags, mat |-> m]]
    /\ touched' = TRUE

\* DeleteProvisionerKey; a missing key counts as deleted.
DeleteKey(spot) ==
    /\ coderd' = [coderd EXCEPT ![spot] = None]
    /\ touched' = (touched \/ coderd[spot] # None)

-----------------------------------------------------------------------------
(* The start of a reconcile.                                                 *)

\* fetchControlPlane, readOperatorSessionToken and the entitlement check pass.
GatesOpen(s) ==
    /\ cps[s.cp].url # None
    /\ cps[s.cp].access
    /\ cps[s.cp].entitled

Differs(applied, desired) == applied # None /\ applied # desired

\* Mutation: the tags hash is left out of the comparison.
DriftIgnoringTags(s, st, url) ==
    \/ Differs(st.org, s.org)
    \/ Differs(st.name, s.name)
    \/ Differs(st.cp, s.cp)
    \/ Differs(st.url, url)

Drift(s, st, url) ==
    \/ Differs(st.org, s.org)
    \/ Differs(st.name, s.name)
    \/ Differs(st.tags, s.tags)
    \/ Differs(st.cp, s.cp)
    \/ Differs(st.url, url)

Complete(st) == None \notin {st.org, st.tags, st.cp, st.url}

\* Mutation: a lost Secret is not noticed.
ModeIgnoringSecret(s, st, url, secretUsable) ==
    CASE Drift(s, st, url) -> "drift"
      [] ~Drift(s, st, url) /\ ~Complete(st) -> "backfill"
      [] OTHER -> "keep"

\* Mutation: every reconcile without drift backfills the metadata.
ModeAlwaysBackfilling(s, st, url, secretUsable) ==
    CASE Drift(s, st, url) -> "drift"
      [] ~Drift(s, st, url) /\ ~secretUsable -> "missing"
      [] OTHER -> "backfill"

Mode(s, st, url, secretUsable) ==
    CASE Drift(s, st, url) -> "drift"
      [] ~Drift(s, st, url) /\ ~secretUsable -> "missing"
      [] ~Drift(s, st, url) /\ secretUsable /\ ~Complete(st) -> "backfill"
      [] OTHER -> "keep"

\* Mutation: the finalizer is added whatever has become of the object meanwhile.
AddFinalizerUnversioned ==
    /\ pc = "idle"
    /\ seen.phase = "live"
    /\ ~seen.finalizer
    /\ finalizer' = TRUE
    /\ UNCHANGED <<spec, status, phase>>
    /\ CacheFollows
    /\ UNCHANGED <<secretVars, cps, coderd, deploy, pc, loc, touched, disturbances>>

\* ensureCleanupFinalizer: the first reconcile only adds the finalizer.
AddFinalizer ==
    /\ pc = "idle"
    /\ seen.phase = "live"
    /\ ~seen.finalizer
    /\ seenFresh
    /\ finalizer' = TRUE
    /\ UNCHANGED <<spec, status, phase>>
    /\ CacheFollows
    /\ UNCHANGED <<secretVars, cps, coderd, deploy, pc, loc, touched, disturbances>>

\* One of the gates is closed: only conditions of the object are written, from
\* the cached copy, and the reconcile is retried later.
WaitForControlPlane ==
    /\ pc = "idle"
    /\ seen.phase = "live"
    /\ seen.finalizer
    /\ ~GatesOpen(seen.spec)
    /\ seenFresh
    /\ UNCHANGED <<spec, status, phase, finalizer>>
    /\ CacheFollows
    /\ UNCHANGED <<secretVars, cps, coderd, deploy, pc, loc, touched, disturbances>>

StartReconcile ==
    /\ pc = "idle"
    /\ seen.phase = "live"
    /\ seen.finalizer
    /\ GatesOpen(seen.spec)
    /\ LET url  == cps[seen.spec.cp].url
           mode == Mode(seen.spec, seen.status, url, secretSeen[seen.spec.secret] # None)
       IN  /\ loc' = [spec |-> seen.spec, status |-> seen.status, fresh |-> seenFresh,
                      url |-> url, mode |-> mode, mat |-> None, val |-> None]
           /\ pc' = CASE mode = "drift" -> "deleteOld"
                      [] mode = "keep"  -> "writeSecret"
                      [] OTHER          -> "ensure"
    /\ UNCHANGED <<crVars, secretVars, cps, coderd, deploy, touched, disturbances>>

-----------------------------------------------------------------------------
(* Rotating the key.  The snapshot in loc is what the reconcile works from,   *)
(* whatever happens to the object meanwhile.                                  *)

\* The operator's token is known only to the deployment it was minted for.
TokenAccepted(url) == ServerOf[url] = HomeOf[loc.spec.cp]

\* The reconcile ends with an error; the status write that reports it is lost
\* when the object has changed since it was read.
ReportFailure ==
    /\ Done
    /\ status' = IF loc.fresh THEN [loc.status EXCEPT !.ready = "false"] ELSE status
    /\ UNCHANGED <<spec, phase, finalizer>>
    /\ IF loc.fresh THEN CacheFollows ELSE UNCHANGED <<seen, seenFresh>>

FailSilently ==
    /\ Done
    /\ UNCHANGED crVars

\* Metadata backfill reports only throttling until it has deleted the old key.
KeyCallFails ==
    \/ ReportFailure
    \/ loc.mode = "backfill" /\ pc # "recreate" /\ FailSilently

Proceed(step) ==
    /\ pc' = step
    /\ UNCHANGED <<crVars, loc>>

\* Drift: delete the key the status names, best effort, then go on.
DeleteOldKey ==
    /\ pc = "deleteOld"
    /\ LET oldURL == OrElse(loc.status.url, loc.url)
       IN  \/ /\ TokenAccepted(oldURL)
              /\ DeleteKey(AppliedSpot(loc.status, loc.spec, loc.url))
              /\ UNCHANGED disturbances
           \/ /\ ~TokenAccepted(oldURL)
              /\ UNCHANGED <<coderd, touched, disturbances>>
           \/ /\ RemoteFault
              /\ UNCHANGED <<coderd, touched>>
    /\ Proceed("ensure")
    /\ UNCHANGED <<secretVars, cps, deploy>>

\* Mutation: backfill records the key it finds without rotating it.
EnsureFindsKeyAndKeepsIt ==
    /\ pc = "ensure"
    /\ coderd[DesiredSpot(loc.spec, loc.url)] # None
    /\ Proceed(IF loc.mode = "backfill" THEN "writeSecret" ELSE "rotate")
    /\ UNCHANGED <<secretVars, cps, coderd, deploy, touched, disturbances>>

\* EnsureProvisionerKey finds the name taken and returns no plaintext.
EnsureFindsKey ==
    /\ pc = "ensure"
    /\ coderd[DesiredSpot(loc.spec, loc.url)] # None
    /\ Proceed("rotate")
    /\ UNCHANGED <<secretVars, cps, coderd, deploy, touched, disturbances>>

\* EnsureProvisionerKey creates the key, in the first attempt or after the
\* existing key was deleted.
EnsureCreatesKey ==
    /\ pc \in {"ensure", "recreate"}
    /\ coderd[DesiredSpot(loc.spec, loc.url)] = None
    /\ \E m \in Materials :
          /\ CreateKey(DesiredSpot(loc.spec, loc.url), loc.spec.tags, m)
          /\ loc' = [loc EXCEPT !.mat = m]
    /\ pc' = "writeSecret"
    /\ UNCHANGED <<crVars, secretVars, cps, deploy, disturbances>>

\* EnsureProvisionerKey fails before it creates the key, or afterwards, when the
\* created key cannot be listed or the answer is lost: its plaintext is gone.
EnsureFails ==
    /\ pc \in {"ensure", "recreate"}
    /\ RemoteFault
    /\ \/ UNCHANGED <<coderd, touched>>
       \/ /\ coderd[DesiredSpot(loc.spec, loc.url)] = None
          /\ \E m \in Materials : CreateKey(DesiredSpot(loc.spec, loc.url), loc.spec.tags, m)
    /\ KeyCallFails
    /\ UNCHANGED <<secretVars, cps, deploy>>

\* The key exists but its plaintext is unknown: delete it to create it anew.
DeleteForRotation ==
    /\ pc = "rotate"
    /\ \/ /\ DeleteKey(DesiredSpot(loc.spec, loc.url))
          /\ Proceed("recreate")
          /\ UNCHANGED disturbances
       \/ /\ RemoteFault
          /\ DeleteKey(DesiredSpot(loc.spec, loc.url)) \/ UNCHANGED <<coderd, touched>>
          /\ KeyCallFails
    /\ UNCHANGED <<secretVars, cps, deploy>>

-----------------------------------------------------------------------------
(* Storing the result.                                                       *)

\* ensureProvisionerKeySecret: CreateOrUpdate against the cached Secret.
SecretTarget == OrElse(loc.mat, secretSeen[loc.spec.secret])

\* The cached Secret already holds the value: nothing is sent.
SecretUpToDate ==
    /\ pc = "writeSecret"
    /\ SecretTarget # None
    /\ secretSeen[loc.spec.secret] = SecretTarget
    /\ pc' = "persist"
    /\ loc' = [loc EXCEPT !.val = SecretTarget]
    /\ UNCHANGED <<crVars, secretVars, cps, coderd, deploy, touched, disturbances>>

SecretWriteAccepted(s) ==
    IF secretSeen[s] = None THEN secrets[s] = None ELSE secretFresh[s]

SecretWritten(s) ==
    /\ secrets' = [secrets EXCEPT ![s] = SecretTarget]
    /\ SecretCacheFollows(s)

WriteSecret ==
    /\ pc = "writeSecret"
    /\ SecretTarget # None
    /\ secretSeen[loc.spec.secret] # SecretTarget
    /\ SecretWriteAccepted(loc.spec.secret)
    /\ SecretWritten(loc.spec.secret)
    /\ pc' = "persist"
    /\ loc' = [loc EXCEPT !.val = SecretTarget]
    /\ UNCHANGED <<crVars, cps, coderd, deploy, touched, disturbances>>

\* Mutation: a failed write of the Secret does not stop the reconcile.
WriteSecretFailsUnnoticed ==
    /\ pc = "writeSecret"
    /\ SecretTarget # None
    /\ secretSeen[loc.spec.secret] # SecretTarget
    /\ Disturb
    /\ pc' = "persist"
    /\ loc' = [loc EXCEPT !.val = SecretTarget]
    /\ UNCHANGED <<crVars, secretVars, cps, coderd, deploy, touched>>

\* The Secret is empty, or the write is refused, or it fails with or without
\* having been applied; the new plaintext is lost with the reconcile.
WriteSecretFails ==
    /\ pc = "writeSecret"
    /\ LET s == loc.spec.secret
           sent == SecretTarget # None /\ secretSeen[s] # SecretTarget
       IN  \/ /\ SecretTarget = None \/ (sent /\ ~SecretWriteAccepted(s))
              /\ UNCHANGED <<secretVars, disturbances>>
           \/ /\ sent
              /\ Disturb
              /\ \/ UNCHANGED secretVars
                 \/ SecretWriteAccepted(s) /\ SecretWritten(s)
    /\ FailSilently
    /\ UNCHANGED <<cps, coderd, deploy, touched>>

\* The status after the key has been stored.  Only a rotation stamps the applied
\* organization, tags and control plane and sets ProvisionerKeyReady.
KeyStatus ==
    IF loc.mode = "keep"
    THEN [loc.status EXCEPT !.name = OrElse(@, loc.spec.name), !.secret = loc.spec.secret]
    ELSE [org |-> loc.spec.org, name |-> loc.spec.name, tags |-> loc.spec.tags,
          cp |-> loc.spec.cp, url |-> loc.url, id |-> loc.mat,
          secret |-> loc.spec.secret, ready |-> "true"]

\* The comparison is made after the condition has been set.
KeyStatusChanged == [KeyStatus EXCEPT !.ready = loc.status.ready] # loc.status

StatusWritten ==
    /\ status' = KeyStatus
    /\ UNCHANGED <<spec, phase, finalizer>>
    /\ CacheFollows
    /\ touched' = (touched /\ loc.mat = None)

PersistKeyStatus ==
    /\ pc = "persist"
    /\ \/ /\ KeyStatusChanged
          /\ loc.fresh
          /\ StatusWritten
       \/ /\ ~KeyStatusChanged
          /\ UNCHANGED <<crVars, touched>>
    /\ pc' = "deploy"
    /\ loc' = [loc EXCEPT !.status = KeyStatus, !.mat = None]
    /\ UNCHANGED <<secretVars, cps, coderd, deploy, disturbances>>

\* The update conflicts with a newer version of the object, or it fails with or
\* without having been applied.
PersistFails ==
    /\ pc = "persist"
    /\ KeyStatusChanged
    /\ \/ /\ ~loc.fresh
          /\ UNCHANGED <<crVars, touched, disturbances>>
       \/ /\ Disturb
          /\ UNCHANGED <<crVars, touched>>
       \/ /\ Disturb
          /\ loc.fresh
          /\ StatusWritten
    /\ Done
    /\ UNCHANGED <<secretVars, cps, coderd, deploy>>

\* ServiceAccount, Role, RoleBinding and Deployment (a refused or failed write of
\* one of them ends the reconcile), then reconcileStatus, which repeats the key
\* fields and may write the remaining ones.
ReconcileWorkload ==
    /\ pc = "deploy"
    /\ Done
    /\ \/ /\ deploy' = [url |-> loc.url, secret |-> loc.spec.secret, sum |-> loc.val]
          /\ UNCHANGED <<spec, status, phase, finalizer, disturbances>>
          /\ \/ UNCHANGED <<seen, seenFresh>>
             \/ loc.fresh /\ CacheFollows
       \/ /\ Disturb
          /\ UNCHANGED <<crVars, deploy>>
    /\ UNCHANGED <<secretVars, cps, coderd, touched>>

-----------------------------------------------------------------------------
(* Deletion.                                                                 *)

\* Mutation: no fallback on the control plane's URL.
CleanUpRecordedKey ==
    /\ pc = "idle"
    /\ seen.phase = "deleting"
    /\ seen.finalizer
    /\ IF seen.status.url # None /\ cps[seen.spec.cp].access
       THEN DeleteKey(AppliedSpot(seen.status, seen.spec, seen.status.url))
       ELSE UNCHANGED <<coderd, touched>>
    /\ pc' = "unfinalize"
    /\ loc' = [NoLocal EXCEPT !.spec = seen.spec, !.status = seen.status, !.fresh = seenFresh]
    /\ UNCHANGED <<crVars, secretVars, cps, deploy, disturbances>>

\* reconcileDeletion: names and URL come from the status, falling back on the
\* spec; the token is that of the control plane the spec refers to.  A failed or
\* impossible cleanup does not keep the finalizer.
CleanUpRemoteKey ==
    /\ pc = "idle"
    /\ seen.phase = "deleting"
    /\ seen.finalizer
    /\ LET cp == cps[seen.spec.cp]
           url == OrElse(seen.status.url, cp.url)
           possible == url # None /\ cp.access /\ ServerOf[url] = HomeOf[seen.spec.cp]
       IN  \/ /\ possible
              /\ DeleteKey(AppliedSpot(seen.status, seen.spec, url))
              /\ UNCHANGED disturbances
           \/ /\ ~possible
              /\ UNCHANGED <<coderd, touched, disturbances>>
           \/ /\ possible
              /\ RemoteFault
              /\ UNCHANGED <<coderd, touched>>
    /\ pc' = "unfinalize"
    /\ loc' = [NoLocal EXCEPT !.spec = seen.spec, !.status = seen.status, !.fresh = seenFresh]
    /\ UNCHANGED <<crVars, secretVars, cps, deploy>>

RemoveFinalizer ==
    /\ pc = "unfinalize"
    /\ \/ /\ loc.fresh
          /\ finalizer' = FALSE
          /\ phase' = "gone"
          /\ UNCHANGED <<spec, status, disturbances>>
          /\ CacheFollows
       \/ /\ ~loc.fresh
          /\ UNCHANGED <<crVars, disturbances>>
       \/ /\ Disturb
          /\ UNCHANGED crVars
    /\ Done
    /\ UNCHANGED <<secretVars, cps, coderd, deploy, touched>>

-----------------------------------------------------------------------------
(* Everything around the controller.                                         *)

\* A version the reconcile in flight has read is no longer the latest.
Overtaken == loc' = [loc EXCEPT !.fresh = FALSE]

EditSpec ==
    /\ phase = "live"
    /\ Disturb
    /\ \E e \in Edits : e[1] = spec /\ spec' = e[2]
    /\ UNCHANGED <<status, phase, finalizer>>
    /\ CacheFollows
    /\ Overtaken
    /\ UNCHANGED <<secretVars, cps, coderd, deploy, pc, touched>>

\* Without the finalizer the object disappears at once.
DeleteObject ==
    /\ phase = "live"
    /\ Disturb
    /\ phase' = IF finalizer THEN "deleting" ELSE "gone"
    /\ UNCHANGED <<spec, status, finalizer>>
    /\ CacheFollows
    /\ Overtaken
    /\ UNCHANGED <<secretVars, cps, coderd, deploy, pc, touched>>

DeleteSecret(s) ==
    /\ phase = "live"
    /\ secrets[s] # None
    /\ Disturb
    /\ secrets' = [secrets EXCEPT ![s] = None]
    /\ SecretCacheFollows(s)
    /\ UNCHANGED <<crVars, cps, coderd, deploy, pc, loc, touched>>

ControlPlaneChanges(c) ==
    /\ Disturb
    /\ \E st \in CPStates[c] : st # cps[c] /\ cps' = [cps EXCEPT ![c] = st]
    /\ UNCHANGED <<crVars, secretVars, coderd, deploy, pc, loc, touched>>

SyncObject ==
    /\ ~seenFresh
    /\ seen' = CR
    /\ seenFresh' = TRUE
    /\ UNCHANGED <<spec, status, phase, finalizer, secretVars, cps, coderd, deploy,
                   pc, loc, touched, disturbances>>

SyncSecret(s) ==
    /\ ~secretFresh[s]
    /\ secretSeen' = [secretSeen EXCEPT ![s] = secrets[s]]
    /\ secretFresh' = [secretFresh EXCEPT ![s] = TRUE]
    /\ UNCHANGED <<crVars, secrets, cps, coderd, deploy, pc, loc, touched, disturbances>>

\* The operator stops in the middle of a reconcile; the one that takes over
\* starts with synchronised caches.
Crash ==
    /\ pc # "idle"
    /\ Disturb
    /\ Done
    /\ seen' = CR
    /\ seenFresh' = TRUE
    /\ secretSeen' = secrets
    /\ secretFresh' = [s \in SecretNames |-> TRUE]
    /\ UNCHANGED <<spec, status, phase, finalizer, secrets, cps, coderd, deploy, touched>>

-----------------------------------------------------------------------------
(* The specification.                                                        *)

NoKeys == [k \in Spots |-> None]
NoSecrets == [s \in SecretNames |-> None]

InitCommon ==
    /\ phase = "live"
    /\ seen = CR
    /\ seenFresh = TRUE
    /\ secretSeen = secrets
    /\ secretFresh = [s \in SecretNames |-> TRUE]
    /\ cps \in {f \in [ControlPlanes -> UNION {CPStates[c] : c \in ControlPlanes}] :
                   \A c \in ControlPlanes : f[c] \in CPStates[c]}
    /\ deploy = None
    /\ pc = "idle"
    /\ loc = NoLocal
    /\ touched = FALSE
    /\ disturbances = 0

\* A new object.
InitNew ==
    /\ spec \in InitSpecs
    /\ status = NoStatus
    /\ finalizer = FALSE
    /\ secrets = NoSecrets
    /\ coderd = NoKeys
    /\ InitCommon

\* An object reconciled by an operator version that recorded only key ID, name
\* and Secret: the key's tags are anything, its Deployment is not yet ours.
InitLegacy ==
    /\ spec \in InitSpecs
    /\ status = [NoStatus EXCEPT !.name = spec.name, !.id = 1, !.secret = spec.secret, !.ready = "true"]
    /\ finalizer = TRUE
    /\ secrets = [NoSecrets EXCEPT ![spec.secret] = 1]
    /\ \E t \in Tags :
          coderd = [NoKeys EXCEPT ![<<HomeOf[spec.cp], spec.org, spec.name>>] = [tags |-> t, mat |-> 1]]
    /\ InitCommon

Init == InitNew \/ InitLegacy

Controller ==
    \/ AddFinalizer
    \/ WaitForControlPlane
    \/ StartReconcile
    \/ DeleteOldKey
    \/ EnsureFindsKey
    \/ EnsureCreatesKey
    \/ EnsureFails
    \/ DeleteForRotation
    \/ SecretUpToDate
    \/ WriteSecret
    \/ WriteSecretFails
    \/ PersistKeyStatus
    \/ PersistFails
    \/ ReconcileWorkload
    \/ CleanUpRemoteKey
    \/ RemoveFinalizer

Sync ==
    \/ SyncObject
    \/ \E s \in SecretNames : SyncSecret(s)

Environment ==
    \/ EditSpec
    \/ DeleteObject
    \/ \E s \in SecretNames : DeleteSecret(s)
    \/ \E c \in ControlPlanes : ControlPlaneChanges(c)
    \/ Crash

Next == Controller \/ Sync \/ Environment

Spec == Init /\ [][Next]_vars

\* The workqueue retries a failed reconcile and starts one for every change of an
\* object it watches; informers deliver every change.
FairSpec == Spec /\ WF_vars(Controller) /\ WF_vars(Sync)

-----------------------------------------------------------------------------
(* Properties.                                                               *)

\* Under this condition on the edits an object's key Secret never moves.
SecretNameFixed == \A e \in Edits : e[1].secret = e[2].secret

\* Persisted key metadata is truthful.  Unless coderd has changed since a rotation
\* was last recorded, the key the status names exists in coderd with the recorded
\* tags, it is the key with the recorded ID, and the Secret is either lost or
\* holds that key's plaintext.  Reconcile writes coderd, Secret and status in
\* three separate calls, so every edit, crash, conflict and failed call between
\* them counts.  (Needs SecretNameFixed.)
Custody ==
    ~touched /\ Complete(status) =>
        /\ coderd[Spot(status.url, status.org, status.name)] =
               [tags |-> status.tags, mat |-> status.id]
        /\ secrets[status.secret] \in {None, status.id}

\* The facts that make Custody inductive.

\* Local variables are set when the step that uses them is reached.
InFlight ==
    /\ pc = "idle" => loc = NoLocal
    /\ pc # "idle" => loc.spec \in Specs
    /\ pc \notin {"idle", "unfinalize"} => loc.url \in URLs /\ loc.mode # "none"
    /\ pc \in {"persist", "deploy"} => loc.val \in Materials

\* A version that counts as the latest is the latest.
VersionsCurrent ==
    /\ seenFresh => seen = CR
    /\ loc.fresh => loc.spec = spec /\ loc.status = status

\* The object, its cached copy, the snapshot and the status name one Secret.
SecretAgreed ==
    /\ seen.spec.secret = spec.secret
    /\ pc # "idle" => loc.spec.secret = spec.secret
    /\ Complete(status) => status.secret = spec.secret /\ status.name # None

\* Plaintext held by the reconcile is that of the key in coderd, nothing else holds
\* it before the Secret is written, and afterwards the Secret holds no other.  A
\* reconcile that keeps the key has none.
MaterialHeld ==
    /\ loc.mode = "keep" =>
          /\ loc.mat = None
          /\ Complete(loc.status)
          /\ pc \in {"writeSecret", "persist", "deploy"}
    /\ pc \in {"writeSecret", "persist"} /\ loc.mode # "keep" => loc.mat # None
    /\ loc.mat # None =>
          /\ touched
          /\ loc.mat # loc.status.id
          /\ pc \in {"writeSecret", "persist"}
          /\ coderd[DesiredSpot(loc.spec, loc.url)] = [tags |-> loc.spec.tags, mat |-> loc.mat]
    /\ loc.mat # None /\ pc = "writeSecret" =>
          /\ secrets[loc.spec.secret] # loc.mat
          /\ secretSeen[loc.spec.secret] # loc.mat
    /\ loc.mat # None /\ pc = "persist" => secrets[loc.spec.secret] \in {None, loc.mat}

\* The inductive invariant behind Custody: it holds between any two calls of a
\* reconcile, not only between reconciles.
CustodyInv ==
    /\ TypeOK
    /\ InFlight
    /\ VersionsCurrent
    /\ SecretAgreed
    /\ MaterialHeld
    /\ Custody

\* What the next reconcile works on: the daemon can authenticate.
KeyUsable ==
    LET key == coderd[DesiredSpot(spec, cps[spec.cp].url)]
    IN  /\ key # None
        /\ key.tags = spec.tags
        /\ key.mat = secrets[spec.secret]

\* A broken key is never mistaken for a good one: between reconciles, if coderd,
\* the Secret and the spec disagree, then the status differs from the spec, is
\* incomplete, or the Secret is missing, so that the next reconcile rotates.
\* (For edits that never return to an earlier value, without cache lag.)
DamageIsVisible ==
    pc = "idle" /\ phase = "live" /\ GatesOpen(spec) =>
        \/ KeyUsable
        \/ Mode(spec, status, cps[spec.cp].url, secrets[spec.secret] # None) # "keep"

\* A control plane that has an URL always has the same one.
URLFixed ==
    \A c \in ControlPlanes : \A s, t \in CPStates[c] :
        s.url # None /\ t.url # None => s.url = t.url

\* Edits never return to an earlier spec: they go up in some ranking of the specs.
Onward(rank) ==
    /\ rank \in [Specs -> Nat]
    /\ \A e \in Edits : rank[e[1]] < rank[e[2]]

\* The Deployment mounts the Secret, which holds the plaintext of the key that
\* coderd stores under the desired name with the desired tags.
Converged ==
    /\ GatesOpen(spec)
    /\ KeyUsable
    /\ deploy = [url |-> cps[spec.cp].url, secret |-> spec.secret, sum |-> secrets[spec.secret]]

\* Once disturbances stop, the object converges for good or is gone, provided its
\* control plane is open.
Convergence == <>[](phase = "gone" \/ Converged \/ ~GatesOpen(spec))

\* A good key is not rotated: "retries after later reconciliation failures [...] do
\* not repeatedly re-run metadata backfill/rotation against coderd".  While the
\* spec is the one that was applied and the Secret is present, no reconcile that
\* works on this spec changes coderd.  (Without cache lag.)
KeyLeftAlone ==
    [][/\ phase = "live"
       /\ ~touched
       /\ secrets[spec.secret] # None
       /\ ~Drift(spec, status, cps[spec.cp].url) /\ Complete(status)
       /\ loc.spec \in {None, spec}
       => UNCHANGED coderd]_vars

\* "SecretName is the Kubernetes Secret to store the key": the configured Secret
\* holds, again and again, the plaintext of the key coderd stores for the object.
SecretHoldsKey ==
    []<>(\/ phase = "gone"
         \/ LET key == coderd[DesiredSpot(spec, cps[spec.cp].url)]
            IN  key # None /\ key.mat = secrets[spec.secret])

\* "TagsHash is a deterministic hash of spec.tags last applied to the provisioner
\* key": the key the status names carries, again and again, the recorded tags.
TagsHashApplied ==
    []<>(\/ phase = "gone"
         \/ ~Complete(status)
         \/ LET key == coderd[Spot(status.url, status.org, status.name)]
            IN  key # None /\ key.tags = status.tags)

\* The cleanup finalizer: when the object is gone so are its keys in coderd.
NoOrphanedKey == phase = "gone" => \A k \in Spots : coderd[k] = None

Resource == INSTANCE FinalizedResource WITH
    Things <- Spots, held <- {k \in Spots : coderd[k] # None}

\* The finalizer is kept as promised: no key is created for an object without it, and
\* it is removed only when there is no key left, although keys are created by
\* reconciles that work from older copies of the object.
FinalizerGuardsKeys == Resource!Spec

-----------------------------------------------------------------------------
(* The facts that make the finalizer's promise inductive.                    *)

\* Under these two conditions the controller can keep the promise.  Edits leave the
\* key where it is: the old key of an object that moves is deleted best effort.
KeyPlaceFixed ==
    \A e \in Edits : e[1].cp = e[2].cp /\ e[1].org = e[2].org /\ e[1].name = e[2].name

\* Calls to coderd succeed, and control planes keep their URL and the operator's
\* access; they may move to another URL of the same deployment and lose the
\* entitlement.  A cleanup that fails or is impossible is not repeated.
AlwaysReachable ==
    /\ ~RemoteFaults
    /\ \A c \in ControlPlanes : \A s \in CPStates[c] : s.url # None /\ s.access

\* Where the object's key is.
Home == <<HomeOf[spec.cp], spec.org, spec.name>>

SamePlace(s) == s.cp = spec.cp /\ s.org = spec.org /\ s.name = spec.name

AtHome(st) ==
    /\ st.url # None => ServerOf[st.url] = HomeOf[spec.cp]
    /\ st.org \in {None, spec.org}
    /\ st.name \in {None, spec.name}

\* Whatever copy of the object a step works from leads to the one place where a key
\* may be.
OnePlace ==
    /\ \A c \in ControlPlanes : cps[c] \in CPStates[c]
    /\ SamePlace(seen.spec)
    /\ pc # "idle" => SamePlace(loc.spec)
    /\ AtHome(status) /\ AtHome(seen.status) /\ AtHome(loc.status)
    /\ loc.url # None => ServerOf[loc.url] = HomeOf[spec.cp]
    /\ \A k \in Spots : coderd[k] # None => k = Home

NoKeyLeft == \A k \in Spots : coderd[k] = None

\* The cached copy may be older than the object, but it has the finalizer only if the
\* object has or had it, and is marked as deleted only if the object is.  So a
\* reconcile that creates keys runs under the finalizer, and the one that is about to
\* remove it has left no key behind.
Guarded ==
    /\ seenFresh => seen = CR
    /\ finalizer \/ NoKeyLeft
    /\ phase = "deleting" => finalizer
    /\ phase = "gone" => ~finalizer /\ ~(seen.phase = "live" /\ seen.finalizer)
    /\ seen.finalizer /\ phase # "gone" => finalizer
    /\ seen.phase # "live" => phase # "live"
    /\ pc \notin {"idle", "unfinalize"} => finalizer
    /\ pc = "unfinalize" => /\ NoKeyLeft
                            /\ seen.phase # "live"
                            /\ loc.fresh => phase = "deleting"

\* The inductive invariant behind NoOrphanedKey and FinalizerGuardsKeys.  (Needs
\* KeyPlaceFixed and AlwaysReachable.)
DeletionInv == TypeOK /\ InFlight /\ OnePlace /\ Guarded

=============================================================================
