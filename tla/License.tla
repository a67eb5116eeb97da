------------------------------ MODULE License ------------------------------
(***************************************************************************)
(* The enterprise license of a control plane: the Secret a CoderControlPlane *)
(* names, the licenses stored in coderd, and what the object's status says   *)
(* about them (reconcileLicense and reconcileEntitlements of                 *)
(* internal/controller/codercontrolplane_controller.go).                    *)
(*                                                                         *)
(* coderd may lack the licenses API, refuse the operator's token, and lose   *)
(* licenses.  The controller runs when the work queue holds the object.      *)
(***************************************************************************)
EXTENDS Integers, ControlPlaneStatus

CONSTANTS
    SecretNames,     \* Secrets that may be named by spec.licenseSecretRef
    Licenses,        \* license texts; a text stands for its hash too
    MaxDisturbances, \* bound: edits, failed calls, crashes, losses
    CacheLag,        \* whether the informer caches may lag behind
    None             \* an absent object or an empty field

Opt(S) == S \cup {None}

\* Whether the control plane can be talked to: its pods are not ready, operator
\* access is not, the token Secret cannot be read, or all is well.
Gates == {"notReady", "noAccess", "noToken", "open"}

\* How coderd answers on the licenses API: normally, 404, or 401 and 403.
Answers == {"ok", "absent", "refused"}

\* The reason and message of the LicenseApplied condition; it is True for
\* AppliedReasons, Unknown for "unconfigured" and False otherwise.
AppliedReasons == {"uploaded", "duplicate", "present"}
Reasons ==
    AppliedReasons \cup Gates \cup
    {"unset", "unconfigured", "secretMissing", "unsupported",
     "queryRefused", "queryFailed", "uploadRefused", "uploadFailed"}

Tiers == {"unknown", "none", "licensed"}

ASSUME ConstantsAssumption ==
    /\ MaxDisturbances \in Nat
    /\ CacheLag \in BOOLEAN
    /\ None \notin SecretNames \cup Licenses

VARIABLES
    \* The CoderControlPlane (ref is spec.licenseSecretRef) and its cached copy.
    ref, gen, status, seen, seenFresh,
    \* License Secrets and cached copies.
    secrets, secretSeen,
    gate, api,
    \* Licenses stored in coderd; whether it has ever lost one.
    licenses, lost,
    queued, pc, loc,
    disturbances

crVars == <<ref, gen, status, seen, seenFresh>>
secretVars == <<secrets, secretSeen>>
coderdVars == <<api, licenses, lost>>
vars == <<crVars, secretVars, gate, coderdVars, queued, pc, loc, disturbances>>

-----------------------------------------------------------------------------
(* Types.                                                                    *)

Conditions == [reason : Reasons, gen : Nat]

Statuses == [gen : Nat, hash : Opt(Licenses), cond : Conditions, tier : Tiers]

NoStatus == [gen |-> 0, hash |-> None, cond |-> [reason |-> "unset", gen |-> 0],
             tier |-> "unknown"]

Objects == [ref : Opt(SecretNames), gen : Nat, status : Statuses]

Steps == {"idle", "query", "upload", "entitlements", "status"}

Locals == [base : Statuses, next : Statuses, jwt : Opt(Licenses), gate : Gates]

NoLocal == [base |-> NoStatus, next |-> NoStatus, jwt |-> None, gate |-> "notReady"]

TypeOK ==
    /\ ref \in Opt(SecretNames)
    /\ gen \in Nat
    /\ status \in Statuses
    /\ seen \in Objects
    /\ seenFresh \in BOOLEAN
    /\ secrets \in [SecretNames -> Opt(Licenses)]
    /\ secretSeen \in [SecretNames -> Opt(Licenses)]
    /\ gate \in Gates
    /\ api \in Answers
    /\ licenses \subseteq Licenses
    /\ lost \in BOOLEAN
    /\ queued \in BOOLEAN
    /\ pc \in Steps
    /\ loc \in Locals
    /\ pc \in {"query", "upload"} => loc.jwt \in Licenses
    /\ disturbances \in 0 .. MaxDisturbances

-----------------------------------------------------------------------------
(* Kubernetes objects and the work queue.                                    *)

CR == [ref |-> ref, gen |-> gen, status |-> status]

Disturb ==
    /\ disturbances < MaxDisturbances
    /\ disturbances' = disturbances + 1

CacheFollows ==
    /\ seen' = IF CacheLag THEN seen ELSE CR'
    /\ seenFresh' = ~CacheLag

Enqueue(cond) == queued' = (queued \/ cond)

\* reconcileRequestsForLicenseSecret: a change of a Secret concerns the objects
\* that name it.
SecretEvent(s) == seen.ref = s

-----------------------------------------------------------------------------
(* A reconcile.                                                              *)

WithReason(st, reason) == [st EXCEPT !.cond = [reason |-> reason, gen |-> st.gen]]

\* reconcileLicense has come to its conclusion; reconcileEntitlements follows.
Concluded(l, reason) == [l EXCEPT !.next = WithReason(l.next, reason), !.jwt = None]

Conclude(reason) ==
    /\ pc' = "entitlements"
    /\ loc' = Concluded(loc, reason)

\* Why reconcileLicense ends without a call to coderd, if it does.
StopReason(jwt) ==
    CASE seen.ref = None -> "unconfigured"
      [] seen.ref # None /\ gate # "open" -> gate
      [] seen.ref # None /\ gate = "open" /\ jwt = None -> "secretMissing"
      [] OTHER -> "go"

\* Up to the first call to coderd: everything is read from caches.  A license
\* whose hash is that of the one applied last is only checked.
StartReconcile ==
    /\ pc = "idle"
    /\ queued
    /\ queued' = FALSE
    /\ LET jwt  == IF seen.ref = None THEN None ELSE secretSeen[seen.ref]
           stop == StopReason(jwt)
           l    == [base |-> seen.status, next |-> [seen.status EXCEPT !.gen = seen.gen],
                    jwt |-> jwt, gate |-> gate]
       IN  IF stop = "go"
           THEN loc' = l /\ pc' = IF seen.status.hash = jwt THEN "query" ELSE "upload"
           ELSE loc' = Concluded(l, stop) /\ pc' = "entitlements"
    /\ UNCHANGED <<crVars, secretVars, gate, coderdVars, disturbances>>

\* Mutation: coderd is not asked whether it still has a license.
QueryLicensesTrusting ==
    /\ pc = "query"
    /\ Conclude("present")
    /\ UNCHANGED <<crVars, secretVars, gate, coderdVars, queued, disturbances>>

\* HasAnyLicense: any license counts, not only the configured one.
QueryLicenses ==
    /\ pc = "query"
    /\ CASE api = "absent"  -> Conclude("unsupported")
         [] api = "refused" -> Conclude("queryRefused")
         [] api = "ok" /\ licenses # {} -> Conclude("present")
         [] OTHER -> pc' = "upload" /\ UNCHANGED loc
    /\ UNCHANGED <<crVars, secretVars, gate, coderdVars, queued, disturbances>>

QueryFails ==
    /\ pc = "query"
    /\ Disturb
    /\ Conclude("queryFailed")
    /\ UNCHANGED <<crVars, secretVars, gate, coderdVars, queued>>

\* The hash and the time of the upload are recorded with the condition.
Recorded(reason) ==
    /\ pc' = "entitlements"
    /\ loc' = Concluded([loc EXCEPT !.next.hash = loc.jwt], reason)

\* AddLicense; a license that coderd has already counts as uploaded.
UploadLicense ==
    /\ pc = "upload"
    /\ CASE api = "absent"  -> Conclude("unsupported") /\ UNCHANGED licenses
         [] api = "refused" -> Conclude("uploadRefused") /\ UNCHANGED licenses
         [] api = "ok" /\ loc.jwt \in licenses -> Recorded("duplicate") /\ UNCHANGED licenses
         [] OTHER -> Recorded("uploaded") /\ licenses' = licenses \cup {loc.jwt}
    /\ UNCHANGED <<crVars, secretVars, gate, api, lost, queued, disturbances>>

\* Mutation: a failed upload is recorded like a successful one.
UploadFailsUnnoticed ==
    /\ pc = "upload"
    /\ Disturb
    /\ Recorded("uploaded")
    /\ UNCHANGED <<crVars, secretVars, gate, coderdVars, queued>>

\* The upload fails, with or without having been applied.
UploadFails ==
    /\ pc = "upload"
    /\ Disturb
    /\ \/ UNCHANGED licenses
       \/ api = "ok" /\ licenses' = licenses \cup {loc.jwt}
    /\ Conclude("uploadFailed")
    /\ UNCHANGED <<crVars, secretVars, gate, api, lost, queued>>

\* reconcileEntitlements: skipped unless the control plane can be talked to; a
\* query that fails or is refused leaves the tier as it was.
TierOf(ls) == IF ls = {} THEN "none" ELSE "licensed"

ReadEntitlements ==
    /\ pc = "entitlements"
    /\ IF loc.gate = "open" /\ api = "ok"
       THEN \/ /\ loc' = [loc EXCEPT !.next.tier = TierOf(licenses)]
               /\ UNCHANGED disturbances
            \/ /\ Disturb
               /\ UNCHANGED loc
       ELSE UNCHANGED <<loc, disturbances>>
    /\ pc' = "status"
    /\ UNCHANGED <<crVars, secretVars, gate, coderdVars, queued>>

-----------------------------------------------------------------------------
(* The end of a reconcile: reconcileStatus.                                  *)

\* Once entitlements can be asked for, the reconcile is repeated for ever.
Again == loc.gate \in {"open", "noToken"}

Finish(again) ==
    /\ pc' = "idle"
    /\ loc' = NoLocal
    /\ queued' = (queued \/ again)

StatusWritten ==
    /\ status' = Publish(loc.base, loc.next, status, gen)
    /\ UNCHANGED <<ref, gen>>
    /\ IF status' # status THEN CacheFollows ELSE UNCHANGED <<seen, seenFresh>>

WriteStatus ==
    /\ pc = "status"
    /\ StatusWritten
    /\ Finish(Again \/ (status' # status /\ ~CacheLag))
    /\ UNCHANGED <<secretVars, gate, coderdVars, disturbances>>

WriteStatusFails ==
    /\ pc = "status"
    /\ loc.base # loc.next
    /\ Disturb
    /\ StatusWritten \/ UNCHANGED crVars
    /\ Finish(TRUE)
    /\ UNCHANGED <<secretVars, gate, coderdVars>>

-----------------------------------------------------------------------------
(* Everything around the controller.                                         *)

EditSpec ==
    /\ Disturb
    /\ ref' \in Opt(SecretNames) \ {ref}
    /\ gen' = gen + 1
    /\ UNCHANGED status
    /\ CacheFollows
    /\ Enqueue(~CacheLag)
    /\ UNCHANGED <<secretVars, gate, coderdVars, pc, loc>>

\* A license is put into a Secret or replaced there, or the Secret is deleted.
EditSecret(s) ==
    /\ Disturb
    /\ \E l \in Opt(Licenses) \ {secrets[s]} : secrets' = [secrets EXCEPT ![s] = l]
    /\ secretSeen' = IF CacheLag THEN secretSeen ELSE secrets'
    /\ Enqueue(~CacheLag /\ SecretEvent(s))
    /\ UNCHANGED <<crVars, gate, coderdVars, pc, loc>>

\* Pods come and go, operator access with them; the controller watches the
\* Deployment and the token Secret.
GateChanges ==
    /\ Disturb
    /\ gate' \in Gates \ {gate}
    /\ queued' = TRUE
    /\ UNCHANGED <<crVars, secretVars, coderdVars, pc, loc>>

\* coderd is replaced by a build with or without the licenses API, or the
\* operator user's role changes.
ApiChanges ==
    /\ Disturb
    /\ api' \in Answers \ {api}
    /\ UNCHANGED <<crVars, secretVars, gate, licenses, lost, queued, pc, loc>>

\* coderd loses its database, or an administrator deletes the licenses.
LoseLicenses ==
    /\ licenses # {}
    /\ Disturb
    /\ licenses' = {}
    /\ lost' = TRUE
    /\ UNCHANGED <<crVars, secretVars, gate, api, queued, pc, loc>>

SyncObject ==
    /\ ~seenFresh
    /\ seen' = CR
    /\ seenFresh' = TRUE
    /\ queued' = TRUE
    /\ UNCHANGED <<ref, gen, status, secretVars, gate, coderdVars, pc, loc, disturbances>>

SyncSecret(s) ==
    /\ secretSeen[s] # secrets[s]
    /\ secretSeen' = [secretSeen EXCEPT ![s] = secrets[s]]
    /\ Enqueue(SecretEvent(s))
    /\ UNCHANGED <<crVars, secrets, gate, coderdVars, pc, loc, disturbances>>

Crash ==
    /\ pc # "idle"
    /\ Disturb
    /\ Finish(TRUE)
    /\ seen' = CR
    /\ seenFresh' = TRUE
    /\ secretSeen' = secrets
    /\ UNCHANGED <<ref, gen, status, secrets, gate, coderdVars>>

-----------------------------------------------------------------------------
(* The specification.                                                        *)

Init ==
    /\ ref \in Opt(SecretNames)
    /\ gen = 1
    /\ status = NoStatus
    /\ seen = CR
    /\ seenFresh = TRUE
    /\ \E l \in Licenses : secrets = [s \in SecretNames |-> l]
    /\ secretSeen = secrets
    /\ gate = "open"
    /\ api = "ok"
    /\ licenses = {}
    /\ lost = FALSE
    /\ queued = TRUE
    /\ pc = "idle"
    /\ loc = NoLocal
    /\ disturbances = 0

Controller ==
    \/ StartReconcile
    \/ QueryLicenses
    \/ QueryFails
    \/ UploadLicense
    \/ UploadFails
    \/ ReadEntitlements
    \/ WriteStatus
    \/ WriteStatusFails

Sync ==
    \/ SyncObject
    \/ \E s \in SecretNames : SyncSecret(s)

Environment ==
    \/ EditSpec
    \/ \E s \in SecretNames : EditSecret(s)
    \/ GateChanges
    \/ ApiChanges
    \/ LoseLicenses
    \/ Crash

Next == Controller \/ Sync \/ Environment

Spec == Init /\ [][Next]_vars

CachesFresh == seenFresh /\ secretSeen = secrets

\* As for operator access: the queue is worked off, requeue delays pass, informers
\* deliver every change and do not fall behind every reconcile forever.
FairSpec ==
    /\ Spec
    /\ WF_vars(Controller)
    /\ WF_vars(Sync)
    /\ <>[][StartReconcile => CachesFresh]_vars

-----------------------------------------------------------------------------
(* Properties.                                                               *)

Configured == ref # None /\ secrets[ref] # None

\* A license that is announced is there: when the condition says applied, coderd
\* was given the license whose hash the status records, and keeps it unless it
\* loses it, although condition and hash are merged one by one into a status that
\* another reconcile may have written.
AppliedMeansUploaded ==
    status.cond.reason \in AppliedReasons /\ ~lost => status.hash \in licenses

\* The status is of one piece: one that says it has observed the current spec has a
\* condition that fits this spec, although the reconcile that wrote it may have
\* compared with a stale status and merged only what it took to be different.
ConditionFitsSpec ==
    status.gen = gen => (status.cond.reason = "unconfigured" <=> ref = None)

\* A status that only says what is so: the license it records is in coderd.
Honest(st) ==
    /\ st.cond.gen = st.gen
    /\ st.cond.reason \in AppliedReasons => st.hash # None
    /\ ~lost => st.hash \in Opt(licenses)

\* A status that the object may have had before this one.
Older(st, new) ==
    /\ st.gen <= new.gen
    /\ st.hash # None => new.hash # None

Fits(cond) == cond.reason = "unconfigured" <=> ref = None

\* The inductive invariant behind AppliedMeansUploaded and ConditionFitsSpec: the
\* statuses that a reconcile reads, compares with and computes were true of one
\* generation each, so that merging the difference into a later one yields no mixture.
LicenseInv ==
    /\ Honest(status) /\ status.gen <= gen
    /\ status.gen = gen => Fits(status.cond)
    /\ Honest(seen.status) /\ Older(seen.status, status)
    /\ seen.gen <= gen
    /\ seen.gen = gen => seen.ref = ref
    /\ pc # "idle" =>
          /\ Honest(loc.base) /\ Older(loc.base, status)
          /\ loc.next.gen <= gen
          /\ loc.base.hash # None => loc.next.hash # None
          /\ ~lost => loc.next.hash \in Opt(licenses)
    /\ pc = "query" => loc.next.hash = loc.jwt
    /\ pc \in {"query", "upload"} /\ loc.next.gen = gen => ref # None
    /\ pc \in {"entitlements", "status"} =>
          Honest(loc.next) /\ (loc.next.gen = gen => Fits(loc.next.cond))

\* Once disturbances stop and coderd can be talked to, it has a license, the
\* configured one unless licenses have been lost, the status says so and the tier
\* follows; an object without a license says so too.
LicenseSettles ==
    <>[](gate = "open" /\ api = "ok" =>
            /\ status.gen = gen
            /\ status.tier = TierOf(licenses)
            /\ Configured =>
                  /\ licenses # {}
                  /\ ~lost => secrets[ref] \in licenses
                  /\ status.cond.reason \in AppliedReasons
                  /\ status.hash = secrets[ref]
            /\ ref = None => status.cond.reason = "unconfigured")

=============================================================================
