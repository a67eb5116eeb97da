--------------------------- MODULE WorkspaceProxy ---------------------------
(***************************************************************************)
(* The controller of a CoderWorkspaceProxy                                   *)
(* (internal/controller/coderworkspaceproxy_controller.go) and its           *)
(* registration in coderd (EnsureWorkspaceProxy of                           *)
(* internal/coderbootstrap/client.go).                                      *)
(*                                                                         *)
(* coderd tells the token of a proxy only when it makes one, and makes a new *)
(* one, which ends the old, each time the controller registers.  The         *)
(* controller registers whenever its cache does not show the token Secret.   *)
(***************************************************************************)
EXTENDS Integers

CONSTANTS
    Registrations,   \* coderd URL and proxy name
    SecretNames,
    Specs,           \* specs the object may have
    InitSpec,        \* the first
    Edits,           \* pairs of specs: an edit may lead from the one to the other
    SecretRank,      \* the order in which edits name the generated Secrets, if there is one
    MaxTokens,       \* bound: tokens made
    MaxDisturbances, \* bound, by lag: edits, faults, crashes, interferences
    Lags,            \* whether informer caches lag behind, or both ways
    None

\* boot: spec.bootstrap is set; secret: generatedTokenSecretName; ref: the Secret of
\* a proxy that the user has registered.
SpecRecords == [boot : BOOLEAN, reg : Registrations, secret : SecretNames, ref : SecretNames \cup {None}]

Statuses == [gen : Nat, registered : BOOLEAN, ref : SecretNames \cup {None}]

Deployments == [reg : Registrations, ref : SecretNames]

ASSUME ConstantsAssumption ==
    /\ \A s \in Specs : s \in SpecRecords
    /\ InitSpec \in Specs
    /\ Edits \subseteq Specs \X Specs
    /\ MaxTokens \in Nat
    /\ MaxDisturbances \in [BOOLEAN -> Nat]
    /\ Lags \subseteq BOOLEAN

VARIABLES
    spec, gen, status,       \* the object
    seen, seenFresh,         \* the controller's cached copy of it
    secrets,                 \* the token in each Secret, None without Secret
    secretSeen, secretStale, \* the cache, and the Secrets with events still to come
    credentials,             \* the Secret with coderd credentials is there
    live, minted,            \* coderd: the token accepted for each registration; tokens made
    deploy,                  \* what the Deployment runs with
    queued, pc, loc,         \* the work queue and the reconcile in progress
    disturbances,
    lag                      \* fixed: the caches lag behind

crVars == <<spec, gen, status, seen, seenFresh>>
secretVars == <<secrets, secretSeen, secretStale>>
coderdVars == <<live, minted>>
vars == <<crVars, secretVars, credentials, coderdVars, deploy, queued, pc, loc, disturbances, lag>>

Steps == {"idle", "register", "secret", "workload", "status"}

\* current: the object has not changed since the reconcile read it.
NoLocal == [cr |-> None, current |-> FALSE, ref |-> None, registered |-> FALSE, token |-> 0]

CRs == [spec : SpecRecords, gen : Nat, status : Statuses]

Locals == [cr : CRs \cup {None}, current : BOOLEAN, ref : SecretNames \cup {None},
           registered : BOOLEAN, token : 0 .. MaxTokens]

TypeOK ==
    /\ spec \in SpecRecords
    /\ gen \in Nat
    /\ status \in Statuses
    /\ seen \in CRs
    /\ seenFresh \in BOOLEAN
    /\ secrets \in [SecretNames -> (1 .. MaxTokens) \cup {None}]
    /\ secretSeen \in [SecretNames -> (1 .. MaxTokens) \cup {None}]
    /\ secretStale \subseteq SecretNames
    /\ credentials \in BOOLEAN
    /\ live \in [Registrations -> 0 .. MaxTokens]
    /\ minted \in 0 .. MaxTokens
    /\ deploy \in Deployments \cup {None}
    /\ queued \in BOOLEAN
    /\ pc \in Steps
    /\ loc \in Locals
    /\ pc # "idle" => loc.cr \in CRs /\ loc.ref \in SecretNames
    /\ pc = "secret" => loc.token \in 1 .. MaxTokens
    /\ disturbances \in 0 .. MaxDisturbances[lag]
    /\ lag \in Lags

-----------------------------------------------------------------------------
(* Kubernetes objects and the work queue.                                    *)

CR == [spec |-> spec, gen |-> gen, status |-> status]

Disturb ==
    /\ disturbances < MaxDisturbances[lag]
    /\ disturbances' = disturbances + 1

CacheFollows ==
    /\ seen' = IF lag THEN seen ELSE CR'
    /\ seenFresh' = ~lag

PutSecret(s, token) ==
    /\ secrets' = [secrets EXCEPT ![s] = token]
    /\ secretSeen' = IF lag THEN secretSeen ELSE secrets'
    /\ secretStale' = IF lag THEN secretStale \cup {s} ELSE {}

Enqueue(cond) == queued' = (queued \/ cond)

\* A reconcile ends; one that returns an error is retried.
End(again) ==
    /\ pc' = "idle"
    /\ loc' = NoLocal
    /\ Enqueue(again)

-----------------------------------------------------------------------------
(* A reconcile.                                                              *)

\* Neither a registration is asked for nor is a token given (nor, which has the same
\* effect and is not told apart, an access URL).
Refused(s) == ~s.boot /\ s.ref = None

\* Mutation: the proxy is registered whether or not there is a token.
NeedsTokenAlways(s) == s.boot

\* resolveProxyCredentials: the generated Secret does not have a token yet.  The code
\* takes every error of this read for an absent Secret; the read is from the informer
\* cache, where there is no other one.
NeedsToken(s) == s.boot /\ secretSeen[s.secret] = None

StartReconcile ==
    /\ pc = "idle"
    /\ queued
    /\ LET s == seen.spec
           l == [NoLocal EXCEPT !.cr = seen, !.current = seenFresh, !.registered = s.boot,
                                !.ref = IF s.boot THEN s.secret ELSE s.ref]
       IN  IF Refused(s) \/ (NeedsToken(s) /\ ~credentials)
           THEN UNCHANGED <<queued, pc, loc>>
           ELSE /\ queued' = FALSE
                /\ pc' = IF NeedsToken(s) THEN "register" ELSE "workload"
                /\ loc' = l
    /\ UNCHANGED <<crVars, secretVars, credentials, coderdVars, deploy, disturbances>>

\* coderd makes the token of a new proxy, or a new token of a known one.
Mint ==
    /\ minted < MaxTokens
    /\ minted' = minted + 1
    /\ live' = [live EXCEPT ![loc.cr.spec.reg] = minted + 1]

EnsureWorkspaceProxy ==
    /\ pc = "register"
    /\ Mint
    /\ loc' = [loc EXCEPT !.token = minted + 1]
    /\ pc' = "secret"
    /\ UNCHANGED <<crVars, secretVars, credentials, deploy, queued, disturbances>>

\* The call fails, or its answer is lost.
EnsureWorkspaceProxyFails ==
    /\ pc = "register"
    /\ Disturb
    /\ Mint \/ UNCHANGED coderdVars
    /\ End(TRUE)
    /\ UNCHANGED <<crVars, secretVars, credentials, deploy>>

\* CreateOrUpdate works from the cache: a Secret it does not show is created, which
\* fails if there is one, and one it shows is updated, which fails if it has changed.
WriteRefused(s) == IF secretSeen[s] = None THEN secrets[s] # None ELSE s \in secretStale

EnsureTokenSecret ==
    /\ pc = "secret"
    /\ IF WriteRefused(loc.ref)
       THEN End(TRUE) /\ UNCHANGED secretVars
       ELSE /\ PutSecret(loc.ref, loc.token)
            /\ pc' = "workload"
            /\ Enqueue(~lag)
            /\ UNCHANGED loc
    /\ UNCHANGED <<crVars, credentials, coderdVars, deploy, disturbances>>

\* Mutation: a failed write of the Secret is not reported.
EnsureTokenSecretFailsUnnoticed ==
    /\ pc = "secret"
    /\ Disturb
    /\ pc' = "workload"
    /\ UNCHANGED <<crVars, secretVars, credentials, coderdVars, deploy, queued, loc>>

EnsureTokenSecretFails ==
    /\ pc = "secret"
    /\ Disturb
    /\ End(TRUE)
    /\ UNCHANGED <<crVars, secretVars, credentials, coderdVars, deploy>>

\* Deployment and Service.  The pods read the Secret when they start.
ReconcileWorkload ==
    /\ pc = "workload"
    /\ deploy' = [reg |-> loc.cr.spec.reg, ref |-> loc.ref]
    /\ pc' = "status"
    /\ UNCHANGED <<crVars, secretVars, credentials, coderdVars, queued, loc, disturbances>>

WriteFails ==
    /\ pc \in {"workload", "status"}
    /\ Disturb
    /\ End(TRUE)
    /\ UNCHANGED <<crVars, secretVars, credentials, coderdVars, deploy>>

\* reconcileStatus: Update with the resourceVersion that the reconcile read.
WriteStatus ==
    /\ pc = "status"
    /\ LET next == [gen |-> loc.cr.gen, registered |-> loc.registered, ref |-> loc.ref]
       IN  IF next = loc.cr.status \/ ~loc.current
           THEN /\ End(next # loc.cr.status)
                /\ UNCHANGED crVars
           ELSE /\ status' = next
                /\ UNCHANGED <<spec, gen>>
                /\ CacheFollows
                /\ End(~lag)
    /\ UNCHANGED <<secretVars, credentials, coderdVars, deploy, disturbances>>

-----------------------------------------------------------------------------
(* Everything around the controller.                                         *)

EditSpec ==
    /\ Disturb
    /\ \E e \in Edits : e[1] = spec /\ spec' = e[2]
    /\ gen' = gen + 1
    /\ UNCHANGED status
    /\ CacheFollows
    /\ Enqueue(~lag)
    /\ loc' = [loc EXCEPT !.current = FALSE]
    /\ UNCHANGED <<secretVars, credentials, coderdVars, deploy, pc>>

DeleteSecret(s) ==
    /\ secrets[s] # None
    /\ Disturb
    /\ PutSecret(s, None)
    /\ Enqueue(~lag)
    /\ UNCHANGED <<crVars, credentials, coderdVars, deploy, pc, loc>>

\* Nobody watches this Secret.
CredentialsChange ==
    /\ Disturb
    /\ credentials' = ~credentials
    /\ UNCHANGED <<crVars, secretVars, coderdVars, deploy, queued, pc, loc>>

SyncCR ==
    /\ ~seenFresh
    /\ seen' = CR
    /\ seenFresh' = TRUE
    /\ queued' = TRUE
    /\ UNCHANGED <<spec, gen, status, secretVars, credentials, coderdVars, deploy, pc, loc, disturbances>>

SyncSecrets ==
    /\ secretStale # {}
    /\ secretSeen' = secrets
    /\ secretStale' = {}
    /\ queued' = TRUE
    /\ UNCHANGED <<crVars, secrets, credentials, coderdVars, deploy, pc, loc, disturbances>>

Crash ==
    /\ Disturb
    /\ pc' = "idle"
    /\ loc' = NoLocal
    /\ seen' = CR
    /\ seenFresh' = TRUE
    /\ secretSeen' = secrets
    /\ secretStale' = {}
    /\ queued' = TRUE
    /\ UNCHANGED <<spec, gen, status, secrets, credentials, coderdVars, deploy>>

-----------------------------------------------------------------------------
(* The specification.                                                        *)

Init ==
    /\ spec = InitSpec
    /\ gen = 1
    /\ status = [gen |-> 0, registered |-> FALSE, ref |-> None]
    /\ seen = CR
    /\ seenFresh = TRUE
    /\ secrets = [s \in SecretNames |-> None]
    /\ secretSeen = secrets
    /\ secretStale = {}
    /\ credentials \in BOOLEAN
    /\ live = [r \in Registrations |-> 0]
    /\ minted = 0
    /\ deploy = None
    /\ queued = TRUE
    /\ pc = "idle"
    /\ loc = NoLocal
    /\ disturbances = 0
    /\ lag \in Lags

Controller ==
    \/ StartReconcile
    \/ EnsureWorkspaceProxy
    \/ EnsureWorkspaceProxyFails
    \/ EnsureTokenSecret
    \/ EnsureTokenSecretFails
    \/ ReconcileWorkload
    \/ WriteStatus
    \/ WriteFails

Sync == SyncCR \/ SyncSecrets

Environment ==
    \/ EditSpec
    \/ \E s \in SecretNames : DeleteSecret(s)
    \/ CredentialsChange
    \/ Crash

Next ==
    /\ Controller \/ Sync \/ Environment
    /\ UNCHANGED lag

Spec == Init /\ [][Next]_vars

\* The queue is worked off, failed reconciles are retried, informers deliver every
\* change and do not fall behind every reconcile forever.
FairSpec ==
    /\ Spec
    /\ WF_vars(Controller /\ UNCHANGED lag)
    /\ WF_vars(Sync /\ UNCHANGED lag)
    /\ <>[][StartReconcile => seenFresh /\ secretStale = {}]_vars

-----------------------------------------------------------------------------
(* Properties.                                                               *)

\* coderd accepts the token that the Secret holds, be it for an earlier proxyName: after
\* a change of the name the code keeps the token of the proxy that it registered first.
Accepted(s) == \E r \in Registrations : secrets[s] = live[r]

\* The token in the Secret is the one that coderd accepts, whatever fails between
\* making a token and storing it: no token is made while one is in the Secret.  It
\* takes a cache that shows the Secret; without, see GeneratedTokenStored.
TokenStored == ~lag /\ spec.boot /\ secrets[spec.secret] # None => Accepted(spec.secret)

\* Once disturbances stop, the Deployment and the status are for the current spec,
\* and a proxy that the controller registers has a token Secret, provided that the
\* credentials are there (and the bound on tokens did not end the run).
ProxySettles ==
    <>[](\/ pc = "register" /\ minted = MaxTokens
         \/ Refused(spec)
         \/ spec.boot /\ ~credentials /\ secrets[spec.secret] = None
         \/ LET ref == IF spec.boot THEN spec.secret ELSE spec.ref
            IN  /\ deploy = [reg |-> spec.reg, ref |-> ref]
                /\ status = [gen |-> gen, registered |-> spec.boot, ref |-> ref]
                /\ spec.boot => secrets[ref] # None)

\* "GeneratedTokenSecretName stores the generated proxy token": in the end the Secret
\* of a registered proxy holds the token that coderd accepts.
GeneratedTokenStored ==
    <>[](spec.boot /\ secrets[spec.secret] # None => Accepted(spec.secret))

-----------------------------------------------------------------------------
(* The facts that make TokenStored inductive.                                *)

\* Edits lead to generated Secrets of ever higher rank: none that was given up for
\* another one is named again.
Forward(rank) ==
    \A e \in Edits : e[1].secret # e[2].secret => rank[e[1].secret] < rank[e[2].secret]

\* Secrets that were never named have no token, and neither has the one that a
\* reconcile is about to make a token for.  The caches show all of it.
TokenInv(rank) ==
    ~lag =>
        /\ seen = CR /\ secretSeen = secrets
        /\ secrets[spec.secret] # None => Accepted(spec.secret)
        /\ pc = "idle" => \A s \in SecretNames : rank[spec.secret] < rank[s] => secrets[s] = None
        /\ pc # "idle" =>
              /\ loc.cr.spec.secret # spec.secret => rank[loc.cr.spec.secret] < rank[spec.secret]
              /\ \A s \in SecretNames : rank[loc.cr.spec.secret] < rank[s] => secrets[s] = None
        /\ pc \in {"register", "secret"} => loc.ref = loc.cr.spec.secret /\ secrets[loc.ref] = None
        /\ pc = "secret" => live[loc.cr.spec.reg] = loc.token

\* No token is made while one is stored, in any step of a reconcile and for whatever
\* Secret the spec has named since it began.
TokenMadeOnce == TypeOK /\ TokenInv(SecretRank)

=============================================================================
