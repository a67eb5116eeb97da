--------------------------- MODULE OperatorAccess ---------------------------
(***************************************************************************)
(* The operator's own access to coderd: the coder-k8s-operator user and its  *)
(* API token in coderd's Postgres database, the Secret that holds the token, *)
(* and the fields of a CoderControlPlane's status that announce it           *)
(* (reconcileOperatorAccess of                                              *)
(* internal/controller/codercontrolplane_controller.go and                  *)
(* internal/coderbootstrap/operator_access_postgres.go).                    *)
(*                                                                         *)
(* A reconcile runs only when the work queue holds the object: after a       *)
(* change of an object the controller watches, or when an earlier reconcile  *)
(* asked to be run again.                                                    *)
(***************************************************************************)
EXTENDS Integers, ControlPlaneStatus

CONSTANTS
    SecretNames,     \* names of operator token Secrets
    Databases,       \* Postgres databases of coderd deployments
    Orgs,            \* organizations in coderd
    InitSpec,        \* the spec the object is created with
    Edits,           \* the edits users make, as pairs of specs, and
    InitOrgs,        \* the organizations coderd may have at first, both with (TRUE)
                     \* and without (FALSE) caches that lag behind
    MaxTokens,       \* bound: tokens that may be in existence at once
    MaxDisturbances, \* bound: edits, failed calls, crashes, expiries, deletions
    None             \* an absent object or an empty field

Tokens == 1 .. MaxTokens

Opt(S) == S \cup {None}

\* db is the database that CODER_PG_CONNECTION_URL resolves to, if it does.
SpecRecords == [disabled : BOOLEAN, secret : SecretNames, db : Opt(Databases)]

ASSUME ConstantsAssumption ==
    /\ InitSpec \in SpecRecords
    /\ Edits \in [BOOLEAN -> SUBSET (SpecRecords \X SpecRecords)]
    /\ InitOrgs \in [BOOLEAN -> SUBSET SUBSET Orgs]
    /\ MaxTokens \in Nat \ {0}
    /\ MaxDisturbances \in Nat

ASSUME NoneAssumption ==
    /\ \A S \in {SecretNames, Databases, Orgs} : None \notin S
    /\ None \notin Nat

VARIABLES
    \* The CoderControlPlane in the API server and the informer cache's copy.
    spec, gen, status, seen, seenFresh,
    \* Token Secrets, cached copies and their freshness.
    secrets, secretSeen, secretFresh,
    \* Per database: the operator's api_keys row, the organizations the operator
    \* user administers, and all organizations.
    rows, members, orgs,
    \* Whether the control plane's Deployment has a ready pod.
    serving,
    \* Whether the work queue holds the object; the reconcile in flight.
    queued, pc, loc,
    disturbances,
    \* Fixed: the informer caches may lag behind.
    lag

crVars == <<spec, gen, status, seen, seenFresh>>
secretVars == <<secrets, secretSeen, secretFresh>>
dbVars == <<rows, members, orgs>>
vars == <<crVars, secretVars, dbVars, serving, queued, pc, loc, disturbances, lag>>

-----------------------------------------------------------------------------
(* Types.                                                                    *)

Statuses == [gen : Nat, ref : Opt(SecretNames), ready : BOOLEAN]

NoStatus == [gen |-> 0, ref |-> None, ready |-> FALSE]

Objects == [spec : SpecRecords, gen : Nat, status : Statuses]

Rows == [token : Tokens, live : BOOLEAN]

Steps == {"idle", "ensure", "writeSecret", "deleteSecret", "revoke", "status"}

\* token: what is read from or goes to the Secret; next: the computed status;
\* required: cleanupRequired; again: the result asks for another reconcile.
Locals == [spec : SpecRecords, base : Statuses, next : Statuses,
           token : Opt(Tokens), required : BOOLEAN, again : BOOLEAN]

NoLocal == [spec |-> InitSpec, base |-> NoStatus, next |-> NoStatus,
            token |-> None, required |-> FALSE, again |-> FALSE]

TypeOK ==
    /\ spec \in SpecRecords
    /\ gen \in Nat
    /\ status \in Statuses
    /\ seen \in Objects
    /\ seenFresh \in BOOLEAN
    /\ secrets \in [SecretNames -> Opt(Tokens)]
    /\ secretSeen \in [SecretNames -> Opt(Tokens)]
    /\ secretFresh \in [SecretNames -> BOOLEAN]
    /\ rows \in [Databases -> Opt(Rows)]
    /\ members \in [Databases -> SUBSET Orgs]
    /\ orgs \in [Databases -> SUBSET Orgs]
    /\ serving \in BOOLEAN
    /\ queued \in BOOLEAN
    /\ pc \in Steps
    /\ loc \in Locals
    /\ pc = "writeSecret" => loc.token \in Tokens
    /\ disturbances \in 0 .. MaxDisturbances
    /\ lag \in BOOLEAN

-----------------------------------------------------------------------------
(* Kubernetes objects and the work queue.                                    *)

CR == [spec |-> spec, gen |-> gen, status |-> status]

Disturb ==
    /\ disturbances < MaxDisturbances
    /\ disturbances' = disturbances + 1

\* A change of the object or of a Secret it owns enqueues the object when it
\* reaches the informer; without lag at once.
CacheFollows ==
    /\ seen' = IF lag THEN seen ELSE CR'
    /\ seenFresh' = ~lag

SecretCacheFollows(s) ==
    /\ secretSeen' = IF lag THEN secretSeen ELSE [secretSeen EXCEPT ![s] = secrets'[s]]
    /\ secretFresh' = [secretFresh EXCEPT ![s] = ~lag]

Enqueue(cond) == queued' = (queued \/ cond)

\* A reconcile that returns an error is retried.
Fail ==
    /\ pc' = "idle"
    /\ loc' = NoLocal
    /\ queued' = TRUE

\* The access fields of the status are settled; the status is written next.
Conclude(ref, ready, again) ==
    /\ pc' = "status"
    /\ loc' = [loc EXCEPT !.next = [loc.next EXCEPT !.ref = ref, !.ready = ready],
                          !.token = None, !.again = again]

-----------------------------------------------------------------------------
(* A reconcile.                                                              *)

\* Reconcile reads the object and, if access is enabled, the token Secret.
StartReconcile ==
    /\ pc = "idle"
    /\ queued
    /\ queued' = FALSE
    /\ loc' = [spec |-> seen.spec, base |-> seen.status,
               next |-> [seen.status EXCEPT !.gen = seen.gen],
               token |-> IF seen.spec.disabled THEN None ELSE secretSeen[seen.spec.secret],
               required |-> FALSE, again |-> FALSE]
    /\ pc' = IF seen.spec.disabled THEN "deleteSecret" ELSE "ensure"
    /\ UNCHANGED <<crVars, secretVars, dbVars, serving, disturbances>>

InUse(t) ==
    \/ \E d \in Databases : rows[d] # None /\ rows[d].token = t
    \/ \E s \in SecretNames : t \in {secrets[s], secretSeen[s]}
    \/ t = loc.token

\* A token nobody holds; the least one, to keep the state space small.
Fresh(t) == ~InUse(t) /\ \A k \in Tokens : k < t => InUse(k)

\* existingOperatorTokenStillValid
StillValid(d, t) == rows[d] = [token |-> t, live |-> TRUE]

\* ensureOperatorUser, ensureOperatorMemberships and ensureOperatorToken in one
\* transaction that ends with token t.
TransactionCommits(d, t) ==
    /\ IF StillValid(d, loc.token)
       THEN t = loc.token /\ UNCHANGED rows
       ELSE Fresh(t) /\ rows' = [rows EXCEPT ![d] = [token |-> t, live |-> TRUE]]
    /\ members' = [members EXCEPT ![d] = orgs[d]]
    /\ UNCHANGED orgs

\* Mutation: the token is rotated whether or not it is still valid.
EnsureTokenRotating ==
    /\ pc = "ensure"
    /\ loc.spec.db # None
    /\ \E t \in Tokens :
          /\ Fresh(t)
          /\ rows' = [rows EXCEPT ![loc.spec.db] = [token |-> t, live |-> TRUE]]
          /\ loc' = [loc EXCEPT !.token = t]
    /\ members' = [members EXCEPT ![loc.spec.db] = orgs[loc.spec.db]]
    /\ pc' = "writeSecret"
    /\ UNCHANGED <<crVars, secretVars, orgs, serving, queued, disturbances>>

EnsureToken ==
    /\ pc = "ensure"
    /\ loc.spec.db # None
    /\ \E t \in Tokens :
          /\ TransactionCommits(loc.spec.db, t)
          /\ loc' = [loc EXCEPT !.token = t]
    /\ pc' = "writeSecret"
    /\ UNCHANGED <<crVars, secretVars, serving, queued, disturbances>>

\* The Postgres URL does not resolve, or the transaction fails, or the answer to
\* the commit is lost.
EnsureTokenFails ==
    /\ pc = "ensure"
    /\ \/ /\ loc.spec.db = None
          /\ UNCHANGED <<dbVars, disturbances>>
       \/ /\ loc.spec.db # None
          /\ Disturb
          /\ UNCHANGED dbVars \/ \E t \in Tokens : TransactionCommits(loc.spec.db, t)
    /\ Conclude(None, FALSE, TRUE)
    /\ UNCHANGED <<crVars, secretVars, serving, queued>>

\* ensureOperatorTokenSecret: CreateOrUpdate against the cached Secret.
WriteAccepted(s) == IF secretSeen[s] = None THEN secrets[s] = None ELSE secretFresh[s]

\* Mutation: a successful reconcile is not repeated.
WriteTokenSecretOnce ==
    /\ pc = "writeSecret"
    /\ secretSeen[loc.spec.secret] = loc.token \/ WriteAccepted(loc.spec.secret)
    /\ secrets' = [secrets EXCEPT ![loc.spec.secret] = loc.token]
    /\ SecretCacheFollows(loc.spec.secret)
    /\ Enqueue(~lag /\ secrets' # secrets)
    /\ Conclude(loc.spec.secret, TRUE, FALSE)
    /\ UNCHANGED <<crVars, dbVars, serving, disturbances>>

\* Entitlements are queried when the control plane is up, and the query is
\* repeated two minutes later, with the whole reconcile.
WriteTokenSecret ==
    /\ pc = "writeSecret"
    /\ LET s == loc.spec.secret
       IN  \/ /\ secretSeen[s] = loc.token
              /\ UNCHANGED <<secretVars, queued>>
           \/ /\ secretSeen[s] # loc.token
              /\ WriteAccepted(s)
              /\ secrets' = [secrets EXCEPT ![s] = loc.token]
              /\ SecretCacheFollows(s)
              /\ Enqueue(~lag)
    /\ Conclude(loc.spec.secret, TRUE, serving)
    /\ UNCHANGED <<crVars, dbVars, serving, disturbances>>

\* The write is refused, or it fails with or without having been applied.
WriteTokenSecretFails ==
    /\ pc = "writeSecret"
    /\ LET s == loc.spec.secret
       IN  /\ secretSeen[s] # loc.token
           /\ \/ /\ ~WriteAccepted(s)
                 /\ UNCHANGED <<secretVars, disturbances>>
              \/ /\ Disturb
                 /\ UNCHANGED secretVars
              \/ /\ WriteAccepted(s)
                 /\ Disturb
                 /\ secrets' = [secrets EXCEPT ![s] = loc.token]
                 /\ SecretCacheFollows(s)
    /\ Fail
    /\ UNCHANGED <<crVars, dbVars, serving>>

-----------------------------------------------------------------------------
(* A reconcile of an object with access disabled: cleanupDisabledOperatorAccess *)

\* The cleanup failed: the reference stays, as a mark that it is to be retried.
KeepPending == Conclude(loc.spec.secret, FALSE, TRUE)

\* The Secret is deleted if the cache knows it; one that is gone already counts
\* as deleted.
DeleteTokenSecret ==
    /\ pc = "deleteSecret"
    /\ LET s == loc.spec.secret
           known == secretSeen[s] # None
       IN  \/ /\ IF known /\ secrets[s] # None
                 THEN /\ secrets' = [secrets EXCEPT ![s] = None]
                      /\ SecretCacheFollows(s)
                      /\ Enqueue(~lag)
                 ELSE UNCHANGED <<secretVars, queued>>
              /\ pc' = "revoke"
              /\ loc' = [loc EXCEPT !.required = known \/ loc.base.ref # None]
              /\ UNCHANGED disturbances
           \/ /\ known
              /\ Disturb
              /\ KeepPending
              /\ UNCHANGED <<secretVars, queued>>
    /\ UNCHANGED <<crVars, dbVars, serving>>

\* Mutation: a failed revocation counts as done.
RevokeTokenOnce ==
    /\ pc = "revoke"
    /\ IF loc.spec.db = None
       THEN UNCHANGED <<dbVars, disturbances>>
       ELSE \/ /\ rows' = [rows EXCEPT ![loc.spec.db] = None]
               /\ UNCHANGED <<members, orgs, disturbances>>
            \/ /\ Disturb
               /\ UNCHANGED dbVars
    /\ Conclude(None, FALSE, FALSE)
    /\ UNCHANGED <<crVars, secretVars, serving, queued>>

\* RevokeOperatorToken deletes the row by name; the user and its memberships stay.
RevokeToken ==
    /\ pc = "revoke"
    /\ \/ /\ loc.spec.db = None
          /\ IF loc.required THEN KeepPending ELSE Conclude(None, FALSE, FALSE)
          /\ UNCHANGED <<rows, disturbances>>
       \/ /\ loc.spec.db # None
          /\ rows' = [rows EXCEPT ![loc.spec.db] = None]
          /\ Conclude(None, FALSE, FALSE)
          /\ UNCHANGED disturbances
       \/ /\ loc.spec.db # None
          /\ Disturb
          /\ UNCHANGED rows \/ rows' = [rows EXCEPT ![loc.spec.db] = None]
          /\ KeepPending
    /\ UNCHANGED <<crVars, secretVars, members, orgs, serving, queued>>

-----------------------------------------------------------------------------
(* The end of a reconcile: reconcileStatus.                                  *)

WriteStatus ==
    /\ pc = "status"
    /\ status' = Publish(loc.base, loc.next, status, gen)
    /\ UNCHANGED <<spec, gen>>
    /\ IF status' # status
       THEN CacheFollows /\ Enqueue(loc.again \/ ~lag)
       ELSE UNCHANGED <<seen, seenFresh>> /\ Enqueue(loc.again)
    /\ pc' = "idle"
    /\ loc' = NoLocal
    /\ UNCHANGED <<secretVars, dbVars, serving, disturbances>>

\* The read fails, or the update does, with or without having been applied.
WriteStatusFails ==
    /\ pc = "status"
    /\ loc.base # loc.next
    /\ Disturb
    /\ \/ UNCHANGED crVars
       \/ /\ status' = Publish(loc.base, loc.next, status, gen)
          /\ status' # status
          /\ UNCHANGED <<spec, gen>>
          /\ CacheFollows
    /\ Fail
    /\ UNCHANGED <<secretVars, dbVars, serving>>

-----------------------------------------------------------------------------
(* Everything around the controller.                                         *)

EditSpec ==
    /\ Disturb
    /\ \E e \in Edits[lag] : e[1] = spec /\ spec' = e[2]
    /\ gen' = gen + 1
    /\ UNCHANGED status
    /\ CacheFollows
    /\ Enqueue(~lag)
    /\ UNCHANGED <<secretVars, dbVars, serving, pc, loc>>

DeleteSecret(s) ==
    /\ secrets[s] # None
    /\ Disturb
    /\ secrets' = [secrets EXCEPT ![s] = None]
    /\ SecretCacheFollows(s)
    /\ Enqueue(~lag)
    /\ UNCHANGED <<crVars, dbVars, serving, pc, loc>>

\* A token reaches the end of its lifetime; nothing tells the controller.
ExpireToken(d) ==
    /\ rows[d] # None
    /\ rows[d].live
    /\ Disturb
    /\ rows' = [rows EXCEPT ![d].live = FALSE]
    /\ UNCHANGED <<crVars, secretVars, members, orgs, serving, queued, pc, loc>>

\* Somebody creates an organization in coderd; nothing tells the controller.
AddOrganization(d, o) ==
    /\ o \notin orgs[d]
    /\ Disturb
    /\ orgs' = [orgs EXCEPT ![d] = @ \cup {o}]
    /\ UNCHANGED <<crVars, secretVars, rows, members, serving, queued, pc, loc>>

\* Pods become ready or stop being so; the controller watches the Deployment.
ServingChanges ==
    /\ Disturb
    /\ serving' = ~serving
    /\ queued' = TRUE
    /\ UNCHANGED <<crVars, secretVars, dbVars, pc, loc>>

SyncObject ==
    /\ ~seenFresh
    /\ seen' = CR
    /\ seenFresh' = TRUE
    /\ queued' = TRUE
    /\ UNCHANGED <<spec, gen, status, secretVars, dbVars, serving, pc, loc, disturbances>>

SyncSecret(s) ==
    /\ ~secretFresh[s]
    /\ secretSeen' = [secretSeen EXCEPT ![s] = secrets[s]]
    /\ secretFresh' = [secretFresh EXCEPT ![s] = TRUE]
    /\ queued' = TRUE
    /\ UNCHANGED <<crVars, secrets, dbVars, serving, pc, loc, disturbances>>

\* The operator stops in the middle of a reconcile; the one that takes over
\* starts with synchronised caches and enqueues every object.
Crash ==
    /\ pc # "idle"
    /\ Disturb
    /\ Fail
    /\ seen' = CR
    /\ seenFresh' = TRUE
    /\ secretSeen' = secrets
    /\ secretFresh' = [s \in SecretNames |-> TRUE]
    /\ UNCHANGED <<spec, gen, status, secrets, dbVars, serving>>

-----------------------------------------------------------------------------
(* The specification.                                                        *)

Init ==
    /\ spec = InitSpec
    /\ gen = 1
    /\ status = NoStatus
    /\ seen = CR
    /\ seenFresh = TRUE
    /\ secrets = [s \in SecretNames |-> None]
    /\ secretSeen = secrets
    /\ secretFresh = [s \in SecretNames |-> TRUE]
    /\ rows = [d \in Databases |-> None]
    /\ members = [d \in Databases |-> {}]
    /\ lag \in BOOLEAN
    /\ \E os \in InitOrgs[lag] : orgs = [d \in Databases |-> os]
    /\ serving \in BOOLEAN
    /\ queued = TRUE
    /\ pc = "idle"
    /\ loc = NoLocal
    /\ disturbances = 0

Controller ==
    \/ StartReconcile
    \/ EnsureToken
    \/ EnsureTokenFails
    \/ WriteTokenSecret
    \/ WriteTokenSecretFails
    \/ DeleteTokenSecret
    \/ RevokeToken
    \/ WriteStatus
    \/ WriteStatusFails

Sync ==
    \/ SyncObject
    \/ \E s \in SecretNames : SyncSecret(s)

Environment ==
    \/ EditSpec
    \/ \E s \in SecretNames : DeleteSecret(s)
    \/ \E d \in Databases : ExpireToken(d)
    \/ \E d \in Databases, o \in Orgs : AddOrganization(d, o)
    \/ ServingChanges
    \/ Crash

Next ==
    /\ Controller \/ Sync \/ Environment
    /\ UNCHANGED lag

Spec == Init /\ [][Next]_vars

\* The worker takes what is queued and runs it to its end; requeue delays pass;
\* informers deliver every change, and do not fall behind every reconcile forever.
CachesFresh == seenFresh /\ \A s \in SecretNames : secretFresh[s]

FairSpec ==
    /\ Spec
    /\ WF_vars(Controller /\ UNCHANGED lag)
    /\ WF_vars(Sync /\ UNCHANGED lag)
    /\ <>[][StartReconcile => CachesFresh]_vars

-----------------------------------------------------------------------------
(* Properties.                                                               *)

\* The status speaks of the current spec.
Observed == status.gen = gen

\* Access that is disabled is never announced: a status for the current spec does
\* not say ready, whichever earlier reconcile was still on its way when the spec
\* changed, and although the merge lets fields of older statuses survive.
DisabledNotReady == Observed /\ spec.disabled => ~status.ready

\* A reference that is gone means the token is gone: once the status for the
\* current, disabled spec has no reference left, coderd's database holds no
\* operator token (cleanup is retried for as long as the reference is there).
ForgottenOnlyWhenRevoked ==
    Observed /\ spec.disabled /\ status.ref = None /\ spec.db # None => rows[spec.db] = None

\* The facts that make the two inductive.

\* Generations: the status lags behind the cache, the cache behind the object, and
\* the reconcile in flight lies between status and cache.
Generations ==
    /\ status.gen <= seen.gen
    /\ seen.gen <= gen
    /\ seen.gen = gen => seen.spec = spec
    /\ pc # "idle" =>
          /\ status.gen <= loc.next.gen
          /\ loc.next.gen <= seen.gen
          /\ loc.next.gen = gen => loc.spec = spec

\* The first status written for a generation is computed from the latest one.
FirstWriter ==
    status.gen < gen =>
        /\ seen.gen = gen => seen.status = status
        /\ pc # "idle" /\ loc.next.gen = gen => loc.base = status

\* What the reconcile in flight has concluded about a disabled spec.
Conclusion ==
    /\ pc \in {"ensure", "writeSecret"} => ~loc.spec.disabled
    /\ pc \in {"deleteSecret", "revoke"} => loc.spec.disabled
    /\ pc = "status" /\ loc.spec.disabled =>
          /\ ~loc.next.ready
          /\ loc.next.ref = None /\ loc.spec.db # None => rows[loc.spec.db] = None

\* The inductive invariant behind DisabledNotReady and ForgottenOnlyWhenRevoked.
AccessInv ==
    /\ Generations
    /\ FirstWriter
    /\ Conclusion
    /\ DisabledNotReady
    /\ ForgottenOnlyWhenRevoked

\* Without lag the caches hold what the API server holds.
CachesAgree == ~lag => seen = CR /\ secretSeen = secrets

\* The worker hands the token from the Secret to the database, back to the Secret
\* and on to the status; what it carries is what each of them holds.
Handover ==
    /\ ~lag /\ pc = "ensure" => secrets[loc.spec.secret] \in {None, loc.token}
    /\ pc = "writeSecret" => loc.spec.db # None /\ rows[loc.spec.db].token = loc.token
    /\ pc = "status" /\ loc.next.ready => loc.next.ref = loc.spec.secret

\* The inductive invariant behind NoInterruption: besides the facts above, what a
\* reconcile knows of the token and announces agrees with database and Secret.
ServiceInv == TypeOK /\ AccessInv /\ CachesAgree /\ Handover

\* What the status should come to.
Settled ==
    CASE spec.disabled ->
            /\ ~status.ready
            /\ secrets[spec.secret] = None
            /\ spec.db # None => status.ref = None /\ rows[spec.db] = None
      [] ~spec.disabled /\ spec.db = None ->
            ~status.ready /\ status.ref = None
      [] OTHER ->
            /\ status.ready
            /\ status.ref = spec.secret
            /\ rows[spec.db] # None
            /\ rows[spec.db].token = secrets[spec.secret]
            /\ serving => rows[spec.db].live /\ members[spec.db] = orgs[spec.db]

\* Once disturbances stop the system settles for good: the Secret the status names
\* holds the token the database accepts, or all of it is cleaned up.  No wake-up is
\* lost: expiry and new organizations are noticed by the periodic reconcile of a
\* control plane that is up.
Settles == <>[](Observed /\ Settled)

=============================================================================
