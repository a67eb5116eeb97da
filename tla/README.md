# Verification of coder-k8s

TLA+ models of the coder-k8s operator and of its aggregated API server, with the TLC
configurations that check them, and TLAPS proofs of their central invariants, of action
properties and of a refinement, for all values of the constants.

`PROJECT.json` lists components, runs, mutants, the map from definitions to source
lines, findings, hazards and theorems. Source paths below are relative to `src/`.

## 1. The system

coder-k8s runs Coder (`coderd`) on Kubernetes. One binary holds an operator with three
controllers, an aggregated API server that shows coderd's templates and workspaces as
Kubernetes objects, and an MCP server.

| Part | Source | State | Operations that change it | Modelled by |
| --- | --- | --- | --- | --- |
| CoderProvisioner controller | `internal/controller/coderprovisioner_controller.go` | the object (spec, status, finalizer), key Secret, Deployment | `Reconcile`, `reconcileDeletion` | `ProvisionerKey` |
| provisioner keys in coderd | `internal/coderbootstrap/provisionerkeys.go` | keys by organization and name | `EnsureProvisionerKey`, `DeleteProvisionerKey` | `ProvisionerKey` |
| operator access | `codercontrolplane_controller.go`, `internal/coderbootstrap/operator_access_postgres.go` | user, memberships and token in Postgres, token Secret, status fields | `reconcileOperatorAccess`, `cleanupDisabledOperatorAccess`, `EnsureOperatorToken`, `RevokeOperatorToken` | `OperatorAccess` |
| control plane status | `codercontrolplane_controller.go` | status | `reconcileStatus`, `mergeControlPlaneStatusDelta` | `ControlPlaneStatus` |
| license and entitlements | `codercontrolplane_controller.go` | license Secret, licenses in coderd, condition, hash, tier | `reconcileLicense`, `reconcileEntitlements` | `License` |
| workspace RBAC | `codercontrolplane_controller.go` | Roles and RoleBindings in several namespaces, ServiceAccount, finalizer | `reconcileServiceAccount`, `reconcileWorkspaceRBAC`, `cleanupManagedWorkspaceRBAC`, `finalizeWorkspaceRBAC` | `WorkspaceRBAC` |
| CoderWorkspaceProxy controller | `coderworkspaceproxy_controller.go`, `internal/coderbootstrap/client.go` | token Secret, Deployment, status, registration in coderd | `Reconcile`, `EnsureWorkspaceProxy` | `WorkspaceProxy` |
| CoderTemplate storage | `internal/aggregated/storage/template.go` | none of its own: template and versions in coderd | `Create`, `Update`, `Delete` | `TemplateStorage` |
| CoderWorkspace storage | `internal/aggregated/storage/workspace.go` | none of its own: workspace and builds in coderd | `Create`, `Update`, `Delete` | `WorkspaceStorage` |
| watch event queue | both storages | channel, broadcaster | `enqueueWatchEvent`, `dispatchWatchEvents`, `Destroy` | `WatchQueue` |
| template archives | `internal/aggregated/storage/template_files.go` | none | zip reading and writing | in part, by `TemplateStorage` |
| Deployment, Service, exposure of a control plane | `codercontrolplane_controller.go` | Deployment, Service, Ingress, HTTPRoute, status | `reconcileDeployment`, `reconcileService`, `reconcileExposure`, `desiredStatus` | `Exposure`, `ServicePorts` |
| client provider | `internal/aggregated/coder/controlplane_provider.go` | none | `ClientForNamespace`, `EligibleNamespaces` | `ClientProvider` |
| MCP server | `internal/app/mcpapp` | none | `set_workspace_running` | in part, by `WorkspaceStorage` |
| watch filters | `internal/aggregated/storage/watch.go` | none | selectors, stop | not modelled |
| process lifecycle | `main.go`, `app_dispatch.go`, `internal/app/*app` | goroutines, servers | start and stop | not modelled |

How they interact. The controllers share nothing but Kubernetes objects and coderd.
The control plane controller produces the operator token and announces it in the
status; the provisioner controller and the license part wait for that status and use
the token. The API server's client provider finds control planes by the same status.
Each controller has one worker, so there is one reconcile at a time per controller, but
it is a sequence of calls to two or three remote systems: users, other controllers,
crashes and failures come between any two of them.

What is hard here:

- secrets that can be read only once (key plaintext, proxy token, operator token) are
  made in one system, stored in a second and recorded in a third;
- objects are read from informer caches that lag and written with optimistic
  concurrency, so a reconcile may act on its own past;
- the status is not replaced but merged, field by field, from a base that may be old;
- objects in other namespaces have no owner and cause no event;
- what fails is retried, so everything is done twice sooner or later;
- the storages check a version and then make several calls, with nothing locked, and
  answer with an object put together from what they read before and after;
- several places compute a port from the same two fields and have to agree.

## 2. Modules

A reconcile is a program counter `pc` and a record of locals `loc`. Reads from caches up
to the next remote call belong to the action that ends with that call; each call that
changes something is an action, and so is its failure, before or after it took effect.
All modules name the copies alike: `seen`, `secretSeen` are the caches, `CacheLag` or
`lag` says whether they may be behind, `Sync*` bring them up to date, `disturbances`
counts what the environment has done.

**`ProvisionerKey`** (with `MCProvisionerKey`, `ProvisionerKey_Proofs`). One
CoderProvisioner. `coderd` maps a deployment, an organization and a key name to a key
(tags, plaintext); `secrets` holds plaintexts, `status` what was applied, `deploy` what
the pods mount. `StartReconcile` decides between rotation, backfill and keeping the key
(`Drift`, `Complete`, `Mode`). `DeleteOldKey`, `EnsureFindsKey`, `EnsureCreatesKey`,
`DeleteForRotation`, `WriteSecret`, `PersistKeyStatus` and `ReconcileWorkload` are the
calls in the order of `Reconcile`; `CleanUpRemoteKey` and `RemoveFinalizer` are
`reconcileDeletion`. A control plane has a URL, and a token that only its own deployment
accepts. Key ID and plaintext are one value, because coderd makes them together.

**`ControlPlaneStatus`**. `MergeStatusDelta` and `Publish`: a status is written unless a
newer generation has been observed, and only the fields that the reconcile changed
relative to its base. Shared by `OperatorAccess`, `License` and `Exposure`.

**`OperatorAccess`** (with `MCOperatorAccess`, `OperatorAccess_Proofs`). `rows` is the
operator's `api_keys` row per database. `EnsureToken` and `RevokeToken` are transactions.
The work queue is explicit (`queued`): a reconcile runs only for an event or a requeue
that the code asks for, so lost wake-ups can be found. `lag` is chosen by `Init`, so that
one run covers both: with lagging caches and with fewer kinds of edits, and without lag
with all of them.

**`ClientProvider`** extends `OperatorAccess` by the readers of its results: which control
planes in the API server's cache are eligible, and the token that `ClientForNamespace`
finds behind the one that is. `Neighbours` are control planes besides the modelled one,
some eligible elsewhere, some ineligible in the same namespace. This is where the status
written by one part meets the Secret read live by another.

**`License`** (with `License_Proofs`). `gate` stands for the four conditions checked
before coderd is called, `api` for its answers, `licenses` for what it stores. A license
stands for its hash too.

**`WorkspaceRBAC`** (with `MCWorkspaceRBAC`, `WorkspaceRBAC_Proofs`). Roles and
RoleBindings by kind, namespace and ServiceAccount name, each marked with this object's
UID, with its labels only (left by a former object of that name), or not at all. Every
write and every deletion is a step; a namespace that the spec names twice is written once
(`Rest`). `EnsureFinalizer` is a patch of the object as the cache shows it: it adds
nothing if the finalizer is there, and ends the reconcile only if the object is gone.
`blind` records that a cleanup listed from a cache that did not show an object.

**`FinalizedResource`** is the abstract specification of a finalizer: things are acquired
only under it, and it goes only when nothing is held. `WorkspaceRBAC` implements it with
the Roles and RoleBindings in other namespaces as the things (`FinalizerGuardsRBAC`),
`ProvisionerKey` with the keys in coderd (`FinalizerGuardsKeys`).

**`ServicePorts`** and **`Exposure`** (with `MCExposure`, `Exposure_Proofs`).
`ServicePorts` has the port arithmetic as functions of port and TLS. `Exposure` reconciles
Deployment, Service and Ingress or HTTPRoute, all under the control plane's name, which
others may be using. `objs` are the objects, `cached` the informers' copies, `events`
whether the change under way concerns an object of ours and so wakes the controller. The
ConfigMap that may set the access URL is read live (`ReadEnv`) and its events go through
the index of cached specs (`ConfigMapArrives`). The Gateway API may be installed later, in
which case nobody watches HTTPRoutes until the next start. `OtherWakeUp` stands for the
reconciles that the other parts ask for. The rest of the status is in the other modules.

**`WorkspaceProxy`** (with `MCWorkspaceProxy`, `WorkspaceProxy_Proofs`). `live` is the
token that coderd accepts for each registration; `EnsureWorkspaceProxy` always makes a new
one. `NeedsToken` reads from the informer cache, which can lack the Secret but does not
fail. `Refused` is a spec that gives neither a token nor a way to get one, or no access URL.

**`WatchQueue`**, **`TemplateStorage`** and **`WorkspaceStorage`** (with
`MCWorkspaceStorage`, `TemplateStorage_Proofs` and `WorkspaceStorage_Proofs`): the API
server. Requests for one template and one workspace of it, each a sequence of coderd calls.
`WatchQueue` has one operator per channel operation; `TemplateStorage` extends it and
`WorkspaceStorage`, which extends `TemplateStorage`, has a second instance of it.

A storage has one channel for *all* its objects. So the queue also holds events about
other objects (`Foreign`), and the requests about them (`Others`) send, drop the oldest
event and send again, step by step, like the modelled ones. With them the newest event
about the modelled object can be dropped, or the room made for it taken, so that it is
never broadcast and no later event replaces it. The history variable `ousted`
(`wsOusted`) records exactly that; the properties about watchers are stated for the rest.
An event counts as `broadcast` when the dispatcher hands it to the broadcaster. The
broadcaster drops events for a watcher that is slow (`DropIfChannelFull`); that is library
code and not modelled, so nothing is said about what an individual watcher receives.

A workspace is its latest build (transition and state) and `updated_at`. Create is a start,
followed by a stop for an object that is not to run, whose error is swallowed. Update and
Delete make a build; the answer is the workspace as it was read with that build. `ToolGet`
and the update that follows it are the MCP tool `set_workspace_running`. `alone` and
`settled` (`wsSettled`) are history variables of the properties: whether another request
overlapped, and whether the last change came from a request that was alone. `spec.files`
is one of a few values. It is `"bad"` if `normalizeFileKeys` rejects it, which is checked
first; `Unmergeable` are the pairs of old and new files that `buildMergedSourceZip` rejects,
which is checked after the metadata has been written. `Reject` is also an alternative where
a request may be refused for reasons that the model does not tell apart (admission, a
change of organization, a version that is not the active one). Creation does not wait for its build; only updates do.

External parts are modelled from how the code uses them, and marked so in the map:
informer caches, the work queue, conflicts of CreateOrUpdate, coderd's builds, users.

## 3. Runs

State counts are distinct states. The longest runs take three to four minutes on two
workers.

| Run | States | What it shows |
| --- | --- | --- |
| `PK_converge` | 54,294 | `DamageIsVisible`: a key that does not work is always noticed by the next reconcile. `Convergence`: key, Secret and Deployment come to agree. `KeyLeftAlone`: a good key is not rotated. `CustodyInv`: the inductive form of `Custody` below. With failing calls to coderd, a control plane that closes and opens again, edits that never return to an earlier value (findings 1 and 2 are what happens otherwise) and caches that follow at once. |
| `PK_delete` | 2,822,876 | `NoOrphanedKey`: when the object is gone, so is its key, wherever the deletion fell. `FinalizerGuardsKeys`: the same controller implements `FinalizedResource`. `DeletionInv` is the inductive form of both. `Custody`: unless coderd was changed since the last recorded rotation, the key in the status exists with the recorded tags and ID, and the Secret is lost or holds its plaintext. For edits of the tags and of the control plane's URL, and coderd calls that do not fail; crashes, conflicts and cache lag are included. |
| `PK_v_secret` | violation | finding 1 |
| `PK_v_tags` | violation | finding 2 |
| `OA` | 811,466 | `DisabledNotReady`, `ForgottenOnlyWhenRevoked`, their inductive form in `ServiceInv`. `Settles`: database, Secret and status come to agree with the spec. `RequestsServed`: then the client provider hands out a client that works, or refuses if access is disabled, whatever other control planes there are. `NoInterruption`: the periodic reconcile leaves a working client working; `ServiceInv` is the inductive invariant behind it too. |
| `EX` | 1,113,682 | `ExposureInv`, the inductive invariant. `QuietMeansRight`: when nothing is queued or on its way, every object is as the spec asks, so no wake-up is lost. `ExposureSettles`: what can be carried out is, in the end. Both say that URLs and backends lead to a port of the Service that answers in their protocol. `NoGap`: a switch between Ingress and gateway takes the one away when the other is there. `OthersLeftAlone`: what somebody else controls stays, if the cache shows it. |
| `LIC` | 648,641 | `AppliedMeansUploaded`, `ConditionFitsSpec`, their inductive form `LicenseInv`, `LicenseSettles`. |
| `RB` | 545,113 | `RBACInv`, the inductive invariant. `NoLeftovers`, `FinalizerGuardsRBAC` (the refinement of `FinalizedResource`), `NoOutage`, `OthersLeftAlone`, `RBACSettles`. |
| `PX` | 94,015 | `TokenStored`, its inductive form `TokenMadeOnce`, `ProxySettles`. |
| `PX_v_token` | violation | finding 3 |
| `AS` | 597,255 | `ServerInv`, the inductive invariant of both storages. Templates: `SuccessMeansApplied`; `FailedUpdateKeepsVersion`, an update that fails may have changed the metadata but not the active version; `PromotedOnlyIfBuilt`; `WatchersUpToDate`. Workspaces: `BuildMeansApplied`, the answer shows the latest build and its resourceVersion, also after a stop that failed; `WorkspaceWatchersUpToDate`. Both: `EveryRequestAnswered`. |
| `AS_v_files` | violation | finding 4 |

The type invariants are proved for all constants; all but that of `License` are also
conjuncts of the inductive invariants checked there.
Every property has a mutant: an operator named for the bug it makes,
next to the definition it replaces, under which TLC finds the property violated.

**Bounds.** `MaxDisturbances` bounds edits, failures, crashes and interference together
(`MaxRequests` and `MaxFaults` in `AS`). Most runs allow two to four, so that two events
can meet in any steps of one reconcile or of successive ones; each finding below needs at
most two. `RB` allows one with lag and three without, `EX` two and three, `PX` two
and four: in `RB`, two disturbances are not combined with cache lag (the proofs have no
such bound).
`MaxKeys` and `MaxTokens` are not reached in the passing runs (one less gives the same
states; in `PX` without lag the bound is an unreached state), except in `PX` with lag,
where a reconcile with a stale cache may make tokens without end; `ProxySettles` exempts
the state in which the bound stops it, and `TokenStored` is stated without lag (finding 3
is what happens with it). `RB` has one other namespace, two accounts and
leftovers of a former object; its code treats namespaces independently, one after the
other. `EX` uses the ports at which the code's cases differ (unset, 443 with and without
TLS, another one); that backends and URLs are right for every port is proved. `AS` has
two requests, one fault, queues of one event (so that they are full at once) and several
initial situations instead of a third request; the two requests may be for the template,
the workspace or one each. Each queue has one more request at a time about other objects, as
often as it likes. Files f1 cannot replace f2 (`TooLarge`). `Custody` is not checked with
failing coderd calls and cache lag together; its theorem has no such restriction.

**Deadlock** is not checked: a controller whose object is in order, or a server without
requests, has nothing to do. `Settles`, `Convergence`, `EveryRequestAnswered` and their
like say what must have happened before.

**Fairness.** Controllers: weak fairness of the reconcile and of the caches.
controller-runtime's worker takes what is queued, every call has a timeout, an error is
retried with backoff and requeue delays pass; informers deliver every change. `ProvisionerKey`'s
liveness is checked without lag only. Where the
cache may lag (`OperatorAccess`, `License`, `WorkspaceRBAC`, `WorkspaceProxy`) we also
assume that from some time on a reconcile does not start before the caches have caught
up: an informer lags by milliseconds and retries back off, so it cannot fall behind every
reconcile forever. `Exposure` does not need that assumption: its
objects are owned and watched, so a change that a reconcile missed wakes it again.
Storages: weak fairness of each handler, which runs in a goroutine of its own and whose
calls have timeouts; none for builds, which may never end, and none for the dispatchers,
for which no handler waits.

## 4. Findings

1. **A Secret used before is taken for the current one** (`PK_v_secret`). Any value in
   the named Secret counts as the key's plaintext. After `secretName` went from s1 to s2
   and back, s1 still holds the plaintext of a key deleted by the rotation, and nothing
   notices: "SecretName is the Kubernetes Secret to store the key"
   (`api/v1alpha1/coderprovisioner_types.go:41`).
2. **An edit undone in flight** (`PK_v_tags`). Tags t1 to t2, the key is recreated with
   t2, the edit is undone, the status write conflicts. Spec and status say t1, coderd
   says t2, for good: "TagsHash is a deterministic hash of spec.tags last applied to the
   provisioner key" (`coderprovisioner_types.go:96`).
3. **A proxy token made twice** (`PX_v_token`). The reconcile that follows the first
   status write may not see the new token Secret in its cache. It has coderd make another
   token, which ends the first, and cannot create the Secret, which exists. From then on
   the Secret's dead token is reused and the proxy reported as registered:
   "GeneratedTokenSecretName stores the generated proxy token"
   (`coderworkspaceproxy_types.go:27`).
4. **A rejected update that changed the metadata** (`AS_v_files`). "Pre-validate spec.files
   before any mutations to avoid partial updates" (`storage/template.go:621`) covers the file
   names. Whether the files can be merged with the archive of the active version (its
   entries, their number, the total size) is found out by `buildMergedSourceZip` after
   `UpdateTemplateMeta`. The update is answered with an error about `spec.files`, the
   metadata is changed, and no event says so. `FailedUpdateKeepsVersion` is what does hold.

Met on the way, modelled, and not contradicted by any document (see the hazards): one
failing coderd call at deletion leaves a provisioner key behind; a cleanup that lists
from a stale cache leaves RBAC objects behind; updates of a template that overlap may be
lost or announced in the wrong order; the newest event about an object may be dropped by a
request about another one that finds the shared queue full, or be given up when the room
made for it is taken; after a change of `proxyName` the Secret keeps the token of the proxy
registered first (so `TokenStored` asks for a token that coderd accepts for some
registration, not for the one now named); operator access may be announced for a moment
without a Secret reference. The proof of `OthersLeftAlone` of `WorkspaceRBAC` brought
another: `cleanupManagedWorkspaceRBAC` lists, then deletes one by one without looking
again, so that a RoleBinding which somebody changed in between, and which would no longer
count as managed, is still deleted. The property exempts objects changed by somebody; an
earlier form without that exemption was shown wrong by TLC.

## 5. Proofs

TLAPS checks the theorems below for all values of the constants: any number of control
planes, names, namespaces, Secrets, databases, licenses, clients, requests, edits, faults
and crashes, any queue length, with or without cache lag. They assume only the
`...Assumption`s of the modules: the types of the constants, that `None` is none of the
values, that there are some metadata and files for a template and invalid files are none
of them, that an event about another object differs from those about this one, that a control plane's URLs lead to its own deployment, and that a new object has
no Roles in other namespaces yet. Some theorems of `ProvisionerKey`, `WorkspaceProxy` and
`OperatorAccess` have hypotheses about edits or the environment, named with them below; the
constants of the runs satisfy them.

- `ProvisionerKey_Proofs`. `TypeCorrect`: `Spec => [](TypeOK /\ InFlight)`; `InFlight`
  says which locals are set at which step, types alone are not inductive without it.
  `CustodyInvariant` and `CustodyCorrect`: if no edit changes the Secret's name
  (`SecretNameFixed`), `Spec => []Custody`. `Custody` speaks of three systems that are
  written one after the other, so it is far from inductive. `CustodyInv` adds that a copy
  that counts as the latest is the latest (`VersionsCurrent`: so a status write that is
  not refused has seen every earlier one), that everybody names the same Secret
  (`SecretAgreed`), and where plaintext is between its creation and the status write
  (`MaterialHeld`: it is that of the key in coderd, nobody else has it, and afterwards
  the Secret has no other). The hypothesis is needed: without it finding 1 is a
  counterexample.

  *Deletion.* `DeletionInvariant` and from it `NothingOrphaned` (`[]NoOrphanedKey`) and
  `GuardedByFinalizer` (`Spec => FinalizerGuardsKeys`, the refinement of
  `FinalizedResource`), with lagging caches. Hypotheses: `KeyPlaceFixed`, edits leave control
  plane, organization and key name alone, and `AlwaysReachable`, calls to coderd succeed and
  control planes keep an URL and the operator's access. Both exclude what the code does by
  best effort only: a cleanup that fails, or an old key at another place, is not tried
  again. A reconcile may work from a copy of the object that is older than the finalizer,
  the status or the deletion. `OnePlace` says that all copies lead to the same place in
  coderd, with the fallback from status to spec that the cleanup uses; `Guarded` says which
  combinations of finalizer and phase a copy and the object can have, so that a
  reconcile which creates keys has the finalizer and one that is about to remove it, under
  an optimistic lock, has left no key.

  *Damage and repair.* `GoodKeyLeftAlone` (`Spec => KeyLeftAlone`) and `DamageStaysVisible`
  (`[]DamageIsVisible`), for caches that follow at once (`~CacheLag`) and control planes
  whose URL does not change (`URLFixed`); the second also for edits that keep the Secret's
  name and never return to an earlier spec (`Onward(rank)`: they go up in some ranking;
  finding 2 is what happens otherwise). `URLFixed` is needed: the URL is part of what the
  status records, and with a control plane that moves between two URLs TLC finds a
  counterexample to each. The invariants, defined in the proof module, are `PromptInv`: a
  reconcile that is at work on the key has, in its snapshot, a reason that is still there
  (`Excused`); and `DamageInv`: what is recorded was asked for no later than what is asked
  for now (`Ranked`), and a record of the current spec, with a Secret, means that the key is
  in order (`InOrder`). The ranking closes the gap between a reconcile of an old spec and the
  record it leaves: its status write conflicts with the edit, and the old spec's record
  cannot pass for one of the new spec.
- `OperatorAccess_Proofs`. `TypeCorrect`; `AccessInvariant`, and from it
  `NeverAnnouncedWhenDisabled` (`[]DisabledNotReady`) and `CleanupNotForgotten`
  (`[]ForgottenOnlyWhenRevoked`). The status is merged from a base that may be stale, so
  what a reconcile concluded may be mixed with what another one wrote. The argument:
  generations in status, cache and reconcile are ordered (`Generations`); the first status
  written for a generation is computed from the latest one, so the merge has nothing to
  mix (`FirstWriter`); and later ones have come to the same conclusion about a disabled
  spec (`Conclusion`). `ServiceInvariant` (`[]ServiceInv`) and from it
  `ServiceNotInterrupted` (`Spec => NoInterruption`), if no other control plane of the
  namespace takes part (`SoleInNamespace`; with another one the provider refuses to choose).
  `Handover` follows the token: what was read is what the Secret holds, what is about to be
  stored is what the database holds, and what is announced is the spec's Secret. A working
  client means that status, Secret and database agree (`Served`), and then each step of an
  undisturbed reconcile finds nothing to change: the token is valid, the Secret has it, and
  the merge keeps the fields that the provider looks at.
- `License_Proofs`. `TypeCorrect`; `LicenseInvariant`, and from it
  `AnnouncedLicenseUploaded` (`[]AppliedMeansUploaded`) and `ConditionOfCurrentSpec`
  (`[]ConditionFitsSpec`). The same merge, another argument: every status that a reconcile
  reads, compares with or computes is `Honest` by itself, what was read is `Older` than
  what is there, and hashes are replaced but never withdrawn; so whichever fields the merge
  takes, the condition and the hash it ends with are backed by an upload.
- `WorkspaceRBAC_Proofs`. `RBACInvariant`, made of `FinalizerInvariant` and
  `AccessInvariant`. From the first, `NothingLeft` (`[]NoLeftovers`) and
  `GuardedByFinalizer` (`Spec => FinalizerGuardsRBAC`): the controller implements
  `FinalizedResource`. Initial states map to initial states, and every step to one of the
  abstract steps or to none. `FinalizerInv` relates the object's life to the copy in the
  cache (`Life`: a copy with finalizer means that the object still has it, or is gone),
  says under which conditions a reconcile writes (`Work`) and how far a finalization has
  come (`Cleaned`: what is held is on the list, kind by kind). From both,
  `NothingNeededDeleted` (`Spec => NoOutage`) and `StrangersKept`
  (`Spec => OthersLeftAlone`). Between the listing and a deletion the object on the list
  may change, so the invariant has to say what it may have become: `Aim` says that the
  cache differs from the cluster only where an object is gone, this object's, or changed by
  somebody (`Touched`), and that what is on the list is managed or touched, and not asked
  for unless this is a finalization.
- `Exposure_Proofs`. `BackendTakesHTTP`, `ClusterURLAnswered`, `ServicePortsDistinct`: for
  every port and with and without TLS, the backend of Ingress, HTTPRoute and operator is
  an HTTP port of the Service, the Service answers the URL in the status and in
  `CODER_ACCESS_URL` in its scheme, and its ports differ in name and number. `TypeCorrect`.
  `ExposureInvariant` and from it `NoWakeUpLost` (`[]QuietMeansRight`), with the theorems
  about ports. That no wake-up is lost is a safety property with a long memory: a reconcile
  reads the spec, the ConfigMap and the replicas and writes four objects, and any of them
  may change behind it. `Copies` says that a cached object of ours differs from the real one
  only while an event about it is on its way. `InFlight` says of a reconcile that no other
  is to follow, for each thing it is done with, that this still holds or an event is on its
  way; `AtRest` says the same when it has ended. A reconcile that another one will follow
  need not be right about anything. The proof has one lemma for what keeps such a promise
  (`WakeKept`) and one for steps that make a reconcile due (`WakeDue`). `SwitchWithoutGap`
  (`Spec => NoGap`) rests on `Switch`, `OthersKept` (`Spec => OthersLeftAlone`) on `Copies`.
- `TemplateStorage_Proofs` has the lemmas about templates and their queue;
  `WorkspaceStorage_Proofs` has the theorems. `ServerInvHolds` (`[]ServerInv`), and from it
  `ServerTypes`, `TemplateAnswersTrue` (`[]SuccessMeansApplied`), `WorkspaceAnswersTrue`
  (`[]BuildMeansApplied`), `TemplateWatchersTrue` (`[]WatchersUpToDate`) and
  `WorkspaceWatchersTrue`; `FailedUpdateSafe` (`ServerSpec => FailedUpdateKeepsVersion`) and
  `OnlyBuiltVersions` (`ServerSpec => PromotedOnlyIfBuilt`). A request that met no other one
  (`Alone`) finds coderd as it left it, so `Progress` says at each of its steps how much of
  what was asked is done. `Delivered` follows the event of a settled change through a queue
  shared with any number of requests about other objects: whatever is still being sent tells
  of the latest state, and so does the newest event about the object in the queue or, if
  there is none, the one broadcast last, unless a request is about to send again or the event
  was `ousted`. A request about the object that drops the oldest event of a full queue to
  make room loses nothing, because it sends a newer one, or gives up, which is `ousted`.
- `WorkspaceProxy_Proofs`. `ProxyTypes`; `TokenKept`, `[]TokenStored`, for edits that
  never return to a generated Secret given up before. The hypothesis is `Forward(rank)`,
  some ranking of the Secrets that every edit of the name increases; without it the
  property is false (a Secret used before holds an old token, which is reused). `TokenInv`
  says that no Secret of higher rank than those in use exists yet, and that a reconcile
  which is about to register has found none: so there is never a token in the Secret that a
  new one would end. `TokenNotRemade` states it as a result of its own (`[]TokenMadeOnce`),
  for the ranking `SecretRank`, a constant that only this invariant uses.

The inductive invariants are also invariants of the runs, except `PromptInv` and
`DamageInv`, which only their proofs use. The proofs go action by action, with lemmas for
the writes that several actions share (`CacheFollowsCurrent`, `DeleteKeyEffect`,
`PublishStep`, `ConcludeEffect`, `WriteDone`, `PutTouches`, ...), for what the steps may do
to one part of the state (`ObjectEffect`, `KeysEffect`, `SecretEffect`, `WorkerEffect`, ...)
and for the steps of others that an invariant survives.

Only model-checked: the liveness properties (`Convergence`, `Settles`, `RequestsServed`,
`LicenseSettles`, `RBACSettles`, `ProxySettles`, `ExposureSettles`,
`EveryRequestAnswered`), which rest on fairness and are outside what TLAPS does. Every
invariant, action property and refinement that a passing run checks is proved.

## 6. What is not modelled

- The pod template of a Deployment beyond access URL and TLS: certificates, volumes,
  probes and scheduling fields are computed from the spec in one step. ServiceAccount, Role
  and RoleBinding of a provisioner are one step with its Deployment. Secrets in `envFrom`,
  which take the same path as ConfigMaps.
- Two objects that share something: two provisioners with one key name, two proxies with
  one registration. Nothing in the code prevents it and nothing is promised about it.
- The parts of the control plane's reconcile are separate modules although one function
  calls them in turn: they touch different fields of the status, and `ControlPlaneStatus`
  is where they meet. A failure in an earlier part is, for a later one, a reconcile that
  did not start; one in a later part is `StatusFails` of `Exposure`.
- Blank namespace entries, and Roles with another controller; the cache lag of
  ServiceAccounts.
- Pods: the proxy's Deployment names the token Secret without a checksum, so pods keep an
  old token when the Secret is rewritten under the same name
  (`coderworkspaceproxy_controller.go:165`).
- A property about what operator access leaves behind when its Secret name or database
  changes: the edits are modelled, but the code does not clean up and promises nothing.
- That coderd may refuse to delete a template that has workspaces: the model lets it be
  deleted, and requests for the workspace go on with the template that they read.
- `Get`, `List` and table output, which change nothing; the selectors, filters and stop of
  `Watch`, functions of one event or one call; byte-level work on archives; error wording.
- Time: delays pass or do not. The rate limit backoff chooses a delay between its floor
  and its cap; for `ProvisionerKey` a rate-limited call is a failed one, retried later.
- The MCP server's reading tools, and `set_template_running`: it updates `spec.running` of
  a CoderTemplate, which `storage/template.go` never reads (`types.go` calls it a legacy
  flag), so there is no effect to model.
- The process lifecycle: API server and MCP server are runnables of the controller
  manager, which controller-runtime starts and stops. What it means for the modules is in them: `Crash` between any two steps, caches
  filled before the first reconcile, no request in flight when the storages are destroyed.
- Generated code, API registration and the documentation generator.
