------------------------------ MODULE Exposure ------------------------------
(***************************************************************************)
(* The Deployment and Service of a CoderControlPlane, and the Ingress or     *)
(* HTTPRoute through which it is reached from outside (reconcileDeployment,  *)
(* reconcileService, reconcileExposure, desiredStatus and SetupWithManager   *)
(* of internal/controller/codercontrolplane_controller.go).                  *)
(*                                                                         *)
(* All objects have the control plane's name, so that others may own one of  *)
(* that name.  Reads come from informer caches, except for the ConfigMap     *)
(* behind spec.envFrom, which is read live.  HTTPRoutes are watched only if   *)
(* the Gateway API was installed when the operator started.                  *)
(***************************************************************************)
EXTENDS ServicePorts, ControlPlaneStatus, FiniteSets

CONSTANTS
    None,
    InitSpec,        \* the spec the object is created with
    Edits,           \* the edits users make, as pairs of specs
    Squatters,       \* objects of others, of which one may exist from the start
    MaxDisturbances  \* bound: edits, failed calls, crashes, interventions, both with
                     \* (TRUE) and without (FALSE) caches that lag behind

Kinds == {"deployment", "service", "ingress", "route"}

\* expose: what spec.expose asks for; host: it names a host (and what else it must);
\* port, tls: see ServicePorts; inject: spec.envUseClusterAccessURL; env: where
\* CODER_ACCESS_URL is set, if it is: by extraEnv, twice by extraEnv, or perhaps by
\* the ConfigMap that envFrom names.
Specs == [expose : {"none", "ingress", "gateway"}, host : BOOLEAN, port : Ports,
          tls : BOOLEAN, inject : BOOLEAN,
          env : {"unset", "extraEnv", "twice", "configMap"}]

ASSUME SpecsAssumption ==
    /\ InitSpec \in Specs
    /\ Edits \subseteq Specs \X Specs
    /\ Squatters \subseteq Kinds \X {"other", "free"}
    /\ MaxDisturbances \in [BOOLEAN -> Nat]

VARIABLES
    \* The CoderControlPlane in the API server and the informer cache's copy.
    spec, gen, status, seen, seenFresh,
    \* The managed objects, the cache's copies, which copies are out of date, and
    \* whether an event they have not seen yet is about an object of ours.
    objs, cached, stale, events,
    \* Whether the ConfigMap sets CODER_ACCESS_URL, and an event about it is due.
    configMap, configMapEvent,
    \* Whether the Gateway API is installed and HTTPRoutes are watched.
    gatewayAPI, watched,
    \* Whether the work queue holds the object; the reconcile in flight.
    queued, pc, loc,
    disturbances,
    \* Fixed: the informer caches may lag behind.
    lag

crVars == <<spec, gen, status, seen, seenFresh>>
objVars == <<objs, cached, stale, events>>
envVars == <<configMap, configMapEvent, gatewayAPI, watched>>
vars == <<crVars, objVars, envVars, queued, pc, loc, disturbances, lag>>

-----------------------------------------------------------------------------
(* Types.                                                                    *)

URLs == [scheme : {"http", "https"}, port : Ports]

\* What an object of each kind says; None stands for anything else.
ContentOf(k) ==
    CASE k = "deployment" -> [url : {None} \cup URLs, tls : BOOLEAN]
      [] k = "service" -> SUBSET [name : {"http", "https"}, port : Ports,
                                  target : {TargetPort, TLSTargetPort}]
      [] OTHER -> [backend : Ports]

\* up: a Deployment has ready replicas.
Objects(k) ==
    {None} \cup [owner : {"us", "other", "free"}, as : {None} \cup ContentOf(k), up : BOOLEAN]

\* None is neither an object nor what one says.
ASSUME NoneAssumption ==
    /\ \A k \in Kinds :
          None \notin [owner : {"us", "other", "free"}, as : {None} \cup ContentOf(k), up : BOOLEAN]
    /\ \A p \in Ports, tls \in BOOLEAN : ServicePortsOf([port |-> p, tls |-> tls]) # None
    /\ None \notin [backend : Ports]

OnePerKind(f) == f = [k \in Kinds |-> f[k]] /\ \A k \in Kinds : f[k] \in Objects(k)

Foreign(owner) == [owner |-> owner, as |-> None, up |-> FALSE]

Statuses == [gen : Nat, url : {None} \cup URLs, up : BOOLEAN]

NoStatus == [gen |-> 0, url |-> None, up |-> FALSE]

Steps == {"idle", "env", "deployment", "service", "expose", "dropIngress", "dropRoute", "status"}

\* base, next: the status read and the one computed; defined: the ConfigMap sets the
\* URL; sure: exposure objects were cached faithfully when the reconcile began, and
\* nobody has touched one or installed the API since; again: the result asks for another reconcile.
Locals == [spec : Specs, base : Statuses, next : Statuses,
           defined : BOOLEAN, sure : BOOLEAN, again : BOOLEAN]

NoLocal == [spec |-> InitSpec, base |-> NoStatus, next |-> NoStatus,
            defined |-> FALSE, sure |-> FALSE, again |-> FALSE]

TypeOK ==
    /\ spec \in Specs
    /\ gen \in Nat
    /\ status \in Statuses
    /\ seen \in [spec : Specs, gen : Nat, status : Statuses]
    /\ seenFresh \in BOOLEAN
    /\ OnePerKind(objs) /\ OnePerKind(cached)
    /\ stale \in [Kinds -> BOOLEAN]
    /\ events \in [Kinds -> BOOLEAN]
    /\ configMap \in BOOLEAN /\ configMapEvent \in BOOLEAN
    /\ gatewayAPI \in BOOLEAN /\ watched \in BOOLEAN
    /\ queued \in BOOLEAN
    /\ pc \in Steps
    /\ loc \in Locals
    /\ disturbances \in 0 .. MaxDisturbances[lag]
    /\ lag \in BOOLEAN

-----------------------------------------------------------------------------
(* Kubernetes objects and the work queue.                                    *)

CR == [spec |-> spec, gen |-> gen, status |-> status]

Ours(o) == o # None /\ o.owner = "us"

Disturb ==
    /\ disturbances < MaxDisturbances[lag]
    /\ disturbances' = disturbances + 1

\* A write reaches the cache later, with SyncKind.
Store(k, o) ==
    /\ objs' = [objs EXCEPT ![k] = o]
    /\ stale' = [stale EXCEPT ![k] = TRUE]
    /\ events' = [events EXCEPT ![k] = events[k] \/ Ours(objs[k]) \/ Ours(o)]
    /\ UNCHANGED cached

\* A reconcile that returns an error is retried.
Fail ==
    /\ pc' = "idle"
    /\ loc' = NoLocal
    /\ queued' = TRUE

-----------------------------------------------------------------------------
(* What the objects are to say.                                              *)

\* CODER_ACCESS_URL, unless the user sets it or does not want it set.
AccessURL(s, defined) ==
    IF s.inject /\ s.env # "extraEnv" /\ ~defined THEN ClusterURL(s) ELSE None

Desired(k, s, defined) ==
    CASE k = "deployment" -> [url |-> AccessURL(s, defined), tls |-> s.tls]
      [] k = "service" -> ServicePortsOf(s)
      [] OTHER -> [backend |-> BackendPort(s)]

Matches(o, content) == Ours(o) /\ o.as = content

-----------------------------------------------------------------------------
(* controllerutil.CreateOrUpdate and Delete against the cached copy.         *)

\* The API server takes the write: nothing of that name is in the way of a create,
\* and an update comes with the current version.  SetControllerReference adopts an
\* object without controller and refuses one with another.
Accepted(k) ==
    IF cached[k] = None THEN objs[k] = None ELSE cached[k].owner # "other" /\ ~stale[k]

Put(k, content) ==
    Store(k, [owner |-> "us", as |-> content, up |-> objs[k] # None /\ objs[k].up])

CreateOrUpdate(k, content) ==
    /\ UNCHANGED disturbances
    /\ IF Matches(cached[k], content)
       THEN UNCHANGED objVars
       ELSE Accepted(k) /\ Put(k, content)

\* The write is refused, or fails with or without having been applied.  Defaults
\* filled in by the API server make an unchanged object look changed: its update
\* changes nothing, but is refused like any other if the copy is out of date.
CreateOrUpdateFails(k, content) ==
    /\ \/ ~Accepted(k) /\ UNCHANGED <<objVars, disturbances>>
       \/ Disturb /\ UNCHANGED objVars
       \/ Disturb /\ Accepted(k) /\ ~Matches(cached[k], content) /\ Put(k, content)
    /\ Fail

\* cleanupOwnedIngress, cleanupOwnedHTTPRoute.  The delete names the object only.
Cleanup(k) ==
    /\ UNCHANGED disturbances
    /\ IF Ours(cached[k]) /\ objs[k] # None THEN Store(k, None) ELSE UNCHANGED objVars

CleanupFails(k) ==
    /\ Ours(cached[k])
    /\ Disturb
    /\ UNCHANGED objVars \/ (objs[k] # None /\ Store(k, None))
    /\ Fail

-----------------------------------------------------------------------------
(* A reconcile.                                                              *)

StartReconcile ==
    /\ pc = "idle"
    /\ queued
    /\ queued' = FALSE
    /\ loc' = [spec |-> seen.spec, base |-> seen.status,
               next |-> [seen.status EXCEPT !.gen = seen.gen, !.url = ClusterURL(seen.spec)],
               defined |-> FALSE, sure |-> ~stale["ingress"] /\ ~stale["route"],
               again |-> FALSE]
    /\ pc' = "env"
    /\ UNCHANGED <<crVars, objVars, envVars, disturbances>>

\* envFromDefinesEnvVar, if the URL is to be injected; the read may fail.
ReadEnv ==
    /\ pc = "env"
    /\ \/ /\ loc' = [loc EXCEPT !.defined = loc.spec.inject /\ loc.spec.env = "configMap" /\ configMap]
          /\ pc' = "deployment"
          /\ UNCHANGED <<queued, disturbances>>
       \/ /\ loc.spec.inject /\ loc.spec.env = "configMap"
          /\ Disturb
          /\ Fail
    /\ UNCHANGED <<crVars, objVars, envVars>>

\* An access URL that is set twice is an error.  The Deployment that was written, or
\* else the cached one, tells whether replicas are ready.
ReconcileDeployment ==
    /\ pc = "deployment"
    /\ LET content == Desired("deployment", loc.spec, loc.defined)
           up == IF Matches(cached["deployment"], content)
                 THEN cached["deployment"].up
                 ELSE objs["deployment"] # None /\ objs["deployment"].up
       IN  \/ /\ ~(loc.spec.inject /\ loc.spec.env = "twice")
              /\ CreateOrUpdate("deployment", content)
              /\ loc' = [loc EXCEPT !.next.up = up]
              /\ pc' = "service"
              /\ UNCHANGED queued
           \/ /\ loc.spec.inject /\ loc.spec.env = "twice"
              /\ Fail
              /\ UNCHANGED <<objVars, disturbances>>
           \/ /\ ~(loc.spec.inject /\ loc.spec.env = "twice")
              /\ CreateOrUpdateFails("deployment", content)
    /\ UNCHANGED <<crVars, envVars>>

ReconcileService ==
    /\ pc = "service"
    /\ LET content == Desired("service", loc.spec, loc.defined)
       IN  \/ /\ CreateOrUpdate("service", content)
              /\ pc' = "expose"
              /\ UNCHANGED <<queued, loc>>
           \/ CreateOrUpdateFails("service", content)
    /\ UNCHANGED <<crVars, envVars>>

\* reconcileExposure.  The object asked for comes first, then the other goes.
Target(s) == IF s.expose = "ingress" THEN "ingress" ELSE "route"

AfterExpose(s) == IF s.expose = "ingress" THEN "dropRoute" ELSE "dropIngress"

Exposed ==
    /\ loc' = [loc EXCEPT !.again = loc.spec.expose = "gateway"]
    /\ pc' = AfterExpose(loc.spec)
    /\ UNCHANGED queued

\* A spec that names no host is an error.
ReconcileIngress ==
    LET content == Desired("ingress", loc.spec, loc.defined)
    IN  /\ loc.spec.expose = "ingress"
        /\ \/ loc.spec.host /\ CreateOrUpdate("ingress", content) /\ Exposed
           \/ loc.spec.host /\ CreateOrUpdateFails("ingress", content)
           \/ ~loc.spec.host /\ Fail /\ UNCHANGED <<objVars, disturbances>>

\* Without the Gateway API there is no HTTPRoute to reconcile; that is retried, like
\* every reconcile of a gateway, but it is not an error.
ReconcileHTTPRoute ==
    LET content == Desired("route", loc.spec, loc.defined)
    IN  /\ loc.spec.expose = "gateway"
        /\ \/ loc.spec.host /\ gatewayAPI /\ CreateOrUpdate("route", content) /\ Exposed
           \/ loc.spec.host /\ gatewayAPI /\ CreateOrUpdateFails("route", content)
           \/ loc.spec.host /\ ~gatewayAPI /\ Exposed /\ UNCHANGED <<objVars, disturbances>>
           \/ ~loc.spec.host /\ Fail /\ UNCHANGED <<objVars, disturbances>>

\* Mutation: what is not asked for goes first, the rest is left to the next reconcile.
ReconcileExposureLast ==
    /\ pc = "expose"
    /\ LET k == Target(loc.spec)
           other == IF k = "route" THEN "ingress" ELSE "route"
       IN  IF Ours(cached[other])
           THEN Cleanup(other)
           ELSE CreateOrUpdate(k, Desired(k, loc.spec, loc.defined))
    /\ loc' = [loc EXCEPT !.again = TRUE]
    /\ pc' = AfterExpose(loc.spec)
    /\ UNCHANGED <<crVars, envVars, queued>>

ReconcileExposure ==
    /\ pc = "expose"
    /\ \/ loc.spec.expose = "none" /\ Exposed /\ UNCHANGED <<objVars, disturbances>>
       \/ ReconcileIngress
       \/ ReconcileHTTPRoute
    /\ UNCHANGED <<crVars, envVars>>

DropIngress ==
    /\ pc = "dropIngress"
    /\ \/ /\ Cleanup("ingress")
          /\ pc' = IF loc.spec.expose = "none" THEN "dropRoute" ELSE "status"
          /\ UNCHANGED <<queued, loc>>
       \/ CleanupFails("ingress")
    /\ UNCHANGED <<crVars, envVars>>

\* Mutation: whoever owns the object.
DropRouteUnowned ==
    /\ pc = "dropRoute"
    /\ IF cached["route"] # None /\ objs["route"] # None
       THEN Store("route", None)
       ELSE UNCHANGED objVars
    /\ pc' = "status"
    /\ UNCHANGED <<crVars, envVars, queued, loc, disturbances>>

DropRoute ==
    /\ pc = "dropRoute"
    /\ \/ /\ Cleanup("route")
          /\ pc' = "status"
          /\ UNCHANGED <<queued, loc>>
       \/ CleanupFails("route")
    /\ UNCHANGED <<crVars, envVars>>

\* reconcileStatus; what comes between is modelled elsewhere and may fail.
WriteStatus ==
    /\ pc = "status"
    /\ status' = Publish(loc.base, loc.next, status, gen)
    /\ seenFresh' = (seenFresh /\ status' = status)
    /\ \/ /\ queued' = (queued \/ loc.again)
          /\ pc' = "idle"
          /\ loc' = NoLocal
          /\ UNCHANGED disturbances
       \/ Disturb /\ Fail
    /\ UNCHANGED <<spec, gen, seen, objVars, envVars>>

StatusFails ==
    /\ pc = "status"
    /\ Disturb
    /\ Fail
    /\ UNCHANGED <<crVars, objVars, envVars>>

-----------------------------------------------------------------------------
(* Informers and watches: For, Owns and Watches of SetupWithManager.         *)

SyncObject ==
    /\ ~seenFresh
    /\ seen' = CR
    /\ seenFresh' = TRUE
    /\ queued' = TRUE
    /\ UNCHANGED <<spec, gen, status, objVars, envVars, pc, loc, disturbances>>

\* Mutation: Ingresses are not watched.
WatchedButIngress(k) == k # "ingress" /\ (k = "route" => watched)

Watched(k) == k = "route" => watched

\* An event about an object enqueues its controlling owner, old or new.
SyncKind(k) ==
    /\ stale[k]
    /\ cached' = [cached EXCEPT ![k] = objs[k]]
    /\ stale' = [stale EXCEPT ![k] = FALSE]
    /\ events' = [events EXCEPT ![k] = FALSE]
    /\ queued' = (queued \/ (Watched(k) /\ events[k]))
    /\ UNCHANGED <<crVars, objs, envVars, pc, loc, disturbances>>

\* reconcileRequestsForEnvFromConfigMap looks the name up in the index of cached specs.
ConfigMapArrives ==
    /\ configMapEvent
    /\ configMapEvent' = FALSE
    /\ queued' = (queued \/ seen.spec.env = "configMap")
    /\ UNCHANGED <<crVars, objVars, configMap, gatewayAPI, watched, pc, loc, disturbances>>

-----------------------------------------------------------------------------
(* Everything around the controller.                                         *)

EditSpec ==
    /\ Disturb
    /\ \E e \in Edits : e[1] = spec /\ spec' = e[2]
    /\ gen' = gen + 1
    /\ seenFresh' = FALSE
    /\ UNCHANGED <<status, seen, objVars, envVars, queued, pc, loc>>

\* Somebody deletes or changes a managed object, or takes the name or gives it up.
Interfere(k) ==
    /\ Disturb
    /\ IF objs[k] = None
       THEN (k = "route" => gatewayAPI) /\ Store(k, Foreign("other"))
       ELSE Store(k, None) \/ (Ours(objs[k]) /\ Store(k, [objs[k] EXCEPT !.as = None]))
    /\ loc' = [loc EXCEPT !.sure = loc.sure /\ k \notin {"ingress", "route"}]
    /\ UNCHANGED <<crVars, envVars, queued, pc>>

\* The Deployment's replicas become ready, or cease to be.
ReplicasChange ==
    /\ Disturb
    /\ Ours(objs["deployment"])
    /\ Store("deployment", [objs["deployment"] EXCEPT !.up = ~objs["deployment"].up])
    /\ UNCHANGED <<crVars, envVars, queued, pc, loc>>

EditConfigMap ==
    /\ Disturb
    /\ configMap' = ~configMap
    /\ configMapEvent' = TRUE
    /\ UNCHANGED <<crVars, objVars, gatewayAPI, watched, queued, pc, loc>>

InstallGatewayAPI ==
    /\ Disturb
    /\ ~gatewayAPI
    /\ gatewayAPI' = TRUE
    /\ loc' = [loc EXCEPT !.sure = FALSE]
    /\ UNCHANGED <<crVars, objVars, configMap, configMapEvent, watched, queued, pc>>

\* Other parts of the reconcile ask for another one, other owned objects change.
OtherWakeUp ==
    /\ ~queued
    /\ queued' = TRUE
    /\ UNCHANGED <<crVars, objVars, envVars, pc, loc, disturbances>>

\* A new process lists everything, and looks again for the Gateway API.
Crash ==
    /\ Disturb
    /\ Fail
    /\ seen' = CR
    /\ seenFresh' = TRUE
    /\ cached' = objs
    /\ stale' = [k \in Kinds |-> FALSE]
    /\ events' = [k \in Kinds |-> FALSE]
    /\ configMapEvent' = FALSE
    /\ watched' = gatewayAPI
    /\ UNCHANGED <<spec, gen, status, objs, configMap, gatewayAPI>>

-----------------------------------------------------------------------------
(* The specification.                                                        *)

\* Others may already use the name for an object, controlled by them or by nobody.
Init ==
    /\ spec = InitSpec
    /\ gen = 1
    /\ status = NoStatus
    /\ seen = CR
    /\ seenFresh = TRUE
    /\ \/ objs = [k \in Kinds |-> None]
       \/ \E q \in Squatters :
             objs = [k \in Kinds |-> IF k = q[1] THEN Foreign(q[2]) ELSE None]
    /\ cached = objs
    /\ stale = [k \in Kinds |-> FALSE]
    /\ events = [k \in Kinds |-> FALSE]
    /\ configMap = FALSE
    /\ configMapEvent = FALSE
    /\ gatewayAPI \in BOOLEAN
    /\ objs["route"] # None => gatewayAPI
    /\ watched = gatewayAPI
    /\ queued = TRUE
    /\ pc = "idle"
    /\ loc = NoLocal
    /\ disturbances = 0
    /\ lag \in BOOLEAN

Controller ==
    \/ StartReconcile
    \/ ReadEnv
    \/ ReconcileDeployment
    \/ ReconcileService
    \/ ReconcileExposure
    \/ DropIngress
    \/ DropRoute
    \/ WriteStatus
    \/ StatusFails

Sync ==
    \/ SyncObject
    \/ \E k \in Kinds : SyncKind(k)
    \/ ConfigMapArrives

Environment ==
    \/ EditSpec
    \/ \E k \in Kinds : Interfere(k)
    \/ ReplicasChange
    \/ EditConfigMap
    \/ InstallGatewayAPI
    \/ OtherWakeUp
    \/ Crash

\* Caches that do not lag behind show a change before anything else happens.
Synced == seenFresh /\ (\A k \in Kinds : ~stale[k]) /\ ~configMapEvent

Acts == (lag \/ Synced) /\ Controller /\ UNCHANGED lag

Delivers == Sync /\ UNCHANGED lag

Next == Acts \/ Delivers \/ ((lag \/ Synced) /\ Environment /\ UNCHANGED lag)

Spec == Init /\ [][Next]_vars

\* The worker takes what is queued, requeue delays pass, informers deliver.
FairSpec == Spec /\ WF_vars(Acts) /\ WF_vars(Delivers)

-----------------------------------------------------------------------------
(* Properties.                                                               *)

\* Everything is as the spec asks: the pods get the access URL the spec and the
\* ConfigMap call for, the Service answers it and the URL in the status, and exactly
\* the exposure asked for is in place and leads to an HTTP port of the Service.  (An
\* HTTPRoute that nobody watches may stay behind.)
Right ==
    LET defined == spec.env = "configMap" /\ configMap
        ports == objs["service"].as
        leadsToService(k) == /\ Ours(objs[k]) /\ objs[k].as # None
                             /\ TakesHTTP(ports, objs[k].as.backend)
    IN  /\ Matches(objs["deployment"], [url |-> AccessURL(spec, defined), tls |-> spec.tls])
        /\ Ours(objs["service"]) /\ ports # None
        /\ Answers(ports, ClusterURL(spec))
        /\ status = [gen |-> gen, url |-> ClusterURL(spec), up |-> objs["deployment"].up]
        /\ IF spec.expose = "ingress" THEN leadsToService("ingress") ELSE ~Ours(objs["ingress"])
        /\ IF spec.expose = "gateway" THEN leadsToService("route")
                                      ELSE watched => ~Ours(objs["route"])

\* Nothing is left to happen by itself.
Quiet == ~queued /\ pc = "idle" /\ Synced

\* No wake-up is lost: when no reconcile is due and no event is on its way, everything
\* is as the spec asks, whatever was read from caches that lagged behind, from a
\* ConfigMap that changed meanwhile, or merged into an older status.
QuietMeansRight == Quiet => Right

\* The invariant behind it, NoGap and OthersLeftAlone.  The caches: a copy differs from
\* the object only until an event arrives, and if one of the two is ours the event counts.
Copies ==
    /\ seenFresh => seen = CR
    /\ \A k \in Kinds :
          /\ ~stale[k] => cached[k] = objs[k]
          /\ events[k] => stale[k]
          /\ ~events[k] /\ (Ours(objs[k]) \/ Ours(cached[k])) => cached[k] = objs[k]

\* A switch of exposure: the new object is in place before the old one goes.
Switch ==
    /\ loc.sure /\ pc \in {"env", "deployment", "service", "expose"} => ~stale["ingress"] /\ ~stale["route"]
    /\ pc = "dropIngress" => loc.spec.expose # "ingress"
    /\ pc = "dropRoute" => loc.spec.expose # "gateway"
    /\ /\ pc \in {"dropIngress", "dropRoute"} /\ loc.sure /\ loc.spec.expose # "none"
       /\ loc.spec.expose = "gateway" => gatewayAPI
       => Ours(objs[Target(loc.spec)])

\* Object k is as a reconcile for s wants it, or an event about it is on its way.  The
\* requeue of a gateway watches over its HTTPRoute.
AsAsked(k, s, defined) ==
    \/ events[k]
    \/ k = "route" /\ (~watched \/ s.expose = "gateway")
    \/ IF k \in {"deployment", "service"} \/ (k = "ingress" /\ s.expose = "ingress")
       THEN Matches(objs[k], Desired(k, s, defined))
       ELSE ~Ours(objs[k])

\* The kinds that the reconcile in flight is done with.
DoneWith(k) ==
    CASE k = "deployment" -> pc \in {"service", "expose", "dropIngress", "dropRoute", "status"}
      [] k = "service" -> pc \in {"expose", "dropIngress", "dropRoute", "status"}
      [] k = "ingress" -> pc \in {"dropRoute", "status"}
      [] OTHER -> pc = "status"

Defined(s) == s.inject /\ s.env = "configMap" /\ configMap

\* A reconcile in flight that no other is to follow works for the cached object, and
\* what it has read and written still holds, or an event is on its way.
InFlight ==
    ~queued /\ pc # "idle" =>
        /\ loc.spec = seen.spec /\ loc.base = seen.status
        /\ loc.next.gen = seen.gen /\ loc.next.url = ClusterURL(seen.spec)
        /\ loc.defined => seen.spec.inject /\ seen.spec.env = "configMap"
        /\ pc # "env" => configMapEvent \/ loc.defined = Defined(seen.spec)
        /\ pc \notin {"env", "deployment"} => events["deployment"] \/ loc.next.up = objs["deployment"].up
        /\ pc \in {"dropIngress", "dropRoute", "status"} => loc.again = (seen.spec.expose = "gateway")
        /\ \A k \in Kinds : DoneWith(k) => AsAsked(k, seen.spec, loc.defined)

\* Between reconciles, if none is due, all is as the cached object asks, or an event is
\* on its way.
AtRest ==
    ~queued /\ pc = "idle" =>
        /\ seen.spec.expose # "gateway"
        /\ events["deployment"] \/ Ours(objs["deployment"])
        /\ \/ ~seenFresh \/ events["deployment"]
           \/ status = [gen |-> gen, url |-> ClusterURL(spec), up |-> objs["deployment"].up]
        /\ \A k \in Kinds : \/ k = "deployment" /\ configMapEvent /\ seen.spec.env = "configMap"
                            \/ AsAsked(k, seen.spec, Defined(seen.spec))

ExposureInv == TypeOK /\ Copies /\ Switch /\ InFlight /\ AtRest

\* Nothing stands in the way: the spec can be carried out, nobody else controls an
\* object of the name, and a gateway has its API.
Possible ==
    /\ spec.expose # "none" => spec.host
    /\ ~(spec.inject /\ spec.env = "twice")
    /\ \A k \in {"deployment", "service"} \cup (IF spec.expose = "none" THEN {} ELSE {Target(spec)}) :
          objs[k] # None => objs[k].owner # "other"
    /\ spec.expose = "gateway" => gatewayAPI

\* Once disturbances stop, what can be carried out is, and stays so.
ExposureSettles == <>[](Possible => Right)

\* A change between Ingress and gateway leaves no gap: a reconcile takes the one away
\* only when the other is in place, unless somebody interferes or the Gateway API is
\* missing.
NoGap ==
    [][/\ loc.sure
       /\ loc.spec.expose = "gateway" => gatewayAPI
       /\ Controller
       => \A k \in {"ingress", "route"} :
             Ours(objs[k]) /\ objs'[k] = None /\ loc.spec.expose # "none"
             => Ours(objs[Target(loc.spec)])]_vars

\* Objects that others control are left alone, if the cache shows them.
OthersLeftAlone ==
    [][Controller
       => \A k \in Kinds : objs[k] # None /\ objs[k].owner = "other" /\ ~stale[k]
                           => objs'[k] = objs[k]]_vars

=============================================================================
