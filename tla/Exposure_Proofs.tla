-------------------------- MODULE Exposure_Proofs ---------------------------
(***************************************************************************)
(* Theorems about ServicePorts, for every port and with or without TLS, and   *)
(* about Exposure, for every set of edits and any number of disturbances:    *)
(* objects of others are kept, switching leaves no gap, no wake-up is lost.  *)
(***************************************************************************)
EXTENDS Exposure, TLAPS

-----------------------------------------------------------------------------
(* Ports.                                                                    *)

\* The three shapes of the Service.
LEMMA ServiceShapes ==
    ASSUME NEW s
    PROVE  /\ ~s.tls => ServicePortsOf(s) = {ServicePort("http", PortOf(s), TargetPort)}
           /\ s.tls /\ PortOf(s) = TLSPort =>
                 ServicePortsOf(s) = {ServicePort("https", TLSPort, TLSTargetPort),
                                      ServicePort("http", DefaultPort, TargetPort)}
           /\ s.tls /\ PortOf(s) # TLSPort =>
                 ServicePortsOf(s) = {ServicePort("http", PortOf(s), TargetPort),
                                      ServicePort("https", TLSPort, TLSTargetPort)}
BY Zenon DEF ServicePortsOf

\* Ingress, HTTPRoute and the operator's own calls always reach a port of the
\* Service behind which coderd speaks plain HTTP, also where the user gives the
\* HTTPS port as the service port.
THEOREM BackendTakesHTTP ==
    ASSUME NEW s
    PROVE  TakesHTTP(ServicePortsOf(s), BackendPort(s))
BY ServiceShapes, Zenon DEF TakesHTTP, BackendPort

\* The URL published in the status, which is also the default access URL, names a
\* port of the Service that speaks the URL's scheme.
THEOREM ClusterURLAnswered ==
    ASSUME NEW s
    PROVE  Answers(ServicePortsOf(s), ClusterURL(s))
<1>1. CASE ~s.tls
  <2>1. ServicePort("http", PortOf(s), TargetPort) \in ServicePortsOf(s)
    BY <1>1, ServiceShapes, Zenon
  <2> QED
    BY <1>1, <2>1 DEF Answers, ClusterURL, ServicePort
<1>2. CASE s.tls
  <2>1. ServicePort("https", TLSPort, TLSTargetPort) \in ServicePortsOf(s)
    BY <1>2, ServiceShapes, Zenon
  <2> QED
    BY <1>2, <2>1 DEF Answers, ClusterURL, ServicePort
<1> QED
  BY <1>1, <1>2

\* The Service is one the API server accepts: no two of its ports share a name or a
\* number.
THEOREM ServicePortsDistinct ==
    ASSUME NEW s,
           NEW p \in ServicePortsOf(s), NEW q \in ServicePortsOf(s),
           p.name = q.name \/ p.port = q.port
    PROVE  p = q
<1> DEFINE http(n) == ServicePort("http", n, TargetPort)
           https == ServicePort("https", TLSPort, TLSTargetPort)
<1>1. CASE ~s.tls
  <2>1. ServicePortsOf(s) = {http(PortOf(s))}
    BY <1>1, ServiceShapes, Zenon
  <2> HIDE DEF http
  <2> QED
    BY <2>1
<1>2. ASSUME NEW n, n # TLSPort, ServicePortsOf(s) = {http(n), https}
      PROVE  p = q
  <2>1. /\ http(n).name = "http" /\ http(n).port = n
        /\ https.name = "https" /\ https.port = TLSPort
    BY DEF ServicePort
  <2> HIDE DEF http, https
  <2>2. "http" # "https"
    OBVIOUS
  <2>3. p \in {http(n), https} /\ q \in {http(n), https}
    BY <1>2
  <2> QED
    BY <1>2, <2>1, <2>2, <2>3
<1>3. DefaultPort # TLSPort
  BY DEF DefaultPort, TLSPort
<1>4. CASE s.tls /\ PortOf(s) = TLSPort
  BY <1>2, <1>3, <1>4, ServiceShapes, Zenon
<1>5. CASE s.tls /\ PortOf(s) # TLSPort
  BY <1>2, <1>5, ServiceShapes, Zenon
<1> QED
  BY <1>1, <1>4, <1>5

-----------------------------------------------------------------------------
(* Types.                                                                    *)

\* URLs and contents have their types.
LEMMA PortsType == DefaultPort \in Ports /\ TLSPort \in Ports
<1>1. MaxPort \in Nat /\ MaxPort > 443
  BY DEF MaxPort
<1> QED
  BY <1>1 DEF Ports, DefaultPort, TLSPort

LEMMA ClusterURLType ==
    ASSUME NEW s \in Specs
    PROVE  PortOf(s) \in Ports /\ BackendPort(s) \in Ports /\ ClusterURL(s) \in URLs
<1>1. PortOf(s) \in Ports /\ DefaultPort \in Ports /\ TLSPort \in Ports
  BY PortsType DEF PortOf, Specs
<1> QED
  BY <1>1 DEF BackendPort, ClusterURL, URLs

\* The Service has ports of the kind the API server knows.
LEMMA ServicePortsType ==
    ASSUME NEW s \in Specs
    PROVE  ServicePortsOf(s) \in SUBSET [name : {"http", "https"}, port : Ports,
                                         target : {TargetPort, TLSTargetPort}]
<1>1. PortOf(s) \in Ports /\ DefaultPort \in Ports /\ TLSPort \in Ports
  BY ClusterURLType, PortsType
<1>2. ASSUME NEW n \in {"http", "https"}, NEW p \in Ports, NEW t \in {TargetPort, TLSTargetPort}
      PROVE  ServicePort(n, p, t) \in [name : {"http", "https"}, port : Ports,
                                       target : {TargetPort, TLSTargetPort}]
  BY DEF ServicePort
<1>3. s.tls \in BOOLEAN
  BY DEF Specs
<1> HIDE DEF ServicePort
<1> QED
  BY <1>1, <1>2, <1>3, ServiceShapes

\* What an object is to say is something an object of its kind can say.
LEMMA DesiredType ==
    ASSUME NEW k \in Kinds, NEW s \in Specs, NEW d \in BOOLEAN
    PROVE  Desired(k, s, d) \in ContentOf(k)
<1>1. AccessURL(s, d) \in {None} \cup URLs /\ s.tls \in BOOLEAN
  BY ClusterURLType DEF AccessURL, Specs
<1>2. CASE k = "deployment"
  BY <1>1, <1>2 DEF Desired, ContentOf
<1>3. CASE k = "service"
  BY <1>3, ServicePortsType DEF Desired, ContentOf
<1>4. CASE k \in {"ingress", "route"}
  BY Zenon, <1>4, ClusterURLType DEF Desired, ContentOf
<1> QED
  BY <1>2, <1>3, <1>4 DEF Kinds

\* The part of the type invariant that is about managed objects.
ObjectsOK ==
    /\ OnePerKind(objs) /\ OnePerKind(cached)
    /\ stale \in [Kinds -> BOOLEAN]
    /\ events \in [Kinds -> BOOLEAN]

\* Storing an object keeps it.
LEMMA StoreType ==
    ASSUME ObjectsOK, NEW k \in Kinds, NEW o \in Objects(k), Store(k, o)
    PROVE  ObjectsOK'
<1>1. OnePerKind(objs') /\ OnePerKind(cached')
  BY DEF ObjectsOK, Store, OnePerKind
<1>2. (events[k] \/ Ours(objs[k]) \/ Ours(o)) \in BOOLEAN
  BY DEF ObjectsOK
<1>3. stale' \in [Kinds -> BOOLEAN] /\ events' \in [Kinds -> BOOLEAN]
  BY <1>2 DEF ObjectsOK, Store
<1> QED
  BY <1>1, <1>3 DEF ObjectsOK

\* So does writing one for the control plane.
LEMMA PutType ==
    ASSUME ObjectsOK, NEW k \in Kinds, NEW c \in ContentOf(k), Put(k, c)
    PROVE  ObjectsOK'
<1> DEFINE o == [owner |-> "us", as |-> c, up |-> objs[k] # None /\ objs[k].up]
<1>1. (objs[k] # None /\ objs[k].up) \in BOOLEAN
  BY DEF ObjectsOK, OnePerKind, Objects
<1>2. o \in Objects(k)
  BY <1>1 DEF Objects
<1>3. Store(k, o)
  BY DEF Put
<1> HIDE DEF o
<1> QED
  BY <1>2, <1>3, StoreType

\* And so does leaving them alone.
LEMMA ObjectsKept ==
    ASSUME ObjectsOK, UNCHANGED objVars
    PROVE  ObjectsOK'
BY DEF ObjectsOK, objVars, OnePerKind

\* CreateOrUpdate and the deletions keep the types, whether they succeed or fail.
LEMMA WriteType ==
    ASSUME TypeOK, NEW k \in Kinds, NEW c \in ContentOf(k),
           CreateOrUpdate(k, c) \/ CreateOrUpdateFails(k, c)
    PROVE  ObjectsOK' /\ disturbances' \in 0 .. MaxDisturbances[lag]
<1>1. ObjectsOK
  BY DEF TypeOK, ObjectsOK
<1>2. UNCHANGED objVars \/ Put(k, c)
  BY DEF CreateOrUpdate, CreateOrUpdateFails
<1>3. UNCHANGED disturbances \/ Disturb
  BY DEF CreateOrUpdate, CreateOrUpdateFails
<1>4. disturbances' \in 0 .. MaxDisturbances[lag]
  BY <1>3, SpecsAssumption DEF Disturb, TypeOK
<1> QED
  BY <1>1, <1>2, <1>4, PutType, ObjectsKept

LEMMA CleanupType ==
    ASSUME TypeOK, NEW k \in Kinds, Cleanup(k) \/ CleanupFails(k)
    PROVE  ObjectsOK' /\ disturbances' \in 0 .. MaxDisturbances[lag]
<1>1. ObjectsOK
  BY DEF TypeOK, ObjectsOK
<1>2. UNCHANGED objVars \/ Store(k, None)
  BY DEF Cleanup, CleanupFails
<1>3. UNCHANGED disturbances \/ Disturb
  BY DEF Cleanup, CleanupFails
<1>4. disturbances' \in 0 .. MaxDisturbances[lag]
  BY <1>3, SpecsAssumption DEF Disturb, TypeOK
<1>5. None \in Objects(k)
  BY DEF Objects
<1> QED
  BY <1>1, <1>2, <1>4, <1>5, StoreType, ObjectsKept

\* The empty values have their types.
LEMMA NoLocalType == NoStatus \in Statuses /\ NoLocal \in Locals
<1>1. NoStatus \in Statuses
  BY DEF NoStatus, Statuses
<1> QED
  BY <1>1, SpecsAssumption DEF NoLocal, Locals

\* What reconcileStatus leaves in the object is a status.
LEMMA PublishType ==
    ASSUME NEW b \in Statuses, NEW n \in Statuses, NEW l \in Statuses, NEW g
    PROVE  Publish(b, n, l, g) \in Statuses
<1>1. DOMAIN l = {"gen", "url", "up"}
  BY DEF Statuses
<1>2. MergeStatusDelta(b, n, l) =
        [gen |-> IF b.gen # n.gen THEN n.gen ELSE l.gen,
         url |-> IF b.url # n.url THEN n.url ELSE l.url,
         up  |-> IF b.up # n.up THEN n.up ELSE l.up]
  BY <1>1 DEF MergeStatusDelta, Statuses
<1>3. /\ (IF b.gen # n.gen THEN n.gen ELSE l.gen) \in Nat
      /\ (IF b.url # n.url THEN n.url ELSE l.url) \in {None} \cup URLs
      /\ (IF b.up # n.up THEN n.up ELSE l.up) \in BOOLEAN
  BY DEF Statuses
<1>4. PICK g1 \in Nat, r1 \in {None} \cup URLs, y1 \in BOOLEAN :
         MergeStatusDelta(b, n, l) = [gen |-> g1, url |-> r1, up |-> y1]
  BY <1>2, <1>3
<1>5. MergeStatusDelta(b, n, l) \in Statuses
  BY <1>4 DEF Statuses
<1> QED
  BY <1>5 DEF Publish

\* A failed reconcile leaves nothing behind.
LEMMA FailType ==
    ASSUME Fail
    PROVE  pc' \in Steps /\ loc' \in Locals /\ queued' \in BOOLEAN
BY NoLocalType DEF Fail, Steps

\* Types hold initially.
LEMMA InitType == Init => TypeOK
<1> SUFFICES ASSUME Init PROVE TypeOK
  OBVIOUS
<1>1. seen \in [spec : Specs, gen : Nat, status : Statuses]
  BY NoLocalType, SpecsAssumption DEF Init, CR
<1>2. \A k \in Kinds : /\ None \in Objects(k)
                       /\ Foreign("other") \in Objects(k)
                       /\ Foreign("free") \in Objects(k)
  BY DEF Objects, Foreign
<1>3. OnePerKind(objs)
  <2>1. CASE objs = [k \in Kinds |-> None]
    BY <2>1, <1>2 DEF OnePerKind
  <2>2. CASE \E q \in Squatters :
                objs = [k \in Kinds |-> IF k = q[1] THEN Foreign(q[2]) ELSE None]
    <3>1. PICK q \in Squatters :
                objs = [k \in Kinds |-> IF k = q[1] THEN Foreign(q[2]) ELSE None]
      BY <2>2
    <3>2. q[2] \in {"other", "free"}
      BY SpecsAssumption
    <3> HIDE DEF Foreign
    <3> QED
      BY <3>1, <3>2, <1>2 DEF OnePerKind
  <2> QED
    BY <2>1, <2>2 DEF Init
<1>4. OnePerKind(cached)
  BY <1>3 DEF Init
<1>5. disturbances \in 0 .. MaxDisturbances[lag]
  BY SpecsAssumption DEF Init
<1> QED
  BY Zenon, <1>1, <1>3, <1>4, <1>5, NoLocalType, SpecsAssumption DEF Init, TypeOK, Steps

\* What every step of TypeStep has to show.
LEMMA TypeParts ==
    ASSUME spec' \in Specs, gen' \in Nat, status' \in Statuses,
           seen' \in [spec : Specs, gen : Nat, status : Statuses], seenFresh' \in BOOLEAN,
           ObjectsOK',
           configMap' \in BOOLEAN, configMapEvent' \in BOOLEAN,
           gatewayAPI' \in BOOLEAN, watched' \in BOOLEAN,
           queued' \in BOOLEAN, pc' \in Steps, loc' \in Locals,
           disturbances' \in 0 .. MaxDisturbances[lag], lag' = lag, lag \in BOOLEAN
    PROVE  TypeOK'
BY DEF TypeOK, ObjectsOK

\* Every step keeps the types.
LEMMA TypeStep == TypeOK /\ [Next]_vars => TypeOK'
<1> SUFFICES ASSUME TypeOK, [Next]_vars PROVE TypeOK'
  OBVIOUS
<1>0. lag' = lag /\ lag \in BOOLEAN /\ ObjectsOK
  BY DEF TypeOK, Next, Acts, Delivers, vars, ObjectsOK
<1>k. {"deployment", "service", "ingress", "route"} = Kinds
  BY DEF Kinds
<1>d. ASSUME UNCHANGED disturbances \/ Disturb
      PROVE  disturbances' \in 0 .. MaxDisturbances[lag]
  BY <1>d, SpecsAssumption DEF Disturb, TypeOK
<1> USE <1>0, TypeParts
<1>1. CASE StartReconcile
  <2>1. [seen.status EXCEPT !.gen = seen.gen, !.url = ClusterURL(seen.spec)] \in Statuses
    <3>1. ClusterURL(seen.spec) \in URLs
      BY ClusterURLType DEF TypeOK
    <3> QED
      BY Zenon, <3>1 DEF TypeOK, Statuses
  <2>2. loc' \in Locals
    BY <1>1, <2>1 DEF StartReconcile, TypeOK, Locals
  <2>3. ObjectsOK'
    BY <1>1, ObjectsKept DEF StartReconcile
  <2> QED
    BY Zenon, <1>1, <2>2, <2>3 DEF StartReconcile, TypeOK, Steps, crVars, envVars
<1>2. CASE ReadEnv
  <2>1. ObjectsOK' /\ disturbances' \in 0 .. MaxDisturbances[lag]
    BY <1>2, <1>d, ObjectsKept DEF ReadEnv
  <2>2. pc' \in Steps /\ loc' \in Locals /\ queued' \in BOOLEAN
    <3>1. CASE loc' = [loc EXCEPT !.defined = loc.spec.inject /\ loc.spec.env = "configMap" /\ configMap]
               /\ pc' = "deployment" /\ UNCHANGED queued
      <4>1. (loc.spec.inject /\ loc.spec.env = "configMap" /\ configMap) \in BOOLEAN
        OBVIOUS
      <4> QED
        BY Zenon, <3>1, <4>1 DEF TypeOK, Locals, Steps
    <3>2. CASE Fail
      BY <3>2, FailType
    <3> QED
      BY <1>2, <3>1, <3>2 DEF ReadEnv
  <2> QED
    BY <1>2, <2>1, <2>2 DEF ReadEnv, TypeOK, crVars, envVars
<1>3. CASE ReconcileDeployment
  <2> DEFINE content == Desired("deployment", loc.spec, loc.defined)
             up == IF Matches(cached["deployment"], content)
                   THEN cached["deployment"].up
                   ELSE objs["deployment"] # None /\ objs["deployment"].up
  <2>1. content \in ContentOf("deployment")
    BY DesiredType DEF TypeOK, Locals, Kinds
  <2>2. up \in BOOLEAN
    <3>1. /\ cached["deployment"] # None => cached["deployment"].up \in BOOLEAN
          /\ objs["deployment"] # None => objs["deployment"].up \in BOOLEAN
      BY DEF ObjectsOK, OnePerKind, Objects, Kinds
    <3> HIDE DEF content
    <3> QED
      BY Zenon, <3>1 DEF Matches, Ours
  <2>3. \/ /\ CreateOrUpdate("deployment", content)
           /\ loc' = [loc EXCEPT !.next.up = up] /\ pc' = "service" /\ UNCHANGED queued
        \/ Fail /\ UNCHANGED <<objVars, disturbances>>
        \/ CreateOrUpdateFails("deployment", content)
    BY <1>3 DEF ReconcileDeployment
  <2>4. UNCHANGED <<crVars, envVars>>
    BY <1>3 DEF ReconcileDeployment
  <2> HIDE DEF content, up
  <2>5. ObjectsOK' /\ disturbances' \in 0 .. MaxDisturbances[lag]
    BY <2>1, <2>3, <1>d, <1>k, WriteType, ObjectsKept
  <2>6. pc' \in Steps /\ loc' \in Locals /\ queued' \in BOOLEAN
    <3>1. CASE loc' = [loc EXCEPT !.next.up = up] /\ pc' = "service" /\ UNCHANGED queued
      <4>1. [loc.next EXCEPT !.up = up] \in Statuses
        BY <2>2 DEF TypeOK, Locals, Statuses
      <4>2. loc' = [loc EXCEPT !.next = [loc.next EXCEPT !.up = up]]
        BY <3>1 DEF TypeOK, Locals
      <4> QED
        BY <3>1, <4>1, <4>2 DEF TypeOK, Locals, Steps
    <3>2. CASE Fail
      BY <3>2, FailType
    <3> QED
      BY <2>3, <3>1, <3>2 DEF CreateOrUpdateFails
  <2> QED
    BY <2>4, <2>5, <2>6 DEF TypeOK, crVars, envVars
<1>4. CASE ReconcileService
  <2> DEFINE content == Desired("service", loc.spec, loc.defined)
  <2>1. content \in ContentOf("service")
    BY DesiredType DEF TypeOK, Locals, Kinds
  <2>2. \/ CreateOrUpdate("service", content) /\ pc' = "expose" /\ UNCHANGED <<queued, loc>>
        \/ CreateOrUpdateFails("service", content)
    BY <1>4 DEF ReconcileService
  <2>3. UNCHANGED <<crVars, envVars>>
    BY <1>4 DEF ReconcileService
  <2> HIDE DEF content
  <2>4. ObjectsOK' /\ disturbances' \in 0 .. MaxDisturbances[lag]
    BY <2>1, <2>2, <1>k, WriteType
  <2>5. pc' \in Steps /\ loc' \in Locals /\ queued' \in BOOLEAN
    BY <2>2, FailType DEF CreateOrUpdateFails, TypeOK, Steps
  <2> QED
    BY <2>3, <2>4, <2>5 DEF TypeOK, crVars, envVars
<1>5. CASE ReconcileExposure
  <2> DEFINE k == Target(loc.spec)
             content == Desired(k, loc.spec, loc.defined)
  <2>1. k \in Kinds
    BY DEF Target, Kinds
  <2>2. content \in ContentOf(k)
    BY <2>1, DesiredType DEF TypeOK, Locals
  <2>3. \/ /\ UNCHANGED <<objVars, disturbances>> \/ CreateOrUpdate(k, content)
           /\ loc' = [loc EXCEPT !.again = loc.spec.expose = "gateway"]
           /\ pc' = AfterExpose(loc.spec)
           /\ UNCHANGED queued
        \/ Fail /\ UNCHANGED <<objVars, disturbances>>
        \/ CreateOrUpdateFails(k, content)
    BY <1>5 DEF ReconcileExposure, ReconcileIngress, ReconcileHTTPRoute, Exposed, Target
  <2>4. UNCHANGED <<crVars, envVars>>
    BY <1>5 DEF ReconcileExposure
  <2> HIDE DEF content, k
  <2>5. ObjectsOK' /\ disturbances' \in 0 .. MaxDisturbances[lag]
    BY <2>1, <2>2, <2>3, <1>d, WriteType, ObjectsKept
  <2>6. pc' \in Steps /\ loc' \in Locals /\ queued' \in BOOLEAN
    <3>1. CASE loc' = [loc EXCEPT !.again = loc.spec.expose = "gateway"]
               /\ pc' = AfterExpose(loc.spec) /\ UNCHANGED queued
      <4>1. (loc.spec.expose = "gateway") \in BOOLEAN
        OBVIOUS
      <4> QED
        BY Zenon, <3>1, <4>1 DEF TypeOK, Locals, Steps, AfterExpose
    <3>2. CASE Fail
      BY <3>2, FailType
    <3> QED
      BY <2>3, <3>1, <3>2 DEF CreateOrUpdateFails
  <2> QED
    BY <2>4, <2>5, <2>6 DEF TypeOK, crVars, envVars
<1>6. CASE DropIngress
  <2>1. ObjectsOK' /\ disturbances' \in 0 .. MaxDisturbances[lag]
    BY <1>6, <1>k, CleanupType DEF DropIngress
  <2>2. pc' \in Steps /\ loc' \in Locals /\ queued' \in BOOLEAN
    BY <1>6, FailType DEF DropIngress, CleanupFails, TypeOK, Steps
  <2> QED
    BY <1>6, <2>1, <2>2 DEF DropIngress, TypeOK, crVars, envVars
<1>7. CASE DropRoute
  <2>1. ObjectsOK' /\ disturbances' \in 0 .. MaxDisturbances[lag]
    BY <1>7, <1>k, CleanupType DEF DropRoute
  <2>2. pc' \in Steps /\ loc' \in Locals /\ queued' \in BOOLEAN
    BY <1>7, FailType DEF DropRoute, CleanupFails, TypeOK, Steps
  <2> QED
    BY <1>7, <2>1, <2>2 DEF DropRoute, TypeOK, crVars, envVars
<1>8. CASE WriteStatus
  <2>1. status' \in Statuses
    BY <1>8, PublishType DEF WriteStatus, TypeOK, Locals
  <2>2. ObjectsOK' /\ disturbances' \in 0 .. MaxDisturbances[lag]
    BY <1>8, <1>d, ObjectsKept DEF WriteStatus
  <2>3. pc' \in Steps /\ loc' \in Locals /\ queued' \in BOOLEAN
    BY <1>8, FailType, NoLocalType DEF WriteStatus, TypeOK, Locals, Steps
  <2>4. seenFresh' \in BOOLEAN
    BY <1>8 DEF WriteStatus, TypeOK
  <2> QED
    BY <1>8, <2>1, <2>2, <2>3, <2>4 DEF WriteStatus, TypeOK, envVars
<1>9. CASE StatusFails
  <2>1. ObjectsOK' /\ disturbances' \in 0 .. MaxDisturbances[lag]
    BY <1>9, <1>d, ObjectsKept DEF StatusFails
  <2> QED
    BY <1>9, <2>1, FailType DEF StatusFails, TypeOK, crVars, envVars
<1>10. CASE SyncObject
  <2>1. ObjectsOK' /\ CR \in [spec : Specs, gen : Nat, status : Statuses]
    BY <1>10, ObjectsKept DEF SyncObject, CR, TypeOK
  <2> QED
    BY <1>10, <2>1 DEF SyncObject, TypeOK, envVars
<1>11. ASSUME NEW k \in Kinds, SyncKind(k)
       PROVE  TypeOK'
  <2>1. /\ UNCHANGED objs /\ cached' = [cached EXCEPT ![k] = objs[k]]
        /\ stale' = [stale EXCEPT ![k] = FALSE] /\ events' = [events EXCEPT ![k] = FALSE]
    BY <1>11 DEF SyncKind
  <2>2. ObjectsOK'
    BY <2>1 DEF ObjectsOK, OnePerKind
  <2>3. queued' \in BOOLEAN
    BY <1>11 DEF SyncKind
  <2> QED
    BY <1>11, <2>2, <2>3 DEF SyncKind, TypeOK, crVars, envVars
<1>12. CASE ConfigMapArrives
  <2>1. ObjectsOK' /\ queued' \in BOOLEAN
    BY <1>12, ObjectsKept DEF ConfigMapArrives
  <2> QED
    BY Zenon, <1>12, <2>1 DEF ConfigMapArrives, TypeOK, crVars
<1>13. CASE EditSpec
  <2>1. ObjectsOK' /\ disturbances' \in 0 .. MaxDisturbances[lag]
    BY <1>13, <1>d, ObjectsKept DEF EditSpec
  <2>2. spec' \in Specs
    BY <1>13, SpecsAssumption DEF EditSpec
  <2>3. gen' \in Nat /\ seenFresh' \in BOOLEAN
    <3>1. gen \in Nat
      BY Zenon DEF TypeOK
    <3>2. gen' = gen + 1 /\ seenFresh' = FALSE
      BY <1>13, Zenon DEF EditSpec
    <3>3. gen + 1 \in Nat
      BY <3>1, SMT
    <3> QED
      BY <3>2, <3>3, Zenon
  <2>4. UNCHANGED <<status, seen, envVars, queued, pc, loc>>
    BY <1>13 DEF EditSpec
  <2>5. /\ status' \in Statuses
        /\ seen' \in [spec : Specs, gen : Nat, status : Statuses]
        /\ configMap' \in BOOLEAN /\ configMapEvent' \in BOOLEAN
        /\ gatewayAPI' \in BOOLEAN /\ watched' \in BOOLEAN
        /\ queued' \in BOOLEAN /\ pc' \in Steps /\ loc' \in Locals
    BY <2>4 DEF TypeOK, envVars
  <2> QED
    BY <2>1, <2>2, <2>3, <2>5
<1>14. ASSUME NEW k \in Kinds, Interfere(k)
       PROVE  TypeOK'
  <2>1. PICK o \in Objects(k) : Store(k, o)
    <3>1. /\ None \in Objects(k)
          /\ Foreign("other") \in Objects(k)
          /\ objs[k] # None => [objs[k] EXCEPT !.as = None] \in Objects(k)
      BY DEF Objects, Foreign, ObjectsOK, OnePerKind
    <3>2. \/ Store(k, None)
          \/ Store(k, Foreign("other"))
          \/ objs[k] # None /\ Store(k, [objs[k] EXCEPT !.as = None])
      BY <1>14 DEF Interfere
    <3> QED
      BY <3>1, <3>2
  <2>2. ObjectsOK' /\ disturbances' \in 0 .. MaxDisturbances[lag]
    BY <1>14, <1>d, <2>1, StoreType DEF Interfere
  <2>3. loc' \in Locals
    <3>1. (loc.sure /\ k \notin {"ingress", "route"}) \in BOOLEAN
      OBVIOUS
    <3> QED
      BY Zenon, <1>14, <3>1 DEF Interfere, TypeOK, Locals
  <2> QED
    BY <1>14, <2>2, <2>3 DEF Interfere, TypeOK, crVars, envVars
<1>15. CASE ReplicasChange
  <2>1. [objs["deployment"] EXCEPT !.up = ~objs["deployment"].up] \in Objects("deployment")
    BY Zenon, <1>15, <1>k DEF ReplicasChange, Ours, Objects, ObjectsOK, OnePerKind
  <2>2. ObjectsOK' /\ disturbances' \in 0 .. MaxDisturbances[lag]
    BY <1>15, <1>k, <1>d, <2>1, StoreType DEF ReplicasChange
  <2> QED
    BY <1>15, <2>2 DEF ReplicasChange, TypeOK, crVars, envVars
<1>16. CASE EditConfigMap
  <2>1. ObjectsOK' /\ disturbances' \in 0 .. MaxDisturbances[lag]
    BY <1>16, <1>d, ObjectsKept DEF EditConfigMap
  <2> QED
    BY <1>16, <2>1 DEF EditConfigMap, TypeOK, crVars
<1>17. CASE InstallGatewayAPI
  <2>1. ObjectsOK' /\ disturbances' \in 0 .. MaxDisturbances[lag]
    BY <1>17, <1>d, ObjectsKept DEF InstallGatewayAPI
  <2>2. loc' \in Locals
    BY Zenon, <1>17 DEF InstallGatewayAPI, TypeOK, Locals
  <2> QED
    BY <1>17, <2>1, <2>2 DEF InstallGatewayAPI, TypeOK, crVars
<1>18. CASE OtherWakeUp
  <2>1. ObjectsOK'
    BY <1>18, ObjectsKept DEF OtherWakeUp
  <2> QED
    BY <1>18, <2>1 DEF OtherWakeUp, TypeOK, crVars, envVars
<1>19. CASE Crash
  <2>1. ObjectsOK' /\ disturbances' \in 0 .. MaxDisturbances[lag]
    BY <1>19, <1>d DEF Crash, ObjectsOK, OnePerKind
  <2>2. CR \in [spec : Specs, gen : Nat, status : Statuses]
    BY DEF CR, TypeOK
  <2> QED
    BY Zenon, <1>19, <2>1, <2>2, FailType DEF Crash, TypeOK
<1>20. CASE UNCHANGED vars
  <2>1. ObjectsOK' /\ disturbances' \in 0 .. MaxDisturbances[lag]
    BY <1>20, <1>d, ObjectsKept DEF vars
  <2> QED
    BY <1>20, <2>1 DEF vars, TypeOK, crVars, envVars
<1> QED
  BY <1>1, <1>2, <1>3, <1>4, <1>5, <1>6, <1>7, <1>8, <1>9, <1>10, <1>11, <1>12, <1>13,
     <1>14, <1>15, <1>16, <1>17, <1>18, <1>19, <1>20
  DEF Next, Acts, Delivers, Controller, Sync, Environment

\* Types are right in every reachable state.
THEOREM TypeCorrect == Spec => []TypeOK
BY InitType, TypeStep, PTL DEF Spec

-----------------------------------------------------------------------------
(* Copies of objects.                                                        *)

Mirrors ==
    \A k \in Kinds :
       /\ ~stale[k] => cached[k] = objs[k]
       /\ events[k] => stale[k]
       /\ ~events[k] /\ (Ours(objs[k]) \/ Ours(cached[k])) => cached[k] = objs[k]

\* Storing one object leaves the others, and the event counts if the object is or was ours.
LEMMA StoreOne ==
    ASSUME ObjectsOK, NEW k \in Kinds, NEW o, Store(k, o)
    PROVE  /\ cached' = cached
           /\ objs'[k] = o /\ stale'[k] = TRUE
           /\ events'[k] = (events[k] \/ Ours(objs[k]) \/ Ours(o))
           /\ \A j \in Kinds : j # k => objs'[j] = objs[j] /\ stale'[j] = stale[j] /\ events'[j] = events[j]
BY DEF ObjectsOK, OnePerKind, Store

LEMMA StoreMirrors ==
    ASSUME ObjectsOK, Mirrors, NEW k \in Kinds, NEW o, Store(k, o)
    PROVE  Mirrors'
<1>1. /\ cached' = cached
      /\ objs'[k] = o /\ stale'[k] = TRUE
      /\ events'[k] = (events[k] \/ Ours(objs[k]) \/ Ours(o))
      /\ \A j \in Kinds : j # k => objs'[j] = objs[j] /\ stale'[j] = stale[j] /\ events'[j] = events[j]
  BY Zenon, StoreOne
<1> SUFFICES ASSUME NEW j \in Kinds
             PROVE  /\ ~stale'[j] => cached'[j] = objs'[j]
                    /\ events'[j] => stale'[j]
                    /\ ~events'[j] /\ (Ours(objs'[j]) \/ Ours(cached'[j])) => cached'[j] = objs'[j]
  BY DEF Mirrors, Ours
<1>2. CASE j # k
  BY Zenon, <1>1, <1>2 DEF Mirrors
<1>3. CASE j = k
  <2>1. ~events'[k] => ~events[k] /\ ~Ours(objs[k]) /\ ~Ours(objs'[k])
    BY Zenon, <1>1
  <2>2. ~events'[k] => ~Ours(cached[k])
    BY <2>1 DEF Mirrors
  <2> QED
    BY <1>1, <1>3, <2>1, <2>2
<1> QED
  BY Zenon, <1>2, <1>3

LEMMA MirrorsKept ==
    ASSUME Mirrors, UNCHANGED objVars
    PROVE  Mirrors'
BY DEF Mirrors, objVars, Ours

\* What the controller writes is an object of ours that says what it wants.
LEMMA PutMatches ==
    ASSUME ObjectsOK, NEW k \in Kinds, NEW c \in ContentOf(k)
    PROVE  LET o == [owner |-> "us", as |-> c, up |-> objs[k] # None /\ objs[k].up]
           IN  Matches(o, c) /\ Ours(o) /\ o.up = (objs[k] # None /\ objs[k].up)
<1> DEFINE o == [owner |-> "us", as |-> c, up |-> objs[k] # None /\ objs[k].up]
<1>1. (objs[k] # None /\ objs[k].up) \in BOOLEAN
  BY DEF ObjectsOK, OnePerKind, Objects
<1>2. o \in [owner : {"us", "other", "free"}, as : {None} \cup ContentOf(k), up : BOOLEAN]
  BY <1>1
<1>3. o # None
  BY Zenon, <1>2, NoneAssumption
<1> QED
  BY Zenon, <1>3 DEF Matches, Ours

\* A CreateOrUpdate that succeeds leaves an object that says what it should, or has
\* heard of a change to come.
LEMMA WriteDone ==
    ASSUME ObjectsOK, Mirrors, NEW k \in Kinds, NEW c \in ContentOf(k), CreateOrUpdate(k, c)
    PROVE  /\ Mirrors'
           /\ \A j \in Kinds : j # k => objs'[j] = objs[j] /\ stale'[j] = stale[j] /\ events'[j] = events[j]
           /\ events'[k] \/ (UNCHANGED objVars /\ Matches(cached[k], c) /\ objs[k] = cached[k])
           /\ ~Matches(cached[k], c) => /\ Matches(objs'[k], c) /\ Ours(objs'[k])
                                        /\ objs'[k].up = (objs[k] # None /\ objs[k].up)
<1> DEFINE o == [owner |-> "us", as |-> c, up |-> objs[k] # None /\ objs[k].up]
<1>1. CASE Matches(cached[k], c)
  <2>1. UNCHANGED objVars
    BY <1>1 DEF CreateOrUpdate
  <2>2. events[k] \/ objs[k] = cached[k]
    BY <1>1 DEF Mirrors, Matches
  <2> QED
    BY Zenon, <1>1, <2>1, <2>2, MirrorsKept DEF objVars
<1>2. CASE ~Matches(cached[k], c)
  <2>1. Store(k, o)
    BY Zenon, <1>2 DEF CreateOrUpdate, Put
  <2>2. Matches(o, c) /\ Ours(o) /\ o.up = (objs[k] # None /\ objs[k].up)
    BY Zenon, PutMatches
  <2> HIDE DEF o
  <2>3. Mirrors'
    BY <2>1, StoreMirrors
  <2>4. /\ objs'[k] = o
        /\ events'[k] = (events[k] \/ Ours(objs[k]) \/ Ours(o))
        /\ \A j \in Kinds : j # k => objs'[j] = objs[j] /\ stale'[j] = stale[j] /\ events'[j] = events[j]
    BY Zenon, <2>1, StoreOne
  <2> QED
    BY Zenon, <1>2, <2>2, <2>3, <2>4
<1> QED
  BY Zenon, <1>1, <1>2

\* One that fails may have been applied.
LEMMA WriteFailsMirrors ==
    ASSUME ObjectsOK, Mirrors, NEW k \in Kinds, NEW c, CreateOrUpdateFails(k, c)
    PROVE  Mirrors'
<1>1. UNCHANGED objVars \/ \E o : Store(k, o)
  BY DEF CreateOrUpdateFails, Put
<1> QED
  BY <1>1, StoreMirrors, MirrorsKept

\* A cleanup leaves no object of ours, or has heard of a change to come.
LEMMA CleanupDone ==
    ASSUME ObjectsOK, Mirrors, NEW k \in Kinds, Cleanup(k)
    PROVE  /\ Mirrors'
           /\ \A j \in Kinds : j # k => objs'[j] = objs[j] /\ stale'[j] = stale[j] /\ events'[j] = events[j]
           /\ events'[k] \/ ~Ours(objs'[k])
<1>1. CASE Ours(cached[k]) /\ objs[k] # None
  <2>1. Store(k, None)
    BY <1>1 DEF Cleanup
  <2> QED
    BY Zenon, <2>1, StoreMirrors, StoreOne DEF Ours
<1>2. CASE ~(Ours(cached[k]) /\ objs[k] # None)
  <2>1. UNCHANGED objVars
    BY <1>2 DEF Cleanup
  <2>2. events[k] \/ ~Ours(objs[k])
    BY <1>2 DEF Mirrors, Ours
  <2> QED
    BY <2>1, <2>2, MirrorsKept DEF objVars, Ours
<1> QED
  BY <1>1, <1>2

LEMMA CleanupFailsMirrors ==
    ASSUME ObjectsOK, Mirrors, NEW k \in Kinds, CleanupFails(k)
    PROVE  Mirrors'
<1>1. UNCHANGED objVars \/ Store(k, None)
  BY DEF CleanupFails
<1> QED
  BY <1>1, StoreMirrors, MirrorsKept

\* The copies are as Copies says from the start, and after every step.
LEMMA CopiesInit == Init => Copies
BY DEF Init, Copies

LEMMA CopiesStep == TypeOK /\ Copies /\ [Next]_vars => Copies'
<1> SUFFICES ASSUME TypeOK, Copies, [Next]_vars PROVE Copies'
  OBVIOUS
<1>o. ObjectsOK /\ Mirrors
  BY DEF TypeOK, ObjectsOK, Copies, Mirrors
<1>c. ASSUME Mirrors', seenFresh' => seen' = CR' PROVE Copies'
  BY <1>c DEF Mirrors, Copies
<1>f. ASSUME UNCHANGED crVars PROVE seenFresh' => seen' = CR'
  BY <1>f DEF Copies, crVars, CR
<1>k. {"deployment", "service", "ingress", "route"} = Kinds
  BY DEF Kinds
<1>1. CASE StartReconcile \/ ReadEnv \/ StatusFails \/ OtherWakeUp
  <2>1. UNCHANGED objVars /\ UNCHANGED crVars
    BY <1>1 DEF StartReconcile, ReadEnv, StatusFails, OtherWakeUp
  <2> QED
    BY <1>o, <1>c, <1>f, <2>1, MirrorsKept
<1>2. CASE ReconcileDeployment \/ ReconcileService \/ ReconcileExposure
  <2>1. UNCHANGED crVars
    BY <1>2 DEF ReconcileDeployment, ReconcileService, ReconcileExposure
  <2>2. \/ UNCHANGED objVars
        \/ \E k \in Kinds :
              LET c == Desired(k, loc.spec, loc.defined)
              IN  CreateOrUpdate(k, c) \/ CreateOrUpdateFails(k, c)
    BY <1>2, <1>k, Zenon DEF ReconcileDeployment, ReconcileService, ReconcileExposure, ReconcileIngress,
                             ReconcileHTTPRoute
  <2>3. Mirrors'
    <3>1. \A k \in Kinds : Desired(k, loc.spec, loc.defined) \in ContentOf(k)
      BY DesiredType DEF TypeOK, Locals
    <3> QED
      BY Zenon, <1>o, <2>2, <3>1, MirrorsKept, WriteDone, WriteFailsMirrors
  <2> QED
    BY <1>c, <1>f, <2>1, <2>3
<1>3. CASE DropIngress \/ DropRoute
  <2>1. UNCHANGED crVars
    BY <1>3 DEF DropIngress, DropRoute
  <2>2. \E k \in Kinds : Cleanup(k) \/ CleanupFails(k)
    BY <1>3, <1>k, Zenon DEF DropIngress, DropRoute
  <2> QED
    BY Zenon, <1>o, <1>c, <1>f, <2>1, <2>2, CleanupDone, CleanupFailsMirrors
<1>4. CASE WriteStatus
  <2>1. UNCHANGED objVars /\ UNCHANGED <<spec, gen, seen>> /\ seenFresh' = (seenFresh /\ status' = status)
    BY <1>4 DEF WriteStatus
  <2>2. seenFresh' => seen' = CR'
    BY Zenon, <2>1 DEF Copies, CR
  <2> QED
    BY <1>o, <1>c, <2>1, <2>2, MirrorsKept
<1>5. CASE SyncObject
  <2>1. UNCHANGED objVars /\ seen' = CR /\ UNCHANGED <<spec, gen, status>>
    BY <1>5 DEF SyncObject
  <2>2. CR' = CR
    BY <2>1 DEF CR
  <2> QED
    BY <1>o, <1>c, <2>1, <2>2, MirrorsKept
<1>6. ASSUME NEW k \in Kinds, SyncKind(k)
      PROVE  Copies'
  <2>1. /\ UNCHANGED objs /\ cached' = [cached EXCEPT ![k] = objs[k]]
        /\ stale' = [stale EXCEPT ![k] = FALSE] /\ events' = [events EXCEPT ![k] = FALSE]
        /\ UNCHANGED crVars
    BY <1>6 DEF SyncKind
  <2>2. /\ cached'[k] = objs'[k] /\ ~events'[k]
        /\ \A j \in Kinds : j # k => /\ cached'[j] = cached[j] /\ objs'[j] = objs[j]
                                     /\ stale'[j] = stale[j] /\ events'[j] = events[j]
    BY <1>o, <2>1 DEF ObjectsOK, OnePerKind
  <2>3. Mirrors'
    BY <1>o, <2>2 DEF Mirrors, Ours
  <2> QED
    BY <1>c, <1>f, <2>1, <2>3
<1>7. CASE ConfigMapArrives \/ EditConfigMap \/ InstallGatewayAPI
  <2>1. UNCHANGED objVars /\ UNCHANGED crVars
    BY <1>7 DEF ConfigMapArrives, EditConfigMap, InstallGatewayAPI
  <2> QED
    BY <1>o, <1>c, <1>f, <2>1, MirrorsKept
<1>8. CASE EditSpec
  <2>1. UNCHANGED objVars /\ seenFresh' = FALSE
    BY <1>8 DEF EditSpec
  <2> QED
    BY <1>o, <1>c, <2>1, MirrorsKept
<1>9. CASE (\E k \in Kinds : Interfere(k)) \/ ReplicasChange
  <2>1. UNCHANGED crVars
    BY Zenon, <1>9 DEF Interfere, ReplicasChange
  <2>2. \E k \in Kinds : \E o : Store(k, o)
    BY Zenon, <1>9, <1>k DEF Interfere, ReplicasChange
  <2> QED
    BY <1>o, <1>c, <1>f, <2>1, <2>2, StoreMirrors
<1>10. CASE Crash
  <2>1. /\ cached' = objs /\ UNCHANGED objs /\ events' = [k \in Kinds |-> FALSE]
        /\ seen' = CR /\ UNCHANGED <<spec, gen, status>>
    BY <1>10 DEF Crash
  <2>2. CR' = CR
    BY <2>1 DEF CR
  <2>3. Mirrors'
    BY <2>1 DEF Mirrors
  <2> QED
    BY <1>c, <2>1, <2>2, <2>3
<1>11. CASE UNCHANGED vars
  <2>1. UNCHANGED objVars /\ UNCHANGED crVars
    BY <1>11 DEF vars
  <2> QED
    BY <1>o, <1>c, <1>f, <2>1, MirrorsKept
<1> QED
  BY <1>1, <1>2, <1>3, <1>4, <1>5, <1>6, <1>7, <1>8, <1>9, <1>10, <1>11
  DEF Next, Acts, Delivers, Controller, Sync, Environment

\* Objects that others control are left alone, for all constants: SetControllerReference
\* refuses to overwrite one, and the cleanups look at the owner, as long as the cache
\* shows the object.
THEOREM OthersKept == Spec => OthersLeftAlone
<1>1. ASSUME TypeOK, Copies, Controller, NEW k \in Kinds,
             objs[k] # None, objs[k].owner = "other", ~stale[k]
      PROVE  objs'[k] = objs[k]
  <2>1. ObjectsOK /\ cached[k] = objs[k] /\ ~Ours(cached[k])
    BY <1>1 DEF TypeOK, ObjectsOK, Copies, Ours
  <2>2. ~Accepted(k)
    BY <1>1, <2>1 DEF Accepted
  <2>3. ASSUME NEW j \in Kinds, NEW o, Store(j, o), j # k
        PROVE  objs'[k] = objs[k]
    BY Zenon, <2>1, <2>3, StoreOne
  <2>4. ASSUME NEW j \in Kinds, NEW c, CreateOrUpdate(j, c) \/ CreateOrUpdateFails(j, c)
        PROVE  objs'[k] = objs[k]
    <3>1. UNCHANGED objVars \/ (Accepted(j) /\ \E o : Store(j, o))
      BY <2>4, <2>1, Zenon DEF CreateOrUpdate, CreateOrUpdateFails, Put
    <3> QED
      BY <2>2, <2>3, <3>1 DEF objVars
  <2>5. ASSUME NEW j \in Kinds, Cleanup(j) \/ CleanupFails(j)
        PROVE  objs'[k] = objs[k]
    <3>1. UNCHANGED objVars \/ (Ours(cached[j]) /\ Store(j, None))
      BY <2>5 DEF Cleanup, CleanupFails
    <3> QED
      BY <2>1, <2>3, <3>1 DEF objVars
  <2>6. {"deployment", "service", "ingress", "route"} = Kinds
    BY DEF Kinds
  <2>7. CASE ReconcileDeployment \/ ReconcileService \/ ReconcileExposure
    <3>1. \/ UNCHANGED objVars
          \/ \E j \in Kinds : \E c : CreateOrUpdate(j, c) \/ CreateOrUpdateFails(j, c)
      BY <2>6, <2>7, Zenon DEF ReconcileDeployment, ReconcileService, ReconcileExposure, ReconcileIngress,
                               ReconcileHTTPRoute
    <3> QED
      BY <2>4, <3>1 DEF objVars
  <2>8. CASE DropIngress \/ DropRoute
    BY <2>5, <2>6, <2>8 DEF DropIngress, DropRoute
  <2>9. CASE StartReconcile \/ ReadEnv \/ WriteStatus \/ StatusFails
    BY <2>9 DEF StartReconcile, ReadEnv, WriteStatus, StatusFails, objVars
  <2> QED
    BY <1>1, <2>7, <2>8, <2>9 DEF Controller
<1>2. TypeOK /\ Copies =>
        (Controller => \A k \in Kinds : objs[k] # None /\ objs[k].owner = "other" /\ ~stale[k]
                                        => objs'[k] = objs[k])
  BY <1>1
<1>3. Spec => []Copies
  BY CopiesInit, CopiesStep, TypeCorrect, PTL DEF Spec
<1> QED
  BY <1>2, <1>3, TypeCorrect, PTL DEF OthersLeftAlone

-----------------------------------------------------------------------------
(* A switch of exposure.                                                     *)

\* Steps of others keep Switch: whoever touches an exposure object ends the certainty.
LEMMA SwitchKept ==
    ASSUME Switch, pc' = pc, loc'.spec = loc.spec, loc'.sure => loc.sure /\ gatewayAPI' = gatewayAPI,
           loc'.sure => \A k \in {"ingress", "route"} : /\ stale'[k] => stale[k]
                                                        /\ Ours(objs[k]) => Ours(objs'[k])
    PROVE  Switch'
<1>1. Target(loc.spec) \in {"ingress", "route"} /\ Target(loc'.spec) = Target(loc.spec)
  BY DEF Target
<1>2. /\ pc' = "dropIngress" => loc'.spec.expose # "ingress"
      /\ pc' = "dropRoute" => loc'.spec.expose # "gateway"
  BY DEF Switch
<1>3. loc'.sure /\ pc' \in {"env", "deployment", "service", "expose"} => ~stale'["ingress"] /\ ~stale'["route"]
  BY DEF Switch
<1>4. /\ pc' \in {"dropIngress", "dropRoute"} /\ loc'.sure /\ loc'.spec.expose # "none"
      /\ loc'.spec.expose = "gateway" => gatewayAPI'
      => Ours(objs'[Target(loc'.spec)])
  BY <1>1 DEF Switch
<1> QED
  BY <1>2, <1>3, <1>4 DEF Switch, Ours, Target

\* Before the exposure is dealt with, the reconcile itself leaves its objects alone.
LEMMA SwitchEarly ==
    ASSUME Switch, pc \in {"env", "deployment", "service"}, pc' \in {"deployment", "service", "expose"},
           loc'.sure = loc.sure, stale'["ingress"] = stale["ingress"], stale'["route"] = stale["route"]
    PROVE  Switch'
BY DEF Switch

LEMMA SwitchIdle ==
    ASSUME pc' \in {"idle", "status"}
    PROVE  Switch'
BY DEF Switch

LEMMA SwitchStep == TypeOK /\ Copies /\ Switch /\ [Next]_vars => Switch'
<1> SUFFICES ASSUME TypeOK, Copies, Switch, [Next]_vars PROVE Switch'
  OBVIOUS
<1>o. ObjectsOK /\ Mirrors /\ loc \in Locals
  BY DEF TypeOK, ObjectsOK, Copies, Mirrors
<1>k. {"deployment", "service", "ingress", "route"} = Kinds
  BY DEF Kinds
<1>f. ASSUME Fail PROVE Switch'
  BY <1>f, SwitchIdle DEF Fail
<1>e. \A k \in Kinds : Desired(k, loc.spec, loc.defined) \in ContentOf(k)
  BY DesiredType DEF TypeOK, Locals
<1>1. CASE StartReconcile
  <2>1. pc' = "env" /\ loc'.sure = (~stale["ingress"] /\ ~stale["route"]) /\ stale' = stale
    BY <1>1 DEF StartReconcile, objVars
  <2> QED
    BY Zenon, <2>1 DEF Switch
<1>2. CASE ReadEnv
  <2>1. CASE pc' = "deployment" /\ loc' = [loc EXCEPT !.defined = loc.spec.inject /\ loc.spec.env = "configMap" /\ configMap]
    <3>1. loc'.sure = loc.sure /\ stale' = stale /\ pc = "env"
      BY <1>2, <1>o, <2>1 DEF ReadEnv, Locals, objVars
    <3> QED
      BY <2>1, <3>1, SwitchEarly
  <2> QED
    BY <1>2, <1>f, <2>1 DEF ReadEnv
<1>3. CASE ReconcileDeployment
  <2> DEFINE c == Desired("deployment", loc.spec, loc.defined)
  <2>1. \/ /\ CreateOrUpdate("deployment", c) /\ pc' = "service"
           /\ \E up : loc' = [loc EXCEPT !.next.up = up]
        \/ Fail
    BY <1>3 DEF ReconcileDeployment, CreateOrUpdateFails
  <2> HIDE DEF c
  <2>2. CASE CreateOrUpdate("deployment", c) /\ pc' = "service" /\ \E up : loc' = [loc EXCEPT !.next.up = up]
    <3>1. loc'.sure = loc.sure /\ pc = "deployment"
      BY <1>3, <1>o, <2>2 DEF Locals, ReconcileDeployment
    <3>2. stale'["ingress"] = stale["ingress"] /\ stale'["route"] = stale["route"]
      BY <1>o, <1>k, <1>e, <2>2, WriteDone DEF c
    <3> QED
      BY <2>2, <3>1, <3>2, SwitchEarly
  <2> QED
    BY <1>f, <2>1, <2>2
<1>4. CASE ReconcileService
  <2> DEFINE c == Desired("service", loc.spec, loc.defined)
  <2>1. (CreateOrUpdate("service", c) /\ pc' = "expose" /\ loc' = loc) \/ Fail
    BY <1>4 DEF ReconcileService, CreateOrUpdateFails
  <2> HIDE DEF c
  <2>2. CASE CreateOrUpdate("service", c) /\ pc' = "expose" /\ loc' = loc
    <3>1. pc = "service"
      BY <1>4 DEF ReconcileService
    <3>2. stale'["ingress"] = stale["ingress"] /\ stale'["route"] = stale["route"]
      BY <1>o, <1>k, <1>e, <2>2, WriteDone DEF c
    <3> QED
      BY <2>2, <3>1, <3>2, SwitchEarly
  <2> QED
    BY <1>f, <2>1, <2>2
<1>5. CASE ReconcileExposure
  <2> DEFINE k == Target(loc.spec)
             c == Desired(k, loc.spec, loc.defined)
  <2>1. \/ Fail
        \/ Exposed /\ (loc.spec.expose = "none" \/ (loc.spec.expose = "gateway" /\ ~gatewayAPI))
        \/ Exposed /\ loc.spec.expose # "none" /\ CreateOrUpdate(k, c)
    BY Zenon, <1>5 DEF ReconcileExposure, ReconcileIngress, ReconcileHTTPRoute, Target, CreateOrUpdateFails
  <2>2. k \in {"ingress", "route"} /\ k \in Kinds /\ pc = "expose" /\ gatewayAPI' = gatewayAPI
    BY <1>5 DEF Target, Kinds, ReconcileExposure, envVars
  <2>3. c \in ContentOf(k)
    BY <1>e, <2>2
  <2>4. Exposed => /\ loc'.spec = loc.spec /\ loc'.sure = loc.sure
                   /\ pc' = IF loc.spec.expose = "ingress" THEN "dropRoute" ELSE "dropIngress"
    BY <1>o DEF Exposed, AfterExpose, Locals
  <2> HIDE DEF c
  <2>5. CASE Exposed /\ (loc.spec.expose = "none" \/ (loc.spec.expose = "gateway" /\ ~gatewayAPI))
    BY <2>2, <2>4, <2>5 DEF Switch
  <2>6. CASE Exposed /\ loc.spec.expose # "none" /\ CreateOrUpdate(k, c)
    <3>1. loc.sure => Ours(objs'[k])
      <4>1. CASE ~Matches(cached[k], c)
        BY Zenon, <1>o, <2>2, <2>3, <2>6, <4>1, WriteDone
      <4>2. CASE Matches(cached[k], c)
        <5>1. objs' = objs
          BY <2>6, <4>2 DEF CreateOrUpdate, objVars
        <5>2. loc.sure => ~stale[k]
          BY <2>2 DEF Switch
        <5>3. loc.sure => cached[k] = objs[k]
          BY <1>o, <2>2, <5>2 DEF Mirrors
        <5> QED
          BY <4>2, <5>1, <5>3 DEF Matches
      <4> QED
        BY <4>1, <4>2
    <3>2. loc'.sure => Ours(objs'[Target(loc'.spec)])
      BY ZenonT(40), <2>4, <2>6, <3>1
    <3> QED
      BY Zenon, <2>4, <2>6, <3>2 DEF Switch, Ours, Target
  <2> QED
    BY <1>f, <2>1, <2>5, <2>6
<1>6. CASE DropIngress
  <2>1. \/ pc' = "dropRoute" /\ loc.spec.expose = "none" /\ loc' = loc
        \/ pc' = "status"
        \/ Fail
    BY <1>6 DEF DropIngress, CleanupFails
  <2>2. CASE pc' = "dropRoute" /\ loc.spec.expose = "none" /\ loc' = loc
    BY <2>2 DEF Switch
  <2> QED
    BY <1>f, <2>1, <2>2, SwitchIdle
<1>7. CASE DropRoute \/ WriteStatus \/ StatusFails \/ Crash
  <2>1. pc' \in {"status", "idle"} \/ Fail
    BY <1>7 DEF DropRoute, CleanupFails, WriteStatus, StatusFails, Crash
  <2> QED
    BY <1>f, <2>1, SwitchIdle
<1>8. CASE SyncObject \/ ConfigMapArrives \/ EditSpec \/ EditConfigMap \/ OtherWakeUp \/ UNCHANGED vars
  <2>1. /\ pc' = pc /\ loc' = loc /\ gatewayAPI' = gatewayAPI /\ stale' = stale /\ objs' = objs
    BY Zenon, <1>8 DEF SyncObject, ConfigMapArrives, EditSpec, EditConfigMap, OtherWakeUp, vars, objVars, envVars
  <2> QED
    BY <2>1, SwitchKept
<1>9. ASSUME NEW k \in Kinds, SyncKind(k)
      PROVE  Switch'
  <2>1. /\ pc' = pc /\ loc' = loc /\ gatewayAPI' = gatewayAPI /\ objs' = objs
        /\ stale' = [stale EXCEPT ![k] = FALSE]
    BY Zenon, <1>9 DEF SyncKind, envVars
  <2>2. \A j \in Kinds : stale'[j] => stale[j]
    BY <1>o, <2>1 DEF ObjectsOK
  <2> QED
    BY <1>k, <2>1, <2>2, SwitchKept
<1>10. ASSUME NEW k \in Kinds, Interfere(k)
       PROVE  Switch'
  <2>1. PICK o : Store(k, o)
    BY <1>10 DEF Interfere
  <2>2. /\ pc' = pc /\ gatewayAPI' = gatewayAPI
        /\ loc' = [loc EXCEPT !.sure = loc.sure /\ k \notin {"ingress", "route"}]
    BY <1>10 DEF Interfere, envVars
  <2>3. loc'.spec = loc.spec /\ (loc'.sure => loc.sure /\ k \notin {"ingress", "route"})
    BY Zenon, <1>o, <2>2 DEF Locals
  <2>4. \A j \in Kinds : j # k => stale'[j] = stale[j] /\ objs'[j] = objs[j]
    BY Zenon, <1>o, <2>1, StoreOne
  <2> QED
    BY <1>k, <2>2, <2>3, <2>4, SwitchKept
<1>11. CASE ReplicasChange
  <2>1. /\ pc' = pc /\ loc' = loc /\ gatewayAPI' = gatewayAPI
        /\ \E o : Store("deployment", o)
    BY <1>11 DEF ReplicasChange, envVars
  <2>2. \A j \in {"ingress", "route"} : stale'[j] = stale[j] /\ objs'[j] = objs[j]
    BY Zenon, <1>o, <1>k, <2>1, StoreOne
  <2> QED
    BY Zenon, <2>1, <2>2, SwitchKept
<1>12. CASE InstallGatewayAPI
  <2>1. pc' = pc /\ loc'.spec = loc.spec /\ ~loc'.sure
    BY <1>12, <1>o DEF InstallGatewayAPI, Locals
  <2> QED
    BY <2>1, SwitchKept
<1> QED
  BY <1>1, <1>2, <1>3, <1>4, <1>5, <1>6, <1>7, <1>8, <1>9, <1>10, <1>11, <1>12
  DEF Next, Acts, Delivers, Controller, Sync, Environment

\* A switch between Ingress and gateway leaves no gap, for all constants: reconcileExposure
\* takes an exposure object of ours away only when the one asked for is in place.
THEOREM SwitchWithoutGap == Spec => NoGap
<1>1. ASSUME TypeOK, Copies, Switch, Controller, loc.sure, loc.spec.expose = "gateway" => gatewayAPI,
             NEW k \in {"ingress", "route"},
             Ours(objs[k]), objs'[k] = None, loc.spec.expose # "none"
      PROVE  Ours(objs[Target(loc.spec)])
  <2>1. ObjectsOK /\ k \in Kinds /\ objs'[k] # objs[k]
    BY <1>1 DEF TypeOK, ObjectsOK, Kinds, Ours
  <2>2. {"deployment", "service", "ingress", "route"} = Kinds
    BY DEF Kinds
  <2>3. \A j \in Kinds : Desired(j, loc.spec, loc.defined) \in ContentOf(j)
    BY <1>1, DesiredType DEF TypeOK, Locals
  <2>4. ASSUME NEW j \in Kinds, NEW c \in ContentOf(j), CreateOrUpdate(j, c) \/ CreateOrUpdateFails(j, c)
        PROVE  FALSE
    <3> DEFINE o == [owner |-> "us", as |-> c, up |-> objs[j] # None /\ objs[j].up]
    <3>1. UNCHANGED objVars \/ Store(j, o)
      BY Zenon, <2>4 DEF CreateOrUpdate, CreateOrUpdateFails, Put
    <3>2. Ours(o)
      BY <2>1, PutMatches
    <3> HIDE DEF o
    <3>3. Store(j, o) => objs'[k] = objs[k] \/ objs'[k] = o
      BY Zenon, <2>1, StoreOne
    <3> QED
      BY <1>1, <2>1, <3>1, <3>2, <3>3 DEF objVars, Ours
  <2>5. CASE ReconcileDeployment \/ ReconcileService \/ ReconcileExposure
    <3>1. \/ UNCHANGED objVars
          \/ \E j \in Kinds :
                LET c == Desired(j, loc.spec, loc.defined)
                IN  CreateOrUpdate(j, c) \/ CreateOrUpdateFails(j, c)
      BY <2>2, <2>5, Zenon DEF ReconcileDeployment, ReconcileService, ReconcileExposure, ReconcileIngress,
                               ReconcileHTTPRoute
    <3> QED
      BY <2>1, <2>3, <2>4, <3>1 DEF objVars
  <2>6. CASE DropIngress \/ DropRoute
    BY Zenon, <1>1, <2>6 DEF DropIngress, DropRoute, Switch
  <2>7. CASE StartReconcile \/ ReadEnv \/ WriteStatus \/ StatusFails
    BY <2>1, <2>7 DEF StartReconcile, ReadEnv, WriteStatus, StatusFails, objVars
  <2> QED
    BY <1>1, <2>5, <2>6, <2>7 DEF Controller
<1>2. TypeOK /\ Copies /\ Switch =>
        (/\ loc.sure
         /\ loc.spec.expose = "gateway" => gatewayAPI
         /\ Controller
         => \A k \in {"ingress", "route"} :
               Ours(objs[k]) /\ objs'[k] = None /\ loc.spec.expose # "none"
               => Ours(objs[Target(loc.spec)]))
  BY <1>1
<1>3. Spec => []Copies
  BY CopiesInit, CopiesStep, TypeCorrect, PTL DEF Spec
<1>4. Init => Switch
  BY DEF Init, Switch
<1>5. Spec => []Switch
  BY <1>3, <1>4, SwitchStep, TypeCorrect, PTL DEF Spec
<1> QED
  BY <1>2, <1>3, <1>5, TypeCorrect, PTL DEF NoGap

-----------------------------------------------------------------------------
(* No wake-up is lost.                                                       *)

\* AsAsked of given objects, events and watches.
Asked(ev, w, o, k, s, d) ==
    \/ ev[k]
    \/ k = "route" /\ (~w \/ s.expose = "gateway")
    \/ IF k \in {"deployment", "service"} \/ (k = "ingress" /\ s.expose = "ingress")
       THEN Matches(o[k], Desired(k, s, d))
       ELSE ~Ours(o[k])

\* What the reconcile in flight has seen to, and what is so between reconciles, of given
\* state; so that both can be said of the next state.
FlightOf(at, l, sn, ev, w, o, cm, cme) ==
    /\ l.spec = sn.spec /\ l.base = sn.status
    /\ l.next.gen = sn.gen /\ l.next.url = ClusterURL(sn.spec)
    /\ l.defined => sn.spec.inject /\ sn.spec.env = "configMap"
    /\ at # "env" => cme \/ l.defined = (sn.spec.inject /\ sn.spec.env = "configMap" /\ cm)
    /\ at \notin {"env", "deployment"} => ev["deployment"] \/ l.next.up = o["deployment"].up
    /\ at \in {"dropIngress", "dropRoute", "status"} => l.again = (sn.spec.expose = "gateway")
    /\ at \in {"service", "expose", "dropIngress", "dropRoute", "status"}
         => Asked(ev, w, o, "deployment", sn.spec, l.defined)
    /\ at \in {"expose", "dropIngress", "dropRoute", "status"} => Asked(ev, w, o, "service", sn.spec, l.defined)
    /\ at \in {"dropRoute", "status"} => Asked(ev, w, o, "ingress", sn.spec, l.defined)
    /\ at = "status" => Asked(ev, w, o, "route", sn.spec, l.defined)

LEMMA FlightIs ==
    InFlight <=> (~queued /\ pc # "idle" => FlightOf(pc, loc, seen, events, watched, objs, configMap, configMapEvent))
<1>1. (\A k \in Kinds : DoneWith(k) => AsAsked(k, seen.spec, loc.defined))
      <=> /\ DoneWith("deployment") => AsAsked("deployment", seen.spec, loc.defined)
          /\ DoneWith("service") => AsAsked("service", seen.spec, loc.defined)
          /\ DoneWith("ingress") => AsAsked("ingress", seen.spec, loc.defined)
          /\ DoneWith("route") => AsAsked("route", seen.spec, loc.defined)
  BY DEF Kinds
<1>2. /\ DoneWith("deployment") <=> pc \in {"service", "expose", "dropIngress", "dropRoute", "status"}
      /\ DoneWith("service") <=> pc \in {"expose", "dropIngress", "dropRoute", "status"}
      /\ DoneWith("ingress") <=> pc \in {"dropRoute", "status"}
      /\ DoneWith("route") <=> pc = "status"
  BY DEF DoneWith
<1>3. \A k : AsAsked(k, seen.spec, loc.defined) <=> Asked(events, watched, objs, k, seen.spec, loc.defined)
  BY Zenon DEF AsAsked, Asked
<1>4. Defined(seen.spec) = (seen.spec.inject /\ seen.spec.env = "configMap" /\ configMap)
  BY DEF Defined
<1> QED
  BY Zenon, <1>1, <1>2, <1>3, <1>4 DEF InFlight, FlightOf

RestOf(sn, fresh, cr, st, ev, w, o, cm, cme) ==
    /\ sn.spec.expose # "gateway"
    /\ ev["deployment"] \/ Ours(o["deployment"])
    /\ \/ ~fresh \/ ev["deployment"]
       \/ st = [gen |-> cr.gen, url |-> ClusterURL(cr.spec), up |-> o["deployment"].up]
    /\ \A k \in Kinds : \/ k = "deployment" /\ cme /\ sn.spec.env = "configMap"
                        \/ Asked(ev, w, o, k, sn.spec, sn.spec.inject /\ sn.spec.env = "configMap" /\ cm)

LEMMA RestIs ==
    AtRest <=> (~queued /\ pc = "idle" =>
                   RestOf(seen, seenFresh, CR, status, events, watched, objs, configMap, configMapEvent))
<1>1. \A k : AsAsked(k, seen.spec, Defined(seen.spec))
             <=> Asked(events, watched, objs, k, seen.spec, seen.spec.inject /\ seen.spec.env = "configMap" /\ configMap)
  BY Zenon DEF AsAsked, Asked, Defined
<1>2. CR.gen = gen /\ CR.spec = spec
  BY DEF CR
<1> QED
  BY ZenonT(40), <1>1, <1>2 DEF AtRest, RestOf

\* Both, in the next state.
LEMMA FlightNext ==
    InFlight' <=> (~queued' /\ pc' # "idle" =>
                     FlightOf(pc', loc', seen', events', watched', objs', configMap', configMapEvent'))
<1>1. (InFlight <=> (~queued /\ pc # "idle" =>
                        FlightOf(pc, loc, seen, events, watched, objs, configMap, configMapEvent)))'
  BY FlightIs, PTL
<1> QED
  BY Zenon, <1>1 DEF FlightOf, Asked

LEMMA RestNext ==
    AtRest' <=> (~queued' /\ pc' = "idle" =>
                   RestOf(seen', seenFresh', CR', status', events', watched', objs', configMap', configMapEvent'))
<1>1. (AtRest <=> (~queued /\ pc = "idle" =>
                      RestOf(seen, seenFresh, CR, status, events, watched, objs, configMap, configMapEvent)))'
  BY RestIs, PTL
<1> QED
  BY Zenon, <1>1 DEF RestOf, Asked

\* Only the Deployment depends on the ConfigMap.
LEMMA AskedAlike ==
    ASSUME NEW ev, NEW w, NEW o, NEW k \in Kinds, NEW s, NEW d, NEW e, k # "deployment",
           Asked(ev, w, o, k, s, d)
    PROVE  Asked(ev, w, o, k, s, e)
<1>1. Desired(k, s, d) = Desired(k, s, e)
  BY DEF Desired, Kinds
<1> QED
  BY <1>1 DEF Asked

\* A step of others keeps InFlight and AtRest if it keeps what they say of each object,
\* or a reconcile is due after it.
LEMMA WakeKept ==
    ASSUME TypeOK, InFlight, AtRest, pc' = pc, seen' = seen, watched' = watched,
           loc'.spec = loc.spec, loc'.base = loc.base, loc'.next = loc.next,
           loc'.defined = loc.defined, loc'.again = loc.again,
           queued => queued',
           ~queued' => \A k \in Kinds : \A s, d : Asked(events, watched, objs, k, s, d)
                                                  => Asked(events', watched, objs', k, s, d),
           ~queued' => /\ events["deployment"] => events'["deployment"]
                       /\ Ours(objs["deployment"]) => \/ events'["deployment"]
                                                      \/ /\ Ours(objs'["deployment"])
                                                         /\ objs'["deployment"].up = objs["deployment"].up,
           ~queued' => configMapEvent' \/ UNCHANGED <<configMap, configMapEvent>> \/ seen.spec.env # "configMap",
           seenFresh' => seenFresh /\ UNCHANGED <<spec, gen, status>>
    PROVE  InFlight' /\ AtRest'
<1>t. /\ loc.defined \in BOOLEAN /\ "deployment" \in Kinds /\ "service" \in Kinds /\ "ingress" \in Kinds
      /\ "route" \in Kinds
  BY Zenon DEF TypeOK, Locals, Kinds
<1>1. InFlight'
  <2> SUFFICES ASSUME ~queued', pc' # "idle"
               PROVE  FlightOf(pc', loc', seen', events', watched', objs', configMap', configMapEvent')
    BY ZenonT(40), FlightNext
  <2>1. FlightOf(pc, loc, seen, events, watched, objs, configMap, configMapEvent)
    BY ZenonT(40), FlightIs
  <2>2. \A k \in Kinds : Asked(events, watched, objs, k, seen.spec, loc.defined)
                         => Asked(events', watched', objs', k, seen'.spec, loc'.defined)
    BY ZenonT(40)
  <2>3. pc' # "env" => \/ configMapEvent'
                       \/ loc'.defined = (seen'.spec.inject /\ seen'.spec.env = "configMap" /\ configMap')
    <3>1. CASE seen.spec.env # "configMap"
      <4>1. loc.defined = FALSE
        BY Zenon, <1>t, <2>1, <3>1 DEF FlightOf
      <4> QED
        BY ZenonT(40), <3>1, <4>1
    <3>2. CASE UNCHANGED <<configMap, configMapEvent>>
      BY ZenonT(40), <2>1, <3>2 DEF FlightOf
    <3> QED
      BY Zenon, <3>1, <3>2
  <2>4. pc' \notin {"env", "deployment"} => events'["deployment"] \/ loc'.next.up = objs'["deployment"].up
    <3>1. pc \notin {"env", "deployment"} => events["deployment"] \/ Ours(objs["deployment"])
      <4>1. pc \in Steps
        BY ZenonT(40) DEF TypeOK
      <4> QED
        BY ZenonT(40), <2>1, <4>1 DEF FlightOf, Asked, Matches, Steps
    <3> QED
      BY ZenonT(40), <2>1, <3>1 DEF FlightOf
  <2> QED
    BY ZenonT(40), <1>t, <2>1, <2>2, <2>3, <2>4 DEF FlightOf
<1>2. AtRest'
  <2> SUFFICES ASSUME ~queued', pc' = "idle"
               PROVE  RestOf(seen', seenFresh', CR', status', events', watched', objs', configMap', configMapEvent')
    BY ZenonT(40), RestNext
  <2>1. RestOf(seen, seenFresh, CR, status, events, watched, objs, configMap, configMapEvent)
    BY ZenonT(40), RestIs
  <2>2. \/ ~seenFresh' \/ events'["deployment"]
        \/ status' = [gen |-> CR'.gen, url |-> ClusterURL(CR'.spec), up |-> objs'["deployment"].up]
    <3>1. seenFresh' => CR'.gen = CR.gen /\ CR'.spec = CR.spec
      BY ZenonT(40) DEF CR
    <3> QED
      BY ZenonT(40), <2>1, <3>1 DEF RestOf
  <2>3. ASSUME NEW k \in Kinds
        PROVE  \/ k = "deployment" /\ configMapEvent' /\ seen'.spec.env = "configMap"
               \/ Asked(events', watched', objs', k, seen'.spec,
                        seen'.spec.inject /\ seen'.spec.env = "configMap" /\ configMap')
    <3> DEFINE d == seen.spec.inject /\ seen.spec.env = "configMap" /\ configMap
               e == seen.spec.inject /\ seen.spec.env = "configMap" /\ configMap'
    <3>1. \/ k = "deployment" /\ configMapEvent /\ seen.spec.env = "configMap"
          \/ Asked(events', watched, objs', k, seen.spec, d)
      <4>1. \/ k = "deployment" /\ configMapEvent /\ seen.spec.env = "configMap"
            \/ Asked(events, watched, objs, k, seen.spec, d)
        BY ZenonT(40), <2>1, <2>3 DEF RestOf
      <4> QED
        BY Zenon, <2>3, <4>1
    <3>2. seen.spec.env # "configMap" \/ UNCHANGED <<configMap, configMapEvent>> => d = e
      OBVIOUS
    <3> HIDE DEF d, e
    <3>3. \/ k = "deployment" /\ configMapEvent' /\ seen.spec.env = "configMap"
          \/ Asked(events', watched, objs', k, seen.spec, e)
      <4>1. CASE k # "deployment"
        BY ZenonT(40), <2>3, <3>1, <4>1, AskedAlike
      <4>2. CASE k = "deployment"
        BY <3>1, <3>2, <4>2
      <4> QED
        BY Zenon, <4>1, <4>2
    <3> QED
      BY Zenon, <3>3 DEF e
  <2>4. events'["deployment"] \/ Ours(objs'["deployment"])
    BY ZenonT(40), <2>1 DEF RestOf
  <2> QED
    BY ZenonT(40), <2>1, <2>2, <2>3, <2>4 DEF RestOf
<1> QED
  BY Zenon, <1>1, <1>2

\* When a reconcile is due there is nothing to show.
LEMMA WakeDue ==
    ASSUME queued' \/ Fail
    PROVE  InFlight' /\ AtRest'
BY Zenon DEF InFlight, AtRest, Fail

\* A status merged into the one it was computed from is the one computed.
LEMMA PublishFresh ==
    ASSUME NEW b \in Statuses, NEW n \in Statuses, NEW g, n.gen = g
    PROVE  Publish(b, n, b, g) = n
<1>1. DOMAIN b = {"gen", "url", "up"} /\ n = [gen |-> n.gen, url |-> n.url, up |-> n.up]
  BY DEF Statuses
<1>2. MergeStatusDelta(b, n, b) = [gen |-> n.gen, url |-> n.url, up |-> n.up]
  BY <1>1 DEF MergeStatusDelta, Statuses
<1> QED
  BY <1>1, <1>2 DEF Publish

\* What a step of the controller leaves alone is still as asked.
LEMMA AskedStays ==
    ASSUME NEW k, objs'[k] = objs[k], events'[k] = events[k], NEW s, NEW d,
           Asked(events, watched, objs, k, s, d)
    PROVE  Asked(events', watched, objs', k, s, d)
BY Zenon DEF Asked

\* Every step of the controller keeps InFlight and AtRest.
LEMMA WakeController == TypeOK /\ Copies /\ Switch /\ InFlight /\ AtRest /\ Controller => InFlight' /\ AtRest'
<1> SUFFICES ASSUME TypeOK, Copies, Switch, InFlight, AtRest, Controller PROVE InFlight' /\ AtRest'
  OBVIOUS
<1>o. ObjectsOK /\ Mirrors /\ loc \in Locals /\ pc \in Steps
  BY Zenon DEF TypeOK, ObjectsOK, Copies, Mirrors
<1>k. /\ "deployment" \in Kinds /\ "service" \in Kinds /\ "ingress" \in Kinds /\ "route" \in Kinds
      /\ \A k \in Kinds : k \in {"deployment", "service", "ingress", "route"}
  BY DEF Kinds
<1>e. \A k \in Kinds : Desired(k, loc.spec, loc.defined) \in ContentOf(k)
  BY DesiredType DEF TypeOK, Locals
<1> DEFINE Now == FlightOf(pc, loc, seen, events, watched, objs, configMap, configMapEvent)
           Then == FlightOf(pc', loc', seen', events', watched', objs', configMap', configMapEvent')
<1>n. ~queued /\ pc # "idle" => Now
  BY FlightIs
<1>a. ASSUME ~queued' /\ pc' # "idle" => Then, pc' # "idle" PROVE InFlight' /\ AtRest'
  <2>1. InFlight'
    BY <1>a, FlightNext
  <2>2. AtRest'
    BY <1>a, RestNext
  <2> QED
    BY <2>1, <2>2
<1>1. CASE StartReconcile
  <2>1. /\ pc' = "env" /\ seen' = seen
        /\ loc' = [spec |-> seen.spec, base |-> seen.status,
                   next |-> [seen.status EXCEPT !.gen = seen.gen, !.url = ClusterURL(seen.spec)],
                   defined |-> FALSE, sure |-> ~stale["ingress"] /\ ~stale["route"], again |-> FALSE]
    BY <1>1 DEF StartReconcile, crVars
  <2>2. /\ loc'.spec = seen.spec /\ loc'.base = seen.status /\ loc'.defined = FALSE
        /\ loc'.next = [seen.status EXCEPT !.gen = seen.gen, !.url = ClusterURL(seen.spec)]
    BY <2>1
  <2>3. seen.status \in Statuses
    BY DEF TypeOK
  <2>4. loc'.next.gen = seen.gen /\ loc'.next.url = ClusterURL(seen.spec)
    BY <2>2, <2>3 DEF Statuses
  <2>5. Then
    BY <2>1, <2>2, <2>4 DEF FlightOf
  <2> QED
    BY <1>a, <2>1, <2>5
<1>2. CASE ReadEnv
  <2> DEFINE d == loc.spec.inject /\ loc.spec.env = "configMap" /\ configMap
  <2>1. CASE loc' = [loc EXCEPT !.defined = d] /\ pc' = "deployment" /\ UNCHANGED queued
    <3>1. pc = "env" /\ seen' = seen /\ configMap' = configMap
      BY <1>2 DEF ReadEnv, crVars, envVars
    <3> HIDE DEF d
    <3>2. loc'.spec = loc.spec /\ loc'.base = loc.base /\ loc'.next = loc.next /\ loc'.defined = d
      BY <1>o, <2>1 DEF Locals
    <3>3. ~queued' => Then
      <4> SUFFICES ASSUME ~queued' PROVE Then
        OBVIOUS
      <4>1. Now
        BY <1>n, <2>1, <3>1
      <4>2. d = (seen.spec.inject /\ seen.spec.env = "configMap" /\ configMap)
        BY Zenon, <4>1 DEF d, FlightOf
      <4>3. /\ loc'.defined => seen'.spec.inject /\ seen'.spec.env = "configMap"
            /\ loc'.defined = (seen'.spec.inject /\ seen'.spec.env = "configMap" /\ configMap')
        BY <3>1, <3>2, <4>2, Zenon
      <4>4. /\ loc'.spec = seen'.spec /\ loc'.base = seen'.status
            /\ loc'.next.gen = seen'.gen /\ loc'.next.url = ClusterURL(seen'.spec)
        BY Zenon, <3>1, <3>2, <4>1 DEF FlightOf
      <4> QED
        BY <2>1, <4>3, <4>4 DEF FlightOf
    <3> QED
      BY <1>a, <2>1, <3>3
  <2> QED
    BY <1>2, <2>1, WakeDue DEF ReadEnv
<1>3. CASE ReconcileDeployment
  <2> DEFINE c == Desired("deployment", loc.spec, loc.defined)
             up == IF Matches(cached["deployment"], c)
                   THEN cached["deployment"].up
                   ELSE objs["deployment"] # None /\ objs["deployment"].up
  <2>1. \/ /\ CreateOrUpdate("deployment", c) /\ pc' = "service" /\ UNCHANGED queued
           /\ loc' = [loc EXCEPT !.next.up = up]
        \/ Fail
    BY <1>3 DEF ReconcileDeployment, CreateOrUpdateFails
  <2>2. pc = "deployment" /\ seen' = seen /\ watched' = watched /\ UNCHANGED <<configMap, configMapEvent>>
    BY <1>3 DEF ReconcileDeployment, crVars, envVars
  <2>3. CASE /\ CreateOrUpdate("deployment", c) /\ pc' = "service" /\ UNCHANGED queued
             /\ loc' = [loc EXCEPT !.next.up = up]
    <3>1. c \in ContentOf("deployment")
      BY <1>k, <1>e
    <3>2. /\ events'["deployment"]
             \/ (UNCHANGED objVars /\ Matches(cached["deployment"], c) /\ objs["deployment"] = cached["deployment"])
          /\ ~Matches(cached["deployment"], c) =>
                objs'["deployment"].up = (objs["deployment"] # None /\ objs["deployment"].up)
      <4> HIDE DEF c
      <4> QED
        BY <1>o, <1>k, <2>3, <3>1, WriteDone
    <3>3. events'["deployment"] \/ up = objs'["deployment"].up
      <4> HIDE DEF c
      <4> QED
        BY <3>2 DEF objVars
    <3>4. Asked(events', watched, objs', "deployment", loc.spec, loc.defined)
      BY Zenon, <3>2 DEF Asked, objVars
    <3> HIDE DEF c, up
    <3>5. /\ loc'.spec = loc.spec /\ loc'.base = loc.base /\ loc'.defined = loc.defined
          /\ loc'.next = [loc.next EXCEPT !.up = up]
      BY <1>o, <2>3 DEF Locals
    <3>6. loc'.next.gen = loc.next.gen /\ loc'.next.url = loc.next.url /\ loc'.next.up = up
      <4>1. loc.next \in Statuses
        BY <1>o DEF Locals
      <4> QED
        BY <3>5, <4>1 DEF Statuses
    <3>7. ~queued' => Then
      <4> SUFFICES ASSUME ~queued' PROVE Then
        OBVIOUS
      <4>1. Now
        BY <1>n, <2>2, <2>3
      <4> QED
        BY <2>2, <2>3, <3>3, <3>4, <3>5, <3>6, <4>1 DEF FlightOf
    <3> QED
      BY <1>a, <2>3, <3>7
  <2> QED
    BY <2>1, <2>3, WakeDue
<1>4. CASE ReconcileService
  <2> DEFINE c == Desired("service", loc.spec, loc.defined)
  <2>1. (CreateOrUpdate("service", c) /\ pc' = "expose" /\ UNCHANGED <<queued, loc>>) \/ Fail
    BY <1>4 DEF ReconcileService, CreateOrUpdateFails
  <2>2. pc = "service" /\ seen' = seen /\ watched' = watched /\ UNCHANGED <<configMap, configMapEvent>>
    BY <1>4 DEF ReconcileService, crVars, envVars
  <2>3. CASE CreateOrUpdate("service", c) /\ pc' = "expose" /\ UNCHANGED <<queued, loc>>
    <3>1. c \in ContentOf("service")
      BY <1>k, <1>e
    <3>2. /\ events'["service"]
             \/ (UNCHANGED objVars /\ Matches(cached["service"], c) /\ objs["service"] = cached["service"])
          /\ objs'["deployment"] = objs["deployment"] /\ events'["deployment"] = events["deployment"]
      <4> HIDE DEF c
      <4> QED
        BY Zenon, <1>o, <1>k, <2>3, <3>1, WriteDone
    <3>3. Asked(events', watched, objs', "service", loc.spec, loc.defined)
      BY <3>2 DEF Asked, objVars
    <3>4. ~queued' => Then
      <4> SUFFICES ASSUME ~queued' PROVE Then
        OBVIOUS
      <4>1. Now
        BY <1>n, <2>2, <2>3
      <4>2. Asked(events', watched, objs', "deployment", loc.spec, loc.defined)
        BY ZenonT(40), <2>2, <3>2, <4>1, AskedStays DEF FlightOf
      <4> QED
        BY Zenon, <2>2, <2>3, <3>2, <3>3, <4>1, <4>2 DEF FlightOf
    <3> QED
      BY <1>a, <2>3, <3>4
  <2> QED
    BY <2>1, <2>3, WakeDue
<1>5. CASE ReconcileExposure
  <2> DEFINE k == Target(loc.spec)
             c == Desired(k, loc.spec, loc.defined)
  <2>1. \/ Fail
        \/ Exposed /\ UNCHANGED objVars /\ loc.spec.expose # "ingress"
        \/ Exposed /\ CreateOrUpdate(k, c)
    BY Zenon, <1>5 DEF ReconcileExposure, ReconcileIngress, ReconcileHTTPRoute, Target, CreateOrUpdateFails
  <2>2. pc = "expose" /\ seen' = seen /\ watched' = watched /\ UNCHANGED <<configMap, configMapEvent>>
    BY <1>5 DEF ReconcileExposure, crVars, envVars
  <2>3. k \in Kinds /\ k # "deployment" /\ k # "service" /\ (loc.spec.expose = "ingress" => k = "ingress")
    BY <1>k DEF Target
  <2>4. CASE Exposed /\ ((UNCHANGED objVars /\ loc.spec.expose # "ingress") \/ CreateOrUpdate(k, c))
    <3>1. c \in ContentOf(k)
      BY <1>e, <2>3
    <3>2. /\ \A j \in {"deployment", "service"} : objs'[j] = objs[j] /\ events'[j] = events[j]
          /\ \/ events'[k] \/ loc.spec.expose # "ingress"
             \/ (UNCHANGED objVars /\ Matches(cached[k], c) /\ objs[k] = cached[k])
      <4>1. CASE UNCHANGED objVars /\ loc.spec.expose # "ingress"
        BY Zenon, <4>1 DEF objVars
      <4>2. CASE CreateOrUpdate(k, c)
        <5> HIDE DEF c, k
        <5> QED
          BY ZenonT(40), <1>o, <1>k, <2>3, <3>1, <4>2, WriteDone
      <4> QED
        BY ZenonT(40), <2>4, <4>1, <4>2
    <3>3. loc.spec.expose = "ingress" => Asked(events', watched, objs', "ingress", loc.spec, loc.defined)
      <4> SUFFICES ASSUME loc.spec.expose = "ingress"
                   PROVE  Asked(events', watched, objs', "ingress", loc.spec, loc.defined)
        BY Zenon
      <4>1. k = "ingress"
        BY <2>3
      <4> QED
        BY Zenon, <3>2, <4>1 DEF Asked, objVars
    <3> HIDE DEF c, k
    <3>4. /\ loc'.spec = loc.spec /\ loc'.base = loc.base /\ loc'.defined = loc.defined
          /\ loc'.next = loc.next /\ loc'.again = (loc.spec.expose = "gateway") /\ queued' = queued
          /\ pc' = IF loc.spec.expose = "ingress" THEN "dropRoute" ELSE "dropIngress"
      BY <1>o, <2>4 DEF Exposed, AfterExpose, Locals
    <3>5. ~queued' => Then
      <4> SUFFICES ASSUME ~queued' PROVE Then
        OBVIOUS
      <4>1. Now
        BY ZenonT(40), <1>n, <2>2, <3>4
      <4>2. \A j \in {"deployment", "service"} : Asked(events', watched, objs', j, loc.spec, loc.defined)
        BY ZenonT(40), <2>2, <3>2, <4>1, AskedStays DEF FlightOf
      <4> QED
        BY ZenonT(40), <2>2, <3>2, <3>3, <3>4, <4>1, <4>2 DEF FlightOf
    <3> QED
      BY Zenon, <1>a, <3>4, <3>5
  <2> QED
    BY Zenon, <2>1, <2>4, WakeDue
<1>6. CASE DropIngress
  <2>1. \/ /\ Cleanup("ingress") /\ UNCHANGED <<queued, loc>>
           /\ pc' = IF loc.spec.expose = "none" THEN "dropRoute" ELSE "status"
        \/ Fail
    BY <1>6 DEF DropIngress, CleanupFails
  <2>2. pc = "dropIngress" /\ seen' = seen /\ watched' = watched /\ UNCHANGED <<configMap, configMapEvent>>
    BY <1>6 DEF DropIngress, crVars, envVars
  <2>3. CASE /\ Cleanup("ingress") /\ UNCHANGED <<queued, loc>>
             /\ pc' = IF loc.spec.expose = "none" THEN "dropRoute" ELSE "status"
    <3>1. /\ events'["ingress"] \/ ~Ours(objs'["ingress"])
          /\ \A j \in {"deployment", "service"} : objs'[j] = objs[j] /\ events'[j] = events[j]
      BY Zenon, <1>o, <1>k, <2>3, CleanupDone
    <3>2. loc.spec.expose # "ingress"
      BY <2>2 DEF Switch
    <3>3. Asked(events', watched, objs', "ingress", loc.spec, loc.defined)
      BY <3>1, <3>2 DEF Asked
    <3>4. pc' = "status" => Asked(events', watched, objs', "route", loc.spec, loc.defined)
      <4>1. loc.spec.expose \in {"none", "ingress", "gateway"}
        BY <1>o DEF Locals, Specs
      <4> QED
        BY <2>3, <3>2, <4>1 DEF Asked
    <3>5. ~queued' => Then
      <4> SUFFICES ASSUME ~queued' PROVE Then
        OBVIOUS
      <4>1. Now
        BY Zenon, <1>n, <2>2, <2>3
      <4>2. \A j \in {"deployment", "service"} : Asked(events', watched, objs', j, loc.spec, loc.defined)
        BY Zenon, <2>2, <3>1, <4>1, AskedStays DEF FlightOf
      <4> QED
        BY ZenonT(40), <2>2, <2>3, <3>1, <3>3, <3>4, <4>1, <4>2 DEF FlightOf
    <3> QED
      BY Zenon, <1>a, <2>3, <3>5
  <2> QED
    BY <2>1, <2>3, WakeDue
<1>7. CASE DropRoute
  <2>1. (Cleanup("route") /\ UNCHANGED <<queued, loc>> /\ pc' = "status") \/ Fail
    BY <1>7 DEF DropRoute, CleanupFails
  <2>2. pc = "dropRoute" /\ seen' = seen /\ watched' = watched /\ UNCHANGED <<configMap, configMapEvent>>
    BY <1>7 DEF DropRoute, crVars, envVars
  <2>3. CASE Cleanup("route") /\ UNCHANGED <<queued, loc>> /\ pc' = "status"
    <3>1. /\ events'["route"] \/ ~Ours(objs'["route"])
          /\ \A j \in {"deployment", "service", "ingress"} : objs'[j] = objs[j] /\ events'[j] = events[j]
      BY <1>o, <1>k, <2>3, CleanupDone
    <3>2. Asked(events', watched, objs', "route", loc.spec, loc.defined)
      BY <3>1 DEF Asked
    <3>3. ~queued' => Then
      <4> SUFFICES ASSUME ~queued' PROVE Then
        OBVIOUS
      <4>1. Now
        BY <1>n, <2>2, <2>3
      <4>2. \A j \in {"deployment", "service", "ingress"} : Asked(events', watched, objs', j, loc.spec, loc.defined)
        BY Zenon, <2>2, <3>1, <4>1, AskedStays DEF FlightOf
      <4> QED
        BY Zenon, <2>2, <2>3, <3>1, <3>2, <4>1, <4>2 DEF FlightOf
    <3> QED
      BY <1>a, <2>3, <3>3
  <2> QED
    BY <2>1, <2>3, WakeDue
<1>8. CASE WriteStatus
  <2>1. /\ pc = "status" /\ UNCHANGED <<spec, gen, seen>> /\ UNCHANGED objVars /\ UNCHANGED envVars
        /\ status' = Publish(loc.base, loc.next, status, gen)
        /\ seenFresh' = (seenFresh /\ status' = status)
        /\ (queued' = (queued \/ loc.again) /\ pc' = "idle") \/ Fail
    BY <1>8 DEF WriteStatus
  <2>2. CASE queued' = (queued \/ loc.again) /\ pc' = "idle"
    <3>1. InFlight'
      BY ZenonT(40), <2>2 DEF InFlight
    <3>2. AtRest'
      <4> SUFFICES ASSUME ~queued'
                   PROVE  RestOf(seen', seenFresh', CR', status', events', watched', objs', configMap', configMapEvent')
        BY RestNext
      <4>1. Now /\ ~loc.again
        BY ZenonT(40), <1>n, <2>1, <2>2
      <4>2. seen.spec.expose # "gateway"
        BY Zenon, <2>1, <4>1 DEF FlightOf
      <4>3. \/ ~seenFresh' \/ events'["deployment"]
            \/ status' = [gen |-> CR'.gen, url |-> ClusterURL(CR'.spec), up |-> objs'["deployment"].up]
        <5> SUFFICES ASSUME seenFresh', ~events["deployment"]
                     PROVE  status' = [gen |-> gen, url |-> ClusterURL(spec), up |-> objs["deployment"].up]
          BY <2>1 DEF CR, objVars
        <5>s. seenFresh
          BY Zenon, <2>1
        <5>r. seen = CR
          BY <5>s DEF Copies
        <5>1. seen.spec = spec /\ seen.gen = gen /\ seen.status = status
          BY <5>r DEF CR
        <5>2. /\ loc.base = status /\ loc.next.gen = gen /\ loc.next.url = ClusterURL(spec)
              /\ loc.next.up = objs["deployment"].up
          BY Zenon, <2>1, <4>1, <5>1 DEF FlightOf
        <5>3. loc.next \in Statuses /\ status \in Statuses
          BY <1>o DEF Locals, TypeOK
        <5>4. status' = loc.next
          BY <2>1, <5>2, <5>3, PublishFresh
        <5>5. loc.next = [gen |-> loc.next.gen, url |-> loc.next.url, up |-> loc.next.up]
          BY <5>3 DEF Statuses
        <5> QED
          BY <5>2, <5>4, <5>5
      <4>4. ASSUME NEW k \in Kinds
            PROVE  \/ k = "deployment" /\ configMapEvent' /\ seen'.spec.env = "configMap"
                   \/ Asked(events', watched', objs', k, seen'.spec,
                            seen'.spec.inject /\ seen'.spec.env = "configMap" /\ configMap')
        <5> DEFINE d == seen.spec.inject /\ seen.spec.env = "configMap" /\ configMap
        <5>1. Asked(events, watched, objs, k, seen.spec, loc.defined)
          BY ZenonT(40), <1>k, <2>1, <4>1, <4>4 DEF FlightOf
        <5>2. configMapEvent \/ loc.defined = d
          BY ZenonT(40), <2>1, <4>1 DEF FlightOf
        <5>3. seen.spec.env # "configMap" => loc.defined = d
          <6>1. loc.defined \in BOOLEAN
            BY <1>o DEF Locals
          <6> QED
            BY Zenon, <4>1, <6>1 DEF FlightOf
        <5> HIDE DEF d
        <5>4. \/ k = "deployment" /\ configMapEvent /\ seen.spec.env = "configMap"
              \/ Asked(events, watched, objs, k, seen.spec, d)
          <6>1. CASE k # "deployment"
            BY Zenon, <4>4, <5>1, <6>1, AskedAlike
          <6>2. CASE k = "deployment"
            BY <5>1, <5>2, <5>3, <6>2
          <6> QED
            BY Zenon, <6>1, <6>2
        <5> QED
          BY Zenon, <2>1, <5>4 DEF d, objVars, envVars
      <4>5. events'["deployment"] \/ Ours(objs'["deployment"])
        <5>1. events["deployment"] \/ Ours(objs["deployment"])
          BY Zenon, <2>1, <4>1 DEF FlightOf, Asked, Matches
        <5> QED
          BY <2>1, <5>1 DEF objVars
      <4> QED
        BY Zenon, <2>1, <4>2, <4>3, <4>4, <4>5 DEF RestOf
    <3> QED
      BY <3>1, <3>2
  <2> QED
    BY <2>1, <2>2, WakeDue
<1>9. CASE StatusFails
  BY <1>9, WakeDue DEF StatusFails
<1> QED
  BY <1>1, <1>2, <1>3, <1>4, <1>5, <1>6, <1>7, <1>8, <1>9 DEF Controller

\* What others do to an object keeps it as asked, or makes an event that counts.
LEMMA AskedInterfered ==
    ASSUME ObjectsOK, NEW j \in Kinds, NEW o, Store(j, o), Ours(o) => Ours(objs[j]),
           NEW k \in Kinds, NEW s, NEW d, Asked(events, watched, objs, k, s, d)
    PROVE  Asked(events', watched, objs', k, s, d)
<1>1. /\ objs'[j] = o /\ events'[j] = (events[j] \/ Ours(objs[j]) \/ Ours(o))
      /\ \A i \in Kinds : i # j => objs'[i] = objs[i] /\ events'[i] = events[i]
  BY ZenonT(40), StoreOne
<1>2. CASE k # j
  BY ZenonT(40), <1>1, <1>2 DEF Asked
<1>3. CASE k = j
  BY ZenonT(40), <1>1, <1>3 DEF Asked, Matches
<1> QED
  BY <1>2, <1>3

\* Every other step keeps InFlight and AtRest, too.
LEMMA WakeElsewhere ==
    ASSUME TypeOK, Copies, InFlight, AtRest, Sync \/ Environment \/ UNCHANGED vars
    PROVE  InFlight' /\ AtRest'
<1>o. ObjectsOK /\ loc \in Locals /\ queued \in BOOLEAN
  BY DEF TypeOK, ObjectsOK
<1>k. "deployment" \in Kinds
  BY DEF Kinds
<1>1. CASE SyncObject \/ OtherWakeUp \/ Crash
  BY <1>1, WakeDue DEF SyncObject, OtherWakeUp, Crash
<1>2. ASSUME NEW k \in Kinds, SyncKind(k)
      PROVE  InFlight' /\ AtRest'
  <2>1. /\ objs' = objs /\ events' = [events EXCEPT ![k] = FALSE]
        /\ queued' = (queued \/ (Watched(k) /\ events[k]))
        /\ UNCHANGED crVars /\ UNCHANGED envVars /\ pc' = pc /\ loc' = loc
    BY <1>2 DEF SyncKind
  <2>2. ~queued' => \A j \in Kinds : \/ events'[j] = events[j]
                                     \/ j = "route" /\ ~watched
    BY Zenon, <1>o, <2>1 DEF ObjectsOK, Watched
  <2>3. ~queued' => \A j \in Kinds : \A s, d : Asked(events, watched, objs, j, s, d)
                                               => Asked(events', watched, objs', j, s, d)
    BY Zenon, <2>1, <2>2 DEF Asked
  <2>4. ~queued' => events'["deployment"] = events["deployment"]
    BY <1>k, <2>2
  <2>5. seen' = seen /\ UNCHANGED <<watched, configMap, configMapEvent, seenFresh, spec, gen, status>>
    BY <2>1 DEF crVars, envVars
  <2> QED
    BY Zenon, <2>1, <2>3, <2>4, <2>5, WakeKept
<1>3. CASE ConfigMapArrives
  <2>1. /\ UNCHANGED objVars /\ UNCHANGED crVars /\ pc' = pc /\ loc' = loc /\ watched' = watched
        /\ queued' = (queued \/ seen.spec.env = "configMap")
    BY <1>3 DEF ConfigMapArrives
  <2>2. objs' = objs /\ events' = events /\ seen' = seen /\ UNCHANGED <<seenFresh, spec, gen, status>>
    BY <2>1 DEF objVars, crVars
  <2> QED
    BY Zenon, <2>1, <2>2, WakeKept
<1>4. CASE EditSpec \/ EditConfigMap \/ InstallGatewayAPI \/ UNCHANGED vars
  <2>1. /\ objs' = objs /\ events' = events /\ seen' = seen /\ pc' = pc /\ queued' = queued
        /\ watched' = watched
    BY <1>4 DEF EditSpec, EditConfigMap, InstallGatewayAPI, vars, objVars, crVars, envVars
  <2>2. configMapEvent' \/ UNCHANGED <<configMap, configMapEvent>>
    BY <1>4 DEF EditSpec, EditConfigMap, InstallGatewayAPI, vars, envVars
  <2>3. seenFresh' => seenFresh /\ UNCHANGED <<spec, gen, status>>
    BY ZenonT(40), <1>4 DEF EditSpec, EditConfigMap, InstallGatewayAPI, vars, crVars
  <2>4. loc' = loc \/ loc' = [loc EXCEPT !.sure = FALSE]
    BY <1>4 DEF EditSpec, EditConfigMap, InstallGatewayAPI, vars
  <2>5. /\ loc'.spec = loc.spec /\ loc'.base = loc.base /\ loc'.next = loc.next
        /\ loc'.defined = loc.defined /\ loc'.again = loc.again
    BY <1>o, <2>4 DEF Locals
  <2> QED
    BY Zenon, <2>1, <2>2, <2>3, <2>5, WakeKept
<1>5. ASSUME NEW k \in Kinds, NEW o, Store(k, o), Ours(o) => Ours(objs[k]),
             UNCHANGED crVars, UNCHANGED envVars, pc' = pc, queued' = queued,
             loc'.spec = loc.spec, loc'.base = loc.base, loc'.next = loc.next,
             loc'.defined = loc.defined, loc'.again = loc.again
      PROVE  InFlight' /\ AtRest'
  <2>1. \A j \in Kinds : \A s, d : Asked(events, watched, objs, j, s, d) => Asked(events', watched, objs', j, s, d)
    BY ZenonT(40), <1>o, <1>5, AskedInterfered
  <2>2. /\ events["deployment"] => events'["deployment"]
        /\ Ours(objs["deployment"]) => events'["deployment"] \/ objs'["deployment"] = objs["deployment"]
    BY Zenon, <1>o, <1>k, <1>5, StoreOne
  <2>3. seen' = seen /\ UNCHANGED <<watched, configMap, configMapEvent, seenFresh, spec, gen, status>>
    BY <1>5 DEF crVars, envVars
  <2> QED
    BY Zenon, <1>5, <2>1, <2>2, <2>3, WakeKept
<1>6. ASSUME NEW k \in Kinds, Interfere(k)
      PROVE  InFlight' /\ AtRest'
  <2>1. UNCHANGED crVars /\ UNCHANGED envVars /\ pc' = pc /\ queued' = queued
    BY <1>6 DEF Interfere
  <2>2. PICK o : Store(k, o) /\ (Ours(o) => Ours(objs[k]))
    <3>1. ~Ours(None) /\ ~Ours(Foreign("other"))
      BY DEF Ours, Foreign
    <3> QED
      BY <1>6, <3>1 DEF Interfere
  <2>3. loc' = [loc EXCEPT !.sure = loc.sure /\ k \notin {"ingress", "route"}]
    BY <1>6 DEF Interfere
  <2>4. /\ loc'.spec = loc.spec /\ loc'.base = loc.base /\ loc'.next = loc.next
        /\ loc'.defined = loc.defined /\ loc'.again = loc.again
    BY <1>o, <2>3 DEF Locals
  <2> QED
    BY Zenon, <1>5, <2>1, <2>2, <2>4
<1>7. CASE ReplicasChange
  <2>1. /\ UNCHANGED crVars /\ UNCHANGED envVars /\ pc' = pc /\ queued' = queued /\ loc' = loc
        /\ Ours(objs["deployment"]) /\ \E o : Store("deployment", o)
    BY <1>7 DEF ReplicasChange
  <2> QED
    BY <1>k, <1>5, <2>1
<1> QED
  BY <1>1, <1>2, <1>3, <1>4, <1>6, <1>7 DEF Sync, Environment

\* ExposureInv is an invariant, for all constants: caches that differ from the cluster
\* only until an event comes, a new exposure object in place before the old one goes,
\* and for every reconcile that no other is to follow, that what it read and wrote still
\* holds or an event is on its way.
THEOREM ExposureInvariant == Spec => []ExposureInv
<1>1. Init => ExposureInv
  <2> SUFFICES ASSUME Init PROVE ExposureInv
    OBVIOUS
  <2>1. Switch /\ InFlight /\ AtRest
    BY Zenon DEF Init, Switch, InFlight, AtRest
  <2> QED
    BY <2>1, InitType, CopiesInit DEF ExposureInv
<1>2. ExposureInv /\ [Next]_vars => ExposureInv'
  <2> SUFFICES ASSUME ExposureInv, [Next]_vars PROVE ExposureInv'
    OBVIOUS
  <2>1. TypeOK' /\ Copies' /\ Switch'
    BY TypeStep, CopiesStep, SwitchStep DEF ExposureInv
  <2>2. Controller \/ Sync \/ Environment \/ UNCHANGED vars
    BY DEF Next, Acts, Delivers
  <2>3. InFlight' /\ AtRest'
    BY <2>2, WakeController, WakeElsewhere DEF ExposureInv
  <2> QED
    BY <2>1, <2>3 DEF ExposureInv
<1> QED
  BY <1>1, <1>2, PTL DEF Spec

\* No wake-up is lost, for all constants: when no reconcile is due and no event is on its
\* way, Deployment, Service, exposure and status are as the spec and the ConfigMap ask,
\* so that the watches of SetupWithManager and the requeue of a gateway are enough.
THEOREM NoWakeUpLost == Spec => []QuietMeansRight
<1>1. ASSUME ExposureInv, Quiet PROVE Right
  <2>1. /\ seen = CR /\ ~configMapEvent /\ \A k \in Kinds : ~events[k] /\ ~stale[k]
    BY Zenon, <1>1 DEF Quiet, Synced, ExposureInv, Copies
  <2>2. seen.spec = spec
    BY <2>1 DEF CR
  <2>3. /\ spec.expose # "gateway"
        /\ status = [gen |-> gen, url |-> ClusterURL(spec), up |-> objs["deployment"].up]
        /\ \A k \in Kinds : AsAsked(k, spec, Defined(spec))
    <3>1. "deployment" \in Kinds
      BY DEF Kinds
    <3>2. AtRest /\ ~queued /\ pc = "idle" /\ seenFresh
      BY <1>1 DEF Quiet, Synced, ExposureInv
    <3> QED
      BY Zenon, <2>1, <2>2, <3>1, <3>2 DEF AtRest
  <2>4. /\ Matches(objs["deployment"], Desired("deployment", spec, Defined(spec)))
        /\ Matches(objs["service"], Desired("service", spec, Defined(spec)))
        /\ IF spec.expose = "ingress" THEN Matches(objs["ingress"], Desired("ingress", spec, Defined(spec)))
                                      ELSE ~Ours(objs["ingress"])
        /\ watched => ~Ours(objs["route"])
    BY <2>1, <2>3 DEF AsAsked, Kinds
  <2>5. Desired("deployment", spec, Defined(spec)) =
            [url |-> AccessURL(spec, spec.env = "configMap" /\ configMap), tls |-> spec.tls]
    BY DEF Desired, AccessURL, Defined
  <2>6. /\ Desired("service", spec, Defined(spec)) = ServicePortsOf(spec)
        /\ Desired("ingress", spec, Defined(spec)) = [backend |-> BackendPort(spec)]
    BY DEF Desired
  <2>7. spec \in Specs
    BY <1>1 DEF ExposureInv, TypeOK
  <2>8. ServicePortsOf(spec) # None
    <3>1. spec.port \in Ports /\ spec.tls \in BOOLEAN
      BY <2>7 DEF Specs
    <3>2. ServicePortsOf(spec) = ServicePortsOf([port |-> spec.port, tls |-> spec.tls])
      BY Zenon DEF ServicePortsOf, PortOf
    <3> QED
      BY <3>1, <3>2, NoneAssumption
  <2>9. [backend |-> BackendPort(spec)] # None
    <3>1. [backend |-> BackendPort(spec)] \in [backend : Ports]
      BY <2>7, ClusterURLType
    <3> QED
      BY <3>1, NoneAssumption
  <2>10. /\ Ours(objs["service"]) /\ objs["service"].as = ServicePortsOf(spec)
         /\ spec.expose = "ingress" => /\ Ours(objs["ingress"])
                                       /\ objs["ingress"].as = [backend |-> BackendPort(spec)]
    BY ZenonT(40), <2>4, <2>6 DEF Matches
  <2>11. spec.expose = "ingress" => objs["ingress"].as # None /\ objs["ingress"].as.backend = BackendPort(spec)
    <3>1. [backend |-> BackendPort(spec)].backend = BackendPort(spec)
      BY Zenon
    <3> QED
      BY Zenon, <2>9, <2>10, <3>1
  <2>12. Answers(ServicePortsOf(spec), ClusterURL(spec)) /\ TakesHTTP(ServicePortsOf(spec), BackendPort(spec))
    BY ClusterURLAnswered, BackendTakesHTTP
  <2> QED
    BY ZenonT(40), <2>3, <2>4, <2>5, <2>8, <2>10, <2>11, <2>12 DEF Right
<1>2. ExposureInv => QuietMeansRight
  BY <1>1 DEF QuietMeansRight
<1> QED
  BY <1>2, ExposureInvariant, PTL

=============================================================================
