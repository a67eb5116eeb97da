---------------------- MODULE WorkspaceStorage_Proofs -----------------------
(***************************************************************************)
(* The safety of the aggregated API server, for any number of clients,        *)
(* requests and faults, any metadata and files and any length of the queues:  *)
(* ServerInv is inductive, and it implies the properties of both storages.    *)
(* The steps of the CoderTemplate storage are those of                        *)
(* TemplateStorage_Proofs.                                                    *)
(***************************************************************************)
EXTENDS WorkspaceStorage, TemplateStorage_Proofs

-----------------------------------------------------------------------------
(* Types.                                                                    *)

\* A request as ServerTypeOK has it.
WsCallOK(r) ==
    r \in WsCalls /\ (r.step \in {"stop", "build"} \cup Sending => r.cur \in Workspaces)

LEMMA TypedWsCalls ==
    ASSUME ServerTypeOK
    PROVE  \A c \in Clients : WsCallOK(wsCall[c])
BY DEF ServerTypeOK, WsCallOK

LEMMA NoWsCallOK ==
    /\ WsCallOK(NoWsCall)
    /\ NoWsCall.step = "idle" /\ NoWsCall.alone = FALSE /\ NoWsCall.want = "start"
BY DEF WsCallOK, NoWsCall, WsCalls, WsSteps, Transitions, Sending, Opt

LEMMA WithBuildType ==
    ASSUME NEW w \in Workspaces, NEW t \in Transitions, NEW n \in Nat
    PROVE  /\ WithBuild(w, t, n) \in Workspaces
           /\ WithBuild(w, t, n).id = w.id /\ WithBuild(w, t, n).transition = t
           /\ WithBuild(w, t, n).stamp = n /\ WithBuild(w, t, n).status = "active"
BY DEF WithBuild, Workspaces

\* The workspace that WsStore leaves behind.
LEMMA WsStoreType ==
    ASSUME clock \in Nat, NEW w \in Workspaces, NEW t \in Transitions, WsStore(w, t)
    PROVE  /\ workspace' \in Workspaces /\ workspace' # None
           /\ workspace'.id = w.id /\ workspace'.transition = t /\ workspace'.stamp = clock'
           /\ workspace'.status = "active"
           /\ clock' \in Nat /\ wsSettled' = FALSE
<1>1. /\ workspace' = WithBuild(w, t, clock + 1) /\ clock' = clock + 1 /\ wsSettled' = FALSE
      /\ clock + 1 \in Nat
  BY DEF WsStore
<1> QED
  BY <1>1, WithBuildType, NoWorkspaceAssumption

-----------------------------------------------------------------------------
(* What a step of a handler has to do for the invariant to be kept.          *)

\* What is left behind around the requests.
WsWorld ==
    /\ UNCHANGED tmplVars
    /\ workspace' \in Opt(Workspaces)
    /\ wsSettled' \in BOOLEAN
    /\ clock' \in Nat
    /\ requests' \in 0 .. MaxRequests
    /\ faults' \in 0 .. MaxFaults
    /\ Queue!QueueTypeOK(WsEvents)'
    /\ wsLifecycle' = wsLifecycle

\* Only request c moves, and it does not become alone.
WsFrame(c) ==
    /\ wsCall[c].step # "idle"
    /\ \A d \in Clients : d # c => wsCall'[d] = wsCall[d]
    /\ wsCall'[c].alone => wsCall[c].alone
    /\ wsLifecycle' = wsLifecycle

\* What the handler has done at its next step.
WsLocal(c) ==
    /\ wsCall'[c].want = "delete" => wsCall'[c].step \in {"readForDelete", "build"} \cup Sending
    /\ wsCall'[c].alone => WsApplied(wsCall[c])'

\* The workspace changes, or the events still fit it.
WsTruthful(c) ==
    \/ wsSettled' = FALSE
    \/ /\ UNCHANGED <<wsQueueVars, workspace, wsSettled>>
       /\ wsSettled => wsCall'[c].step \notin Sending \cup {"stop"}

WsKept(c) == ServerTypeOK' /\ TemplateInv' /\ WsFrame(c) /\ WsLocal(c)

LEMMA WsMoveKeeps ==
    ASSUME ServerTypeOK, TemplateInv, NEW c \in Clients, wsCall[c].step # "idle", WsWorld,
           NEW n, WsCallOK(n), WsProceed(c, n), n.alone => wsCall[c].alone
    PROVE  ServerTypeOK' /\ TemplateInv' /\ WsFrame(c) /\ wsCall'[c] = n
<1>1. TypeOK' /\ TemplateInv'
  BY ElsewhereKeeps DEF ServerTypeOK, WsWorld, tmplVars
<1>2. /\ wsCall' \in [Clients -> WsCalls]
      /\ \A d \in Clients : WsCallOK(wsCall'[d])
      /\ wsCall'[c] = n
      /\ \A d \in Clients : d # c => wsCall'[d] = wsCall[d]
  BY TypedWsCalls DEF ServerTypeOK, WsProceed, WsCallOK
<1> QED
  BY <1>1, <1>2 DEF ServerTypeOK, WsFrame, WsWorld, WsCallOK

LEMMA WsRejectKeeps ==
    ASSUME ServerTypeOK, TemplateInv, NEW c \in Clients, wsCall[c].step # "idle", WsWorld, WsReject(c)
    PROVE  WsKept(c) /\ wsCall'[c] = NoWsCall
<1>1. ServerTypeOK' /\ TemplateInv' /\ WsFrame(c) /\ wsCall'[c] = NoWsCall
  BY WsMoveKeeps, NoWsCallOK DEF WsReject
<1>2. WsLocal(c)
  BY <1>1, NoWsCallOK DEF WsLocal
<1> QED
  BY <1>1, <1>2 DEF WsKept

LEMMA WsRejectTruthful ==
    ASSUME NEW c \in Clients, wsCall'[c] = NoWsCall,
           wsSettled' = FALSE \/ UNCHANGED <<wsQueueVars, workspace, wsSettled>>
    PROVE  WsTruthful(c)
BY NoWsCallOK DEF WsTruthful, Sending

\* Nothing but the request changes.
LEMMA WsQuietWorld ==
    ASSUME ServerTypeOK, UNCHANGED <<tmplVars, workspace, wsSettled, wsQueueVars, clock, requests>>,
           Fault \/ UNCHANGED faults
    PROVE  WsWorld
<1>1. TypeOK /\ UNCHANGED <<wsEvents, wsBroadcast, wsLifecycle, wsOther, wsOusted>>
  BY DEF ServerTypeOK, wsQueueVars
<1>2. Queue!QueueTypeOK(WsEvents)'
  BY <1>1 DEF ServerTypeOK, Queue!QueueTypeOK
<1> QED
  BY <1>1, <1>2, FaultType DEF ServerTypeOK, TypeOK, WsWorld

\* The workspace is changed.
LEMMA WsStoreWorld ==
    ASSUME ServerTypeOK, NEW w \in Workspaces, NEW t \in Transitions, WsStore(w, t),
           UNCHANGED <<tmplVars, wsQueueVars, requests>>,
           Fault \/ UNCHANGED faults
    PROVE  WsWorld
<1>1. TypeOK /\ UNCHANGED <<wsEvents, wsBroadcast, wsLifecycle, wsOther, wsOusted>>
  BY DEF ServerTypeOK, wsQueueVars
<1>2. Queue!QueueTypeOK(WsEvents)'
  BY <1>1 DEF ServerTypeOK, Queue!QueueTypeOK
<1>3. workspace' \in Workspaces /\ clock' \in Nat /\ wsSettled' = FALSE
  BY Zenon, <1>1, WsStoreType DEF TypeOK
<1> QED
  BY Zenon, <1>1, <1>2, <1>3, FaultType DEF TypeOK, WsWorld, Opt

-----------------------------------------------------------------------------
(* The conjuncts that other requests are about.                              *)

LEMMA WsAloneKept ==
    ASSUME ServerTypeOK, WsAlone, NEW c \in Clients, WsFrame(c)
    PROVE  /\ WsAlone'
           /\ \A d \in Clients : d # c /\ wsCall'[d].alone => wsCall'[d].step = "idle"
BY DEF WsAlone, WsFrame

LEMMA WsWantedKept ==
    ASSUME ServerTypeOK, WsWanted, NEW c \in Clients, WsFrame(c), WsLocal(c)
    PROVE  WsWanted'
BY DEF WsWanted, WsFrame, WsLocal

LEMMA WsProgressKept ==
    ASSUME ServerTypeOK, WsAlone, NEW c \in Clients, WsFrame(c), WsLocal(c)
    PROVE  WsProgress'
<1>1. ASSUME NEW d \in Clients, d # c, wsCall'[d].alone
      PROVE  WsApplied(wsCall[d])'
  BY <1>1, WsAloneKept DEF WsApplied, Sending
<1> QED
  BY <1>1 DEF WsProgress, WsLocal

LEMMA WsDrainingKept ==
    ASSUME ServerTypeOK, WsDraining, NEW c \in Clients, WsFrame(c), ServerTypeOK'
    PROVE  WsDraining'
<1>1. wsLifecycle = "open"
  BY DEF WsDraining, WsFrame, WsInFlight
<1> QED
  BY <1>1 DEF WsDraining, WsFrame

\* What WsDelivered says of the queue.
Queued ==
    /\ \A i \in DOMAIN wsEvents : Queue!Newest(i) => Shows(wsEvents[i].obj)
    /\ Queue!NoneQueued => wsBroadcast # <<>> /\ Shows(wsBroadcast[1].obj)

\* The queue and the workspace are left alone.
LEMMA WsQueueKept ==
    ASSUME UNCHANGED <<wsEvents, wsBroadcast, workspace>>
    PROVE  Queued' <=> Queued
<1>1. /\ \A i : Queue!Newest(i)' <=> Queue!Newest(i)
      /\ Queue!NoneQueued' <=> Queue!NoneQueued
  BY Zenon DEF Queue!Newest, Queue!NoneQueued
<1>2. \A w : Shows(w)' <=> Shows(w)
  BY Zenon DEF Shows
<1> QED
  BY Zenon, <1>1, <1>2 DEF Queued

LEMMA WsDeliveredKept ==
    ASSUME ServerTypeOK, WsDelivered, NEW c \in Clients, WsFrame(c), WsTruthful(c)
    PROVE  WsDelivered'
<1>1. CASE wsSettled' = FALSE
  BY <1>1 DEF WsDelivered
<1>2. CASE /\ UNCHANGED <<wsQueueVars, workspace, wsSettled>>
           /\ wsSettled => wsCall'[c].step \notin Sending \cup {"stop"}
  <2> SUFFICES ASSUME wsSettled
               PROVE  WsDelivered'
    BY <1>2 DEF WsDelivered
  <2>1. \A d \in Clients : wsCall'[d].step \notin Sending \cup {"stop"}
    BY <1>2 DEF WsDelivered, WsFrame
  <2>2. UNCHANGED <<wsEvents, wsBroadcast, wsOusted, workspace>>
    BY <1>2 DEF wsQueueVars
  <2> QED
    BY Zenon, <2>1, <2>2, WsQueueKept DEF WsDelivered, Queued
<1> QED
  BY Zenon, <1>1, <1>2 DEF WsTruthful

\* w shows the latest build after the step.
ShowsNext(w) == IF workspace' = None THEN w.transition = "delete" ELSE Same(workspace', w)

\* The step keeps the invariant.
LEMMA WsInvariantKept ==
    ASSUME ServerInv, NEW c \in Clients, WsKept(c), WsTruthful(c)
    PROVE  ServerInv'
BY WsAloneKept, WsWantedKept, WsProgressKept, WsDrainingKept, WsDeliveredKept
   DEF ServerInv, WorkspaceInv, WsKept

-----------------------------------------------------------------------------
(* Create.                                                                   *)

LEMMA ReadTemplateKeeps ==
    ASSUME ServerInv, NEW c \in Clients, ReadTemplate(c)
    PROVE  ServerInv'
<1> DEFINE r == wsCall[c]
           n == [r EXCEPT !.step = "create", !.template = tmpl.id]
<1>1. /\ r.step = "readTemplate" /\ ServerTypeOK /\ TemplateInv /\ WsCallOK(r) /\ r.want # "delete"
  BY TypedWsCalls DEF ServerInv, ReadTemplate, WorkspaceInv, WsWanted, Sending
<1>2. WsWorld /\ UNCHANGED <<wsQueueVars, workspace, wsSettled>>
  BY <1>1, WsQuietWorld DEF ReadTemplate
<1>3. CASE WsReject(c)
  BY <1>1, <1>2, <1>3, WsRejectKeeps, WsRejectTruthful, WsInvariantKept
<1>4. CASE tmpl # None /\ WsProceed(c, n)
  <2>1. tmpl.id \in Nat
    BY <1>1, <1>4 DEF ServerTypeOK, TypeOK, Opt, Templates
  <2>2. WsCallOK(n) /\ n.alone = r.alone /\ n.step = "create" /\ n.want = r.want
    BY Zenon, <1>1, <2>1 DEF WsCallOK, WsCalls, WsSteps, Sending
  <2> HIDE DEF n
  <2>3. ServerTypeOK' /\ TemplateInv' /\ WsFrame(c) /\ wsCall'[c] = n
    BY <1>1, <1>2, <1>4, <2>2, WsMoveKeeps
  <2>4. WsLocal(c)
    BY <1>1, <2>2, <2>3 DEF WsLocal, WsApplied, Sending
  <2>5. WsTruthful(c)
    BY <1>2, <2>2, <2>3 DEF WsTruthful, Sending
  <2> QED
    BY <2>3, <2>4, <2>5, WsInvariantKept DEF WsKept
<1> QED
  BY <1>3, <1>4 DEF ReadTemplate

LEMMA CreateWorkspaceKeeps ==
    ASSUME ServerInv, NEW c \in Clients, CreateWorkspace(c)
    PROVE  ServerInv'
<1> DEFINE r == wsCall[c]
           new == [id |-> clock + 1, transition |-> "start", status |-> "active", stamp |-> 0]
           s == IF r.want = "start" THEN "send" ELSE "stop"
           n == [r EXCEPT !.step = s, !.cur = workspace', !.type = "added"]
<1>1. /\ r.step = "create" /\ ServerTypeOK /\ TemplateInv /\ WsCallOK(r) /\ clock \in Nat
      /\ r.want \in {"start", "stop"}
  BY Zenon, TypedWsCalls DEF ServerInv, ServerTypeOK, TypeOK, CreateWorkspace, WorkspaceInv, WsWanted, Sending,
                      WsCallOK, WsCalls, Transitions
<1>2. CASE WsStore(new, "start") /\ WsAnswered(c, n)
  <2>1. new \in Workspaces /\ "start" \in Transitions
    BY <1>1 DEF Workspaces, Transitions
  <2>2. Fault \/ UNCHANGED faults
    BY <1>2 DEF WsAnswered
  <2> HIDE DEF new
  <2>3. /\ workspace' \in Workspaces /\ workspace' # None /\ workspace'.transition = "start"
        /\ wsSettled' = FALSE
    BY Zenon, <1>1, <1>2, <2>1, WsStoreType
  <2>4. WsWorld
    BY <1>1, <1>2, <2>1, <2>2, WsStoreWorld DEF CreateWorkspace
  <2>5. WsTruthful(c)
    BY <2>3 DEF WsTruthful
  <2>6. CASE WsReject(c)
    BY <1>1, <2>4, <2>5, <2>6, WsRejectKeeps, WsInvariantKept
  <2>7. CASE WsProceed(c, n)
    <3>1. /\ WsCallOK(n) /\ n.alone = r.alone /\ n.step = s /\ n.want = r.want /\ n.cur = workspace'
      BY ZenonT(40), <1>1, <2>3 DEF WsCallOK, WsCalls, WsSteps, Sending, Opt
    <3>2. (r.want = "start" /\ s = "send") \/ (r.want = "stop" /\ s = "stop")
      BY <1>1
    <3> HIDE DEF n, s
    <3>3. ServerTypeOK' /\ TemplateInv' /\ WsFrame(c) /\ wsCall'[c] = n
      BY <1>1, <2>4, <2>7, <3>1, WsMoveKeeps
    <3>4. WsLocal(c)
      BY <1>1, <2>3, <3>1, <3>2, <3>3 DEF WsLocal, WsApplied, Sending, Shows, Same
    <3> QED
      BY <2>5, <3>3, <3>4, WsInvariantKept DEF WsKept
  <2> QED
    BY <1>2, <2>6, <2>7 DEF WsAnswered
<1>3. CASE WsReject(c) /\ UNCHANGED <<workspace, wsSettled, clock, faults>>
  <2>1. WsWorld
    BY <1>1, <1>3, WsQuietWorld DEF CreateWorkspace
  <2> QED
    BY <1>1, <1>3, <2>1, WsRejectKeeps, WsRejectTruthful, WsInvariantKept DEF CreateWorkspace
<1> QED
  BY <1>2, <1>3 DEF CreateWorkspace

LEMMA StopCreatedKeeps ==
    ASSUME ServerInv, NEW c \in Clients, StopCreated(c)
    PROVE  ServerInv'
<1> DEFINE r == wsCall[c]
           next == [r EXCEPT !.step = "send"]
<1>1. /\ r.step = "stop" /\ ServerTypeOK /\ TemplateInv /\ WsCallOK(r) /\ clock \in Nat
      /\ r.want # "delete" /\ r.cur \in Workspaces
      /\ r.alone => WsApplied(r)
      /\ workspace # None => workspace \in Workspaces
  BY TypedWsCalls DEF ServerInv, ServerTypeOK, TypeOK, StopCreated, WorkspaceInv, WsWanted, Sending,
                      WsCallOK, WsProgress, Opt
<1>2. wsSettled = FALSE
  BY <1>1 DEF ServerInv, WorkspaceInv, WsDelivered, ServerTypeOK
<1>3. ASSUME WsWorld, wsSettled' = FALSE, NEW n, WsCallOK(n), WsProceed(c, n), n.step = "send",
             n.alone = r.alone, n.want = r.want,
             r.alone /\ n.stopped # "unknown" => ShowsNext(n.cur),
             r.alone /\ n.stopped = "yes" => n.cur.transition = r.want
      PROVE  ServerInv'
  <2>1. ServerTypeOK' /\ TemplateInv' /\ WsFrame(c) /\ wsCall'[c] = n
    BY Zenon, <1>1, <1>3, WsMoveKeeps
  <2>2. WsLocal(c)
    BY <1>1, <1>3, <2>1 DEF WsLocal, WsApplied, Sending, Shows, ShowsNext
  <2> QED
    BY Zenon, <1>3, <2>1, <2>2, WsInvariantKept DEF WsKept, WsTruthful
<1>4. CASE /\ workspace # None /\ workspace.id = r.cur.id /\ WsStore(workspace, "stop")
           /\ \/ WsProceed(c, [next EXCEPT !.cur = [r.cur EXCEPT !.transition = "stop", !.stamp = clock']])
                 /\ UNCHANGED faults
              \/ WsProceed(c, [next EXCEPT !.stopped = "unknown"]) /\ Fault
  <2>1. /\ workspace' \in Workspaces /\ workspace' # None /\ wsSettled' = FALSE
        /\ workspace'.id = workspace.id /\ workspace'.transition = "stop" /\ workspace'.stamp = clock'
        /\ clock' \in Nat
    BY Zenon, <1>1, <1>4, WsStoreType DEF Transitions
  <2>2. CASE /\ WsProceed(c, [next EXCEPT !.cur = [r.cur EXCEPT !.transition = "stop", !.stamp = clock']])
             /\ UNCHANGED faults
    <3> DEFINE w == [r.cur EXCEPT !.transition = "stop", !.stamp = clock']
               n == [next EXCEPT !.cur = w]
    <3>1. w \in Workspaces /\ w.id = r.cur.id /\ w.transition = "stop" /\ w.stamp = clock'
      BY Zenon, <1>1, <2>1 DEF Workspaces, Transitions
    <3> HIDE DEF w
    <3>2. /\ WsCallOK(n) /\ n.alone = r.alone /\ n.step = "send" /\ n.want = r.want /\ n.cur = w
          /\ n.stopped = r.stopped
      BY Zenon, <1>1, <3>1 DEF WsCallOK, WsCalls, WsSteps, Sending, Opt
    <3>3. WsWorld
      BY <1>1, <1>4, <2>2, WsStoreWorld DEF StopCreated, Transitions
    <3>4. ShowsNext(w)
      BY <1>4, <2>1, <3>1 DEF ShowsNext, Same
    <3>5. r.alone => r.want = "stop"
      BY <1>1 DEF WsApplied
    <3>6. WsProceed(c, n)
      BY <2>2 DEF w
    <3> HIDE DEF n
    <3> QED
      BY Zenon, <1>3, <2>1, <3>1, <3>2, <3>3, <3>4, <3>5, <3>6
  <2>3. CASE WsProceed(c, [next EXCEPT !.stopped = "unknown"]) /\ Fault
    <3> DEFINE n == [next EXCEPT !.stopped = "unknown"]
    <3>1. /\ WsCallOK(n) /\ n.alone = r.alone /\ n.step = "send" /\ n.want = r.want
          /\ n.stopped = "unknown"
      BY Zenon, <1>1 DEF WsCallOK, WsCalls, WsSteps, Sending, Opt
    <3>2. WsWorld
      BY <1>1, <1>4, <2>3, WsStoreWorld DEF StopCreated, Transitions
    <3> HIDE DEF n
    <3> QED
      BY Zenon, <1>3, <2>1, <2>3, <3>1, <3>2 DEF n
  <2> QED
    BY <1>4, <2>2, <2>3
<1>5. CASE /\ Fault \/ UNCHANGED faults
           /\ WsProceed(c, [next EXCEPT !.stopped = "refused"])
           /\ UNCHANGED <<workspace, wsSettled, clock>>
  <2> DEFINE n == [next EXCEPT !.stopped = "refused"]
  <2>1. /\ WsCallOK(n) /\ n.alone = r.alone /\ n.step = "send" /\ n.want = r.want
        /\ n.stopped = "refused" /\ n.cur = r.cur
    BY Zenon, <1>1 DEF WsCallOK, WsCalls, WsSteps, Sending, Opt
  <2>2. WsWorld
    BY <1>1, <1>5, WsQuietWorld DEF StopCreated
  <2>3. r.alone => ShowsNext(r.cur)
    BY <1>1, <1>5 DEF WsApplied, Shows, ShowsNext
  <2> HIDE DEF n
  <2> QED
    BY Zenon, <1>2, <1>3, <1>5, <2>1, <2>2, <2>3 DEF n
<1> QED
  BY <1>4, <1>5 DEF StopCreated, WsExists

-----------------------------------------------------------------------------
(* Update, Delete and the tool.                                              *)

\* The handler goes on without having changed anything, and is not sending yet.
LEMMA WsStepKeeps ==
    ASSUME ServerInv, NEW c \in Clients, wsCall[c].step # "idle",
           UNCHANGED <<tmplVars, workspace, wsSettled, wsQueueVars, clock, requests, faults>>,
           NEW n, WsCallOK(n), WsProceed(c, n), n.alone => wsCall[c].alone,
           n.step \in {"readForUpdate", "readTemplate", "build"},
           n.want = "delete" => n.step = "build"
    PROVE  ServerInv'
<1>1. ServerTypeOK /\ TemplateInv
  BY DEF ServerInv
<1>2. WsWorld
  BY <1>1, WsQuietWorld
<1>3. ServerTypeOK' /\ TemplateInv' /\ WsFrame(c) /\ wsCall'[c] = n
  BY <1>1, <1>2, WsMoveKeeps
<1>4. WsLocal(c)
  BY <1>3 DEF WsLocal, WsApplied, Sending
<1>5. WsTruthful(c)
  BY <1>3 DEF WsTruthful, Sending
<1> QED
  BY <1>3, <1>4, <1>5, WsInvariantKept DEF WsKept

\* The handler ends without having changed anything.
LEMMA WsEndKeeps ==
    ASSUME ServerInv, NEW c \in Clients, wsCall[c].step # "idle", WsReject(c),
           UNCHANGED <<tmplVars, workspace, wsSettled, wsQueueVars, clock, requests>>,
           Fault \/ UNCHANGED faults
    PROVE  ServerInv'
<1>1. ServerTypeOK /\ TemplateInv
  BY DEF ServerInv
<1>2. WsWorld
  BY <1>1, WsQuietWorld
<1> QED
  BY <1>1, <1>2, WsRejectKeeps, WsRejectTruthful, WsInvariantKept

LEMMA ToolGetKeeps ==
    ASSUME ServerInv, NEW c \in Clients, ToolGet(c)
    PROVE  ServerInv'
<1> DEFINE r == wsCall[c]
           n == [r EXCEPT !.step = "readForUpdate", !.rv = workspace.stamp]
<1>1. r.step = "toolGet" /\ WsCallOK(r) /\ r.want # "delete" /\ ServerTypeOK
  BY TypedWsCalls DEF ServerInv, ToolGet, WorkspaceInv, WsWanted, Sending
<1>2. CASE WsReject(c)
  BY <1>1, <1>2, WsEndKeeps DEF ToolGet
<1>3. CASE workspace # None /\ WsProceed(c, n)
  <2>1. workspace.stamp \in Nat
    BY <1>1, <1>3 DEF ServerTypeOK, Opt, Workspaces
  <2>2. WsCallOK(n) /\ n.alone = r.alone /\ n.step = "readForUpdate" /\ n.want = r.want
    BY Zenon, <1>1, <2>1 DEF WsCallOK, WsCalls, WsSteps, Sending, Opt
  <2> HIDE DEF n
  <2> QED
    BY <1>1, <1>3, <2>2, WsStepKeeps DEF ToolGet
<1> QED
  BY <1>2, <1>3 DEF ToolGet

LEMMA WsReadForUpdateKeeps ==
    ASSUME ServerInv, NEW c \in Clients, WsReadForUpdate(c)
    PROVE  ServerInv'
<1> DEFINE r == wsCall[c]
<1>1. r.step = "readForUpdate" /\ WsCallOK(r) /\ r.want # "delete" /\ ServerTypeOK
  BY TypedWsCalls DEF ServerInv, WsReadForUpdate, WorkspaceInv, WsWanted, Sending
<1>2. CASE WsReject(c)
  BY <1>1, <1>2, WsEndKeeps DEF WsReadForUpdate
<1>3. CASE WsProceed(c, [r EXCEPT !.step = "readTemplate"])
  <2> DEFINE n == [r EXCEPT !.step = "readTemplate"]
  <2>1. WsCallOK(n) /\ n.alone = r.alone /\ n.step = "readTemplate" /\ n.want = r.want
    BY <1>1 DEF WsCallOK, WsCalls, WsSteps, Sending, Opt
  <2> HIDE DEF n
  <2> QED
    BY Zenon, <1>1, <1>3, <2>1, WsStepKeeps DEF WsReadForUpdate, n
<1>4. CASE workspace # None /\ WsProceed(c, [r EXCEPT !.step = "build", !.cur = workspace])
  <2> DEFINE n == [r EXCEPT !.step = "build", !.cur = workspace]
  <2>1. WsCallOK(n) /\ n.alone = r.alone /\ n.step = "build" /\ n.want = r.want
    BY Zenon, <1>1, <1>4 DEF WsCallOK, WsCalls, WsSteps, Sending, Opt, ServerTypeOK
  <2> HIDE DEF n
  <2> QED
    BY Zenon, <1>1, <1>4, <2>1, WsStepKeeps DEF WsReadForUpdate, n
<1> QED
  BY <1>2, <1>3, <1>4 DEF WsReadForUpdate

LEMMA WsReadForDeleteKeeps ==
    ASSUME ServerInv, NEW c \in Clients, WsReadForDelete(c)
    PROVE  ServerInv'
<1> DEFINE r == wsCall[c]
           n == [r EXCEPT !.step = "build", !.cur = workspace]
<1>1. r.step = "readForDelete" /\ WsCallOK(r) /\ ServerTypeOK
  BY TypedWsCalls DEF ServerInv, WsReadForDelete
<1>2. CASE WsReject(c)
  BY <1>1, <1>2, WsEndKeeps DEF WsReadForDelete
<1>3. CASE workspace # None /\ WsProceed(c, n)
  <2>1. WsCallOK(n) /\ n.alone = r.alone /\ n.step = "build" /\ n.want = r.want
    BY Zenon, <1>1, <1>3 DEF WsCallOK, WsCalls, WsSteps, Sending, Opt, ServerTypeOK
  <2> HIDE DEF n
  <2> QED
    BY <1>1, <1>3, <2>1, WsStepKeeps DEF WsReadForDelete
<1> QED
  BY <1>2, <1>3 DEF WsReadForDelete

LEMMA CreateBuildKeeps ==
    ASSUME ServerInv, NEW c \in Clients, CreateBuild(c)
    PROVE  ServerInv'
<1> DEFINE r == wsCall[c]
           w == WithBuild(r.cur, r.want, clock')
           n == [r EXCEPT !.step = "send", !.cur = w]
<1>1. /\ r.step = "build" /\ ServerTypeOK /\ TemplateInv /\ WsCallOK(r) /\ clock \in Nat
      /\ r.cur \in Workspaces /\ r.want \in Transitions
      /\ workspace # None => workspace \in Workspaces
  BY Zenon, TypedWsCalls DEF ServerInv, ServerTypeOK, TypeOK, CreateBuild, WsCallOK, WsCalls, Opt
<1>2. CASE workspace # None /\ workspace.id = r.cur.id /\ WsStore(workspace, r.want) /\ WsAnswered(c, n)
  <2>1. /\ workspace' \in Workspaces /\ workspace' # None /\ wsSettled' = FALSE
        /\ workspace'.id = workspace.id /\ workspace'.transition = r.want /\ workspace'.stamp = clock'
        /\ clock' \in Nat
    BY ZenonT(40), <1>1, <1>2, WsStoreType
  <2>2. Fault \/ UNCHANGED faults
    BY <1>2 DEF WsAnswered
  <2>3. WsWorld
    BY <1>1, <1>2, <2>2, WsStoreWorld DEF CreateBuild
  <2>4. WsTruthful(c)
    BY <2>1 DEF WsTruthful
  <2>5. CASE WsReject(c)
    BY <1>1, <2>3, <2>4, <2>5, WsRejectKeeps, WsInvariantKept
  <2>6. CASE WsProceed(c, n)
    <3>1. w \in Workspaces /\ w.id = r.cur.id /\ w.transition = r.want /\ w.stamp = clock'
      BY <1>1, <2>1, WithBuildType
    <3> HIDE DEF w
    <3>2. WsCallOK(n) /\ n.alone = r.alone /\ n.step = "send" /\ n.want = r.want /\ n.cur = w
      BY Zenon, <1>1, <3>1 DEF WsCallOK, WsCalls, WsSteps, Sending, Opt
    <3> HIDE DEF n
    <3>3. ServerTypeOK' /\ TemplateInv' /\ WsFrame(c) /\ wsCall'[c] = n
      BY <1>1, <2>3, <2>6, <3>2, WsMoveKeeps
    <3>4. WsLocal(c)
      BY ZenonT(40), <1>1, <1>2, <2>1, <3>1, <3>2, <3>3 DEF WsLocal, WsApplied, Sending, Shows, Same
    <3> QED
      BY <2>4, <3>3, <3>4, WsInvariantKept DEF WsKept
  <2> QED
    BY <1>2, <2>5, <2>6 DEF WsAnswered
<1>3. CASE WsReject(c) /\ UNCHANGED <<workspace, wsSettled, clock, faults>>
  BY <1>1, <1>3, WsEndKeeps DEF CreateBuild
<1> QED
  BY <1>2, <1>3 DEF CreateBuild, WsExists

LEMMA WsCallFailsKeeps ==
    ASSUME ServerInv, NEW c \in Clients, WsCallFails(c)
    PROVE  ServerInv'
BY WsEndKeeps DEF WsCallFails

-----------------------------------------------------------------------------
(* enqueueWatchEvent.                                                        *)

LEMMA WsSendType ==
    ASSUME NEW e \in WsEvents, Queue!QueueTypeOK(WsEvents), ~Queue!Full, Queue!Send(e)
    PROVE  /\ Queue!QueueTypeOK(WsEvents)'
           /\ ~Queue!NoneQueued'
           /\ \A i : Queue!Newest(i)' => wsEvents'[i] = e
           /\ wsLifecycle' = wsLifecycle
<1>1. /\ wsEvents \in Seq(WsEvents \cup {Foreign}) /\ wsEvents' = Append(wsEvents, e)
      /\ e \in WsEvents \cup {Foreign} /\ e # Foreign
  BY ForeignWsAssumption DEF Queue!QueueTypeOK, Queue!Send
<1>2. /\ wsEvents' \in Seq(WsEvents \cup {Foreign})
      /\ Len(wsEvents') = Len(wsEvents) + 1
  BY <1>1, AppendKeeps
<1>3. ~NoneIn(wsEvents') /\ \A i : NewestIn(wsEvents', i) => wsEvents'[i] = e
  BY Zenon, <1>1, NewestAppended
<1>4. Len(wsEvents) \in Nat
  BY <1>1, LenProperties
<1>5. Len(wsEvents') <= QueueLen
  BY <1>2, <1>4, QueueLenAssumption DEF Queue!QueueTypeOK, Queue!Full
<1>6. Queue!QueueTypeOK(WsEvents)' /\ wsLifecycle' = wsLifecycle
  BY Zenon, <1>2, <1>5 DEF Queue!QueueTypeOK, Queue!Send
<1> QED
  BY Zenon, <1>3, <1>6 DEF Queue!Newest, Queue!NoneQueued, NewestIn, NoneIn

\* The oldest event is taken out.
LEMMA WsDropType ==
    ASSUME Queue!QueueTypeOK(WsEvents), wsEvents' = Queue!WithoutOldest
    PROVE  /\ wsEvents' \in Seq(WsEvents \cup {Foreign})
           /\ Len(wsEvents') <= QueueLen
           /\ Queue!NoneQueued' => Queue!NoneQueued \/ Queue!Newest(1)
           /\ \A i : Queue!Newest(i)' => \E j \in DOMAIN wsEvents : Queue!Newest(j) /\ wsEvents'[i] = wsEvents[j]
<1>1. wsEvents \in Seq(WsEvents \cup {Foreign}) /\ Len(wsEvents) <= QueueLen
  BY DEF Queue!QueueTypeOK
<1>2. CASE wsEvents = <<>>
  BY <1>1, <1>2 DEF Queue!WithoutOldest, Queue!NoneQueued, Queue!Newest
<1>3. CASE wsEvents # <<>>
  <2>1. wsEvents' = Tail(wsEvents)
    BY <1>3 DEF Queue!WithoutOldest
  <2>2. /\ wsEvents' \in Seq(WsEvents \cup {Foreign})
        /\ Len(wsEvents') = Len(wsEvents) - 1
        /\ Len(wsEvents) \in Nat \ {0}
    BY <1>1, <1>3, <2>1, TailKeeps
  <2>3. Len(wsEvents') <= QueueLen
    BY <1>1, <2>2, QueueLenAssumption
  <2>4. /\ NoneIn(wsEvents') => NoneIn(wsEvents) \/ NewestIn(wsEvents, 1)
        /\ \A i : NewestIn(wsEvents', i) => NewestIn(wsEvents, i + 1) /\ wsEvents'[i] = wsEvents[i + 1]
    BY Zenon, <1>1, <1>3, <2>1, OldestDropped
  <2> QED
    BY Zenon, <2>2, <2>3, <2>4 DEF Queue!Newest, Queue!NoneQueued, NewestIn, NoneIn
<1> QED
  BY <1>2, <1>3

\* A request sends its event and ends.
LEMMA WsSentKeeps ==
    ASSUME ServerInv, NEW c \in Clients, wsCall[c].step \in Sending, ~Queue!Full,
           Queue!Send(WsEvent(c)), WsSucceed(c),
           UNCHANGED <<tmplVars, workspace, clock, requests, faults>>
    PROVE  ServerInv'
<1> DEFINE r == wsCall[c]
<1>1. /\ ServerTypeOK /\ TemplateInv /\ r.step # "idle" /\ WsCallOK(r) /\ wsSettled = FALSE
      /\ Queue!QueueTypeOK(WsEvents) /\ TypeOK
  BY Zenon, TypedWsCalls DEF ServerInv, WorkspaceInv, WsDelivered, ServerTypeOK, Sending
<1>2. WsEvent(c) \in WsEvents /\ WsEvent(c).obj = r.cur
  BY Zenon, <1>1 DEF WsCallOK, WsCalls, WsEvent, WsEvents
<1>3. /\ Queue!QueueTypeOK(WsEvents)'
      /\ ~Queue!NoneQueued'
      /\ \A i : Queue!Newest(i)' => wsEvents'[i] = WsEvent(c)
      /\ wsLifecycle' = wsLifecycle
  BY Zenon, <1>1, <1>2, WsSendType
<1>4. WsReject(c) /\ wsSettled' = (r.alone /\ r.stopped # "unknown")
  BY Zenon, <1>1 DEF WsSucceed, WsReject
<1>5. WsWorld
  BY ZenonT(40), <1>1, <1>3, <1>4 DEF WsWorld, ServerTypeOK, TypeOK
<1>6. WsKept(c) /\ wsCall'[c] = NoWsCall
  BY Zenon, <1>1, <1>4, <1>5, WsRejectKeeps
<1>7. WsDelivered'
  <2> SUFFICES ASSUME wsSettled'
               PROVE  WsDelivered'
    BY Zenon DEF WsDelivered
  <2>1. r.alone /\ r.stopped # "unknown"
    BY Zenon, <1>4
  <2>2. \A d \in Clients : wsCall'[d].step = "idle"
    BY ZenonT(40), <1>1, <1>6, <2>1, NoWsCallOK DEF ServerInv, WorkspaceInv, WsAlone, WsKept, WsFrame
  <2>3. Shows(r.cur)
    BY Zenon, <2>1 DEF ServerInv, WorkspaceInv, WsProgress, WsApplied
  <2>4. workspace' = workspace
    OBVIOUS
  <2>5. \A i \in DOMAIN wsEvents' : Queue!Newest(i)' => Shows(wsEvents[i].obj)'
    BY Zenon, <1>2, <1>3, <2>3, <2>4 DEF Shows
  <2> QED
    BY Zenon, <1>3, <2>2, <2>5 DEF WsDelivered, Sending
<1> QED
  BY <1>6, <1>7, WsAloneKept, WsWantedKept, WsProgressKept, WsDrainingKept
     DEF ServerInv, WorkspaceInv, WsKept

LEMMA WsSendEventKeeps ==
    ASSUME ServerInv, NEW c \in Clients, WsSendEvent(c)
    PROVE  ServerInv'
<1> DEFINE r == wsCall[c]
           n == [r EXCEPT !.step = "full"]
<1>1. /\ r.step = "send" /\ ServerTypeOK /\ TemplateInv /\ WsCallOK(r) /\ wsSettled = FALSE
      /\ r.alone => WsApplied(r)
  BY TypedWsCalls DEF WsSendEvent, ServerInv, WorkspaceInv, WsDelivered, WsProgress, ServerTypeOK, Sending
<1>2. CASE WsProceed(c, n) /\ UNCHANGED <<wsQueueVars, wsSettled>>
  <2>1. WsWorld /\ UNCHANGED <<workspace, wsSettled>>
    BY <1>1, <1>2, WsQuietWorld DEF WsSendEvent
  <2>2. /\ WsCallOK(n) /\ n.step = "full" /\ n.want = r.want /\ n.cur = r.cur /\ n.alone = r.alone
        /\ n.stopped = r.stopped
    BY <1>1 DEF WsCallOK, WsCalls, WsSteps, Sending
  <2> HIDE DEF n
  <2>3. ServerTypeOK' /\ TemplateInv' /\ WsFrame(c) /\ wsCall'[c] = n
    BY Zenon, <1>1, <1>2, <2>1, <2>2, WsMoveKeeps
  <2>4. WsLocal(c)
    BY Zenon, <1>1, <2>1, <2>2, <2>3 DEF WsLocal, WsApplied, Shows, Sending
  <2>5. WsTruthful(c)
    BY <1>1, <2>1 DEF WsTruthful
  <2> QED
    BY <2>3, <2>4, <2>5, WsInvariantKept DEF WsKept
<1>3. CASE ~Queue!Full /\ Queue!Send(WsEvent(c)) /\ WsSucceed(c)
  BY <1>1, <1>3, WsSentKeeps DEF WsSendEvent, Sending
<1> QED
  BY <1>2, <1>3 DEF WsSendEvent

LEMMA WsMakeRoomKeeps ==
    ASSUME ServerInv, NEW c \in Clients, WsMakeRoom(c)
    PROVE  ServerInv'
<1> DEFINE r == wsCall[c]
           n == [r EXCEPT !.step = "resend"]
<1>1. /\ r.step = "full" /\ ServerTypeOK /\ TypeOK /\ TemplateInv /\ WsCallOK(r) /\ wsSettled = FALSE
      /\ r.alone => WsApplied(r)
  BY TypedWsCalls DEF WsMakeRoom, ServerInv, WorkspaceInv, WsDelivered, WsProgress, ServerTypeOK, Sending
<1>2. Queue!QueueTypeOK(WsEvents)'
  <2>1. Queue!QueueTypeOK(WsEvents) /\ wsEvents' = Queue!WithoutOldest
    BY <1>1 DEF ServerTypeOK, WsMakeRoom, Queue!DropOldest
  <2> QED
    BY <2>1, WsDropType DEF WsMakeRoom, Queue!DropOldest, Queue!QueueTypeOK
<1>3. WsWorld /\ UNCHANGED <<workspace, wsSettled>>
  BY <1>1, <1>2 DEF WsWorld, ServerTypeOK, TypeOK, WsMakeRoom, Queue!DropOldest
<1>4. /\ WsCallOK(n) /\ n.step = "resend" /\ n.want = r.want /\ n.cur = r.cur /\ n.alone = r.alone
      /\ n.stopped = r.stopped
  BY <1>1 DEF WsCallOK, WsCalls, WsSteps, Sending
<1> HIDE DEF n
<1>5. ServerTypeOK' /\ TemplateInv' /\ WsFrame(c) /\ wsCall'[c] = n
  BY ZenonT(40), <1>1, <1>3, <1>4, WsMoveKeeps DEF WsMakeRoom, n
<1>6. WsLocal(c)
  BY ZenonT(40), <1>1, <1>2, <1>3, <1>4, <1>5 DEF WsLocal, WsApplied, Shows, Sending
<1>7. WsTruthful(c)
  BY <1>1, <1>3 DEF WsTruthful
<1> QED
  BY <1>5, <1>6, <1>7, WsInvariantKept DEF WsKept

LEMMA WsResendEventKeeps ==
    ASSUME ServerInv, NEW c \in Clients, WsResendEvent(c)
    PROVE  ServerInv'
<1> DEFINE r == wsCall[c]
<1>1. /\ r.step = "resend" /\ ServerTypeOK /\ TemplateInv /\ WsCallOK(r) /\ wsSettled = FALSE
  BY Zenon, TypedWsCalls DEF WsResendEvent, ServerInv, WorkspaceInv, WsDelivered, ServerTypeOK, Sending
<1>2. CASE Queue!GiveUp
  <2>1. /\ UNCHANGED <<wsEvents, wsBroadcast, wsLifecycle, wsOther>> /\ wsOusted' = TRUE
        /\ UNCHANGED <<tmplVars, workspace, clock, requests, faults>>
    BY <1>2 DEF Queue!GiveUp, WsResendEvent
  <2>2. WsReject(c) /\ wsSettled' = (r.alone /\ r.stopped # "unknown")
    BY Zenon, <1>1 DEF WsResendEvent, WsSucceed, WsReject
  <2>3. Queue!QueueTypeOK(WsEvents)'
    BY <1>1, <2>1 DEF ServerTypeOK, Queue!QueueTypeOK
  <2>4. WsWorld
    BY ZenonT(40), <1>1, <2>1, <2>2, <2>3 DEF WsWorld, ServerTypeOK, TypeOK
  <2>5. WsKept(c) /\ wsCall'[c] = NoWsCall
    BY Zenon, <1>1, <2>2, <2>4, WsRejectKeeps
  <2>6. WsDelivered'
    <3> SUFFICES ASSUME wsSettled'
                 PROVE  WsDelivered'
      BY Zenon DEF WsDelivered
    <3>1. \A d \in Clients : wsCall'[d].step = "idle"
      BY Zenon, <1>1, <2>2, <2>5, NoWsCallOK DEF ServerInv, WorkspaceInv, WsAlone, WsKept, WsFrame
    <3> QED
      BY Zenon, <2>1, <3>1 DEF WsDelivered, Sending
  <2> QED
    BY Zenon, <2>5, <2>6, WsAloneKept, WsWantedKept, WsProgressKept, WsDrainingKept
       DEF ServerInv, WorkspaceInv, WsKept
<1>3. CASE ~Queue!Full /\ Queue!Send(WsEvent(c))
  BY Zenon, <1>1, <1>3, WsSentKeeps DEF WsResendEvent, Sending
<1> QED
  BY <1>2, <1>3 DEF WsResendEvent

\* Every step of a handler keeps the invariant.
LEMMA WsHandlerKeeps ==
    ASSUME ServerInv, NEW c \in Clients, WsHandler(c)
    PROVE  ServerInv'
BY ReadTemplateKeeps, CreateWorkspaceKeeps, StopCreatedKeeps, ToolGetKeeps, WsReadForUpdateKeeps,
   WsReadForDeleteKeeps, CreateBuildKeeps, WsSendEventKeeps, WsMakeRoomKeeps, WsResendEventKeeps,
   WsCallFailsKeeps DEF WsHandler

-----------------------------------------------------------------------------
(* Everything else.                                                          *)

\* A request begins; it is alone only if no other one is in flight.
LEMMA WsBeginKeeps ==
    ASSUME ServerInv, NEW c \in Clients, NEW first, first \in WsCalls,
           first.step \in {"readTemplate", "readForUpdate", "readForDelete", "toolGet"},
           first.want = "delete" => first.step = "readForDelete",
           WsBegin(c, first)
    PROVE  ServerInv'
<1> DEFINE n == [first EXCEPT !.alone = (WsInFlight = {})]
<1>1. n \in WsCalls /\ n.step = first.step /\ n.want = first.want /\ (n.alone <=> WsInFlight = {})
  BY Zenon DEF WsCalls
<1>2. n.step \notin {"idle", "stop", "build"} \cup Sending
  BY <1>1 DEF Sending
<1> HIDE DEF n
<1>3. wsCall'[c] = n /\ wsCall[c].step = "idle"
  BY DEF WsBegin, WsInFlight, n
<1>4. ASSUME NEW d \in Clients, d # c
      PROVE  /\ wsCall'[d] \in WsCalls
             /\ wsCall'[d].step = wsCall[d].step /\ wsCall'[d].want = wsCall[d].want
             /\ wsCall'[d].cur = wsCall[d].cur
             /\ wsCall[d].step # "idle" => ~wsCall'[d].alone
  BY Zenon, <1>4, TypedWsCalls DEF ServerInv, WsBegin, WsInFlight, WsCallOK, WsCalls
<1>5. /\ UNCHANGED <<wsEvents, wsBroadcast, wsLifecycle, wsOther, wsOusted, workspace, wsSettled>>
      /\ wsLifecycle = "open"
  BY DEF WsBegin, wsQueueVars
<1>6. TypeOK' /\ TemplateInv'
  <2>1. requests' \in 0 .. MaxRequests /\ clock' \in Nat /\ faults' \in 0 .. MaxFaults
    BY ConstantsAssumption DEF ServerInv, ServerTypeOK, TypeOK, WsBegin
  <2> QED
    BY <2>1, ElsewhereKeeps DEF ServerInv, ServerTypeOK, WsBegin, tmplVars
<1>7. ServerTypeOK'
  <2>1. wsCall' \in [Clients -> WsCalls]
    <3>1. \A d \in Clients : wsCall'[d] \in WsCalls
      BY <1>1, <1>3, <1>4
    <3>2. wsCall' = [d \in Clients |-> wsCall'[d]]
      BY DEF WsBegin
    <3> QED
      BY <3>1, <3>2
  <2>2. \A d \in Clients : wsCall'[d].step \in {"stop", "build"} \cup Sending =>
                               wsCall'[d].cur \in Workspaces
    BY Zenon, <1>2, <1>3, <1>4, TypedWsCalls DEF WsCallOK, ServerInv
  <2> QED
    BY ZenonT(40), <1>5, <1>6, <2>1, <2>2 DEF ServerInv, ServerTypeOK, Queue!QueueTypeOK
<1>8. WsAlone'
  BY ZenonT(40), <1>1, <1>3, <1>4 DEF WsAlone, WsInFlight
<1>9. WsWanted'
  BY Zenon, <1>1, <1>3, <1>4 DEF ServerInv, WorkspaceInv, WsWanted
<1>10. WsProgress'
  BY Zenon, <1>2, <1>3, <1>4 DEF WsProgress, WsApplied, Sending
<1>11. WsDelivered'
  BY ZenonT(40), <1>2, <1>3, <1>4, <1>5, WsQueueKept DEF ServerInv, WorkspaceInv, WsDelivered, Queued
<1>12. WsDraining'
  BY Zenon, <1>5 DEF WsDraining
<1> QED
  BY <1>6, <1>7, <1>8, <1>9, <1>10, <1>11, <1>12 DEF ServerInv, WorkspaceInv

LEMMA WsBeginsKeeps ==
    ASSUME ServerInv, NEW c \in Clients, WsBegins(c)
    PROVE  ServerInv'
<1>1. NoWsCall \in WsCalls /\ NoWsCall.want = "start"
  BY NoWsCallOK DEF WsCallOK
<1>2. CASE BeginWsCreate(c)
  <2>1. PICK w \in {"start", "stop"}, p \in {"own", "other"} :
           WsBegin(c, [NoWsCall EXCEPT !.step = "readTemplate", !.want = w, !.pin = p])
    BY Zenon, <1>2 DEF BeginWsCreate
  <2> DEFINE first == [NoWsCall EXCEPT !.step = "readTemplate", !.want = w, !.pin = p]
  <2>2. first \in WsCalls /\ first.step = "readTemplate" /\ first.want # "delete"
    BY Zenon, <1>1 DEF WsCalls, WsSteps, Transitions
  <2> HIDE DEF first
  <2> QED
    BY Zenon, <2>1, <2>2, WsBeginKeeps DEF first
<1>3. CASE BeginWsUpdate(c)
  <2>1. PICK w \in {"start", "stop"}, p \in {"own", "other"},
            rv \in {None, 0, IF workspace = None THEN 0 ELSE workspace.stamp} :
           WsBegin(c, [NoWsCall EXCEPT !.step = "readForUpdate", !.want = w, !.pin = p, !.rv = rv])
    BY Zenon, <1>3 DEF BeginWsUpdate
  <2> DEFINE first == [NoWsCall EXCEPT !.step = "readForUpdate", !.want = w, !.pin = p, !.rv = rv]
  <2>2. rv \in Opt(Nat)
    BY <2>1 DEF ServerInv, ServerTypeOK, Workspaces, Opt
  <2>3. first \in WsCalls /\ first.step = "readForUpdate" /\ first.want # "delete"
    BY Zenon, <1>1, <2>2 DEF WsCalls, WsSteps, Transitions
  <2> HIDE DEF first
  <2> QED
    BY Zenon, <2>1, <2>3, WsBeginKeeps DEF first
<1>4. CASE BeginWsDelete(c)
  <2> DEFINE first == [NoWsCall EXCEPT !.step = "readForDelete", !.want = "delete"]
  <2>1. first \in WsCalls /\ first.step = "readForDelete"
    BY Zenon, <1>1 DEF WsCalls, WsSteps, Transitions
  <2> HIDE DEF first
  <2> QED
    BY Zenon, <1>4, <2>1, WsBeginKeeps DEF first, BeginWsDelete
<1>5. CASE BeginSetRunning(c)
  <2>1. PICK w \in {"start", "stop"} : WsBegin(c, [NoWsCall EXCEPT !.step = "toolGet", !.want = w])
    BY Zenon, <1>5 DEF BeginSetRunning
  <2> DEFINE first == [NoWsCall EXCEPT !.step = "toolGet", !.want = w]
  <2>2. first \in WsCalls /\ first.step = "toolGet" /\ first.want # "delete"
    BY Zenon, <1>1 DEF WsCalls, WsSteps, Transitions
  <2> HIDE DEF first
  <2> QED
    BY Zenon, <2>1, <2>2, WsBeginKeeps DEF first
<1> QED
  BY <1>2, <1>3, <1>4, <1>5 DEF WsBegins

LEMMA WsBuildEndsKeeps ==
    ASSUME ServerInv, WsBuildEnds
    PROVE  ServerInv'
<1>1. /\ UNCHANGED <<wsCall, wsSettled, wsEvents, wsBroadcast, wsLifecycle, wsOther, wsOusted>>
      /\ workspace \in Workspaces /\ workspace # None
  BY DEF ServerInv, ServerTypeOK, WsBuildEnds, wsQueueVars, Opt
<1>2. \/ workspace' = None /\ workspace.transition = "delete"
      \/ /\ workspace' \in Workspaces /\ workspace' # None
         /\ workspace'.id = workspace.id /\ workspace'.transition = workspace.transition
         /\ workspace'.stamp = workspace.stamp
  <2>1. PICK s \in {"done", "failed"} :
           workspace' = IF s = "done" /\ workspace.transition = "delete" THEN None
                        ELSE [workspace EXCEPT !.status = s]
    BY DEF WsBuildEnds
  <2> DEFINE w == [workspace EXCEPT !.status = s]
  <2>2. /\ w \in Workspaces /\ w.id = workspace.id /\ w.transition = workspace.transition
        /\ w.stamp = workspace.stamp
    BY <1>1 DEF Workspaces
  <2> HIDE DEF w
  <2>3. (workspace' = None /\ workspace.transition = "delete") \/ workspace' = w
    BY <2>1 DEF w
  <2> QED
    BY <2>2, <2>3, NoWorkspaceAssumption
<1>3. \A w : Shows(w) => ShowsNext(w)
  BY <1>1, <1>2 DEF Shows, ShowsNext, Same
<1>4. TypeOK' /\ TemplateInv'
  BY ZenonT(40), ElsewhereKeeps DEF ServerInv, ServerTypeOK, TypeOK, WsBuildEnds, tmplVars
<1>5. ServerTypeOK'
  BY ZenonT(40), <1>1, <1>2, <1>4 DEF ServerInv, ServerTypeOK, Queue!QueueTypeOK, Opt
<1>6. WsProgress'
  BY ZenonT(40), <1>1, <1>3 DEF ServerInv, WorkspaceInv, WsProgress, WsApplied, Shows, ShowsNext
<1>7. WsDelivered'
  <2>1. /\ \A i : Queue!Newest(i)' <=> Queue!Newest(i)
        /\ Queue!NoneQueued' <=> Queue!NoneQueued
    BY Zenon, <1>1 DEF Queue!Newest, Queue!NoneQueued
  <2>2. \A w : Shows(w) => Shows(w)'
    BY Zenon, <1>3 DEF Shows, ShowsNext
  <2> QED
    BY ZenonT(40), <1>1, <2>1, <2>2 DEF ServerInv, WorkspaceInv, WsDelivered
<1>8. WsAlone' /\ WsWanted' /\ WsDraining'
  BY Zenon, <1>1 DEF ServerInv, WorkspaceInv, WsAlone, WsWanted, WsDraining, WsInFlight
<1> QED
  BY <1>4, <1>5, <1>6, <1>7, <1>8 DEF ServerInv, WorkspaceInv

\* The queue moves, and what is broadcast, but nothing else.
LEMMA WsQueueMovesKeeps ==
    ASSUME ServerInv, Queue!QueueTypeOK(WsEvents)', wsLifecycle' = wsLifecycle,
           wsLifecycle = "open" \/ (UNCHANGED wsOther /\ (wsEvents = <<>> => wsEvents' = <<>>)),
           UNCHANGED <<tmplVars, workspace, wsCall, wsSettled, clock, faults>>,
           requests' \in 0 .. MaxRequests,
           wsSettled /\ ~wsOusted' => Queued'
    PROVE  ServerInv'
<1>1. TypeOK' /\ TemplateInv'
  BY Zenon, ElsewhereKeeps DEF ServerInv, ServerTypeOK, TypeOK, tmplVars
<1>2. ServerTypeOK'
  BY Zenon, <1>1 DEF ServerInv, ServerTypeOK
<1>3. WsDelivered'
  BY Zenon DEF ServerInv, WorkspaceInv, WsDelivered, Queued
<1>4. WsAlone' /\ WsWanted' /\ WsProgress'
  BY ZenonT(40) DEF ServerInv, WorkspaceInv, WsAlone, WsWanted, WsProgress, WsApplied, Shows
<1>5. WsDraining'
  BY Zenon DEF ServerInv, WorkspaceInv, WsDraining, WsInFlight
<1> QED
  BY Zenon, <1>1, <1>2, <1>3, <1>4, <1>5 DEF ServerInv, WorkspaceInv

\* What WsDelivered says of the queue survives the loss of its oldest event, unless
\* that was the newest.
LEMMA WsDropDelivers ==
    ASSUME ServerInv, wsSettled, ~wsOusted, wsEvents' = Queue!WithoutOldest, UNCHANGED workspace
    PROVE  \A i \in DOMAIN wsEvents' : Queue!Newest(i)' => Shows(wsEvents[i].obj)'
<1>1. \A i : Queue!Newest(i)' => \E j \in DOMAIN wsEvents : Queue!Newest(j) /\ wsEvents'[i] = wsEvents[j]
  BY Zenon, WsDropType DEF ServerInv, ServerTypeOK
<1>2. \A i \in DOMAIN wsEvents : Queue!Newest(i) => Shows(wsEvents[i].obj)
  BY Zenon DEF ServerInv, WorkspaceInv, WsDelivered
<1>3. \A w : Shows(w)' <=> Shows(w)
  BY Zenon DEF Shows
<1> QED
  BY Zenon, <1>1, <1>2, <1>3

LEMMA WsDispatchKeeps ==
    ASSUME ServerInv, WsDispatchEvent
    PROVE  ServerInv'
<1>1. /\ UNCHANGED <<tmplVars, wsLifecycle, wsOther, wsOusted, workspace, wsCall, wsSettled, clock, requests,
                     faults>>
      /\ wsEvents # <<>> /\ wsEvents' = Queue!WithoutOldest
      /\ wsBroadcast' = IF Head(wsEvents) = Foreign THEN wsBroadcast ELSE <<Head(wsEvents)>>
  BY DEF WsDispatchEvent, Queue!Dispatch, Queue!WithoutOldest
<1>2. /\ Queue!QueueTypeOK(WsEvents) /\ wsEvents \in Seq(WsEvents \cup {Foreign})
      /\ Head(wsEvents) \in WsEvents \cup {Foreign} /\ Head(wsEvents) = wsEvents[1]
  BY Zenon, <1>1, TailKeeps DEF ServerInv, ServerTypeOK, Queue!QueueTypeOK
<1>3. \/ Head(wsEvents) = Foreign /\ wsBroadcast' = wsBroadcast
      \/ /\ Head(wsEvents) # Foreign /\ Head(wsEvents) \in WsEvents
         /\ wsBroadcast' = <<Head(wsEvents)>>
  BY <1>1, <1>2
<1>4. Queue!QueueTypeOK(WsEvents)'
  BY <1>1, <1>2, <1>3, WsDropType DEF Queue!QueueTypeOK
<1>5. ASSUME wsSettled, ~wsOusted
      PROVE  Queued'
  <2>1. \A w : Shows(w)' <=> Shows(w)
    BY Zenon, <1>1 DEF Shows
  <2>2. Queued
    BY Zenon, <1>5 DEF ServerInv, WorkspaceInv, WsDelivered, Queued
  <2>3. \A i \in DOMAIN wsEvents' : Queue!Newest(i)' => Shows(wsEvents[i].obj)'
    BY Zenon, <1>1, <1>5, WsDropDelivers
  <2>4. CASE Queue!NoneQueued' /\ Queue!NoneQueued
    <3>1. Head(wsEvents) = Foreign
      <4>1. 1 \in DOMAIN wsEvents
        BY <1>1, <1>2, EmptySeq, LenProperties
      <4> QED
        BY Zenon, <1>2, <2>4, <4>1 DEF Queue!NoneQueued
    <3> QED
      BY Zenon, <1>3, <2>1, <2>2, <2>3, <2>4, <3>1 DEF Queued
  <2>5. CASE Queue!NoneQueued' /\ Queue!Newest(1)
    <3>1. Shows(Head(wsEvents).obj) /\ Head(wsEvents) # Foreign
      BY Zenon, <1>2, <2>2, <2>5 DEF Queue!Newest, Queued
    <3>2. wsBroadcast' # <<>> /\ wsBroadcast'[1] = Head(wsEvents)
      BY <1>3, <3>1
    <3> QED
      BY Zenon, <2>1, <2>3, <3>1, <3>2 DEF Queued
  <2>6. CASE ~Queue!NoneQueued'
    BY Zenon, <2>3, <2>6 DEF Queued
  <2> QED
    BY Zenon, <1>1, <1>2, <2>4, <2>5, <2>6, WsDropType
<1>6. requests' \in 0 .. MaxRequests
  BY Zenon, <1>1 DEF ServerInv, ServerTypeOK, TypeOK
<1>7. wsEvents = <<>> => wsEvents' = <<>>
  BY Zenon, <1>1
<1> QED
  BY Zenon, <1>1, <1>4, <1>5, <1>6, <1>7, WsQueueMovesKeeps

\* A request about another workspace: it may take the newest event out, and then
\* wsOusted says so.
LEMMA WsOtherRequestKeeps ==
    ASSUME ServerInv, NEW o \in Others, WsOtherRequest(o)
    PROVE  ServerInv'
<1>1. /\ UNCHANGED <<wsBroadcast, wsLifecycle, tmplVars, workspace, wsCall, wsSettled, clock, faults>>
      /\ wsLifecycle = "open" /\ requests' \in 0 .. MaxRequests
  BY ConstantsAssumption
     DEF WsOtherRequest, Queue!OtherSends, Queue!OtherMakesRoom, Queue!OtherResends, ServerInv, ServerTypeOK,
         TypeOK, WorkspaceInv, WsDraining
<1>2. /\ Queue!QueueTypeOK(WsEvents) /\ wsEvents \in Seq(WsEvents \cup {Foreign})
      /\ Len(wsEvents) \in Nat /\ Len(wsEvents) <= QueueLen
  BY LenProperties DEF ServerInv, ServerTypeOK, Queue!QueueTypeOK
<1>3. wsOther' \in [Others -> {"idle", "full", "resend"}]
  BY Zenon, <1>2
     DEF WsOtherRequest, Queue!OtherSends, Queue!OtherMakesRoom, Queue!OtherResends, Queue!QueueTypeOK
<1>4. ASSUME wsEvents' \in Seq(WsEvents \cup {Foreign}), Len(wsEvents') <= QueueLen, wsOusted' \in BOOLEAN,
             wsSettled /\ ~wsOusted' =>
               /\ \A i \in DOMAIN wsEvents' : Queue!Newest(i)' => Shows(wsEvents[i].obj)'
               /\ Queue!NoneQueued' => Queue!NoneQueued /\ ~wsOusted
      PROVE  ServerInv'
  <2>1. Queue!QueueTypeOK(WsEvents)'
    BY <1>1, <1>2, <1>3, <1>4 DEF Queue!QueueTypeOK
  <2>2. wsSettled /\ Queue!NoneQueued /\ ~wsOusted => wsBroadcast' # <<>> /\ Shows(wsBroadcast[1].obj)'
    BY Zenon, <1>1 DEF ServerInv, WorkspaceInv, WsDelivered, Shows
  <2>3. wsSettled /\ ~wsOusted' => Queued'
    BY Zenon, <1>4, <2>2 DEF Queued
  <2> QED
    BY Zenon, <1>1, <2>1, <2>3, WsQueueMovesKeeps
<1>5. wsSettled /\ ~wsOusted => \A i \in DOMAIN wsEvents : Queue!Newest(i) => Shows(wsEvents[i].obj)
  BY Zenon DEF ServerInv, WorkspaceInv, WsDelivered
<1>6. \A w : Shows(w)' <=> Shows(w)
  BY Zenon, <1>1 DEF Shows
<1>7. CASE wsEvents' = wsEvents /\ UNCHANGED wsOusted
  <2>1. /\ \A i : Queue!Newest(i)' <=> Queue!Newest(i)
        /\ Queue!NoneQueued' <=> Queue!NoneQueued
    BY Zenon, <1>7 DEF Queue!Newest, Queue!NoneQueued
  <2> QED
    BY Zenon, <1>2, <1>4, <1>5, <1>6, <1>7, <2>1 DEF Queue!QueueTypeOK
<1>8. CASE ~Queue!Full /\ wsEvents' = Append(wsEvents, Foreign) /\ UNCHANGED wsOusted
  <2>1. /\ wsEvents' \in Seq(WsEvents \cup {Foreign})
        /\ Len(wsEvents') = Len(wsEvents) + 1
    BY <1>2, <1>8, AppendKeeps
  <2>2. Len(wsEvents') <= QueueLen
    BY <1>2, <1>8, <2>1, QueueLenAssumption DEF Queue!Full
  <2>3. /\ NoneIn(wsEvents') => NoneIn(wsEvents)
        /\ \A i : NewestIn(wsEvents', i) => NewestIn(wsEvents, i) /\ wsEvents'[i] = wsEvents[i]
    BY Zenon, <1>2, <1>8, ForeignAppended
  <2>4. wsSettled /\ ~wsOusted =>
          \A i \in DOMAIN wsEvents' : Queue!Newest(i)' => Shows(wsEvents[i].obj)'
    BY Zenon, <1>5, <1>6, <2>3 DEF Queue!Newest, NewestIn
  <2>5. Queue!NoneQueued' => Queue!NoneQueued
    BY Zenon, <2>3 DEF Queue!NoneQueued, NoneIn
  <2> QED
    BY Zenon, <1>2, <1>4, <1>8, <2>1, <2>2, <2>4, <2>5 DEF Queue!QueueTypeOK
<1>9. CASE wsEvents' = Queue!WithoutOldest /\ wsOusted' = (wsOusted \/ Queue!Newest(1))
  <2>1. /\ wsEvents' \in Seq(WsEvents \cup {Foreign})
        /\ Len(wsEvents') <= QueueLen
        /\ Queue!NoneQueued' => Queue!NoneQueued \/ Queue!Newest(1)
    BY Zenon, <1>2, <1>9, WsDropType
  <2>2. wsSettled /\ ~wsOusted =>
          \A i \in DOMAIN wsEvents' : Queue!Newest(i)' => Shows(wsEvents[i].obj)'
    BY Zenon, <1>1, <1>9, WsDropDelivers
  <2>3. wsOusted' \in BOOLEAN
    BY <1>9
  <2> QED
    BY Zenon, <1>4, <1>9, <2>1, <2>2, <2>3
<1> QED
  BY Zenon, <1>7, <1>8, <1>9
     DEF WsOtherRequest, Queue!OtherSends, Queue!OtherMakesRoom, Queue!OtherResends

LEMMA WsFinishKeeps ==
    ASSUME ServerInv, WsDestroy \/ WsStop
    PROVE  ServerInv'
<1>1. /\ UNCHANGED <<wsEvents, wsBroadcast, wsOther, wsOusted, workspace, wsCall, wsSettled>>
      /\ wsLifecycle' \in {"closing", "down"} /\ WsInFlight = {}
      /\ \A o \in Others : wsOther[o] = "idle"
      /\ wsLifecycle' = "down" => wsEvents = <<>>
  BY Zenon DEF WsDestroy, WsStop, Drained, Queue!CloseQueue, Queue!Shutdown, ServerInv, WorkspaceInv, WsDraining
<1>2. TypeOK' /\ TemplateInv'
  BY ZenonT(40), ElsewhereKeeps DEF ServerInv, ServerTypeOK, TypeOK, WsDestroy, WsStop, tmplVars
<1>3. ServerTypeOK'
  BY Zenon, <1>1, <1>2 DEF ServerInv, ServerTypeOK, Queue!QueueTypeOK
<1>4. WsDraining'
  BY <1>1 DEF WsDraining, WsInFlight
<1>5. WsAlone' /\ WsWanted' /\ WsProgress'
  BY ZenonT(40), <1>1 DEF ServerInv, WorkspaceInv, WsAlone, WsWanted, WsProgress, WsApplied, Shows
<1>6. WsDelivered'
  BY Zenon, <1>1, WsQueueKept DEF ServerInv, WorkspaceInv, WsDelivered, Queued
<1> QED
  BY <1>2, <1>3, <1>4, <1>5, <1>6 DEF ServerInv, WorkspaceInv

\* A step of the CoderTemplate storage leaves this one alone.
LEMMA TemplateStepKeeps ==
    ASSUME ServerInv, TypeOK', TemplateInv', UNCHANGED wsVars
    PROVE  ServerInv'
<1>1. UNCHANGED <<wsEvents, wsBroadcast, wsLifecycle, wsOther, wsOusted, workspace, wsCall, wsSettled>>
  BY DEF wsVars, wsQueueVars
<1>2. ServerTypeOK'
  BY Zenon, <1>1 DEF ServerInv, ServerTypeOK, Queue!QueueTypeOK
<1>3. WsDelivered'
  BY Zenon, <1>1, WsQueueKept DEF ServerInv, WorkspaceInv, WsDelivered, Queued
<1> QED
  BY ZenonT(40), <1>1, <1>2, <1>3 DEF ServerInv, WorkspaceInv, WsAlone, WsWanted, WsProgress, WsApplied, Shows,
                    WsDraining, WsInFlight

-----------------------------------------------------------------------------
(* The theorems.                                                             *)

LEMMA ServerInitHolds ==
    ASSUME ServerInit
    PROVE  ServerInv
<1>1. TypeOK /\ TemplateInv
  BY InitHolds DEF ServerInit
<1>2. /\ wsCall = [c \in Clients |-> NoWsCall] /\ wsSettled = FALSE
      /\ wsEvents \in {<<>>, <<Foreign>>} /\ wsBroadcast = <<>> /\ wsLifecycle = "open"
      /\ wsOther = [o \in Others |-> "idle"] /\ wsOusted = FALSE
  BY Zenon DEF ServerInit, Queue!InitQueueWith
<1>3. \A c \in Clients : wsCall[c] = NoWsCall
  BY <1>2
<1>4. NoWsCall.step \notin {"stop", "build", "resend"} \cup Sending
  BY NoWsCallOK DEF Sending
<1>5. workspace \in Opt(Workspaces)
  BY DEF ServerInit, Opt, Workspaces, Transitions
<1>6. Queue!QueueTypeOK(WsEvents)
  <2>1. <<>> \in Seq(WsEvents) /\ wsEvents \in Seq(WsEvents \cup {Foreign})
    <3>1. /\ <<>> \in Seq(WsEvents) /\ <<>> \in Seq(WsEvents \cup {Foreign})
          /\ <<Foreign>> \in Seq(WsEvents \cup {Foreign})
      OBVIOUS
    <3> QED
      BY Zenon, <1>2, <3>1
  <2>2. Len(<<>>) = 0 /\ Len(<<Foreign>>) = 1
    BY EmptySeq
  <2>3. 0 <= QueueLen /\ 1 <= QueueLen /\ 0 <= 1
    BY QueueLenAssumption
  <2>4. wsLifecycle \in {"open", "closing", "down"}
    BY <1>2
  <2>5. Len(wsEvents) <= QueueLen
    BY Zenon, <1>2, <2>2, <2>3
  <2>6. wsOther \in [Others -> {"idle", "full", "resend"}]
    BY Zenon, <1>2
  <2> QED
    BY <1>2, <2>1, <2>2, <2>3, <2>4, <2>5, <2>6, Zenon DEF Queue!QueueTypeOK
<1>7. ServerTypeOK
  <2>1. wsCall \in [Clients -> WsCalls]
    BY <1>2, NoWsCallOK DEF WsCallOK
  <2> QED
    BY ZenonT(40), <1>1, <1>2, <1>3, <1>4, <1>5, <1>6, <2>1 DEF ServerTypeOK
<1>8. WorkspaceInv
  BY Zenon, <1>2, <1>3, <1>4, NoWsCallOK
     DEF WorkspaceInv, WsAlone, WsWanted, WsProgress, WsDelivered, WsDraining, WsInFlight
<1> QED
  BY <1>1, <1>7, <1>8 DEF ServerInv

LEMMA ServerNextKeeps ==
    ASSUME ServerInv, [ServerNext]_serverVars
    PROVE  ServerInv'
<1>1. TypeOK /\ TemplateInv /\ ServerTypeOK
  BY DEF ServerInv, ServerTypeOK
<1>2. CASE UNCHANGED serverVars
  <2>1. TypeOK' /\ TemplateInv'
    BY ZenonT(40), <1>1, <1>2, ElsewhereKeeps DEF serverVars, vars, TypeOK
  <2> QED
    BY <1>2, <2>1, TemplateStepKeeps DEF serverVars, wsVars
<1>3. ASSUME NEW c \in Clients, ServerBegins(c)
      PROVE  ServerInv'
  BY <1>1, <1>3, WsBeginsKeeps, BeginsKeeps, TemplateStepKeeps DEF ServerBegins
<1>4. ASSUME NEW c \in Clients, ServerHandler(c)
      PROVE  ServerInv'
  BY <1>1, <1>4, WsHandlerKeeps, HandlerKeeps, TemplateStepKeeps DEF ServerHandler
<1>5. ASSUME NEW v \in DOMAIN versions, BuildEnds(v), UNCHANGED wsVars
      PROVE  ServerInv'
  BY <1>1, <1>5, BuildEndsKeeps, TemplateStepKeeps
<1>6. ASSUME DispatchEvent \/ Destroy \/ Stop, UNCHANGED wsVars
      PROVE  ServerInv'
  BY <1>1, <1>6, DispatchKeeps, EndKeeps, TemplateStepKeeps
<1>7. ASSUME NEW o \in Others, OtherRequest(o), UNCHANGED wsVars
      PROVE  ServerInv'
  BY Zenon, <1>1, <1>7, OtherRequestKeeps, TemplateStepKeeps
<1> QED
  BY Zenon, <1>2, <1>3, <1>4, <1>5, <1>6, <1>7, WsBuildEndsKeeps, WsOtherRequestKeeps, WsDispatchKeeps,
     WsFinishKeeps DEF ServerNext

\* The inductive invariant of the API server holds in every state: what each handler
\* knows at each of its steps, how far it has brought its object, and which event is
\* the newest on its way to the watchers.
THEOREM ServerInvHolds == ServerSpec => []ServerInv
<1>1. ServerInit => ServerInv
  BY ServerInitHolds
<1>2. ServerInv /\ [ServerNext]_serverVars => ServerInv'
  BY ServerNextKeeps
<1> QED
  BY <1>1, <1>2, PTL DEF ServerSpec

\* Requests, queues, the template and the workspace keep their types; in particular no
\* queue ever holds more than watchBroadcasterQueueLen events.
THEOREM ServerTypes == ServerSpec => []ServerTypeOK
<1>1. ServerInv => ServerTypeOK
  BY DEF ServerInv
<1> QED
  BY <1>1, ServerInvHolds, PTL

\* The answer of Update and Create to a request that no other one overlapped is true,
\* although the SDK hides that a promotion never reached coderd.
THEOREM TemplateAnswersTrue == ServerSpec => []SuccessMeansApplied
<1>1. ServerInv => SuccessMeansApplied
  BY InvMeansApplied DEF ServerInv, ServerTypeOK
<1> QED
  BY <1>1, ServerInvHolds, PTL

\* After a request that was alone, the watchers of templates end up with the template as
\* it is, however many events the requests about it have dropped in enqueueWatchEvent,
\* unless a request about another template took the newest of them out.
THEOREM TemplateWatchersTrue == ServerSpec => []WatchersUpToDate
<1>1. ServerInv => WatchersUpToDate
  BY InvMeansUpToDate DEF ServerInv, ServerTypeOK
<1> QED
  BY <1>1, ServerInvHolds, PTL

\* The answer to a request for a workspace that no other one overlapped shows the build
\* it asked for, with the current resourceVersion.
THEOREM WorkspaceAnswersTrue == ServerSpec => []BuildMeansApplied
<1>1. ServerInv => BuildMeansApplied
  BY Zenon DEF ServerInv, WorkspaceInv, WsProgress, WsApplied, Shows, BuildMeansApplied
<1> QED
  BY <1>1, ServerInvHolds, PTL

\* After a request that was alone, the watchers of workspaces end up with its build,
\* unless a request about another workspace took the event out of the queue they share.
THEOREM WorkspaceWatchersTrue == ServerSpec => []WorkspaceWatchersUpToDate
<1>1. ServerInv => WorkspaceWatchersUpToDate
  BY Zenon DEF ServerInv, WorkspaceInv, WsDelivered, WorkspaceWatchersUpToDate, Sending
<1> QED
  BY <1>1, ServerInvHolds, PTL

\* Whatever a step other than one of a template handler does to the template's requests.
LEMMA OtherSteps ==
    ASSUME ServerInv, ServerNext
    PROVE  \/ \E c \in Clients : Handler(c)
           \/ \E c \in Clients : Begins(c)
           \/ UNCHANGED <<tmpl, call>>
BY ZenonT(40) DEF ServerNext, ServerBegins, ServerHandler, WsBegins, BeginWsCreate, BeginWsUpdate, BeginWsDelete,
       BeginSetRunning, WsBegin, WsHandler, ReadTemplate, CreateWorkspace, StopCreated, ToolGet,
       WsReadForUpdate, WsReadForDelete, CreateBuild, WsSendEvent, WsMakeRoom, WsResendEvent, WsCallFails,
       BuildEnds, OtherRequest, WsOtherRequest, DispatchEvent, Destroy, Stop, WsBuildEnds, WsDispatchEvent, WsDestroy, WsStop, tmplVars

\* A request that begins changes neither the template nor its versions.
LEMMA BeginsQuietly ==
    ASSUME NEW c \in Clients, Begins(c)
    PROVE  UNCHANGED <<tmpl, versions>>
BY Zenon DEF Begins, BeginCreate, BeginUpdate, BeginDelete, Begin

\* No request ends because one begins.
LEMMA BeginsElsewhere ==
    ASSUME ServerInv, NEW c \in Clients, Begins(c), NEW d \in Clients, call[d].step # "idle"
    PROVE  call'[d].step # "idle"
<1>1. PICK first : Begin(c, first)
  BY Zenon DEF Begins, BeginCreate, BeginUpdate, BeginDelete
<1>2. /\ call[d] \in Calls /\ c \notin InFlight /\ d \in InFlight
      /\ call' = [e \in Clients |->
                     IF e = c THEN [first EXCEPT !.alone = (InFlight = {})]
                     ELSE IF e \in InFlight THEN [call[e] EXCEPT !.alone = FALSE]
                     ELSE call[e]]
  BY <1>1 DEF Begin, InFlight, ServerInv, ServerTypeOK, TypeOK
<1>3. call'[d] = [call[d] EXCEPT !.alone = FALSE]
  BY Zenon, <1>2
<1> QED
  BY Zenon, <1>2, <1>3 DEF Calls

\* An update of a template that fails, without another request beside it, leaves the
\* active version as it was, at whichever of the calls to coderd it fails: an error that
\* Update returns means at most a change of the metadata, unless a read failed after the
\* promotion.
THEOREM FailedUpdateSafe == ServerSpec => FailedUpdateKeepsVersion
<1>1. ServerInv /\ [ServerNext]_serverVars =>
         [\A c \in Clients :
             LET r == call[c]
             IN  /\ r.step \in {"meta", "files", "wait", "promote", "verify", "refresh"}
                 /\ r.alone
                 /\ call'[c].step = "idle"
                 => \/ tmpl' # None /\ tmpl'.active = r.cur.active
                    \/ r.step \in {"verify", "refresh"} /\ faults' # faults]_vars
  <2> SUFFICES ASSUME ServerInv, ServerNext, NEW d \in Clients,
                      call[d].step \in {"meta", "files", "wait", "promote", "verify", "refresh"},
                      call[d].alone, call'[d].step = "idle"
               PROVE  \/ tmpl' # None /\ tmpl'.active = call[d].cur.active
                      \/ call[d].step \in {"verify", "refresh"} /\ faults' # faults
    BY ZenonT(40) DEF serverVars
  <2>1. CASE \E c \in Clients : Handler(c)
    BY Zenon, <2>1, HandlerFailedUpdate DEF ServerInv, ServerTypeOK
  <2>2. CASE \E c \in Clients : Begins(c)
    BY <2>2, BeginsElsewhere
  <2> QED
    BY <2>1, <2>2, OtherSteps
<1> QED
  BY <1>1, ServerInvHolds, PTL DEF ServerSpec, FailedUpdateKeepsVersion

\* The active version of a template is replaced only by one whose build succeeded: Update
\* promotes a version after waitForTemplateVersionBuild and nobody else does.
THEOREM OnlyBuiltVersions == ServerSpec => PromotedOnlyIfBuilt
<1>1. ServerInv /\ [ServerNext]_serverVars =>
         [tmpl # None /\ tmpl' # None /\ tmpl'.id = tmpl.id /\ tmpl'.active # tmpl.active
             => versions[tmpl'.active].build = "succeeded"]_vars
  <2> SUFFICES ASSUME ServerInv, ServerNext, tmpl # None, tmpl' # None, tmpl'.active # tmpl.active
               PROVE  versions[tmpl'.active].build = "succeeded"
    BY DEF serverVars
  <2>1. CASE \E c \in Clients : Handler(c)
    BY Zenon, <2>1, HandlerPromotes DEF ServerInv, ServerTypeOK
  <2>2. CASE \E c \in Clients : Begins(c)
    BY <2>2, BeginsQuietly
  <2> QED
    BY <2>1, <2>2, OtherSteps
<1> QED
  BY <1>1, ServerInvHolds, PTL DEF ServerSpec, PromotedOnlyIfBuilt

=============================================================================
