-------------------------- MODULE WorkspaceStorage --------------------------
(***************************************************************************)
(* The aggregated API server with both its storages: CoderTemplate (module    *)
(* TemplateStorage) and CoderWorkspace objects, for one workspace            *)
(* (internal/aggregated/storage/workspace.go), and the tool of the MCP       *)
(* server that starts and stops a workspace (internal/app/mcpapp/tools.go).  *)
(*                                                                         *)
(* A workspace is changed by builds only: an update that toggles             *)
(* spec.running asks coderd for one, and so does a delete.  Builds end later, *)
(* or not at all, and no event tells of it.                                  *)
(***************************************************************************)
EXTENDS TemplateStorage

VARIABLES
    workspace,       \* the workspace in coderd
    wsCall,          \* per client, the request in flight
    wsSettled,       \* nobody has asked for a build since a request that was alone
                     \* in flight succeeded
    wsEvents, wsBroadcast, wsLifecycle, wsOther, wsOusted   \* the storage's own queue

wsQueueVars == <<wsEvents, wsBroadcast, wsLifecycle, wsOther, wsOusted>>
tmplVars == <<queueVars, tmpl, versions, call, settled>>
serverVars == <<vars, workspace, wsCall, wsSettled, wsQueueVars>>

Queue == INSTANCE WatchQueue WITH
    watchEvents <- wsEvents, broadcast <- wsBroadcast, lifecycle <- wsLifecycle,
    other <- wsOther, ousted <- wsOusted

-----------------------------------------------------------------------------
(* Types.                                                                    *)

Transitions == {"start", "stop", "delete"}

\* transition, status: the latest build; stamp: updated_at.
Workspaces == [id : Nat, transition : Transitions, status : {"active", "done", "failed"}, stamp : Nat]

ASSUME NoWorkspaceAssumption == None \notin Workspaces

WsEvents == [type : {"added", "modified"}, obj : Workspaces]

ASSUME ForeignWsAssumption == Foreign \notin WsEvents

WsSteps == {"idle", "toolGet", "readTemplate", "create", "stop", "readForUpdate", "readForDelete",
            "build", "send", "full", "resend"}

\* want: the build asked for; pin: "other" if a version is named that is not of the
\* template (create) or not the workspace's (update); template: the template that was read; cur: the
\* workspace as the answer shows it; stopped: what became of the stop that follows a
\* create; alone: as in TemplateStorage.
WsCalls == [step : WsSteps, rv : Opt(Nat), want : Transitions, pin : {"own", "other"},
            template : Nat, cur : Opt(Workspaces), type : {"added", "modified"},
            stopped : {"yes", "refused", "unknown"}, alone : BOOLEAN]

NoWsCall == [step |-> "idle", rv |-> 0, want |-> "start", pin |-> "own", template |-> 0,
             cur |-> None, type |-> "modified", stopped |-> "yes", alone |-> FALSE]

ServerTypeOK ==
    /\ TypeOK
    /\ Queue!QueueTypeOK(WsEvents)
    /\ workspace \in Opt(Workspaces)
    /\ wsCall \in [Clients -> WsCalls]
    /\ \A c \in Clients : wsCall[c].step \in {"stop", "build"} \cup Sending =>
                              wsCall[c].cur \in Workspaces
    /\ wsSettled \in BOOLEAN

\* workspaceRunning: a start that has not failed.
WorkspaceRunning(w) == w.transition = "start" /\ w.status # "failed"

-----------------------------------------------------------------------------
(* Requests.                                                                 *)

WsInFlight == {c \in Clients : wsCall[c].step # "idle"}

WsBegin(c, first) ==
    /\ lifecycle = "open" /\ wsLifecycle = "open"
    /\ c \notin InFlight \cup WsInFlight
    /\ requests < MaxRequests
    /\ requests' = requests + 1
    /\ wsCall' = [d \in Clients |->
                     IF d = c THEN [first EXCEPT !.alone = (WsInFlight = {})]
                     ELSE IF d \in WsInFlight THEN [wsCall[d] EXCEPT !.alone = FALSE]
                     ELSE wsCall[d]]
    /\ UNCHANGED <<tmplVars, workspace, wsSettled, wsQueueVars, clock, faults>>

BeginWsCreate(c) ==
    \E w \in {"start", "stop"}, p \in {"own", "other"} :
        WsBegin(c, [NoWsCall EXCEPT !.step = "readTemplate", !.want = w, !.pin = p])

\* A patch, or the object as it was read, or one without resourceVersion (0).
BeginWsUpdate(c) ==
    \E w \in {"start", "stop"}, p \in {"own", "other"},
       rv \in {None, 0, IF workspace = None THEN 0 ELSE workspace.stamp} :
        WsBegin(c, [NoWsCall EXCEPT !.step = "readForUpdate", !.want = w, !.pin = p, !.rv = rv])

BeginWsDelete(c) == WsBegin(c, [NoWsCall EXCEPT !.step = "readForDelete", !.want = "delete"])

\* The MCP tool set_workspace_running.
BeginSetRunning(c) ==
    \E w \in {"start", "stop"} : WsBegin(c, [NoWsCall EXCEPT !.step = "toolGet", !.want = w])

WsProceed(c, next) == wsCall' = [wsCall EXCEPT ![c] = next]
WsReject(c) == WsProceed(c, NoWsCall)

WsAnswered(c, next) ==
    \/ WsProceed(c, next) /\ UNCHANGED faults
    \/ WsReject(c) /\ Fault

\* A call to coderd, or one of the tool to the API server, fails without effect.
WsCallFails(c) ==
    /\ wsCall[c].step \in WsSteps \ ({"idle", "stop"} \cup Sending)
    /\ Fault
    /\ WsReject(c)
    /\ UNCHANGED <<tmplVars, workspace, wsSettled, wsQueueVars, clock, requests>>

\* The workspace w with a new build, which coderd has stamped.
WithBuild(w, transition, stamp) ==
    [id |-> w.id, transition |-> transition, status |-> "active", stamp |-> stamp]

\* coderd stores a workspace with a new build.
WsStore(w, transition) ==
    /\ clock' = clock + 1
    /\ workspace' = WithBuild(w, transition, clock + 1)
    /\ wsSettled' = FALSE

WsExists(c) == workspace # None /\ workspace.id = wsCall[c].cur.id

-----------------------------------------------------------------------------
(* Create.                                                                   *)

\* TemplateByName, and TemplateVersion if the object names one.  The object may also be
\* refused by admission or for its names.
ReadTemplate(c) ==
    /\ wsCall[c].step = "readTemplate"
    /\ \/ WsReject(c)
       \/ /\ tmpl # None
          /\ wsCall[c].pin = "own"
          /\ WsProceed(c, [wsCall[c] EXCEPT !.step = "create", !.template = tmpl.id])
    /\ UNCHANGED <<tmplVars, workspace, wsSettled, wsQueueVars, clock, requests, faults>>

\* CreateUserWorkspace starts the workspace; one that is not to run is stopped next.
CreateWorkspace(c) ==
    LET r == wsCall[c]
        new == [id |-> clock + 1, transition |-> "start", status |-> "active", stamp |-> 0]
    IN  /\ r.step = "create"
        /\ \/ /\ workspace = None /\ tmpl # None /\ tmpl.id = r.template
              /\ WsStore(new, "start")
              /\ WsAnswered(c, [r EXCEPT !.step = IF r.want = "start" THEN "send" ELSE "stop",
                                         !.cur = workspace', !.type = "added"])
           \/ /\ ~(workspace = None /\ tmpl # None /\ tmpl.id = r.template)
              /\ WsReject(c)
              /\ UNCHANGED <<workspace, wsSettled, clock, faults>>
        /\ UNCHANGED <<tmplVars, wsQueueVars, requests>>

\* Mutation: the answer shows the workspace as it was before the stop.
StopCreatedUnseen(c) ==
    /\ wsCall[c].step = "stop"
    /\ WsExists(c)
    /\ WsStore(workspace, "stop")
    /\ WsProceed(c, [wsCall[c] EXCEPT !.step = "send"])
    /\ UNCHANGED <<tmplVars, wsQueueVars, requests, faults>>

\* An error of the stop is swallowed: the workspace exists.  coderd may refuse a
\* build while another one is active.
StopCreated(c) ==
    LET r == wsCall[c]
        next == [r EXCEPT !.step = "send"]
    IN  /\ r.step = "stop"
        /\ \/ /\ WsExists(c)
              /\ WsStore(workspace, "stop")
              /\ \/ WsProceed(c, [next EXCEPT !.cur = [r.cur EXCEPT !.transition = "stop",
                                                                   !.stamp = clock']])
                    /\ UNCHANGED faults
                 \/ WsProceed(c, [next EXCEPT !.stopped = "unknown"]) /\ Fault
           \/ /\ Fault \/ ((WsExists(c) => workspace.status = "active") /\ UNCHANGED faults)
              /\ WsProceed(c, [next EXCEPT !.stopped = "refused"])
              /\ UNCHANGED <<workspace, wsSettled, clock>>
        /\ UNCHANGED <<tmplVars, wsQueueVars, requests>>

-----------------------------------------------------------------------------
(* Update, Delete and the tool.                                              *)

\* setWorkspaceRunning: Get, and an Update with what was read if it differs.
ToolGet(c) ==
    LET r == wsCall[c]
    IN  /\ r.step = "toolGet"
        /\ IF workspace = None \/ WorkspaceRunning(workspace) = (r.want = "start")
           THEN WsReject(c)
           ELSE WsProceed(c, [r EXCEPT !.step = "readForUpdate", !.rv = workspace.stamp])
        /\ UNCHANGED <<tmplVars, workspace, wsSettled, wsQueueVars, clock, requests, faults>>

\* A workspace that does not exist is created by a patch that allows that.  Only
\* spec.running may change; without a change there is nothing to do or to tell.
\* Admission may refuse the object.
WsReadForUpdate(c) ==
    LET r == wsCall[c]
    IN  /\ r.step = "readForUpdate"
        /\ CASE workspace = None ->
                  \/ WsReject(c)
                  \/ r.rv = None /\ WsProceed(c, [r EXCEPT !.step = "readTemplate"])
             [] workspace # None /\ (\/ r.rv \notin {None, workspace.stamp}
                                     \/ r.pin = "other"
                                     \/ WorkspaceRunning(workspace) = (r.want = "start")) ->
                  WsReject(c)
             [] OTHER -> WsReject(c) \/ WsProceed(c, [r EXCEPT !.step = "build", !.cur = workspace])
        /\ UNCHANGED <<tmplVars, workspace, wsSettled, wsQueueVars, clock, requests, faults>>

WsReadForDelete(c) ==
    /\ wsCall[c].step = "readForDelete"
    /\ \/ WsReject(c)
       \/ workspace # None /\ WsProceed(c, [wsCall[c] EXCEPT !.step = "build", !.cur = workspace])
    /\ UNCHANGED <<tmplVars, workspace, wsSettled, wsQueueVars, clock, requests, faults>>

\* CreateWorkspaceBuild, by the ID that was read.  The answer and the event are the
\* workspace as it was read, with the new build.
CreateBuild(c) ==
    LET r == wsCall[c]
    IN  /\ r.step = "build"
        /\ \/ /\ WsExists(c)
              /\ WsStore(workspace, r.want)
              /\ WsAnswered(c, [r EXCEPT !.step = "send",
                                         !.cur = WithBuild(r.cur, r.want, clock')])
           \/ /\ WsExists(c) => workspace.status = "active"
              /\ WsReject(c)
              /\ UNCHANGED <<workspace, wsSettled, clock, faults>>
        /\ UNCHANGED <<tmplVars, wsQueueVars, requests>>

-----------------------------------------------------------------------------
(* enqueueWatchEvent, and the answer to the client.                          *)

WsEvent(c) == [type |-> wsCall[c].type, obj |-> wsCall[c].cur]

WsSucceed(c) ==
    /\ WsProceed(c, NoWsCall)
    /\ wsSettled' = (wsSettled \/ (wsCall[c].alone /\ wsCall[c].stopped # "unknown"))

WsSendEvent(c) ==
    /\ wsCall[c].step = "send"
    /\ IF Queue!Full
       THEN WsProceed(c, [wsCall[c] EXCEPT !.step = "full"]) /\ UNCHANGED <<wsQueueVars, wsSettled>>
       ELSE Queue!Send(WsEvent(c)) /\ WsSucceed(c)
    /\ UNCHANGED <<tmplVars, workspace, clock, requests, faults>>

\* Mutation: the newest event is dropped, not the oldest.
WsMakeNoRoom(c) ==
    /\ wsCall[c].step = "full"
    /\ WsSucceed(c)
    /\ UNCHANGED <<tmplVars, workspace, wsQueueVars, clock, requests, faults>>

WsMakeRoom(c) ==
    /\ wsCall[c].step = "full"
    /\ Queue!DropOldest
    /\ WsProceed(c, [wsCall[c] EXCEPT !.step = "resend"])
    /\ UNCHANGED <<tmplVars, workspace, wsSettled, clock, requests, faults>>

WsResendEvent(c) ==
    /\ wsCall[c].step = "resend"
    /\ IF Queue!Full THEN Queue!GiveUp ELSE Queue!Send(WsEvent(c))
    /\ WsSucceed(c)
    /\ UNCHANGED <<tmplVars, workspace, clock, requests, faults>>

-----------------------------------------------------------------------------
(* Everything around the handlers.                                           *)

\* The latest build ends; a workspace whose delete has ended is gone.
WsBuildEnds ==
    /\ workspace # None /\ workspace.status = "active"
    /\ \E s \in {"done", "failed"} :
          workspace' = IF s = "done" /\ workspace.transition = "delete" THEN None
                       ELSE [workspace EXCEPT !.status = s]
    /\ UNCHANGED <<tmplVars, wsCall, wsSettled, wsQueueVars, clock, requests, faults>>

\* A request about another workspace.
WsOtherRequest(o) ==
    /\ \/ /\ requests < MaxRequests
          /\ Queue!OtherSends(o)
          /\ requests' = requests + 1
       \/ /\ Queue!OtherMakesRoom(o) \/ Queue!OtherResends(o)
          /\ UNCHANGED requests
    /\ UNCHANGED <<tmplVars, workspace, wsCall, wsSettled, clock, faults>>

\* No request about any object is in flight.
Drained ==
    /\ InFlight \cup WsInFlight = {}
    /\ \A o \in Others : other[o] = "idle" /\ wsOther[o] = "idle"

WsDispatchEvent ==
    /\ Queue!Dispatch
    /\ UNCHANGED <<tmplVars, workspace, wsCall, wsSettled, clock, requests, faults>>

WsDestroy ==
    /\ Drained
    /\ Queue!CloseQueue
    /\ UNCHANGED <<tmplVars, workspace, wsCall, wsSettled, clock, requests, faults>>

WsStop ==
    /\ Queue!Shutdown
    /\ UNCHANGED <<tmplVars, workspace, wsCall, wsSettled, clock, requests, faults>>

-----------------------------------------------------------------------------
(* The specification.                                                        *)

wsVars == <<workspace, wsCall, wsSettled, wsQueueVars>>

\* There is no workspace, or the template has one and an event about another
\* workspace is queued.
ServerInit ==
    /\ Init
    /\ \/ workspace = None /\ Queue!InitQueueWith(<<>>)
       \/ /\ tmpl # None /\ ~settled
          /\ workspace = [id |-> 1, transition |-> "start", status |-> "done", stamp |-> 1]
          /\ Queue!InitQueueWith(<<Foreign>>)
    /\ wsCall = [c \in Clients |-> NoWsCall]
    /\ wsSettled = FALSE

WsBegins(c) ==
    \/ BeginWsCreate(c)
    \/ BeginWsUpdate(c)
    \/ BeginWsDelete(c)
    \/ BeginSetRunning(c)

WsHandler(c) ==
    \/ ReadTemplate(c)
    \/ CreateWorkspace(c)
    \/ StopCreated(c)
    \/ ToolGet(c)
    \/ WsReadForUpdate(c)
    \/ WsReadForDelete(c)
    \/ CreateBuild(c)
    \/ WsSendEvent(c)
    \/ WsMakeRoom(c)
    \/ WsResendEvent(c)
    \/ WsCallFails(c)

ServerBegins(c) ==
    \/ WsBegins(c)
    \/ c \notin WsInFlight /\ wsLifecycle = "open" /\ Begins(c) /\ UNCHANGED wsVars

ServerHandler(c) ==
    \/ WsHandler(c)
    \/ Handler(c) /\ UNCHANGED wsVars

ServerNext ==
    \/ \E c \in Clients : ServerBegins(c) \/ ServerHandler(c)
    \/ (\E v \in DOMAIN versions : BuildEnds(v)) /\ UNCHANGED wsVars
    \/ \E o \in Others : wsLifecycle = "open" /\ OtherRequest(o) /\ UNCHANGED wsVars
    \/ DispatchEvent /\ UNCHANGED wsVars
    \/ Drained /\ Destroy /\ UNCHANGED wsVars
    \/ Stop /\ UNCHANGED wsVars
    \/ WsBuildEnds
    \/ \E o \in Others : lifecycle = "open" /\ WsOtherRequest(o)
    \/ WsDispatchEvent
    \/ WsDestroy
    \/ WsStop

\* Every handler runs in a goroutine of its own, and every call it makes has a timeout.
\* Builds need not end, and the dispatchers need not run: no handler waits for them.
ServerSpec ==
    /\ ServerInit
    /\ [][ServerNext]_serverVars
    /\ \A c \in Clients : WF_serverVars(ServerHandler(c))

-----------------------------------------------------------------------------
(* Properties.                                                               *)

\* The same workspace after the same build, however far the build has come.
Same(v, w) == v.id = w.id /\ v.transition = w.transition /\ v.stamp = w.stamp

\* The answer of a request that no other one overlapped is true: the build asked for
\* is the latest one, and the object returned carries the current resourceVersion, so
\* that the client can update it again.  Of a create whose stop failed the first is
\* not true but the second is, so that "the desired stop transition can be retried
\* safely via a subsequent Update", unless the answer to the stop was lost.
BuildMeansApplied ==
    \A c \in Clients :
        LET r == wsCall[c]
        IN  r.step \in Sending /\ r.alone =>
                /\ r.stopped # "unknown" =>
                      IF workspace = None THEN r.cur.transition = "delete"
                                          ELSE Same(workspace, r.cur)
                /\ r.stopped = "yes" => r.cur.transition = r.want

\* The object shows the latest build of the workspace.
Shows(w) == IF workspace = None THEN w.transition = "delete" ELSE Same(workspace, w)

\* Watchers of workspaces end up with the truth: if the last build was asked for by a
\* request that was alone and succeeded, then once no event about the workspace is on
\* its way, and also after Destroy, the last one broadcast shows that build, unless
\* its event was lost to a request about another workspace, which shares the queue.
\* That a deleted workspace is gone they can tell from the delete build only.
WorkspaceWatchersUpToDate ==
    /\ wsSettled
    /\ ~wsOusted
    /\ \A c \in Clients : wsCall[c].step \notin Sending
    /\ Queue!NoneQueued
    => wsBroadcast # <<>> /\ Shows(wsBroadcast[1].obj)

\* No request hangs: every one is answered, whether or not builds ever end.
EveryRequestAnswered ==
    \A c \in Clients : []<>(call[c].step = "idle" /\ wsCall[c].step = "idle")

-----------------------------------------------------------------------------
(* The facts that make these inductive.                                      *)

\* A request that is alone really is.
WsAlone ==
    \A c, d \in Clients :
        c # d /\ wsCall[c].step # "idle" /\ wsCall[c].alone => wsCall[d].step = "idle"

\* Only a delete asks for a delete build.
WsWanted ==
    \A c \in Clients :
        wsCall[c].want = "delete" => wsCall[c].step \in {"readForDelete", "build"} \cup Sending

\* What the answer of a request that is alone will show.
WsApplied(r) ==
    /\ r.step = "stop" => r.cur.transition = "start" /\ r.want = "stop" /\ Shows(r.cur)
    /\ r.step \in Sending =>
          /\ r.stopped # "unknown" => Shows(r.cur)
          /\ r.stopped = "yes" => r.cur.transition = r.want

WsProgress == \A c \in Clients : wsCall[c].alone => WsApplied(wsCall[c])

\* The newest event on its way to the watchers shows the latest build, unless it was
\* lost to a request about another workspace.
WsDelivered ==
    wsSettled =>
        /\ \A c \in Clients : wsCall[c].step \notin Sending \cup {"stop"}
        /\ ~wsOusted =>
              /\ \A i \in DOMAIN wsEvents : Queue!Newest(i) => Shows(wsEvents[i].obj)
              /\ Queue!NoneQueued => wsBroadcast # <<>> /\ Shows(wsBroadcast[1].obj)

WsDraining ==
    /\ wsLifecycle # "open" => WsInFlight = {} /\ \A o \in Others : wsOther[o] = "idle"
    /\ wsLifecycle = "down" => wsEvents = <<>>

WorkspaceInv == WsAlone /\ WsWanted /\ WsProgress /\ WsDelivered /\ WsDraining

\* The inductive invariant of the API server.
ServerInv == ServerTypeOK /\ TemplateInv /\ WorkspaceInv

=============================================================================
