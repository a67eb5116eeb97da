-------------------------- MODULE TemplateStorage --------------------------
(***************************************************************************)
(* CoderTemplate objects of the aggregated API server: concurrent create,    *)
(* update and delete requests for one template, each a sequence of calls to  *)
(* coderd (internal/aggregated/storage/template.go), and the watch events    *)
(* they produce, in a queue that requests for other templates use too.       *)
(*                                                                         *)
(* The server keeps no state of its own: the object is read from coderd, its *)
(* resourceVersion is the template's updated_at, and nothing is locked       *)
(* between a check and the calls that follow it.                            *)
(***************************************************************************)
EXTENDS WatchQueue, FiniteSets

CONSTANTS
    Clients,         \* requests in flight at once
    Metas,           \* values of display name, description and icon together
    FileSets,        \* valid values of spec.files
    Unmergeable,     \* pairs of them: archives that are too large together
    MaxRequests,     \* bound: requests in all, those about other objects included
    MaxFaults,       \* bound: failed calls to coderd
    None             \* no template; spec.files left out

ASSUME ConstantsAssumption ==
    /\ MaxRequests \in Nat
    /\ MaxFaults \in Nat
    /\ Metas # {} /\ FileSets # {}
    /\ Unmergeable \subseteq FileSets \X FileSets
    /\ None \notin Metas \cup FileSets \cup Nat \cup {"bad"}
    /\ "bad" \notin FileSets

VARIABLES
    tmpl,            \* the template in coderd
    versions,        \* its template versions and their builds
    clock,           \* coderd's clock: the last updated_at it has assigned
    call,            \* per client, the request in flight
    settled,         \* nobody has changed the template since a request that was
                     \* alone in flight succeeded
    requests, faults

vars == <<queueVars, tmpl, versions, clock, call, settled, requests, faults>>

-----------------------------------------------------------------------------
(* Types.                                                                    *)

Opt(S) == S \cup {None}

\* id tells a template from another one created later under the same name.
Templates == [id : Nat, meta : Metas, active : Nat, stamp : Nat]

ASSUME NoneAssumption == None \notin Templates

Builds == {"running", "succeeded", "failed"}

Versions == [files : FileSets, build : Builds]

Events == [type : {"added", "modified", "deleted"}, obj : Templates]

ASSUME ForeignAssumption == Foreign \notin Events

\* The steps of enqueueWatchEvent.
Sending == {"send", "full", "resend"}

\* The steps of a handler that has read the template.
Reading == {"meta", "files", "wait", "promote", "verify", "refresh", "delete"} \cup Sending

Steps == {"idle", "createVersion", "createTemplate", "readForUpdate", "readForDelete"} \cup Reading

\* cur: the template as the handler last read it; alone: no other request has
\* been in flight during this one.
Calls == [step : Steps, rv : Opt(Nat), meta : Opt(Metas), files : Opt(FileSets \cup {"bad"}),
          cur : Opt(Templates), version : Nat,
          type : {"added", "modified", "deleted"}, alone : BOOLEAN]

NoCall == [step |-> "idle", rv |-> 0, meta |-> None, files |-> None, cur |-> None,
           version |-> 0, type |-> "added", alone |-> FALSE]

TypeOK ==
    /\ QueueTypeOK(Events)
    /\ tmpl \in Opt(Templates)
    /\ versions \in Seq(Versions)
    /\ clock \in Nat
    /\ call \in [Clients -> Calls]
    /\ \A c \in Clients : call[c].step \in Reading => call[c].cur \in Templates
    /\ settled \in BOOLEAN
    /\ requests \in 0 .. MaxRequests
    /\ faults \in 0 .. MaxFaults

-----------------------------------------------------------------------------
(* Requests.                                                                 *)

InFlight == {c \in Clients : call[c].step # "idle"}

\* Request c starts; requests that overlap know of each other in the model only.
Begin(c, first) ==
    /\ lifecycle = "open"
    /\ call[c].step = "idle"
    /\ requests < MaxRequests
    /\ requests' = requests + 1
    /\ call' = [d \in Clients |->
                   IF d = c THEN [first EXCEPT !.alone = (InFlight = {})]
                   ELSE IF d \in InFlight THEN [call[d] EXCEPT !.alone = FALSE]
                   ELSE call[d]]
    /\ UNCHANGED <<queueVars, tmpl, versions, clock, settled, faults>>

BeginCreate(c) ==
    \E m \in Metas, f \in Opt(FileSets \cup {"bad"}) :
        Begin(c, [NoCall EXCEPT !.step = "createVersion", !.meta = m, !.files = f])

\* The client sends back the object it has just read, edited, or a patch, which
\* UpdatedObject applies to whatever object the handler reads.
BeginUpdate(c) ==
    \E m \in Metas, f \in Opt(FileSets \cup {"bad"}),
       rv \in {None, IF tmpl = None THEN 0 ELSE tmpl.stamp} :
        Begin(c, [NoCall EXCEPT !.step = "readForUpdate", !.meta = m, !.files = f, !.rv = rv])

BeginDelete(c) == Begin(c, [NoCall EXCEPT !.step = "readForDelete"])

\* The handler goes on with the next step, or ends with an error.
Proceed(c, next) == call' = [call EXCEPT ![c] = next]
Goto(c, step) == Proceed(c, [call[c] EXCEPT !.step = step])
Reject(c) == Proceed(c, NoCall)

Fault ==
    /\ faults < MaxFaults
    /\ faults' = faults + 1

\* A call to coderd that has taken effect is answered, or its answer is lost.
Answered(c, next) ==
    \/ Proceed(c, next) /\ UNCHANGED faults
    \/ Reject(c) /\ Fault

\* A call fails without effect.
CallFails(c) ==
    /\ call[c].step \in Steps \ ({"idle"} \cup Sending)
    /\ Fault
    /\ Reject(c)
    /\ UNCHANGED <<queueVars, tmpl, versions, clock, settled, requests>>

\* coderd changes the template; t is its new value but for updated_at.
Store(t) ==
    /\ clock' = clock + 1
    /\ tmpl' = [t EXCEPT !.stamp = clock + 1]
    /\ settled' = FALSE

\* The template that the handler read still exists.
Exists(c) == tmpl # None /\ tmpl.id = call[c].cur.id

NewVersion(f) == versions' = Append(versions, [files |-> f, build |-> "running"])

-----------------------------------------------------------------------------
(* Create.                                                                   *)

\* spec.files is zipped, uploaded and made a template version; without it the
\* object names a version.  The build is not waited for.  The object may also be
\* refused: by admission, for its names, its organization or its files.
CreateVersion(c) ==
    LET r == call[c]
    IN  /\ r.step = "createVersion"
        /\ \/ /\ Reject(c)
              /\ UNCHANGED <<versions, faults>>
           \/ /\ r.files = None
              /\ IF versions = <<>>
                 THEN Reject(c)
                 ELSE \E v \in DOMAIN versions :
                         Proceed(c, [r EXCEPT !.step = "createTemplate", !.version = v])
              /\ UNCHANGED <<versions, faults>>
           \/ /\ r.files \in FileSets
              /\ NewVersion(r.files)
              /\ Answered(c, [r EXCEPT !.step = "createTemplate", !.version = Len(versions) + 1])
        /\ UNCHANGED <<queueVars, tmpl, clock, settled, requests>>

CreateTemplate(c) ==
    LET r == call[c]
    IN  /\ r.step = "createTemplate"
        /\ \/ /\ tmpl # None
              /\ Reject(c)
              /\ UNCHANGED <<tmpl, clock, settled, faults>>
           \/ /\ tmpl = None
              /\ Store([id |-> clock + 1, meta |-> r.meta, active |-> r.version, stamp |-> 0])
              /\ Answered(c, [r EXCEPT !.step = "send", !.type = "added", !.cur = tmpl'])
        /\ UNCHANGED <<queueVars, versions, requests>>

-----------------------------------------------------------------------------
(* Update.                                                                   *)

\* The object is read and checked, and spec.files with it.  A template that does
\* not exist is created if the request allows that, as a patch by apply does.  The
\* object may be refused for other reasons too: by admission, or because it changes
\* its organization or names a version other than the active one.
ReadForUpdate(c) ==
    LET r == call[c]
    IN  /\ r.step = "readForUpdate"
        /\ CASE tmpl = None -> Reject(c) \/ (r.rv = None /\ Goto(c, "createVersion"))
             [] tmpl # None /\ (r.rv \notin {None, tmpl.stamp} \/ r.files = "bad") -> Reject(c)
             [] OTHER -> Reject(c) \/ Proceed(c, [r EXCEPT !.step = "meta", !.cur = tmpl])
        /\ UNCHANGED <<queueVars, tmpl, versions, clock, settled, requests, faults>>

\* Metadata that coderd already has is an error of UpdateTemplateMeta.
UpdateMeta(c) ==
    LET r == call[c]
        next == [r EXCEPT !.step = IF r.files = None THEN "refresh" ELSE "files"]
    IN  /\ r.step = "meta"
        /\ \/ /\ r.meta = r.cur.meta
              /\ Proceed(c, next)
              /\ UNCHANGED <<tmpl, clock, settled, faults>>
           \/ /\ r.meta # r.cur.meta
              /\ Exists(c) /\ tmpl.meta # r.meta
              /\ Store([tmpl EXCEPT !.meta = r.meta])
              /\ Answered(c, next)
           \/ /\ r.meta # r.cur.meta
              /\ ~(Exists(c) /\ tmpl.meta # r.meta)
              /\ Reject(c)
              /\ UNCHANGED <<tmpl, clock, settled, faults>>
        /\ UNCHANGED <<queueVars, versions, requests>>

\* buildMergedSourceZip keeps the binary files of the archive it replaces, and
\* counts all its other files too: files that are valid by themselves may be too
\* large, or too many, together with those.
Merges(old, new) == new # "bad" /\ <<old, new>> \notin Unmergeable

\* Mutation: the new version is made active before it is built.
UpdateFilesAtOnce(c) ==
    LET r == call[c]
    IN  /\ r.step = "files"
        /\ versions[r.cur.active].files # r.files
        /\ Exists(c) /\ Merges(versions[r.cur.active].files, r.files)
        /\ NewVersion(r.files)
        /\ Store([tmpl EXCEPT !.active = Len(versions) + 1])
        /\ Proceed(c, [r EXCEPT !.step = "wait", !.version = Len(versions) + 1])
        /\ UNCHANGED <<queueVars, requests, faults>>

\* The files of the version that was active when the object was read decide.
UpdateFiles(c) ==
    LET r == call[c]
        old == versions[r.cur.active].files
    IN  /\ r.step = "files"
        /\ \/ /\ old = r.files
              /\ Goto(c, "refresh")
              /\ UNCHANGED <<versions, faults>>
           \/ /\ old # r.files
              /\ Merges(old, r.files) /\ Exists(c)
              /\ NewVersion(r.files)
              /\ Answered(c, [r EXCEPT !.step = "wait", !.version = Len(versions) + 1])
           \/ /\ old # r.files
              /\ ~(Merges(old, r.files) /\ Exists(c))
              /\ Reject(c)
              /\ UNCHANGED <<versions, faults>>
        /\ UNCHANGED <<queueVars, tmpl, clock, settled, requests>>

\* Mutation: any end of the build counts.
WaitForAnyBuild(c) ==
    /\ call[c].step = "wait"
    /\ versions[call[c].version].build # "running"
    /\ Goto(c, "promote")
    /\ UNCHANGED <<queueVars, tmpl, versions, clock, settled, requests, faults>>

\* waitForTemplateVersionBuild polls until the build has ended ...
WaitForBuild(c) ==
    /\ call[c].step = "wait"
    /\ CASE versions[call[c].version].build = "succeeded" -> Goto(c, "promote")
         [] versions[call[c].version].build = "failed" -> Reject(c)
         [] OTHER -> FALSE
    /\ UNCHANGED <<queueVars, tmpl, versions, clock, settled, requests, faults>>

\* Mutation: the wait has no timeout of its own.
WaitForEver(c) ==
    /\ call[c].step = "wait"
    /\ versions[call[c].version].build = "failed"
    /\ Reject(c)
    /\ UNCHANGED <<queueVars, tmpl, versions, clock, settled, requests, faults>>

\* ... or until its own timeout, or the deadline of the request, whatever the
\* build does.
WaitTimesOut(c) ==
    /\ call[c].step = "wait"
    /\ Reject(c)
    /\ UNCHANGED <<queueVars, tmpl, versions, clock, settled, requests, faults>>

\* UpdateActiveTemplateVersion; a transport error is swallowed by the SDK, and the
\* request may have taken effect or not.
Promote(c) ==
    LET r == call[c]
    IN  /\ r.step = "promote"
        /\ \/ /\ Exists(c)
              /\ Store([tmpl EXCEPT !.active = r.version])
              /\ Goto(c, "verify")
              /\ UNCHANGED faults
           \/ /\ Fault
              /\ Goto(c, "verify")
              /\ UNCHANGED <<tmpl, clock, settled>>
           \/ /\ ~Exists(c)
              /\ Reject(c)
              /\ UNCHANGED <<tmpl, clock, settled, faults>>
        /\ UNCHANGED <<queueVars, versions, requests>>

\* Mutation: the promotion is not verified.
VerifyNothing(c) ==
    /\ call[c].step = "verify"
    /\ Goto(c, "refresh")
    /\ UNCHANGED <<queueVars, tmpl, versions, clock, settled, requests, faults>>

Verify(c) ==
    /\ call[c].step = "verify"
    /\ IF Exists(c) /\ tmpl.active = call[c].version THEN Goto(c, "refresh") ELSE Reject(c)
    /\ UNCHANGED <<queueVars, tmpl, versions, clock, settled, requests, faults>>

\* Mutation: the answer and the event carry the object as it was read at first.
RefreshNothing(c) ==
    /\ call[c].step = "refresh"
    /\ Proceed(c, [call[c] EXCEPT !.step = "send", !.type = "modified"])
    /\ UNCHANGED <<queueVars, tmpl, versions, clock, settled, requests, faults>>

\* The answer and the event carry the object as it is read now, by name.
Refresh(c) ==
    /\ call[c].step = "refresh"
    /\ IF tmpl = None THEN Reject(c)
       ELSE Proceed(c, [call[c] EXCEPT !.step = "send", !.type = "modified", !.cur = tmpl])
    /\ UNCHANGED <<queueVars, tmpl, versions, clock, settled, requests, faults>>

-----------------------------------------------------------------------------
(* Delete.                                                                   *)

\* Admission may refuse the deletion.
ReadForDelete(c) ==
    /\ call[c].step = "readForDelete"
    /\ \/ Reject(c)
       \/ tmpl # None /\ Proceed(c, [call[c] EXCEPT !.step = "delete", !.cur = tmpl])
    /\ UNCHANGED <<queueVars, tmpl, versions, clock, settled, requests, faults>>

\* The event carries the template as it was read.
DeleteTemplate(c) ==
    LET r == call[c]
    IN  /\ r.step = "delete"
        /\ \/ /\ Exists(c)
              /\ tmpl' = None
              /\ settled' = FALSE
              /\ Answered(c, [r EXCEPT !.step = "send", !.type = "deleted"])
           \/ /\ ~Exists(c)
              /\ Reject(c)
              /\ UNCHANGED <<tmpl, settled, faults>>
        /\ UNCHANGED <<queueVars, versions, clock, requests>>

-----------------------------------------------------------------------------
(* enqueueWatchEvent, and the answer to the client.                          *)

Event(c) == [type |-> call[c].type, obj |-> call[c].cur]

Succeed(c) ==
    /\ Proceed(c, NoCall)
    /\ settled' = (settled \/ call[c].alone)

SendEvent(c) ==
    /\ call[c].step = "send"
    /\ IF Full
       THEN Goto(c, "full") /\ UNCHANGED <<queueVars, settled>>
       ELSE Send(Event(c)) /\ Succeed(c)
    /\ UNCHANGED <<tmpl, versions, clock, requests, faults>>

MakeRoom(c) ==
    /\ call[c].step = "full"
    /\ DropOldest
    /\ Goto(c, "resend")
    /\ UNCHANGED <<tmpl, versions, clock, settled, requests, faults>>

\* An event that finds no room again is given up.
ResendEvent(c) ==
    /\ call[c].step = "resend"
    /\ IF Full THEN GiveUp ELSE Send(Event(c))
    /\ Succeed(c)
    /\ UNCHANGED <<tmpl, versions, clock, requests, faults>>

-----------------------------------------------------------------------------
(* Everything around the handlers.                                           *)

\* A provisioner ends a build; nothing says that it ever does.
BuildEnds(v) ==
    /\ versions[v].build = "running"
    /\ \E b \in {"succeeded", "failed"} : versions' = [versions EXCEPT ![v].build = b]
    /\ UNCHANGED <<queueVars, tmpl, clock, call, settled, requests, faults>>

\* A request about another template.
OtherRequest(o) ==
    /\ \/ /\ requests < MaxRequests
          /\ OtherSends(o)
          /\ requests' = requests + 1
       \/ /\ OtherMakesRoom(o) \/ OtherResends(o)
          /\ UNCHANGED requests
    /\ UNCHANGED <<tmpl, versions, clock, call, settled, faults>>

DispatchEvent ==
    /\ Dispatch
    /\ UNCHANGED <<tmpl, versions, clock, call, settled, requests, faults>>

\* The server has drained its requests before it destroys the storage.
Destroy ==
    /\ InFlight = {}
    /\ CloseQueue
    /\ UNCHANGED <<tmpl, versions, clock, call, settled, requests, faults>>

Stop ==
    /\ Shutdown
    /\ UNCHANGED <<tmpl, versions, clock, call, settled, requests, faults>>

-----------------------------------------------------------------------------
(* The specification.                                                        *)

\* The template as coderd has it before the first request; its values are
\* interchangeable.
Existing == [id |-> 1, meta |-> CHOOSE m \in Metas : TRUE, active |-> 1, stamp |-> 1]

\* The template does not exist; or it does, and the server has just started, or has
\* just created it and has the event still in its queue.
Init ==
    /\ \/ /\ tmpl = None
          /\ versions = <<>>
          /\ clock = 0
          /\ InitQueueWith(<<>>)
          /\ settled = FALSE
       \/ /\ tmpl = Existing
          /\ versions = <<[files |-> CHOOSE f \in FileSets : TRUE, build |-> "succeeded"]>>
          /\ clock = 1
          /\ \/ InitQueueWith(<<>>) /\ settled = FALSE
             \/ InitQueueWith(<<[type |-> "added", obj |-> Existing]>>) /\ settled = TRUE
    /\ call = [c \in Clients |-> NoCall]
    /\ requests = 0
    /\ faults = 0

Begins(c) ==
    \/ BeginCreate(c)
    \/ BeginUpdate(c)
    \/ BeginDelete(c)

Handler(c) ==
    \/ CreateVersion(c)
    \/ CreateTemplate(c)
    \/ ReadForUpdate(c)
    \/ UpdateMeta(c)
    \/ UpdateFiles(c)
    \/ WaitForBuild(c)
    \/ WaitTimesOut(c)
    \/ Promote(c)
    \/ Verify(c)
    \/ Refresh(c)
    \/ ReadForDelete(c)
    \/ DeleteTemplate(c)
    \/ SendEvent(c)
    \/ MakeRoom(c)
    \/ ResendEvent(c)
    \/ CallFails(c)

-----------------------------------------------------------------------------
(* Properties.                                                               *)

\* The answer is true: when an update that no other request overlapped succeeds,
\* the template has the metadata and the files that were asked for, although the
\* SDK hides that a promotion never reached coderd.
SuccessMeansApplied ==
    \A c \in Clients :
        /\ call[c].step \in Sending
        /\ call[c].type # "deleted"
        /\ call[c].alone
        => /\ tmpl = call[c].cur
           /\ tmpl.meta = call[c].meta
           /\ call[c].files # None => versions[tmpl.active].files = call[c].files

\* "Pre-validate spec.files before any mutations to avoid partial updates": when an
\* update that no other request overlapped is about to be refused for its files, the
\* template is still as the handler read it.
InvalidFilesChangeNothing ==
    \A c \in Clients :
        LET r == call[c]
            old == versions[r.cur.active].files
        IN  r.step = "files" /\ r.alone /\ old # r.files /\ ~Merges(old, r.files) => tmpl = r.cur

\* An update is partial in its metadata at most: one that fails, and that no other
\* request overlapped, leaves the version active that was, whether its files, its build,
\* its promotion or a call failed.  Only a read that fails after the promotion may
\* end in an error with the new version active.
FailedUpdateKeepsVersion ==
    [][\A c \in Clients :
          LET r == call[c]
          IN  /\ r.step \in {"meta", "files", "wait", "promote", "verify", "refresh"}
              /\ r.alone
              /\ call'[c].step = "idle"
              => \/ tmpl' # None /\ tmpl'.active = r.cur.active
                 \/ r.step \in {"verify", "refresh"} /\ faults' # faults]_vars

\* The active version of a template is replaced only by one whose build succeeded.  A
\* template is created with a version whose build nobody waits for.
PromotedOnlyIfBuilt ==
    [][tmpl # None /\ tmpl' # None /\ tmpl'.id = tmpl.id /\ tmpl'.active # tmpl.active
          => versions[tmpl'.active].build = "succeeded"]_vars

\* The event tells the truth about the template.
Latest(e) == IF tmpl = None THEN e.type = "deleted" ELSE e.type # "deleted" /\ e.obj = tmpl

\* Watchers end up with the truth: if the last change of the template was made by
\* a request that was alone and succeeded, then once no event about it is on its way,
\* and also after Destroy, the last one broadcast describes the template as it is,
\* however many events requests about it dropped to make room.  The exception is
\* ousted: all templates share the queue, and a request about another one that finds
\* it full may take out the newest event about this one, or the room made for it.
WatchersUpToDate ==
    /\ settled
    /\ ~ousted
    /\ \A c \in Clients : call[c].step \notin Sending
    /\ NoneQueued
    => broadcast # <<>> /\ Latest(broadcast[1])

-----------------------------------------------------------------------------
(* The facts that make these inductive.                                      *)

\* What a handler knows at each of its steps: versions exist, files are good once
\* the template has been read, and only a build that succeeded is promoted.
Knows(r) ==
    /\ r.step \notin {"idle", "readForDelete", "delete"} \cup Sending => r.meta \in Metas
    /\ r.files = "bad" => r.step \in {"createVersion", "readForUpdate"}
    /\ r.step = "files" => r.files # None
    /\ r.step \in {"meta", "files"} => r.cur.active \in DOMAIN versions
    /\ r.step \in {"createTemplate", "wait", "promote", "verify"} => r.version \in DOMAIN versions
    /\ r.step = "promote" => versions[r.version].build = "succeeded"

Handling ==
    /\ tmpl # None => tmpl.active \in DOMAIN versions
    /\ \A c \in Clients : Knows(call[c])

\* A request that is alone really is.
Alone ==
    \A c, d \in Clients :
        c # d /\ call[c].step # "idle" /\ call[c].alone => call[d].step = "idle"

\* How far an update or a create that is alone has brought the template.
Applied(r) ==
    /\ r.step = "createTemplate" /\ r.files # None => versions[r.version].files = r.files
    /\ r.step = "meta" => tmpl = r.cur
    /\ r.step \in {"files", "wait", "promote", "verify"} =>
          tmpl # None /\ tmpl.id = r.cur.id /\ tmpl.meta = r.meta
    /\ r.step \in {"files", "wait", "promote"} => tmpl.active = r.cur.active
    /\ r.step \in {"wait", "promote", "verify"} => versions[r.version].files = r.files
    /\ r.step = "verify" => tmpl.active \in {r.cur.active, r.version}
    /\ r.step = "refresh" =>
          /\ tmpl # None /\ tmpl.meta = r.meta
          /\ r.files # None => versions[tmpl.active].files = r.files
    /\ r.step \in Sending /\ r.type = "deleted" => tmpl = None
    /\ r.step \in Sending /\ r.type # "deleted" =>
          /\ tmpl = r.cur /\ tmpl.meta = r.meta
          /\ r.files # None => versions[tmpl.active].files = r.files

Progress == \A c \in Clients : call[c].alone => Applied(call[c])

\* The newest event on its way to the watchers is true, or somebody is about to send one
\* that is, unless it was lost to a request about another template.
Delivered ==
    settled =>
        /\ \A c \in Clients : call[c].step \in Sending => Latest(Event(c))
        /\ ~ousted =>
              /\ \A i \in DOMAIN watchEvents : Newest(i) => Latest(watchEvents[i])
              /\ NoneQueued =>
                    \/ \E c \in Clients : call[c].step = "resend"
                    \/ broadcast # <<>> /\ Latest(broadcast[1])

\* The life of the queue.
Draining ==
    /\ lifecycle # "open" => InFlight = {} /\ \A o \in Others : other[o] = "idle"
    /\ lifecycle = "down" => watchEvents = <<>>

TemplateInv == Handling /\ Alone /\ Progress /\ Delivered /\ Draining

=============================================================================
