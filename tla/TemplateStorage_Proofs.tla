----------------------- MODULE TemplateStorage_Proofs -----------------------
(***************************************************************************)
(* Every step of the CoderTemplate storage keeps its types and TemplateInv,   *)
(* for any number of clients, requests and faults and any length of the       *)
(* queue.  WorkspaceStorage_Proofs draws the conclusions for the API server.  *)
(***************************************************************************)
EXTENDS TemplateStorage, SequenceTheorems, TLAPS

-----------------------------------------------------------------------------
(* Sequences.                                                                *)

\* A sequence that grows keeps what it has.
LEMMA AppendKeeps ==
    ASSUME NEW S, NEW s \in Seq(S), NEW e \in S
    PROVE  /\ Append(s, e) \in Seq(S)
           /\ Len(Append(s, e)) = Len(s) + 1
           /\ Append(s, e) # <<>>
           /\ DOMAIN Append(s, e) = DOMAIN s \cup {Len(s) + 1}
           /\ \A i \in DOMAIN s : Append(s, e)[i] = s[i]
           /\ Append(s, e)[Len(s) + 1] = e
<1>1. DOMAIN s = 1 .. Len(s) /\ Len(s) \in Nat
  OBVIOUS
<1> QED
  BY <1>1

LEMMA TailKeeps ==
    ASSUME NEW S, NEW s \in Seq(S), s # <<>>
    PROVE  /\ Head(s) \in S /\ Head(s) = s[1]
           /\ Tail(s) \in Seq(S)
           /\ Len(Tail(s)) = Len(s) - 1
           /\ Len(s) \in Nat \ {0}
           /\ \A i \in DOMAIN Tail(s) : i + 1 \in DOMAIN s /\ Tail(s)[i] = s[i + 1]
           /\ \A i \in DOMAIN s : i # 1 => i - 1 \in DOMAIN Tail(s) /\ i = (i - 1) + 1
<1>1. Len(s) \in Nat \ {0} /\ DOMAIN s = 1 .. Len(s)
  BY EmptySeq, LenProperties
<1>2. /\ Head(s) \in S /\ Tail(s) \in Seq(S) /\ Len(Tail(s)) = Len(s) - 1
      /\ Head(s) = s[1]
      /\ \A i \in 1 .. Len(Tail(s)) : Tail(s)[i] = s[i + 1]
  BY HeadTailProperties
<1>3. DOMAIN Tail(s) = 1 .. Len(s) - 1
  BY <1>2, LenProperties
<1> QED
  BY <1>1, <1>2, <1>3

\* The places of the newest event about this object, and whether there is none, in any
\* queue.
NewestIn(s, i) ==
    /\ i \in DOMAIN s
    /\ s[i] # Foreign
    /\ \A j \in DOMAIN s : j > i => s[j] = Foreign

NoneIn(s) == \A i \in DOMAIN s : s[i] = Foreign

\* An event that is put in is the newest one, an event about another object changes
\* nothing, and without its oldest event the queue has lost that one only.
LEMMA NewestAppended ==
    ASSUME NEW S, NEW s \in Seq(S), NEW e \in S, e # Foreign
    PROVE  /\ ~NoneIn(Append(s, e))
           /\ \A i : NewestIn(Append(s, e), i) => Append(s, e)[i] = e
<1>1. /\ DOMAIN Append(s, e) = DOMAIN s \cup {Len(s) + 1}
      /\ Append(s, e)[Len(s) + 1] = e
  BY AppendKeeps
<1>2. \A i \in DOMAIN s : Len(s) + 1 > i
  OBVIOUS
<1> QED
  BY Zenon, <1>1, <1>2 DEF NewestIn, NoneIn

LEMMA ForeignAppended ==
    ASSUME NEW S, NEW s \in Seq(S), Foreign \in S
    PROVE  /\ NoneIn(Append(s, Foreign)) => NoneIn(s)
           /\ \A i : NewestIn(Append(s, Foreign), i) => NewestIn(s, i) /\ Append(s, Foreign)[i] = s[i]
<1>1. /\ DOMAIN Append(s, Foreign) = DOMAIN s \cup {Len(s) + 1}
      /\ \A i \in DOMAIN s : Append(s, Foreign)[i] = s[i]
      /\ Append(s, Foreign)[Len(s) + 1] = Foreign
  BY AppendKeeps
<1> QED
  BY Zenon, <1>1 DEF NewestIn, NoneIn

LEMMA OldestDropped ==
    ASSUME NEW S, NEW s \in Seq(S), s # <<>>
    PROVE  /\ NoneIn(Tail(s)) => NoneIn(s) \/ NewestIn(s, 1)
           /\ \A i : NewestIn(Tail(s), i) => NewestIn(s, i + 1) /\ Tail(s)[i] = s[i + 1]
<1>1. /\ \A i \in DOMAIN Tail(s) : i + 1 \in DOMAIN s /\ Tail(s)[i] = s[i + 1]
      /\ \A i \in DOMAIN s : i # 1 => i - 1 \in DOMAIN Tail(s) /\ i = (i - 1) + 1
  BY Zenon, TailKeeps
<1>2. DOMAIN s \subseteq Int /\ DOMAIN Tail(s) \subseteq Int /\ 1 \in DOMAIN s
  <2>1. /\ Len(s) \in Nat \ {0} /\ DOMAIN s = 1 .. Len(s)
    BY EmptySeq, LenProperties
  <2>2. Tail(s) \in Seq(S)
    BY TailKeeps
  <2>3. DOMAIN Tail(s) = 1 .. Len(Tail(s)) /\ Len(Tail(s)) \in Nat
    BY <2>2, LenProperties
  <2> QED
    BY <2>1, <2>3
<1>3. NoneIn(Tail(s)) => \A i \in DOMAIN s : i # 1 => s[i] = Foreign
  <2> SUFFICES ASSUME NoneIn(Tail(s)), NEW i \in DOMAIN s, i # 1
               PROVE  s[i] = Foreign
    OBVIOUS
  <2>1. i - 1 \in DOMAIN Tail(s) /\ i = (i - 1) + 1
    BY <1>1
  <2>2. Tail(s)[i - 1] = Foreign /\ Tail(s)[i - 1] = s[(i - 1) + 1]
    BY Zenon, <1>1, <2>1 DEF NoneIn
  <2> QED
    BY Zenon, <2>1, <2>2
<1>4. NoneIn(Tail(s)) => NoneIn(s) \/ NewestIn(s, 1)
  <2>1. \A i \in DOMAIN s : i > 1 => i # 1
    BY <1>2
  <2> QED
    BY Zenon, <1>2, <1>3, <2>1 DEF NoneIn, NewestIn
<1>5. ASSUME NEW i, NewestIn(Tail(s), i)
      PROVE  NewestIn(s, i + 1) /\ Tail(s)[i] = s[i + 1]
  <2>1. i \in DOMAIN Tail(s) /\ Tail(s)[i] # Foreign /\ i + 1 \in DOMAIN s /\ Tail(s)[i] = s[i + 1]
    BY Zenon, <1>1, <1>5 DEF NewestIn
  <2>2. ASSUME NEW j \in DOMAIN s, j > i + 1
        PROVE  s[j] = Foreign
    <3>1. j # 1 /\ j - 1 > i
      BY <1>2, <2>1, <2>2, TailKeeps
    <3>2. j - 1 \in DOMAIN Tail(s) /\ j = (j - 1) + 1
      BY Zenon, <1>1, <3>1
    <3>3. Tail(s)[j - 1] = Foreign /\ Tail(s)[j - 1] = s[(j - 1) + 1]
      BY Zenon, <1>1, <1>5, <3>1, <3>2 DEF NewestIn
    <3> QED
      BY Zenon, <3>2, <3>3
  <2> QED
    BY Zenon, <2>1, <2>2 DEF NewestIn
<1> QED
  BY Zenon, <1>4, <1>5

-----------------------------------------------------------------------------
(* Types.                                                                    *)

\* A request as TypeOK has it.
CallOK(r) == r \in Calls /\ (r.step \in Reading => r.cur \in Templates)

LEMMA TypedCalls ==
    ASSUME TypeOK
    PROVE  \A c \in Clients : CallOK(call[c])
BY DEF TypeOK, CallOK

LEMMA NoCallOK == CallOK(NoCall)
BY DEF CallOK, NoCall, Calls, Steps, Reading, Sending, Opt

\* A handler's step changes its own request only.
LEMMA ProceedMoves ==
    ASSUME TypeOK, NEW c \in Clients, NEW n, CallOK(n), Proceed(c, n)
    PROVE  /\ call' \in [Clients -> Calls]
           /\ \A d \in Clients : CallOK(call'[d])
           /\ call'[c] = n
           /\ \A d \in Clients : d # c => call'[d] = call[d]
BY TypedCalls DEF TypeOK, Proceed, CallOK

\* The template that Store leaves behind.
LEMMA StoreType ==
    ASSUME TypeOK, NEW t \in Templates, Store(t)
    PROVE  /\ tmpl' \in Templates
           /\ tmpl'.id = t.id /\ tmpl'.meta = t.meta /\ tmpl'.active = t.active
           /\ tmpl' # None
           /\ clock' \in Nat
           /\ settled' = FALSE
BY NoneAssumption DEF TypeOK, Store, Templates

-----------------------------------------------------------------------------
(* What a step of a handler has to do for the invariant to be kept.          *)

\* Only request c moves, it does not become alone, and versions are kept.
Frame(c) ==
    /\ call[c].step # "idle"
    /\ \A d \in Clients : d # c => call'[d] = call[d]
    /\ call'[c].alone => call[c].alone
    /\ \A v \in DOMAIN versions : v \in DOMAIN versions' /\ versions'[v] = versions[v]
    /\ lifecycle' = lifecycle

\* What the handler knows and has done at its next step.
Local(c) ==
    /\ tmpl' # None => tmpl'.active \in DOMAIN versions'
    /\ Knows(call[c])'
    /\ call'[c].alone => Applied(call[c])'

\* The template changes, or the events still fit it.
Truthful(c) ==
    \/ settled' = FALSE
    \/ /\ UNCHANGED <<queueVars, tmpl, settled>>
       /\ call[c].step # "resend"
       /\ settled /\ call'[c].step \in Sending => Latest(Event(c))'

\* Nothing is asked of a request that is not there.
LEMMA IdleKnows ==
    ASSUME NEW r, r.step = "idle"
    PROVE  /\ r.files # "bad" => Knows(r)
           /\ Applied(r)
BY DEF Knows, Applied, Sending

LEMMA NoCallKnows ==
    /\ Knows(NoCall) /\ Applied(NoCall)
    /\ NoCall.step = "idle" /\ NoCall.alone = FALSE
BY ConstantsAssumption DEF Knows, Applied, Sending, NoCall

\* A request that is alone has no other one beside it.
LEMMA AloneKept ==
    ASSUME TypeOK, Alone, NEW c \in Clients, Frame(c)
    PROVE  /\ Alone'
           /\ \A d \in Clients : d # c /\ call'[d].alone => call'[d].step = "idle"
BY DEF Alone, Frame

LEMMA HandlingKept ==
    ASSUME TypeOK, Handling, NEW c \in Clients, Frame(c), Local(c)
    PROVE  Handling'
<1>1. ASSUME NEW d \in Clients, d # c
      PROVE  Knows(call[d])'
  <2>1. Knows(call[d]) /\ call'[d] = call[d]
    BY <1>1 DEF Handling, Frame
  <2> QED
    BY <2>1 DEF Knows, Frame
<1> QED
  BY <1>1 DEF Handling, Local

LEMMA ProgressKept ==
    ASSUME TypeOK, Alone, NEW c \in Clients, Frame(c), Local(c)
    PROVE  Progress'
<1>1. ASSUME NEW d \in Clients, d # c, call'[d].alone
      PROVE  Applied(call[d])'
  BY <1>1, AloneKept DEF Applied, Sending
<1> QED
  BY <1>1 DEF Progress, Local

LEMMA DrainingKept ==
    ASSUME TypeOK, Draining, NEW c \in Clients, Frame(c), QueueTypeOK(Events)'
    PROVE  Draining'
<1>1. lifecycle = "open"
  BY DEF Draining, Frame, InFlight
<1> QED
  BY <1>1 DEF Draining, Frame

\* The queue is left alone.
LEMMA QueueKept ==
    ASSUME UNCHANGED watchEvents
    PROVE  /\ \A i : Newest(i)' <=> Newest(i)
           /\ NoneQueued' <=> NoneQueued
BY DEF Newest, NoneQueued

LEMMA DeliveredKept ==
    ASSUME TypeOK, Delivered, NEW c \in Clients, Frame(c), Truthful(c)
    PROVE  Delivered'
<1>1. CASE settled' = FALSE
  BY <1>1 DEF Delivered
<1>2. CASE /\ UNCHANGED <<queueVars, tmpl, settled>>
           /\ call[c].step # "resend"
           /\ settled /\ call'[c].step \in Sending => Latest(Event(c))'
  <2> SUFFICES ASSUME settled
               PROVE  Delivered'
    BY <1>2 DEF Delivered
  <2>1. \A d \in Clients : call'[d].step \in Sending => Latest(Event(d))'
    BY <1>2 DEF Delivered, Frame, Latest, Event
  <2>2. UNCHANGED <<watchEvents, broadcast, ousted, tmpl>>
    BY <1>2 DEF queueVars
  <2>3. \A e : Latest(e)' <=> Latest(e)
    BY Zenon, <2>2 DEF Latest
  <2>4. \A d \in Clients : call[d].step = "resend" => call'[d].step = "resend"
    BY <1>2 DEF Frame
  <2> QED
    BY Zenon, <2>1, <2>2, <2>3, <2>4, QueueKept DEF Delivered
<1> QED
  BY Zenon, <1>1, <1>2 DEF Truthful

\* The step keeps the invariant.
Kept(c) == TypeOK' /\ Frame(c) /\ Local(c)

LEMMA InvariantKept ==
    ASSUME TypeOK, TemplateInv, NEW c \in Clients, Kept(c), Truthful(c)
    PROVE  TypeOK' /\ TemplateInv'
BY AloneKept, HandlingKept, ProgressKept, DrainingKept, DeliveredKept DEF TemplateInv, Kept, TypeOK

\* What is left behind around the requests.
World ==
    /\ tmpl' \in Opt(Templates)
    /\ tmpl' # None => tmpl'.active \in DOMAIN versions'
    /\ versions' \in Seq(Versions)
    /\ \A v \in DOMAIN versions : v \in DOMAIN versions' /\ versions'[v] = versions[v]
    /\ clock' \in Nat
    /\ settled' \in BOOLEAN
    /\ requests' \in 0 .. MaxRequests
    /\ faults' \in 0 .. MaxFaults
    /\ QueueTypeOK(Events)'
    /\ lifecycle' = lifecycle

LEMMA MoveKeeps ==
    ASSUME TypeOK, NEW c \in Clients, call[c].step # "idle", World,
           NEW n, CallOK(n), Proceed(c, n), n.alone => call[c].alone
    PROVE  TypeOK' /\ Frame(c) /\ call'[c] = n
<1>1. /\ call' \in [Clients -> Calls]
      /\ \A d \in Clients : CallOK(call'[d])
      /\ call'[c] = n
      /\ \A d \in Clients : d # c => call'[d] = call[d]
  BY ProceedMoves
<1> QED
  BY <1>1 DEF TypeOK, Frame, World, CallOK

\* The handler goes on to step s, and keeps what it has.
LEMMA GotoKeeps ==
    ASSUME TypeOK, NEW c \in Clients, call[c].step # "idle", World,
           NEW s \in Steps, s \in Reading => call[c].cur \in Templates, Goto(c, s)
    PROVE  /\ TypeOK' /\ Frame(c)
           /\ call'[c].step = s
           /\ call'[c].meta = call[c].meta /\ call'[c].files = call[c].files
           /\ call'[c].cur = call[c].cur /\ call'[c].version = call[c].version
           /\ call'[c].type = call[c].type /\ call'[c].alone = call[c].alone
<1> DEFINE n == [call[c] EXCEPT !.step = s]
<1>1. /\ CallOK(n) /\ n.step = s
      /\ n.meta = call[c].meta /\ n.files = call[c].files /\ n.cur = call[c].cur
      /\ n.version = call[c].version /\ n.type = call[c].type /\ n.alone = call[c].alone
  BY Zenon, TypedCalls DEF CallOK, Calls
<1>2. Proceed(c, n)
  BY DEF Goto
<1> HIDE DEF n
<1> QED
  BY <1>1, <1>2, MoveKeeps

LEMMA RejectKeeps ==
    ASSUME TypeOK, NEW c \in Clients, call[c].step # "idle", World, Reject(c)
    PROVE  Kept(c) /\ call'[c] = NoCall
<1>1. TypeOK' /\ Frame(c) /\ call'[c] = NoCall
  BY MoveKeeps, NoCallOK, NoCallKnows DEF Reject
<1>2. Local(c)
  BY <1>1, ConstantsAssumption DEF Local, World, Knows, Applied, NoCall, Sending
<1> QED
  BY <1>1, <1>2 DEF Kept

LEMMA RejectTruthful ==
    ASSUME TypeOK, NEW c \in Clients, call[c].step # "resend", call'[c] = NoCall,
           settled' = FALSE \/ UNCHANGED <<queueVars, tmpl, settled>>
    PROVE  Truthful(c)
BY NoCallKnows DEF Truthful, Sending

LEMMA FaultType ==
    ASSUME TypeOK, Fault \/ UNCHANGED faults
    PROVE  faults' \in 0 .. MaxFaults
BY ConstantsAssumption DEF TypeOK, Fault

\* Nothing but the request changes.
LEMMA QuietWorld ==
    ASSUME TypeOK, Handling,
           UNCHANGED <<queueVars, tmpl, versions, clock, settled, requests>>,
           Fault \/ UNCHANGED faults
    PROVE  World
BY FaultType DEF TypeOK, Handling, World, QueueTypeOK, queueVars

\* A version is added.
LEMMA VersionWorld ==
    ASSUME TypeOK, Handling, NEW f \in FileSets, NewVersion(f),
           UNCHANGED <<queueVars, tmpl, clock, settled, requests>>,
           Fault \/ UNCHANGED faults
    PROVE  /\ World
           /\ Len(versions) + 1 \in Nat
           /\ Len(versions) + 1 \in DOMAIN versions'
           /\ versions'[Len(versions) + 1].files = f
<1> DEFINE v == [files |-> f, build |-> "running"]
<1>1. v \in Versions
  BY DEF Versions, Builds
<1> HIDE DEF v
<1>2. versions \in Seq(Versions) /\ versions' = Append(versions, v)
  BY DEF TypeOK, NewVersion, v
<1>3. /\ versions' \in Seq(Versions)
      /\ DOMAIN versions' = DOMAIN versions \cup {Len(versions) + 1}
      /\ \A i \in DOMAIN versions : versions'[i] = versions[i]
      /\ versions'[Len(versions) + 1] = v
  BY <1>1, <1>2, AppendKeeps
<1>4. Len(versions) \in Nat
  BY <1>2, LenProperties
<1>5. v.files = f
  BY DEF v
<1>6. World
  BY <1>3, FaultType DEF TypeOK, Handling, World, QueueTypeOK, queueVars
<1> QED
  BY <1>3, <1>4, <1>5, <1>6

\* The template is changed.
LEMMA StoreWorld ==
    ASSUME TypeOK, Handling, NEW t \in Templates, t.active \in DOMAIN versions, Store(t),
           UNCHANGED <<queueVars, versions, requests>>,
           Fault \/ UNCHANGED faults
    PROVE  World
<1>1. tmpl' \in Templates /\ tmpl'.active = t.active /\ clock' \in Nat /\ settled' = FALSE
  BY ZenonT(40), StoreType
<1> QED
  BY Zenon, <1>1, FaultType DEF TypeOK, World, QueueTypeOK, queueVars, Opt

-----------------------------------------------------------------------------
(* Create.                                                                   *)

LEMMA CreateVersionKeeps ==
    ASSUME TypeOK, TemplateInv, NEW c \in Clients, CreateVersion(c)
    PROVE  Kept(c) /\ Truthful(c)
<1> DEFINE r == call[c]
<1>1. /\ r.step = "createVersion" /\ CallOK(r) /\ r.meta \in Metas /\ Handling
      /\ "createTemplate" \in Steps /\ "createTemplate" \notin Reading
  BY Zenon, TypedCalls DEF CreateVersion, TemplateInv, Handling, Knows, Sending, Steps, Reading
<1>2. ASSUME NEW v \in Nat, v \in DOMAIN versions', World,
             Proceed(c, [r EXCEPT !.step = "createTemplate", !.version = v]),
             r.files # "bad", r.files # None => versions'[v].files = r.files
      PROVE  Kept(c) /\ call'[c].step = "createTemplate"
  <2> DEFINE n == [r EXCEPT !.step = "createTemplate", !.version = v]
  <2>1. /\ CallOK(n) /\ n.alone = r.alone
        /\ n.step = "createTemplate" /\ n.version = v /\ n.files = r.files /\ n.meta = r.meta
    BY Zenon, <1>1 DEF CallOK, Calls
  <2> HIDE DEF n
  <2>2. TypeOK' /\ Frame(c) /\ call'[c] = n
    BY ZenonT(40), <1>1, <1>2, <2>1, MoveKeeps DEF n
  <2>3. Local(c)
    BY <1>1, <1>2, <2>1, <2>2 DEF Local, Knows, Applied, Sending, World
  <2> QED
    BY <2>1, <2>2, <2>3 DEF Kept
<1>3. UNCHANGED <<queueVars, tmpl, settled>>
  BY Zenon DEF CreateVersion
<1>4. CASE Reject(c) /\ UNCHANGED <<versions, faults>>
  <2>1. World
    BY <1>1, <1>4, QuietWorld DEF CreateVersion
  <2> QED
    BY <1>1, <1>3, <1>4, <2>1, RejectKeeps, RejectTruthful
<1>5. CASE /\ r.files = None
           /\ IF versions = <<>>
              THEN Reject(c)
              ELSE \E v \in DOMAIN versions :
                      Proceed(c, [r EXCEPT !.step = "createTemplate", !.version = v])
           /\ UNCHANGED <<versions, faults>>
  <2>1. World
    BY Zenon, <1>1, <1>5, QuietWorld DEF CreateVersion
  <2>2. CASE Reject(c)
    BY <1>1, <1>3, <2>1, <2>2, RejectKeeps, RejectTruthful
  <2>3. CASE \E v \in DOMAIN versions :
                Proceed(c, [r EXCEPT !.step = "createTemplate", !.version = v])
    <3>1. PICK v \in DOMAIN versions :
             Proceed(c, [r EXCEPT !.step = "createTemplate", !.version = v])
      BY Zenon, <2>3
    <3>2. v \in Nat /\ v \in DOMAIN versions'
      <4>1. DOMAIN versions = 1 .. Len(versions) /\ Len(versions) \in Nat
        BY LenProperties DEF TypeOK
      <4>2. versions' = versions
        BY Zenon, <1>5
      <4>3. v \in DOMAIN versions
        BY <3>1
      <4> QED
        BY <4>1, <4>2, <4>3
    <3> QED
      BY ZenonT(40), <1>1, <1>2, <1>3, <1>5, <2>1, <3>1, <3>2, ConstantsAssumption DEF Truthful, Sending
  <2> QED
    BY ZenonT(40), <1>5, <2>2, <2>3
<1>6. CASE /\ r.files \in FileSets
           /\ NewVersion(r.files)
           /\ Answered(c, [r EXCEPT !.step = "createTemplate", !.version = Len(versions) + 1])
  <2>1. Fault \/ UNCHANGED faults
    BY <1>6 DEF Answered
  <2>2. /\ World /\ Len(versions) + 1 \in Nat
        /\ Len(versions) + 1 \in DOMAIN versions'
        /\ versions'[Len(versions) + 1].files = r.files
    BY Zenon, <1>1, <1>6, <2>1, VersionWorld DEF CreateVersion
  <2>3. CASE Reject(c)
    BY <1>1, <1>3, <2>2, <2>3, RejectKeeps, RejectTruthful
  <2>4. CASE Proceed(c, [r EXCEPT !.step = "createTemplate", !.version = Len(versions) + 1])
    BY Zenon, <1>1, <1>2, <1>3, <1>6, <2>2, <2>4, ConstantsAssumption DEF Truthful, Sending
  <2> QED
    BY <1>6, <2>3, <2>4 DEF Answered
<1> QED
  BY Zenon, <1>4, <1>5, <1>6 DEF CreateVersion

LEMMA CreateTemplateKeeps ==
    ASSUME TypeOK, TemplateInv, NEW c \in Clients, CreateTemplate(c)
    PROVE  Kept(c) /\ Truthful(c)
<1> DEFINE r == call[c]
<1>1. /\ r.step = "createTemplate" /\ CallOK(r) /\ r.meta \in Metas /\ Handling
      /\ r.version \in DOMAIN versions /\ r.version \in Nat /\ r.files # "bad"
      /\ r.alone /\ r.files # None => versions[r.version].files = r.files
  BY Zenon, TypedCalls DEF CreateTemplate, TemplateInv, Handling, Knows, Sending, Progress, Applied, CallOK, Calls
<1>2. CASE tmpl # None /\ Reject(c) /\ UNCHANGED <<tmpl, clock, settled, faults>>
  <2>1. World
    BY <1>1, <1>2, QuietWorld DEF CreateTemplate
  <2> QED
    BY <1>1, <1>2, <2>1, RejectKeeps, RejectTruthful DEF CreateTemplate
<1>3. CASE /\ tmpl = None
           /\ Store([id |-> clock + 1, meta |-> r.meta, active |-> r.version, stamp |-> 0])
           /\ Answered(c, [r EXCEPT !.step = "send", !.type = "added", !.cur = tmpl'])
  <2> DEFINE t == [id |-> clock + 1, meta |-> r.meta, active |-> r.version, stamp |-> 0]
             n == [r EXCEPT !.step = "send", !.type = "added", !.cur = tmpl']
  <2>1. t \in Templates /\ t.active = r.version /\ t.meta = r.meta
    BY <1>1 DEF Templates, TypeOK
  <2>2. Fault \/ UNCHANGED faults
    BY <1>3 DEF Answered
  <2> HIDE DEF t
  <2>3. Store(t)
    BY <1>3 DEF t
  <2>4. /\ tmpl' \in Templates /\ tmpl' # None /\ settled' = FALSE
        /\ tmpl'.meta = r.meta /\ tmpl'.active = r.version
    BY Zenon, <2>1, <2>3, StoreType
  <2>5. World
    BY <1>1, <2>1, <2>2, <2>3, StoreWorld DEF CreateTemplate
  <2>6. Truthful(c)
    BY <2>4 DEF Truthful
  <2>7. CASE Reject(c)
    BY <1>1, <2>5, <2>6, <2>7, RejectKeeps
  <2>8. CASE Proceed(c, n)
    <3>1. /\ CallOK(n) /\ n.alone = r.alone /\ n.cur = tmpl' /\ n.type = "added"
          /\ n.step = "send" /\ n.files = r.files /\ n.meta = r.meta
      BY Zenon, <1>1, <2>4 DEF CallOK, Calls, Steps, Reading, Sending, Opt
    <3> HIDE DEF n
    <3>2. TypeOK' /\ Frame(c) /\ call'[c] = n
      BY <1>1, <2>5, <2>8, <3>1, MoveKeeps
    <3>3. versions' = versions
      BY DEF CreateTemplate
    <3>4. Local(c)
      BY Zenon, <1>1, <2>4, <2>5, <3>1, <3>2, <3>3 DEF Local, Knows, Applied, Sending, World
    <3> QED
      BY <2>6, <3>2, <3>4 DEF Kept
  <2> QED
    BY <1>3, <2>7, <2>8 DEF Answered
<1> QED
  BY <1>2, <1>3 DEF CreateTemplate

-----------------------------------------------------------------------------
(* Update.                                                                   *)

LEMMA ReadForUpdateKeeps ==
    ASSUME TypeOK, TemplateInv, NEW c \in Clients, ReadForUpdate(c)
    PROVE  Kept(c) /\ Truthful(c)
<1> DEFINE r == call[c]
<1>1. /\ r.step = "readForUpdate" /\ CallOK(r) /\ r.meta \in Metas /\ Handling
  BY TypedCalls DEF ReadForUpdate, TemplateInv, Handling, Knows, Sending
<1>2. World /\ UNCHANGED <<queueVars, tmpl, settled, versions>>
  BY <1>1, QuietWorld DEF ReadForUpdate
<1>3. CASE Reject(c)
  BY <1>1, <1>2, <1>3, RejectKeeps, RejectTruthful
<1>4. CASE Goto(c, "createVersion")
  <2>1. TypeOK' /\ Frame(c) /\ call'[c].step = "createVersion" /\ call'[c].meta = r.meta
    BY Zenon, <1>1, <1>2, <1>4, GotoKeeps DEF Steps, Reading, Sending
  <2>2. Local(c)
    BY Zenon, <1>1, <1>2, <2>1 DEF Local, Knows, Applied, Sending, World
  <2> QED
    BY <1>1, <1>2, <2>1, <2>2 DEF Kept, Truthful, Sending
<1>5. CASE /\ tmpl # None /\ r.files # "bad"
           /\ Proceed(c, [r EXCEPT !.step = "meta", !.cur = tmpl])
  <2> DEFINE n == [r EXCEPT !.step = "meta", !.cur = tmpl]
  <2>1. /\ CallOK(n) /\ n.alone = r.alone /\ n.step = "meta" /\ n.meta = r.meta
        /\ n.cur = tmpl /\ n.files # "bad"
    BY Zenon, <1>1, <1>5 DEF CallOK, Calls, Steps, Reading, Sending, TypeOK, Opt
  <2> HIDE DEF n
  <2>2. TypeOK' /\ Frame(c) /\ call'[c] = n
    BY Zenon, <1>1, <1>2, <1>5, <2>1, MoveKeeps DEF n
  <2>3. Local(c)
    BY <1>1, <1>2, <1>5, <2>1, <2>2 DEF Local, Knows, Applied, Sending, World, Handling
  <2> QED
    BY <1>1, <1>2, <2>1, <2>2, <2>3 DEF Kept, Truthful, Sending
<1> QED
  BY <1>3, <1>4, <1>5 DEF ReadForUpdate

LEMMA UpdateMetaKeeps ==
    ASSUME TypeOK, TemplateInv, NEW c \in Clients, UpdateMeta(c)
    PROVE  Kept(c) /\ Truthful(c)
<1> DEFINE r == call[c]
           s == IF r.files = None THEN "refresh" ELSE "files"
           next == [r EXCEPT !.step = s]
<1>1. /\ r.step = "meta" /\ CallOK(r) /\ r.meta \in Metas /\ Handling /\ r.cur \in Templates
      /\ r.files # "bad" /\ r.cur.active \in DOMAIN versions
      /\ r.alone => tmpl = r.cur
  BY Zenon, TypedCalls DEF UpdateMeta, TemplateInv, Handling, Knows, Sending, Progress, Applied, CallOK, Reading
<1>2. s \in Steps /\ s \in {"refresh", "files"}
  BY DEF Steps, Reading
<1>3. versions' = versions /\ UNCHANGED <<queueVars, versions, requests>>
  BY DEF UpdateMeta
<1>4. ASSUME World, Proceed(c, next),
             r.alone => /\ tmpl' # None /\ tmpl'.id = r.cur.id
                        /\ tmpl'.meta = r.meta /\ tmpl'.active = r.cur.active
      PROVE  Kept(c) /\ call'[c].step \notin Sending
  <2>1. /\ TypeOK' /\ Frame(c) /\ call'[c].step = s /\ call'[c].meta = r.meta
        /\ call'[c].files = r.files /\ call'[c].cur = r.cur /\ call'[c].alone = r.alone
    BY <1>1, <1>2, <1>4, GotoKeeps DEF Goto
  <2>2. Local(c)
    BY <1>1, <1>2, <1>3, <1>4, <2>1 DEF Local, Knows, Applied, Sending, World
  <2> QED
    BY <1>2, <2>1, <2>2 DEF Kept, Sending
<1>5. CASE r.meta = r.cur.meta /\ Proceed(c, next) /\ UNCHANGED <<tmpl, clock, settled, faults>>
  <2>1. World
    BY <1>1, <1>3, <1>5, QuietWorld
  <2>2. r.alone => /\ tmpl' # None /\ tmpl'.id = r.cur.id
                   /\ tmpl'.meta = r.meta /\ tmpl'.active = r.cur.active
    BY <1>1, <1>5, NoneAssumption
  <2>3. Kept(c) /\ call'[c].step \notin Sending
    BY <1>4, <1>5, <2>1, <2>2
  <2> QED
    BY <1>1, <1>3, <1>5, <2>3 DEF Truthful, queueVars
<1>6. CASE /\ r.meta # r.cur.meta /\ tmpl # None
           /\ Store([tmpl EXCEPT !.meta = r.meta])
           /\ Answered(c, next)
  <2> DEFINE t == [tmpl EXCEPT !.meta = r.meta]
  <2>1. t \in Templates /\ t.active = tmpl.active /\ t.meta = r.meta /\ t.id = tmpl.id
    BY Zenon, <1>1, <1>6 DEF Templates, TypeOK, Opt
  <2>2. Fault \/ UNCHANGED faults
    BY <1>6 DEF Answered
  <2> HIDE DEF t
  <2>3. Store(t)
    BY <1>6 DEF t
  <2>4. /\ tmpl' # None /\ settled' = FALSE
        /\ tmpl'.meta = r.meta /\ tmpl'.active = tmpl.active /\ tmpl'.id = tmpl.id
    BY Zenon, <2>1, <2>3, StoreType
  <2>5. World
    BY <1>1, <1>3, <1>6, <2>1, <2>2, <2>3, StoreWorld DEF Handling
  <2>6. Truthful(c)
    BY <2>4 DEF Truthful
  <2>7. CASE Reject(c)
    BY <1>1, <2>5, <2>6, <2>7, RejectKeeps
  <2>8. CASE Proceed(c, next)
    BY <1>1, <1>4, <2>4, <2>5, <2>6, <2>8
  <2> QED
    BY <1>6, <2>7, <2>8 DEF Answered
<1>7. CASE Reject(c) /\ UNCHANGED <<tmpl, clock, settled, faults>>
  <2>1. World
    BY <1>1, <1>3, <1>7, QuietWorld
  <2> QED
    BY <1>1, <1>3, <1>7, <2>1, RejectKeeps, RejectTruthful
<1> QED
  BY <1>5, <1>6, <1>7 DEF UpdateMeta, Exists

LEMMA UpdateFilesKeeps ==
    ASSUME TypeOK, TemplateInv, NEW c \in Clients, UpdateFiles(c)
    PROVE  Kept(c) /\ Truthful(c)
<1> DEFINE r == call[c]
<1>1. /\ r.step = "files" /\ CallOK(r) /\ r.meta \in Metas /\ Handling /\ r.cur \in Templates
      /\ r.files # "bad" /\ r.files \in FileSets /\ r.cur.active \in DOMAIN versions
      /\ r.alone => /\ tmpl # None /\ tmpl.id = r.cur.id
                    /\ tmpl.meta = r.meta /\ tmpl.active = r.cur.active
  BY Zenon, TypedCalls DEF UpdateFiles, TemplateInv, Handling, Knows, Sending, Progress, Applied, CallOK,
                    Reading, Calls, Opt
<1>2. UNCHANGED <<queueVars, tmpl, settled>> /\ UNCHANGED <<queueVars, tmpl, clock, settled, requests>>
  BY DEF UpdateFiles
<1>3. CASE versions[r.cur.active].files = r.files /\ Goto(c, "refresh") /\ UNCHANGED <<versions, faults>>
  <2>1. World
    BY Zenon, <1>1, <1>2, <1>3, QuietWorld
  <2>2. /\ TypeOK' /\ Frame(c) /\ call'[c].step = "refresh" /\ call'[c].meta = r.meta
        /\ call'[c].files = r.files /\ call'[c].alone = r.alone
    BY <1>1, <1>3, <2>1, GotoKeeps DEF Steps, Reading
  <2>3. Local(c)
    BY Zenon, <1>1, <1>2, <1>3, <2>1, <2>2 DEF Local, Knows, Applied, Sending, World
  <2> QED
    BY <1>1, <1>2, <2>2, <2>3 DEF Kept, Truthful, Sending
<1>4. CASE NewVersion(r.files) /\ Answered(c, [r EXCEPT !.step = "wait", !.version = Len(versions) + 1])
  <2> DEFINE n == [r EXCEPT !.step = "wait", !.version = Len(versions) + 1]
  <2>1. Fault \/ UNCHANGED faults
    BY <1>4 DEF Answered
  <2>2. /\ World /\ Len(versions) + 1 \in Nat
        /\ Len(versions) + 1 \in DOMAIN versions'
        /\ versions'[Len(versions) + 1].files = r.files
    BY <1>1, <1>2, <1>4, <2>1, VersionWorld
  <2>3. CASE Reject(c)
    BY Zenon, <1>1, <1>2, <2>2, <2>3, RejectKeeps, RejectTruthful
  <2>4. CASE Proceed(c, n)
    <3>1. /\ CallOK(n) /\ n.alone = r.alone /\ n.step = "wait" /\ n.files = r.files
          /\ n.meta = r.meta /\ n.version = Len(versions) + 1 /\ n.cur = r.cur
      BY Zenon, <1>1, <2>2 DEF CallOK, Calls, Steps, Reading
    <3> HIDE DEF n
    <3>2. TypeOK' /\ Frame(c) /\ call'[c] = n
      BY <1>1, <2>2, <2>4, <3>1, MoveKeeps
    <3>3. Local(c)
      BY Zenon, <1>1, <1>2, <2>2, <3>1, <3>2 DEF Local, Knows, Applied, Sending, World
    <3> QED
      BY <1>1, <1>2, <3>1, <3>2, <3>3 DEF Kept, Truthful, Sending
  <2> QED
    BY <1>4, <2>3, <2>4 DEF Answered
<1>5. CASE Reject(c) /\ UNCHANGED <<versions, faults>>
  <2>1. World
    BY <1>1, <1>2, <1>5, QuietWorld
  <2> QED
    BY Zenon, <1>1, <1>2, <1>5, <2>1, RejectKeeps, RejectTruthful
<1> QED
  BY Zenon, <1>3, <1>4, <1>5 DEF UpdateFiles

LEMMA WaitForBuildKeeps ==
    ASSUME TypeOK, TemplateInv, NEW c \in Clients, WaitForBuild(c) \/ WaitTimesOut(c)
    PROVE  Kept(c) /\ Truthful(c)
<1> DEFINE r == call[c]
<1>1. /\ r.step = "wait" /\ CallOK(r) /\ r.meta \in Metas /\ Handling /\ r.cur \in Templates
      /\ r.files # "bad" /\ r.version \in DOMAIN versions
      /\ r.alone => /\ tmpl # None /\ tmpl.id = r.cur.id /\ tmpl.meta = r.meta
                    /\ tmpl.active = r.cur.active /\ versions[r.version].files = r.files
  BY Zenon, TypedCalls DEF WaitForBuild, WaitTimesOut, TemplateInv, Handling, Knows, Sending, Progress, Applied,
                    CallOK, Reading
<1>2. UNCHANGED <<queueVars, tmpl, versions, clock, settled, requests, faults>>
  BY DEF WaitForBuild, WaitTimesOut
<1>3. World
  BY <1>1, <1>2, QuietWorld
<1>4. CASE Reject(c)
  BY <1>1, <1>2, <1>3, <1>4, RejectKeeps, RejectTruthful
<1>5. CASE versions[r.version].build = "succeeded" /\ Goto(c, "promote")
  <2>1. /\ TypeOK' /\ Frame(c) /\ call'[c].step = "promote" /\ call'[c].meta = r.meta
        /\ call'[c].files = r.files /\ call'[c].alone = r.alone /\ call'[c].version = r.version
        /\ call'[c].cur = r.cur
    BY Zenon, <1>1, <1>3, <1>5, GotoKeeps DEF Steps, Reading
  <2>2. Local(c)
    BY Zenon, <1>1, <1>2, <1>3, <1>5, <2>1 DEF Local, Knows, Applied, Sending, World
  <2> QED
    BY <1>1, <1>2, <2>1, <2>2 DEF Kept, Truthful, Sending
<1> QED
  BY <1>4, <1>5 DEF WaitForBuild, WaitTimesOut

LEMMA PromoteKeeps ==
    ASSUME TypeOK, TemplateInv, NEW c \in Clients, Promote(c)
    PROVE  Kept(c) /\ Truthful(c)
<1> DEFINE r == call[c]
<1>1. /\ r.step = "promote" /\ CallOK(r) /\ r.meta \in Metas /\ Handling /\ r.cur \in Templates
      /\ r.files # "bad" /\ r.version \in DOMAIN versions /\ r.version \in Nat
      /\ r.alone => /\ tmpl # None /\ tmpl.id = r.cur.id /\ tmpl.meta = r.meta
                    /\ tmpl.active = r.cur.active /\ versions[r.version].files = r.files
  BY Zenon, TypedCalls DEF Promote, TemplateInv, Handling, Knows, Sending, Progress, Applied, CallOK, Calls, Reading
<1>2. UNCHANGED <<queueVars, versions, requests>> /\ versions' = versions
  BY DEF Promote
<1>3. ASSUME World, Goto(c, "verify"),
             r.alone => /\ tmpl' # None /\ tmpl'.id = r.cur.id /\ tmpl'.meta = r.meta
                        /\ tmpl'.active \in {r.cur.active, r.version}
      PROVE  Kept(c) /\ call'[c].step = "verify"
  <2>1. /\ TypeOK' /\ Frame(c) /\ call'[c].step = "verify" /\ call'[c].meta = r.meta
        /\ call'[c].files = r.files /\ call'[c].alone = r.alone /\ call'[c].version = r.version
        /\ call'[c].cur = r.cur
    BY Zenon, <1>1, <1>3, GotoKeeps DEF Steps, Reading
  <2>2. Local(c)
    BY Zenon, <1>1, <1>2, <1>3, <2>1 DEF Local, Knows, Applied, Sending, World
  <2> QED
    BY <2>1, <2>2 DEF Kept
<1>4. CASE /\ tmpl # None
           /\ Store([tmpl EXCEPT !.active = r.version])
           /\ Goto(c, "verify")
           /\ UNCHANGED faults
  <2> DEFINE t == [tmpl EXCEPT !.active = r.version]
  <2>1. t \in Templates /\ t.active = r.version /\ t.meta = tmpl.meta /\ t.id = tmpl.id
    BY Zenon, <1>1, <1>4 DEF Templates, TypeOK, Opt
  <2> HIDE DEF t
  <2>2. Store(t)
    BY <1>4 DEF t
  <2>3. /\ tmpl' # None /\ settled' = FALSE
        /\ tmpl'.meta = tmpl.meta /\ tmpl'.id = tmpl.id /\ tmpl'.active = r.version
    BY Zenon, <2>1, <2>2, StoreType
  <2>4. World
    BY <1>1, <1>2, <1>4, <2>1, <2>2, StoreWorld
  <2> QED
    BY <1>1, <1>3, <1>4, <2>3, <2>4 DEF Truthful
<1>5. CASE Fault /\ Goto(c, "verify") /\ UNCHANGED <<tmpl, clock, settled>>
  <2>1. World
    BY <1>1, <1>2, <1>5, QuietWorld
  <2>2. Kept(c) /\ call'[c].step = "verify"
    BY <1>1, <1>3, <1>5, <2>1
  <2> QED
    BY Zenon, <1>1, <1>2, <1>5, <2>2 DEF Truthful, Sending
<1>6. CASE Reject(c) /\ UNCHANGED <<tmpl, clock, settled, faults>>
  <2>1. World
    BY <1>1, <1>2, <1>6, QuietWorld
  <2> QED
    BY <1>1, <1>2, <1>6, <2>1, RejectKeeps, RejectTruthful
<1> QED
  BY <1>4, <1>5, <1>6 DEF Promote, Exists

LEMMA VerifyKeeps ==
    ASSUME TypeOK, TemplateInv, NEW c \in Clients, Verify(c)
    PROVE  Kept(c) /\ Truthful(c)
<1> DEFINE r == call[c]
<1>1. /\ r.step = "verify" /\ CallOK(r) /\ r.meta \in Metas /\ Handling /\ r.cur \in Templates
      /\ r.files # "bad"
      /\ r.alone => tmpl # None /\ tmpl.meta = r.meta /\ versions[r.version].files = r.files
  BY Zenon, TypedCalls DEF Verify, TemplateInv, Handling, Knows, Sending, Progress, Applied, CallOK, Reading
<1>2. UNCHANGED <<queueVars, tmpl, versions, clock, settled, requests, faults>>
  BY DEF Verify
<1>3. World
  BY <1>1, <1>2, QuietWorld
<1>4. CASE Reject(c)
  BY <1>1, <1>2, <1>3, <1>4, RejectKeeps, RejectTruthful
<1>5. CASE tmpl.active = r.version /\ Goto(c, "refresh")
  <2>1. /\ TypeOK' /\ Frame(c) /\ call'[c].step = "refresh" /\ call'[c].meta = r.meta
        /\ call'[c].files = r.files /\ call'[c].alone = r.alone
    BY <1>1, <1>3, <1>5, GotoKeeps DEF Steps, Reading
  <2>2. Local(c)
    BY Zenon, <1>1, <1>2, <1>3, <1>5, <2>1 DEF Local, Knows, Applied, Sending, World
  <2> QED
    BY <1>1, <1>2, <2>1, <2>2 DEF Kept, Truthful, Sending
<1> QED
  BY <1>4, <1>5 DEF Verify

LEMMA RefreshKeeps ==
    ASSUME TypeOK, TemplateInv, NEW c \in Clients, Refresh(c)
    PROVE  Kept(c) /\ Truthful(c)
<1> DEFINE r == call[c]
           n == [r EXCEPT !.step = "send", !.type = "modified", !.cur = tmpl]
<1>1. /\ r.step = "refresh" /\ CallOK(r) /\ Handling /\ r.files # "bad"
      /\ r.alone => /\ tmpl # None /\ tmpl.meta = r.meta
                    /\ r.files # None => versions[tmpl.active].files = r.files
  BY Zenon, TypedCalls DEF Refresh, TemplateInv, Handling, Knows, Sending, Progress, Applied
<1>2. UNCHANGED <<queueVars, tmpl, versions, clock, settled, requests, faults>>
  BY DEF Refresh
<1>3. World
  BY <1>1, <1>2, QuietWorld
<1>4. CASE Reject(c)
  BY <1>1, <1>2, <1>3, <1>4, RejectKeeps, RejectTruthful
<1>5. CASE tmpl # None /\ Proceed(c, n)
  <2>1. /\ CallOK(n) /\ n.alone = r.alone /\ n.cur = tmpl /\ n.type = "modified"
        /\ n.step = "send" /\ n.files = r.files /\ n.meta = r.meta
    BY ZenonT(40), <1>1, <1>5 DEF CallOK, Calls, Steps, Reading, Sending, TypeOK, Opt
  <2> HIDE DEF n
  <2>2. TypeOK' /\ Frame(c) /\ call'[c] = n
    BY <1>1, <1>3, <1>5, <2>1, MoveKeeps
  <2>3. Local(c)
    BY Zenon, <1>1, <1>2, <1>3, <1>5, <2>1, <2>2 DEF Local, Knows, Applied, Sending, World
  <2>4. Truthful(c)
    BY Zenon, <1>1, <1>2, <1>5, <2>1, <2>2 DEF Truthful, Latest, Event
  <2> QED
    BY <2>2, <2>3, <2>4 DEF Kept
<1> QED
  BY <1>4, <1>5 DEF Refresh

-----------------------------------------------------------------------------
(* Delete, and calls that fail.                                              *)

LEMMA ReadForDeleteKeeps ==
    ASSUME TypeOK, TemplateInv, NEW c \in Clients, ReadForDelete(c)
    PROVE  Kept(c) /\ Truthful(c)
<1> DEFINE r == call[c]
           n == [r EXCEPT !.step = "delete", !.cur = tmpl]
<1>1. r.step = "readForDelete" /\ CallOK(r) /\ Handling /\ r.files # "bad"
  BY TypedCalls DEF ReadForDelete, TemplateInv, Handling, Knows, Sending
<1>2. UNCHANGED <<queueVars, tmpl, versions, clock, settled, requests, faults>>
  BY DEF ReadForDelete
<1>3. World
  BY <1>1, <1>2, QuietWorld
<1>4. CASE Reject(c)
  BY Zenon, <1>1, <1>2, <1>3, <1>4, RejectKeeps, RejectTruthful
<1>5. CASE tmpl # None /\ Proceed(c, n)
  <2>1. CallOK(n) /\ n.alone = r.alone /\ n.step = "delete" /\ n.files = r.files
    BY Zenon, <1>1, <1>5 DEF CallOK, Calls, Steps, Reading, Sending, TypeOK, Opt
  <2> HIDE DEF n
  <2>2. TypeOK' /\ Frame(c) /\ call'[c] = n
    BY Zenon, <1>1, <1>3, <1>5, <2>1, MoveKeeps
  <2>3. Local(c)
    BY Zenon, <1>1, <1>2, <1>3, <2>1, <2>2 DEF Local, Knows, Applied, Sending, World
  <2> QED
    BY Zenon, <1>1, <1>2, <2>1, <2>2, <2>3 DEF Kept, Truthful, Sending
<1> QED
  BY <1>4, <1>5 DEF ReadForDelete

LEMMA DeleteTemplateKeeps ==
    ASSUME TypeOK, TemplateInv, NEW c \in Clients, DeleteTemplate(c)
    PROVE  Kept(c) /\ Truthful(c)
<1> DEFINE r == call[c]
           n == [r EXCEPT !.step = "send", !.type = "deleted"]
<1>1. r.step = "delete" /\ CallOK(r) /\ Handling /\ r.files # "bad" /\ r.cur \in Templates
  BY TypedCalls DEF DeleteTemplate, TemplateInv, Handling, Knows, Sending, CallOK, Reading
<1>2. UNCHANGED <<queueVars, versions, clock, requests>> /\ versions' = versions
  BY DEF DeleteTemplate
<1>3. CASE tmpl' = None /\ settled' = FALSE /\ Answered(c, n)
  <2>1. Fault \/ UNCHANGED faults
    BY <1>3 DEF Answered
  <2>2. World
    BY Zenon, <1>2, <1>3, <2>1, FaultType DEF World, TypeOK, QueueTypeOK, queueVars, Opt
  <2>3. Truthful(c)
    BY <1>3 DEF Truthful
  <2>4. CASE Reject(c)
    BY <1>1, <2>2, <2>3, <2>4, RejectKeeps
  <2>5. CASE Proceed(c, n)
    <3>1. /\ CallOK(n) /\ n.alone = r.alone /\ n.step = "send" /\ n.type = "deleted"
          /\ n.files = r.files
      BY Zenon, <1>1 DEF CallOK, Calls, Steps, Reading, Sending
    <3> HIDE DEF n
    <3>2. TypeOK' /\ Frame(c) /\ call'[c] = n
      BY <1>1, <2>2, <2>5, <3>1, MoveKeeps
    <3>3. Local(c)
      BY Zenon, <1>1, <1>3, <2>2, <3>1, <3>2 DEF Local, Knows, Applied, Sending, World
    <3> QED
      BY <2>3, <3>2, <3>3 DEF Kept
  <2> QED
    BY <1>3, <2>4, <2>5 DEF Answered
<1>4. CASE Reject(c) /\ UNCHANGED <<tmpl, settled, faults>>
  <2>1. World
    BY <1>1, <1>2, <1>4, QuietWorld
  <2> QED
    BY <1>1, <1>2, <1>4, <2>1, RejectKeeps, RejectTruthful
<1> QED
  BY Zenon, <1>3, <1>4 DEF DeleteTemplate

LEMMA CallFailsKeeps ==
    ASSUME TypeOK, TemplateInv, NEW c \in Clients, CallFails(c)
    PROVE  Kept(c) /\ Truthful(c)
<1>1. call[c].step # "idle" /\ call[c].step # "resend" /\ Handling
  BY DEF CallFails, TemplateInv, Sending
<1>2. World
  BY <1>1, QuietWorld DEF CallFails
<1> QED
  BY <1>1, <1>2, RejectKeeps, RejectTruthful DEF CallFails

-----------------------------------------------------------------------------
(* enqueueWatchEvent.                                                        *)

LEMMA SendType ==
    ASSUME NEW e \in Events, QueueTypeOK(Events), ~Full, Send(e)
    PROVE  /\ QueueTypeOK(Events)'
           /\ ~NoneQueued'
           /\ \A i : Newest(i)' => watchEvents'[i] = e
<1>1. /\ watchEvents \in Seq(Events \cup {Foreign}) /\ watchEvents' = Append(watchEvents, e)
      /\ e \in Events \cup {Foreign} /\ e # Foreign
  BY ForeignAssumption DEF QueueTypeOK, Send
<1>2. /\ watchEvents' \in Seq(Events \cup {Foreign})
      /\ Len(watchEvents') = Len(watchEvents) + 1
  BY <1>1, AppendKeeps
<1>3. ~NoneIn(watchEvents') /\ \A i : NewestIn(watchEvents', i) => watchEvents'[i] = e
  BY Zenon, <1>1, NewestAppended
<1>4. Len(watchEvents) \in Nat
  BY <1>1, LenProperties
<1>5. Len(watchEvents') <= QueueLen
  BY <1>2, <1>4, QueueLenAssumption DEF QueueTypeOK, Full
<1>6. QueueTypeOK(Events)'
  BY Zenon, <1>2, <1>5 DEF QueueTypeOK, Send
<1> QED
  BY Zenon, <1>3, <1>6 DEF Newest, NoneQueued, NewestIn, NoneIn

\* The oldest event is taken out.
LEMMA DropType ==
    ASSUME QueueTypeOK(Events), watchEvents' = WithoutOldest
    PROVE  /\ watchEvents' \in Seq(Events \cup {Foreign})
           /\ Len(watchEvents') <= QueueLen
           /\ NoneQueued' => NoneQueued \/ Newest(1)
           /\ \A i : Newest(i)' => \E j : Newest(j) /\ watchEvents'[i] = watchEvents[j]
<1>1. watchEvents \in Seq(Events \cup {Foreign}) /\ Len(watchEvents) <= QueueLen
  BY DEF QueueTypeOK
<1>2. CASE watchEvents = <<>>
  BY <1>1, <1>2 DEF WithoutOldest, NoneQueued, Newest
<1>3. CASE watchEvents # <<>>
  <2>1. watchEvents' = Tail(watchEvents)
    BY <1>3 DEF WithoutOldest
  <2>2. /\ watchEvents' \in Seq(Events \cup {Foreign})
        /\ Len(watchEvents') = Len(watchEvents) - 1
        /\ Len(watchEvents) \in Nat \ {0}
    BY <1>1, <1>3, <2>1, TailKeeps
  <2>3. Len(watchEvents') <= QueueLen
    BY <1>1, <2>2, QueueLenAssumption
  <2>4. /\ NoneIn(watchEvents') => NoneIn(watchEvents) \/ NewestIn(watchEvents, 1)
        /\ \A i : NewestIn(watchEvents', i) =>
                     NewestIn(watchEvents, i + 1) /\ watchEvents'[i] = watchEvents[i + 1]
    BY Zenon, <1>1, <1>3, <2>1, OldestDropped
  <2> QED
    BY Zenon, <2>2, <2>3, <2>4 DEF Newest, NoneQueued, NewestIn, NoneIn
<1> QED
  BY <1>2, <1>3

\* What Delivered says of the queue survives the loss of its oldest event, unless that
\* was the newest.
LEMMA DropDelivers ==
    ASSUME TypeOK, Delivered, settled, ~ousted, watchEvents' = WithoutOldest, UNCHANGED tmpl
    PROVE  \A i \in DOMAIN watchEvents' : Newest(i)' => Latest(watchEvents[i])'
<1>1. /\ \A i : Newest(i)' => \E j : Newest(j) /\ watchEvents'[i] = watchEvents[j]
      /\ \A i \in DOMAIN watchEvents : Newest(i) => Latest(watchEvents[i])
  BY Zenon, DropType DEF TypeOK, Delivered
<1>2. \A j : Newest(j) => j \in DOMAIN watchEvents
  BY DEF Newest
<1>3. \A e : Latest(e)' <=> Latest(e)
  BY Zenon DEF Latest
<1> QED
  BY Zenon, <1>1, <1>2, <1>3

\* The event of a request that is being sent has its type.
LEMMA EventType ==
    ASSUME TypeOK, NEW c \in Clients, call[c].step \in Sending
    PROVE  Event(c) \in Events
BY TypedCalls DEF CallOK, Calls, Event, Events, Reading

\* A request that succeeds has told the truth.
LEMMA SentTruth ==
    ASSUME TypeOK, TemplateInv, NEW c \in Clients, call[c].step \in Sending,
           settled \/ call[c].alone
    PROVE  /\ Latest(Event(c))
           /\ \A d \in Clients : d # c /\ call[d].step \in Sending => Latest(Event(d))
<1>1. CASE settled
  BY <1>1 DEF TemplateInv, Delivered
<1>2. CASE call[c].alone
  <2>1. Applied(call[c]) /\ call[c].cur \in Templates
    BY <1>2, TypedCalls DEF TemplateInv, Progress, CallOK, Reading
  <2>2. Latest(Event(c))
    BY Zenon, <2>1, NoneAssumption DEF Applied, Latest, Event
  <2>3. \A d \in Clients : d # c => call[d].step = "idle"
    BY <1>2 DEF TemplateInv, Alone, Sending
  <2> QED
    BY <2>2, <2>3 DEF Sending
<1> QED
  BY <1>1, <1>2

\* A request sends its event and ends.
LEMMA SentKeeps ==
    ASSUME TypeOK, TemplateInv, NEW c \in Clients, call[c].step \in Sending, ~Full,
           Send(Event(c)), Succeed(c), UNCHANGED <<tmpl, versions, clock, requests, faults>>
    PROVE  TypeOK' /\ TemplateInv'
<1>1. Event(c) \in Events /\ QueueTypeOK(Events) /\ call[c].step # "idle" /\ Handling
  BY EventType DEF TypeOK, TemplateInv, Sending
<1>2. /\ QueueTypeOK(Events)'
      /\ ~NoneQueued'
      /\ \A i : Newest(i)' => watchEvents'[i] = Event(c)
  BY Zenon, <1>1, SendType
<1>3. World
  BY Zenon, <1>1, <1>2, TypedCalls DEF World, TypeOK, Handling, Send, Succeed, CallOK, Calls
<1>4. Kept(c) /\ call'[c] = NoCall
  BY Zenon, <1>1, <1>3, RejectKeeps DEF Succeed, Reject
<1>5. Delivered'
  <2> SUFFICES ASSUME settled'
               PROVE  Delivered'
    BY Zenon DEF Delivered
  <2>1. /\ Latest(Event(c))
        /\ \A d \in Clients : d # c /\ call[d].step \in Sending => Latest(Event(d))
    BY ZenonT(40), SentTruth DEF Succeed
  <2>2. tmpl' = tmpl
    OBVIOUS
  <2>3. \A i \in DOMAIN watchEvents' : Newest(i)' => Latest(watchEvents[i])'
    BY Zenon, <1>2, <2>1, <2>2 DEF Latest
  <2>4. \A d \in Clients : call'[d].step \in Sending => Latest(Event(d))'
    BY Zenon, <1>4, <2>1, <2>2, NoCallKnows DEF Kept, Frame, Latest, Event, Sending
  <2> QED
    BY Zenon, <1>2, <2>3, <2>4 DEF Delivered
<1> QED
  BY Zenon, <1>2, <1>4, <1>5, AloneKept, HandlingKept, ProgressKept, DrainingKept DEF TemplateInv, Kept

LEMMA SendEventKeeps ==
    ASSUME TypeOK, TemplateInv, NEW c \in Clients, SendEvent(c)
    PROVE  TypeOK' /\ TemplateInv'
<1> DEFINE r == call[c]
<1>1. /\ r.step = "send" /\ CallOK(r) /\ Handling /\ r.cur \in Templates /\ r.files # "bad"
      /\ r.alone => Applied(r)
  BY Zenon, TypedCalls DEF SendEvent, TemplateInv, Handling, Knows, Progress, CallOK, Reading, Sending
<1>2. CASE Goto(c, "full") /\ UNCHANGED <<queueVars, settled>>
  <2>1. World /\ UNCHANGED <<queueVars, tmpl, versions, settled>>
    BY Zenon, <1>1, <1>2, QuietWorld DEF SendEvent
  <2>2. /\ TypeOK' /\ Frame(c) /\ call'[c].step = "full" /\ call'[c].meta = r.meta
        /\ call'[c].files = r.files /\ call'[c].alone = r.alone /\ call'[c].cur = r.cur
        /\ call'[c].type = r.type
    BY Zenon, <1>1, <1>2, <2>1, GotoKeeps DEF Steps, Reading, Sending
  <2>3. Local(c)
    BY Zenon, <1>1, <2>1, <2>2 DEF Local, Knows, Applied, Sending, World
  <2>4. Truthful(c)
    BY ZenonT(40), <1>1, <2>1, <2>2 DEF Truthful, TemplateInv, Delivered, Latest, Event, Sending
  <2> QED
    BY Zenon, <2>2, <2>3, <2>4, InvariantKept DEF Kept
<1>3. CASE ~Full /\ Send(Event(c)) /\ Succeed(c)
  BY ZenonT(40), <1>1, <1>3, SentKeeps DEF SendEvent, Sending
<1> QED
  BY Zenon, <1>2, <1>3 DEF SendEvent

LEMMA MakeRoomKeeps ==
    ASSUME TypeOK, TemplateInv, NEW c \in Clients, MakeRoom(c)
    PROVE  TypeOK' /\ TemplateInv'
<1> DEFINE r == call[c]
<1>1. /\ r.step = "full" /\ CallOK(r) /\ Handling /\ r.cur \in Templates /\ r.files # "bad"
      /\ r.alone => Applied(r)
  BY Zenon, TypedCalls DEF MakeRoom, TemplateInv, Handling, Knows, Progress, CallOK, Reading, Sending
<1>2. /\ QueueTypeOK(Events)'
      /\ watchEvents' = WithoutOldest /\ UNCHANGED <<ousted, tmpl>>
  BY Zenon, DropType DEF TypeOK, MakeRoom, DropOldest, QueueTypeOK
<1>3. World /\ UNCHANGED <<tmpl, versions, settled, broadcast>>
  BY Zenon, <1>1, <1>2 DEF World, TypeOK, Handling, MakeRoom, DropOldest
<1>4. /\ TypeOK' /\ Frame(c) /\ call'[c].step = "resend" /\ call'[c].meta = r.meta
      /\ call'[c].files = r.files /\ call'[c].alone = r.alone /\ call'[c].cur = r.cur
      /\ call'[c].type = r.type
  BY Zenon, <1>1, <1>3, GotoKeeps DEF Steps, Reading, Sending, MakeRoom
<1>5. Local(c)
  BY Zenon, <1>1, <1>2, <1>3, <1>4 DEF Local, Knows, Applied, Sending, World
<1>6. Delivered'
  <2> SUFFICES ASSUME settled'
               PROVE  Delivered'
    BY Zenon DEF Delivered
  <2>0. settled
    BY <1>3
  <2>1. \A d \in Clients : call'[d].step \in Sending => Latest(Event(d))'
    <3>1. \A d \in Clients : call[d].step \in Sending => Latest(Event(d))
      BY <2>0 DEF TemplateInv, Delivered
    <3>2. \A d \in Clients : call'[d].step \in Sending => call[d].step \in Sending
      BY Zenon, <1>1, <1>4 DEF Frame, Sending
    <3>3. \A d \in Clients : call'[d].type = call[d].type /\ call'[d].cur = call[d].cur
      BY Zenon, <1>4 DEF Frame
    <3> QED
      BY Zenon, <1>3, <3>1, <3>2, <3>3 DEF Latest, Event
  <2>2. ~ousted => \A i \in DOMAIN watchEvents' : Newest(i)' => Latest(watchEvents[i])'
    BY Zenon, <1>2, <2>0, DropDelivers DEF TemplateInv
  <2> QED
    BY Zenon, <1>2, <1>4, <2>1, <2>2 DEF Delivered
<1> QED
  BY ZenonT(40), <1>2, <1>4, <1>5, <1>6, AloneKept, HandlingKept, ProgressKept, DrainingKept DEF TemplateInv

LEMMA ResendEventKeeps ==
    ASSUME TypeOK, TemplateInv, NEW c \in Clients, ResendEvent(c)
    PROVE  TypeOK' /\ TemplateInv'
<1> DEFINE r == call[c]
<1>1. r.step = "resend" /\ CallOK(r) /\ Handling
  BY TypedCalls DEF ResendEvent, TemplateInv
<1>2. CASE GiveUp
  <2>1. /\ QueueTypeOK(Events)' /\ ousted' = TRUE /\ UNCHANGED <<lifecycle, tmpl>>
        /\ Reject(c)
    BY <1>2 DEF TypeOK, QueueTypeOK, GiveUp, ResendEvent, Succeed, Reject
  <2>2. World
    BY Zenon, <1>1, <2>1, TypedCalls DEF World, TypeOK, Handling, ResendEvent, Succeed, CallOK, Calls
  <2>3. Kept(c) /\ call'[c] = NoCall
    BY <1>1, <2>1, <2>2, RejectKeeps
  <2>4. Delivered'
    <3> SUFFICES ASSUME settled'
                 PROVE  \A d \in Clients : call'[d].step \in Sending => Latest(Event(d))'
      BY Zenon, <2>1 DEF Delivered
    <3>1. \A d \in Clients : d # c /\ call[d].step \in Sending => Latest(Event(d))
      BY ZenonT(40), <1>1, SentTruth DEF ResendEvent, Succeed, Sending
    <3> QED
      BY Zenon, <2>1, <2>3, <3>1, NoCallKnows DEF Kept, Frame, Latest, Event, Sending
  <2> QED
    BY Zenon, <2>1, <2>3, <2>4, AloneKept, HandlingKept, ProgressKept, DrainingKept DEF TemplateInv, Kept
<1>3. CASE ~Full /\ Send(Event(c))
  BY Zenon, <1>1, <1>3, SentKeeps DEF ResendEvent, Sending
<1> QED
  BY <1>2, <1>3 DEF ResendEvent

\* Every step of a handler keeps the invariant.
LEMMA HandlerKeeps ==
    ASSUME TypeOK, TemplateInv, NEW c \in Clients, Handler(c)
    PROVE  TypeOK' /\ TemplateInv'
BY Zenon, CreateVersionKeeps, CreateTemplateKeeps, ReadForUpdateKeeps, UpdateMetaKeeps, UpdateFilesKeeps,
   WaitForBuildKeeps, PromoteKeeps, VerifyKeeps, RefreshKeeps, ReadForDeleteKeeps, DeleteTemplateKeeps,
   CallFailsKeeps, SendEventKeeps, MakeRoomKeeps, ResendEventKeeps, InvariantKept DEF Handler

-----------------------------------------------------------------------------
(* Everything else.                                                          *)

\* A request begins; it is alone only if no other one is in flight.
LEMMA BeginKeeps ==
    ASSUME TypeOK, TemplateInv, NEW c \in Clients, NEW first,
           first \in Calls, first.step \in {"createVersion", "readForUpdate", "readForDelete"},
           first.step # "readForDelete" => first.meta \in Metas,
           first.step = "readForDelete" => first.files # "bad",
           Begin(c, first)
    PROVE  TypeOK' /\ TemplateInv'
<1> DEFINE n == [first EXCEPT !.alone = (InFlight = {})]
<1>1. n \in Calls /\ n.step = first.step /\ n.meta = first.meta /\ n.files = first.files
      /\ (n.alone <=> InFlight = {})
  BY Zenon DEF Calls
<1>2. /\ n.step \notin Reading /\ n.step \notin Sending
      /\ n.step \notin {"idle", "createTemplate"}
  BY <1>1 DEF Reading, Sending
<1> HIDE DEF n
<1>3. call'[c] = n
  BY DEF Begin, n
<1>4. ASSUME NEW d \in Clients, d # c
      PROVE  /\ call'[d] \in Calls
             /\ call'[d].step = call[d].step /\ call'[d].meta = call[d].meta
             /\ call'[d].files = call[d].files /\ call'[d].cur = call[d].cur
             /\ call'[d].version = call[d].version /\ call'[d].type = call[d].type
             /\ call[d].step # "idle" => ~call'[d].alone
  BY Zenon, <1>4, TypedCalls DEF Begin, InFlight, CallOK, Calls
<1>5. UNCHANGED <<watchEvents, broadcast, lifecycle, other, ousted, tmpl, versions, clock, settled, faults>>
  BY DEF Begin, queueVars
<1>6. TypeOK'
  <2>1. call' \in [Clients -> Calls]
    <3>1. \A d \in Clients : call'[d] \in Calls
      BY Zenon, <1>1, <1>3, <1>4
    <3>2. call' = [d \in Clients |-> call'[d]]
      BY DEF Begin
    <3> QED
      BY <3>1, <3>2
  <2>2. \A d \in Clients : call'[d].step \in Reading => call'[d].cur \in Templates
    BY Zenon, <1>2, <1>3, <1>4, TypedCalls DEF CallOK
  <2>3. requests' \in 0 .. MaxRequests
    BY ConstantsAssumption DEF TypeOK, Begin
  <2> QED
    BY Zenon, <1>5, <2>1, <2>2, <2>3 DEF TypeOK, QueueTypeOK
<1>7. Handling'
  <2>1. Knows(call[c])'
    BY Zenon, <1>1, <1>2, <1>3 DEF Knows, Reading
  <2>2. ASSUME NEW d \in Clients, d # c
        PROVE  Knows(call[d])'
    <3>1. Knows(call[d])
      BY Zenon DEF TemplateInv, Handling
    <3> QED
      BY Zenon, <1>4, <1>5, <2>2, <3>1 DEF Knows
  <2> QED
    BY Zenon, <1>5, <2>1, <2>2 DEF TemplateInv, Handling
<1>8. Alone'
  BY ZenonT(40), <1>1, <1>3, <1>4 DEF Alone, InFlight
<1>9. Progress'
  BY Zenon, <1>2, <1>3, <1>4 DEF Progress, Applied, Reading, Sending
<1>10. Delivered'
  <2>1. \A d \in Clients : call'[d].step \in Sending => call[d].step \in Sending /\ d # c
    BY Zenon, <1>2, <1>3, <1>4
  <2>2. \A d \in Clients : call[d].step = "resend" => call'[d].step = "resend"
    BY <1>4 DEF Begin
  <2> SUFFICES ASSUME settled
               PROVE  Delivered'
    BY Zenon, <1>5 DEF Delivered
  <2>3. Delivered
    BY DEF TemplateInv
  <2>4. \A d \in Clients : call'[d].step \in Sending => Latest(Event(d))'
    <3> SUFFICES ASSUME NEW d \in Clients, call'[d].step \in Sending
                 PROVE  Latest(Event(d))'
      OBVIOUS
    <3>1. Event(d)' = Event(d)
      BY Zenon, <1>4, <2>1 DEF Event
    <3>2. Latest(Event(d))
      BY Zenon, <2>1, <2>3 DEF Delivered
    <3> QED
      BY <1>5, <3>1, <3>2 DEF Latest
  <2>5. \A e : Latest(e)' <=> Latest(e)
    BY Zenon, <1>5 DEF Latest
  <2> QED
    BY Zenon, <1>5, <2>2, <2>3, <2>4, <2>5, QueueKept DEF Delivered
<1>11. Draining'
  BY <1>2, <1>3, <1>4, <1>5 DEF TemplateInv, Draining, Begin
<1> QED
  BY <1>6, <1>7, <1>8, <1>9, <1>10, <1>11 DEF TemplateInv

LEMMA BeginsKeeps ==
    ASSUME TypeOK, TemplateInv, NEW c \in Clients, Begins(c)
    PROVE  TypeOK' /\ TemplateInv'
<1>1. NoCall \in Calls /\ NoCall.files # "bad"
  BY Zenon, NoCallOK, ConstantsAssumption DEF CallOK, NoCall
<1>2. CASE BeginCreate(c)
  <2>1. PICK m \in Metas, f \in Opt(FileSets \cup {"bad"}) :
           Begin(c, [NoCall EXCEPT !.step = "createVersion", !.meta = m, !.files = f])
    BY Zenon, <1>2 DEF BeginCreate
  <2> DEFINE first == [NoCall EXCEPT !.step = "createVersion", !.meta = m, !.files = f]
  <2>2. first \in Calls /\ first.step = "createVersion" /\ first.meta \in Metas
    BY ZenonT(40), <1>1 DEF Calls, Opt, Steps
  <2> HIDE DEF first
  <2> QED
    BY Zenon, <2>1, <2>2, BeginKeeps DEF first
<1>3. CASE BeginUpdate(c)
  <2>1. PICK m \in Metas, f \in Opt(FileSets \cup {"bad"}),
            rv \in {None, IF tmpl = None THEN 0 ELSE tmpl.stamp} :
           Begin(c, [NoCall EXCEPT !.step = "readForUpdate", !.meta = m, !.files = f, !.rv = rv])
    BY Zenon, <1>3 DEF BeginUpdate
  <2> DEFINE first == [NoCall EXCEPT !.step = "readForUpdate", !.meta = m, !.files = f, !.rv = rv]
  <2>2. rv \in Opt(Nat)
    BY <2>1 DEF TypeOK, Templates, Opt
  <2>3. first \in Calls /\ first.step = "readForUpdate" /\ first.meta \in Metas
    BY Zenon, <1>1, <2>2 DEF Calls, Opt, Steps
  <2> HIDE DEF first
  <2> QED
    BY Zenon, <2>1, <2>3, BeginKeeps DEF first
<1>4. CASE BeginDelete(c)
  <2> DEFINE first == [NoCall EXCEPT !.step = "readForDelete"]
  <2>1. first \in Calls /\ first.step = "readForDelete" /\ first.files # "bad"
    BY <1>1 DEF Calls, Opt, Steps
  <2> HIDE DEF first
  <2> QED
    BY Zenon, <1>4, <2>1, BeginKeeps DEF first, BeginDelete
<1> QED
  BY <1>2, <1>3, <1>4 DEF Begins

LEMMA BuildEndsKeeps ==
    ASSUME TypeOK, TemplateInv, NEW v \in DOMAIN versions, BuildEnds(v)
    PROVE  TypeOK' /\ TemplateInv'
<1>1. PICK b \in {"succeeded", "failed"} : versions' = [versions EXCEPT ![v].build = b]
  BY ZenonT(40) DEF BuildEnds
<1>2. /\ UNCHANGED <<watchEvents, broadcast, lifecycle, other, ousted, tmpl, clock, call, settled, requests,
                     faults>>
      /\ versions[v].build = "running"
  BY DEF BuildEnds, queueVars
<1>3. /\ versions \in Seq(Versions)
      /\ versions \in [1 .. Len(versions) -> Versions] /\ Len(versions) \in Nat
      /\ DOMAIN versions = 1 .. Len(versions)
  BY LenProperties DEF TypeOK
<1>4. /\ versions' \in Seq(Versions)
      /\ DOMAIN versions' = DOMAIN versions
      /\ \A i \in DOMAIN versions : versions'[i].files = versions[i].files
      /\ \A i \in DOMAIN versions : i # v => versions'[i] = versions[i]
  <2> DEFINE w == [versions[v] EXCEPT !.build = b]
  <2>1. w \in Versions /\ w.files = versions[v].files
    BY <1>3 DEF Versions, Builds
  <2>2. versions' = [versions EXCEPT ![v] = w]
    BY <1>1
  <2> HIDE DEF w
  <2>3. versions' \in [1 .. Len(versions) -> Versions]
    BY <1>3, <2>1, <2>2
  <2>4. versions' \in Seq(Versions)
    BY <1>3, <2>3, SeqDef
  <2> QED
    BY <1>3, <2>1, <2>2, <2>4
<1>5. TypeOK'
  BY Zenon, <1>2, <1>4 DEF TypeOK, QueueTypeOK
<1>6. Handling'
  <2>1. \A c \in Clients : Knows(call[c])'
    <3> SUFFICES ASSUME NEW c \in Clients
                 PROVE  Knows(call[c])'
      OBVIOUS
    <3>1. Knows(call[c])
      BY DEF TemplateInv, Handling
    <3>2. call[c].step = "promote" => call[c].version \in DOMAIN versions /\ call[c].version # v
      BY <1>2, <3>1 DEF Knows
    <3> QED
      BY Zenon, <1>2, <1>4, <3>1, <3>2 DEF Knows
  <2> QED
    BY Zenon, <1>2, <1>4, <2>1 DEF TemplateInv, Handling
<1>7. Progress'
  <2> SUFFICES ASSUME NEW c \in Clients, call[c].alone
               PROVE  Applied(call[c])'
    BY <1>2 DEF Progress
  <2>1. Applied(call[c]) /\ Knows(call[c])
    BY DEF TemplateInv, Handling, Progress
  <2>2. tmpl # None => versions'[tmpl.active].files = versions[tmpl.active].files
    BY <1>4 DEF TemplateInv, Handling
  <2>3. call[c].step \in {"createTemplate", "wait", "promote", "verify"} =>
           versions'[call[c].version].files = versions[call[c].version].files
    BY Zenon, <1>4, <2>1 DEF Knows
  <2>4. call[c].step \in Sending => call[c].cur # None
    BY TypedCalls, NoneAssumption DEF CallOK, Reading
  <2> QED
    BY ZenonT(40), <1>2, <2>1, <2>2, <2>3, <2>4 DEF Applied
<1>8. Alone' /\ Delivered' /\ Draining'
  BY Zenon, <1>2, QueueKept DEF TemplateInv, Alone, Delivered, Draining, Latest, Event, InFlight
<1> QED
  BY <1>5, <1>6, <1>7, <1>8 DEF TemplateInv

\* The queue moves, and what is broadcast, but nothing else.
LEMMA QueueMovesKeeps ==
    ASSUME TypeOK, TemplateInv, QueueTypeOK(Events)', lifecycle' = lifecycle,
           lifecycle = "open" \/ (UNCHANGED other /\ (watchEvents = <<>> => watchEvents' = <<>>)),
           UNCHANGED <<tmpl, versions, clock, call, settled, faults>>, requests' \in 0 .. MaxRequests,
           settled /\ ~ousted' =>
               /\ \A i \in DOMAIN watchEvents' : Newest(i)' => Latest(watchEvents[i])'
               /\ NoneQueued' => \/ \E c \in Clients : call[c].step = "resend"
                                 \/ broadcast' # <<>> /\ Latest(broadcast[1])'
    PROVE  TypeOK' /\ TemplateInv'
<1>1. TypeOK'
  BY DEF TypeOK
<1>2. Handling' /\ Alone' /\ Progress'
  BY ZenonT(40) DEF TemplateInv, Handling, Alone, Progress, Knows, Applied
<1>3. Delivered'
  <2> SUFFICES ASSUME settled
               PROVE  Delivered'
    BY Zenon DEF Delivered
  <2>1. \A c \in Clients : call'[c].step \in Sending => Latest(Event(c))'
    BY Zenon DEF TemplateInv, Delivered, Latest, Event
  <2> QED
    BY Zenon, <2>1 DEF Delivered
<1>4. Draining'
  BY Zenon DEF TemplateInv, Draining, InFlight
<1> QED
  BY <1>1, <1>2, <1>3, <1>4 DEF TemplateInv

LEMMA DispatchKeeps ==
    ASSUME TypeOK, TemplateInv, DispatchEvent
    PROVE  TypeOK' /\ TemplateInv'
<1>1. /\ UNCHANGED <<lifecycle, other, ousted, tmpl, versions, clock, call, settled, requests, faults>>
      /\ watchEvents # <<>> /\ watchEvents' = WithoutOldest
      /\ broadcast' = IF Head(watchEvents) = Foreign THEN broadcast ELSE <<Head(watchEvents)>>
  BY DEF DispatchEvent, Dispatch, WithoutOldest
<1>2. /\ QueueTypeOK(Events) /\ watchEvents \in Seq(Events \cup {Foreign})
      /\ Head(watchEvents) \in Events \cup {Foreign} /\ Head(watchEvents) = watchEvents[1]
  BY Zenon, <1>1, TailKeeps DEF TypeOK, QueueTypeOK
<1>3. \/ Head(watchEvents) = Foreign /\ broadcast' = broadcast
      \/ /\ Head(watchEvents) # Foreign /\ Head(watchEvents) \in Events
         /\ broadcast' = <<Head(watchEvents)>>
  BY <1>1, <1>2
<1>4. QueueTypeOK(Events)'
  BY <1>1, <1>2, <1>3, DropType DEF QueueTypeOK
<1>5. ASSUME settled, ~ousted
      PROVE  /\ \A i \in DOMAIN watchEvents' : Newest(i)' => Latest(watchEvents[i])'
             /\ NoneQueued' => \/ \E c \in Clients : call[c].step = "resend"
                               \/ broadcast' # <<>> /\ Latest(broadcast[1])'
  <2>1. \A e : Latest(e)' <=> Latest(e)
    BY Zenon, <1>1 DEF Latest
  <2>2. /\ \A i \in DOMAIN watchEvents : Newest(i) => Latest(watchEvents[i])
        /\ NoneQueued => \/ \E c \in Clients : call[c].step = "resend"
                         \/ broadcast # <<>> /\ Latest(broadcast[1])
    BY Zenon, <1>5 DEF TemplateInv, Delivered
  <2>3. CASE NoneQueued' /\ NoneQueued
    <3>1. Head(watchEvents) = Foreign
      <4>1. 1 \in DOMAIN watchEvents
        BY <1>1, <1>2, EmptySeq, LenProperties
      <4> QED
        BY Zenon, <1>2, <2>3, <4>1 DEF NoneQueued
    <3> QED
      BY Zenon, <1>1, <1>3, <1>5, <2>1, <2>2, <2>3, <3>1, DropDelivers DEF TemplateInv
  <2>4. CASE NoneQueued' /\ Newest(1)
    <3>1. Latest(Head(watchEvents)) /\ Head(watchEvents) # Foreign
      BY Zenon, <1>2, <2>2, <2>4 DEF Newest
    <3>2. broadcast' # <<>> /\ broadcast'[1] = Head(watchEvents)
      BY <1>3, <3>1
    <3> QED
      BY Zenon, <1>1, <1>5, <2>1, <3>1, <3>2, DropDelivers DEF TemplateInv
  <2>5. CASE ~NoneQueued'
    BY Zenon, <1>1, <1>5, <2>5, DropDelivers DEF TemplateInv
  <2> QED
    BY Zenon, <1>1, <1>2, <2>3, <2>4, <2>5, DropType
<1>6. requests' \in 0 .. MaxRequests
  BY <1>1 DEF TypeOK
<1> QED
  BY Zenon, <1>1, <1>4, <1>5, <1>6, QueueMovesKeeps

\* A request about another template: it may take the newest event out, and then
\* ousted says so.
LEMMA OtherRequestKeeps ==
    ASSUME TypeOK, TemplateInv, NEW o \in Others, OtherRequest(o)
    PROVE  TypeOK' /\ TemplateInv'
<1>1. /\ UNCHANGED <<broadcast, lifecycle, tmpl, versions, clock, call, settled, faults>>
      /\ lifecycle = "open" /\ requests' \in 0 .. MaxRequests
  BY ConstantsAssumption
     DEF OtherRequest, OtherSends, OtherMakesRoom, OtherResends, TypeOK, TemplateInv, Draining
<1>2. /\ QueueTypeOK(Events) /\ watchEvents \in Seq(Events \cup {Foreign})
      /\ Len(watchEvents) \in Nat /\ Len(watchEvents) <= QueueLen
  BY LenProperties DEF TypeOK, QueueTypeOK
<1>3. other' \in [Others -> {"idle", "full", "resend"}]
  BY Zenon, <1>2 DEF OtherRequest, OtherSends, OtherMakesRoom, OtherResends, QueueTypeOK
<1>4. ASSUME watchEvents' \in Seq(Events \cup {Foreign}), Len(watchEvents') <= QueueLen, ousted' \in BOOLEAN,
             settled /\ ~ousted' =>
               /\ \A i \in DOMAIN watchEvents' : Newest(i)' => Latest(watchEvents[i])'
               /\ NoneQueued' => NoneQueued /\ ~ousted
      PROVE  TypeOK' /\ TemplateInv'
  <2>1. QueueTypeOK(Events)'
    BY <1>1, <1>2, <1>3, <1>4 DEF QueueTypeOK
  <2>2. settled /\ NoneQueued /\ ~ousted => \/ \E c \in Clients : call[c].step = "resend"
                                            \/ broadcast' # <<>> /\ Latest(broadcast[1])'
    BY Zenon, <1>1 DEF TemplateInv, Delivered, Latest
  <2> QED
    BY Zenon, <1>1, <1>4, <2>1, <2>2, QueueMovesKeeps
<1>5. settled /\ ~ousted => \A i \in DOMAIN watchEvents : Newest(i) => Latest(watchEvents[i])
  BY Zenon DEF TemplateInv, Delivered
<1>6. \A e : Latest(e)' <=> Latest(e)
  BY Zenon, <1>1 DEF Latest
<1>7. CASE watchEvents' = watchEvents /\ UNCHANGED ousted
  BY Zenon, <1>2, <1>4, <1>5, <1>6, <1>7, QueueKept DEF QueueTypeOK
<1>8. CASE ~Full /\ watchEvents' = Append(watchEvents, Foreign) /\ UNCHANGED ousted
  <2>1. /\ watchEvents' \in Seq(Events \cup {Foreign})
        /\ Len(watchEvents') = Len(watchEvents) + 1
    BY <1>2, <1>8, AppendKeeps
  <2>2. Len(watchEvents') <= QueueLen
    BY <1>2, <1>8, <2>1, QueueLenAssumption DEF Full
  <2>3. /\ NoneIn(watchEvents') => NoneIn(watchEvents)
        /\ \A i : NewestIn(watchEvents', i) => NewestIn(watchEvents, i) /\ watchEvents'[i] = watchEvents[i]
    BY Zenon, <1>2, <1>8, ForeignAppended
  <2>4. settled /\ ~ousted => \A i \in DOMAIN watchEvents' : Newest(i)' => Latest(watchEvents[i])'
    BY Zenon, <1>5, <1>6, <2>3 DEF Newest, NewestIn
  <2>5. NoneQueued' => NoneQueued
    BY Zenon, <2>3 DEF NoneQueued, NoneIn
  <2> QED
    BY Zenon, <1>2, <1>4, <1>8, <2>1, <2>2, <2>4, <2>5 DEF QueueTypeOK
<1>9. CASE watchEvents' = WithoutOldest /\ ousted' = (ousted \/ Newest(1))
  <2>1. /\ watchEvents' \in Seq(Events \cup {Foreign})
        /\ Len(watchEvents') <= QueueLen
        /\ NoneQueued' => NoneQueued \/ Newest(1)
    BY Zenon, <1>2, <1>9, DropType
  <2>2. settled /\ ~ousted => \A i \in DOMAIN watchEvents' : Newest(i)' => Latest(watchEvents[i])'
    BY Zenon, <1>1, <1>9, DropDelivers DEF TemplateInv
  <2>3. ousted' \in BOOLEAN
    BY <1>9
  <2> QED
    BY Zenon, <1>4, <1>9, <2>1, <2>2, <2>3
<1> QED
  BY Zenon, <1>7, <1>8, <1>9 DEF OtherRequest, OtherSends, OtherMakesRoom, OtherResends

LEMMA EndKeeps ==
    ASSUME TypeOK, TemplateInv, Destroy \/ Stop
    PROVE  TypeOK' /\ TemplateInv'
<1>1. /\ UNCHANGED <<watchEvents, broadcast, other, ousted, tmpl, versions, clock, call, settled, requests,
                     faults>>
      /\ lifecycle' \in {"closing", "down"} /\ InFlight = {} /\ \A o \in Others : other[o] = "idle"
      /\ lifecycle' = "down" => watchEvents = <<>>
  BY DEF Destroy, Stop, CloseQueue, Shutdown, TemplateInv, Draining
<1>2. TypeOK'
  BY Zenon, <1>1 DEF TypeOK, QueueTypeOK
<1>3. Draining'
  BY Zenon, <1>1 DEF Draining, InFlight
<1>4. Handling' /\ Alone'
  BY Zenon, <1>1 DEF TemplateInv, Handling, Alone, Knows
<1>5. Progress'
  <2>1. \A r : Applied(r) => Applied(r)'
    <3>1. tmpl' = tmpl /\ versions' = versions
      BY Zenon, <1>1
    <3> QED
      BY <3>1 DEF Applied
  <2> QED
    BY Zenon, <1>1, <2>1 DEF TemplateInv, Progress
<1>6. Delivered'
  BY Zenon, <1>1, QueueKept DEF TemplateInv, Delivered, Latest, Event
<1> QED
  BY <1>2, <1>3, <1>4, <1>5, <1>6 DEF TemplateInv

\* A step that leaves the template, its requests and its queue alone.
LEMMA ElsewhereKeeps ==
    ASSUME TypeOK, TemplateInv, UNCHANGED <<queueVars, tmpl, versions, call, settled>>,
           clock' \in Nat, requests' \in 0 .. MaxRequests, faults' \in 0 .. MaxFaults
    PROVE  TypeOK' /\ TemplateInv'
<1>1. UNCHANGED <<watchEvents, broadcast, lifecycle, other, ousted, tmpl, versions, call, settled>>
  BY DEF queueVars
<1>2. TypeOK'
  BY Zenon, <1>1 DEF TypeOK, QueueTypeOK
<1>3. Draining'
  BY Zenon, <1>1 DEF TemplateInv, Draining, InFlight
<1>4. Handling' /\ Alone'
  BY ZenonT(40), <1>1 DEF TemplateInv, Handling, Alone, Knows
<1>5. Progress'
  <2>1. \A r : Applied(r) => Applied(r)'
    <3>1. tmpl' = tmpl /\ versions' = versions
      BY Zenon, <1>1
    <3> QED
      BY <3>1 DEF Applied
  <2> QED
    BY Zenon, <1>1, <2>1 DEF TemplateInv, Progress
<1>6. Delivered'
  <2>1. \A e : Latest(e) <=> Latest(e)'
    BY Zenon, <1>1 DEF Latest
  <2>2. \A c \in Clients : Event(c)' = Event(c)
    BY Zenon, <1>1 DEF Event
  <2> SUFFICES ASSUME settled'
               PROVE  Delivered'
    BY Zenon DEF Delivered
  <2>0. settled
    BY <1>1
  <2>3. \A c \in Clients : call'[c].step \in Sending => Latest(Event(c))'
    BY Zenon, <1>1, <2>0, <2>1, <2>2 DEF TemplateInv, Delivered
  <2>4. ~ousted =>
          /\ \A i \in DOMAIN watchEvents : Newest(i) => Latest(watchEvents[i])
          /\ NoneQueued => \/ \E c \in Clients : call[c].step = "resend"
                           \/ broadcast # <<>> /\ Latest(broadcast[1])
    BY Zenon, <2>0 DEF TemplateInv, Delivered
  <2>5. ~ousted' =>
          /\ \A i \in DOMAIN watchEvents' : Newest(i)' => Latest(watchEvents[i])'
          /\ NoneQueued' => \/ \E c \in Clients : call'[c].step = "resend"
                            \/ broadcast' # <<>> /\ Latest(broadcast[1])'
    BY Zenon, <1>1, <2>1, <2>4, QueueKept
  <2> QED
    BY Zenon, <2>3, <2>5 DEF Delivered
<1> QED
  BY <1>2, <1>3, <1>4, <1>5, <1>6 DEF TemplateInv

-----------------------------------------------------------------------------
(* The first state, and what the invariant means.                            *)

LEMMA InitHolds ==
    ASSUME Init
    PROVE  TypeOK /\ TemplateInv
<1>1. /\ call = [c \in Clients |-> NoCall] /\ requests = 0 /\ faults = 0
      /\ lifecycle = "open" /\ broadcast = <<>> /\ ousted = FALSE /\ other = [o \in Others |-> "idle"]
  BY DEF Init, InitQueueWith
<1>2. /\ \A c \in Clients : call[c] = NoCall
      /\ NoCall.step = "idle" /\ NoCall.files # "bad" /\ NoCall.step \notin Sending
      /\ NoCall.step \notin Reading
  BY Zenon, <1>1, ConstantsAssumption DEF NoCall, Sending, Reading
<1>3. Existing \in Templates /\ Existing.active = 1
  BY Zenon, ConstantsAssumption DEF Existing, Templates
<1>4. /\ tmpl \in Opt(Templates) /\ versions \in Seq(Versions) /\ clock \in Nat /\ settled \in BOOLEAN
      /\ tmpl # None => tmpl.active \in DOMAIN versions
      /\ watchEvents \in Seq(Events \cup {Foreign}) /\ Len(watchEvents) <= QueueLen
      /\ settled => \E e \in Events : watchEvents = <<e>> /\ Latest(e)
  <2> DEFINE v == [files |-> CHOOSE f \in FileSets : TRUE, build |-> "succeeded"]
             e == [type |-> "added", obj |-> Existing]
  <2>1. v \in Versions
    BY ConstantsAssumption DEF Versions, Builds
  <2>2. e \in Events /\ e.type # "deleted" /\ e.obj = Existing
    BY <1>3 DEF Events
  <2> HIDE DEF v, e
  <2>3. <<v>> \in Seq(Versions) /\ 1 \in DOMAIN <<v>>
    BY <2>1
  <2>4. <<e>> \in Seq(Events \cup {Foreign}) /\ Len(<<e>>) = 1
    BY <2>2
  <2>5. /\ <<>> \in Seq(Versions)
        /\ InitQueueWith(<<>>) => watchEvents \in Seq(Events \cup {Foreign}) /\ Len(watchEvents) <= QueueLen
    <3>1. <<>> \in Seq(Versions) /\ <<>> \in Seq(Events \cup {Foreign})
      OBVIOUS
    <3>2. Len(<<>>) = 0
      BY EmptySeq
    <3>3. 0 <= QueueLen
      BY QueueLenAssumption
    <3> QED
      BY <3>1, <3>2, <3>3, Zenon DEF InitQueueWith
  <2>6. CASE tmpl = None /\ versions = <<>> /\ clock = 0 /\ InitQueueWith(<<>>) /\ settled = FALSE
    BY Zenon, <2>5, <2>6 DEF Opt
  <2>7. CASE tmpl = Existing /\ versions = <<v>> /\ clock = 1 /\ InitQueueWith(<<>>) /\ settled = FALSE
    BY Zenon, <1>3, <2>3, <2>5, <2>7 DEF Opt
  <2>8. CASE tmpl = Existing /\ versions = <<v>> /\ clock = 1 /\ InitQueueWith(<<e>>) /\ settled = TRUE
    <3>1. watchEvents = <<e>> /\ Len(watchEvents) = 1
      BY <2>4, <2>8 DEF InitQueueWith
    <3>2. Latest(e)
      BY <1>3, <2>2, <2>8, NoneAssumption DEF Latest
    <3>3. Len(watchEvents) <= QueueLen
      BY <3>1, QueueLenAssumption
    <3> QED
      BY Zenon, <1>3, <2>2, <2>3, <2>4, <2>8, <3>1, <3>2, <3>3 DEF Opt
  <2> QED
    BY Zenon, <2>6, <2>7, <2>8 DEF Init, v, e
<1>5. TypeOK
  <2>1. broadcast \in Seq(Events) /\ Len(broadcast) <= 1
    BY <1>1
  <2>2. call \in [Clients -> Calls]
    BY <1>1, NoCallOK DEF CallOK
  <2>3. other \in [Others -> {"idle", "full", "resend"}]
    BY Zenon, <1>1
  <2>4. QueueTypeOK(Events)
    BY Zenon, <1>1, <1>4, <2>1, <2>3 DEF QueueTypeOK
  <2>5. requests \in 0 .. MaxRequests /\ faults \in 0 .. MaxFaults
    BY <1>1, ConstantsAssumption
  <2>6. \A c \in Clients : call[c].step \in Reading => call[c].cur \in Templates
    BY Zenon, <1>2
  <2> QED
    BY Zenon, <1>4, <2>2, <2>4, <2>5, <2>6 DEF TypeOK
<1>6. Handling /\ Alone /\ Progress
  BY <1>2, <1>4, IdleKnows DEF Handling, Alone, Progress
<1>7. Delivered
  <2> SUFFICES ASSUME settled
               PROVE  Delivered
    BY DEF Delivered
  <2>1. PICK e \in Events : watchEvents = <<e>> /\ Latest(e)
    BY Zenon, <1>4
  <2>2. DOMAIN watchEvents = {1} /\ watchEvents[1] = e /\ e # Foreign
    BY <2>1, ForeignAssumption
  <2> QED
    BY Zenon, <1>2, <2>1, <2>2 DEF Delivered, NoneQueued
<1>8. Draining
  BY <1>1, <1>2 DEF Draining, InFlight
<1> QED
  BY <1>5, <1>6, <1>7, <1>8 DEF TemplateInv

LEMMA InvMeansApplied ==
    ASSUME TypeOK, TemplateInv
    PROVE  SuccessMeansApplied
BY Zenon DEF TemplateInv, Progress, Applied, SuccessMeansApplied

LEMMA InvMeansUpToDate ==
    ASSUME TypeOK, TemplateInv
    PROVE  WatchersUpToDate
BY Zenon DEF TemplateInv, Delivered, WatchersUpToDate, Sending

\* A handler moves its own request only.
LEMMA HandlerMoves ==
    ASSUME TypeOK, NEW c \in Clients, Handler(c)
    PROVE  \A d \in Clients : d # c => call'[d] = call[d]
<1>1. \E n : Proceed(c, n)
  BY ZenonT(40) DEF Handler, CreateVersion, CreateTemplate, ReadForUpdate, UpdateMeta, UpdateFiles, WaitForBuild,
         WaitTimesOut, Promote, Verify, Refresh, ReadForDelete, DeleteTemplate, SendEvent, MakeRoom,
         ResendEvent, CallFails, Answered, Reject, Goto, Succeed
<1> QED
  BY <1>1 DEF Proceed, TypeOK

\* A handler that ends at one of the steps of an update, without another request beside
\* it, leaves the version active that it found, unless a read failed after the promotion.
LEMMA HandlerFailedUpdate ==
    ASSUME TypeOK, TemplateInv, NEW c \in Clients, Handler(c), NEW d \in Clients,
           call[d].step \in {"meta", "files", "wait", "promote", "verify", "refresh"},
           call[d].alone, call'[d].step = "idle"
    PROVE  \/ tmpl' # None /\ tmpl'.active = call[d].cur.active
           \/ call[d].step \in {"verify", "refresh"} /\ faults' # faults
<1> DEFINE r == call[c]
<1>1. d = c
  BY HandlerMoves
<1>2. /\ CallOK(r) /\ r.cur \in Templates /\ r.cur # None /\ r.alone /\ call'[c].step = "idle"
      /\ Applied(r) /\ Knows(r)
      /\ r.step \in {"meta", "files", "wait", "promote", "verify", "refresh"}
  BY Zenon, <1>1, TypedCalls, NoneAssumption DEF TemplateInv, Progress, Handling, CallOK, Reading
<1>3. \A s \in Steps : Goto(c, s) => s = "idle"
  BY <1>2, TypedCalls DEF Goto, Proceed, TypeOK, CallOK, Calls
<1>4. \A n : Proceed(c, n) => n.step = "idle"
  BY Zenon, <1>2 DEF Proceed, TypeOK
<1>5. r.step \in {"meta", "files", "wait", "promote"} => tmpl # None /\ tmpl.active = r.cur.active
  BY Zenon, <1>2 DEF Applied
<1>6. CASE r.step \in {"meta", "files", "wait", "promote"} /\ UNCHANGED tmpl
  BY Zenon, <1>1, <1>5, <1>6
<1>7. CASE UpdateMeta(c) /\ ~UNCHANGED tmpl
  <2> DEFINE t == [tmpl EXCEPT !.meta = r.meta]
  <2>1. tmpl \in Templates /\ r.meta \in Metas
    BY <1>2, <1>5, <1>7 DEF UpdateMeta, TypeOK, Opt, Knows, Sending
  <2>2. t \in Templates /\ t.active = tmpl.active
    BY <2>1 DEF Templates
  <2> HIDE DEF t
  <2>3. Store(t)
    BY <1>7 DEF UpdateMeta, t
  <2>4. tmpl' # None /\ tmpl'.active = tmpl.active
    BY Zenon, <2>2, <2>3, StoreType
  <2> QED
    BY Zenon, <1>1, <1>5, <1>7, <2>4 DEF UpdateMeta
<1>8. CASE Promote(c)
  <2>1. ~Goto(c, "verify")
    BY <1>3 DEF Steps, Reading
  <2> QED
    BY Zenon, <1>1, <1>5, <1>8, <2>1 DEF Promote
<1>9. CASE Verify(c)
  <2>1. ~Goto(c, "refresh")
    BY <1>3 DEF Steps, Reading
  <2> QED
    BY Zenon, <1>1, <1>2, <1>9, <2>1 DEF Verify, Exists, Applied
<1>10. CASE Refresh(c)
  <2>1. tmpl # None
    BY Zenon, <1>2, <1>10 DEF Refresh, Applied
  <2> DEFINE n == [r EXCEPT !.step = "send", !.type = "modified", !.cur = tmpl]
  <2>2. n.step = "send"
    BY Zenon, <1>2 DEF CallOK, Calls
  <2> HIDE DEF n
  <2>3. Proceed(c, n)
    BY <1>10, <2>1 DEF Refresh, n
  <2> QED
    BY Zenon, <1>4, <2>2, <2>3
<1>11. CASE CallFails(c)
  <2>1. faults' # faults /\ UNCHANGED tmpl
    BY <1>11 DEF CallFails, Fault, TypeOK
  <2> QED
    BY Zenon, <1>1, <1>2, <1>6, <2>1
<1> QED
  BY Zenon, <1>2, <1>6, <1>7, <1>8, <1>9, <1>10, <1>11
     DEF Handler, CreateVersion, CreateTemplate, ReadForUpdate, UpdateMeta, UpdateFiles, WaitForBuild,
         WaitTimesOut, ReadForDelete, DeleteTemplate, SendEvent, MakeRoom, ResendEvent

\* Only Promote replaces the active version.
LEMMA HandlerPromotes ==
    ASSUME TypeOK, TemplateInv, NEW c \in Clients, Handler(c),
           tmpl # None, tmpl' # None, tmpl'.active # tmpl.active
    PROVE  versions[tmpl'.active].build = "succeeded"
<1>1. tmpl \in Templates /\ CallOK(call[c])
  BY TypedCalls DEF TypeOK, Opt
<1>2. CASE UpdateMeta(c)
  <2> DEFINE t == [tmpl EXCEPT !.meta = call[c].meta]
  <2>1. call[c].meta \in Metas
    BY <1>2 DEF UpdateMeta, TemplateInv, Handling, Knows, Sending
  <2>2. t \in Templates /\ t.active = tmpl.active
    BY <1>1, <2>1 DEF Templates
  <2> HIDE DEF t
  <2>3. Store(t)
    BY <1>2 DEF UpdateMeta, t
  <2> QED
    BY Zenon, <2>2, <2>3, StoreType
<1>3. CASE Promote(c)
  <2> DEFINE t == [tmpl EXCEPT !.active = call[c].version]
  <2>1. /\ call[c].version \in Nat
        /\ versions[call[c].version].build = "succeeded"
    BY <1>1, <1>3 DEF Promote, TemplateInv, Handling, Knows, CallOK, Calls
  <2>2. t \in Templates /\ t.active = call[c].version
    BY <1>1, <2>1 DEF Templates
  <2> HIDE DEF t
  <2>3. Store(t)
    BY <1>3 DEF Promote, t
  <2> QED
    BY Zenon, <2>1, <2>2, <2>3, StoreType
<1>4. CASE UNCHANGED tmpl \/ tmpl' = None \/ tmpl = None
  BY <1>4
<1> QED
  BY Zenon, <1>2, <1>3, <1>4
     DEF Handler, CreateVersion, CreateTemplate, ReadForUpdate, UpdateFiles, WaitForBuild,
         WaitTimesOut, Verify, Refresh, ReadForDelete, DeleteTemplate, SendEvent, MakeRoom,
         ResendEvent, CallFails

=============================================================================
