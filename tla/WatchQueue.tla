----------------------------- MODULE WatchQueue -----------------------------
(***************************************************************************)
(* The queue through which a storage of the aggregated API server hands      *)
(* watch events to its broadcaster (enqueueWatchEvent, dispatchWatchEvents   *)
(* and Destroy of internal/aggregated/storage/template.go and workspace.go). *)
(*                                                                         *)
(* Request handlers never block on the queue: one that finds it full takes   *)
(* out the oldest event and tries once more.  Every operation on the channel *)
(* is atomic, the three of them together are not.                           *)
(*                                                                         *)
(* A storage has one queue for all its objects.  The module that uses this   *)
(* one is about one object; the requests about all others are here, as far   *)
(* as they touch the queue.                                                  *)
(***************************************************************************)
EXTENDS Integers, Sequences

CONSTANTS
    QueueLen,        \* bound: watchBroadcasterQueueLen
    Others,          \* requests about other objects, in flight at once
    Foreign          \* an event about another object

ASSUME QueueLenAssumption == QueueLen \in Nat \ {0}

VARIABLES
    watchEvents,     \* the channel
    broadcast,       \* the event about this object that was handed to the broadcaster
                     \* last, <<>> before the first
    lifecycle,       \* "open", "closing" once the channel is closed, "down"
    other,           \* the step of each request about another object
    ousted           \* history: since an event about this object was last put in, a
                     \* request about another one took the newest out, or one was given up

queueVars == <<watchEvents, broadcast, lifecycle, other, ousted>>

QueueTypeOK(Events) ==
    /\ watchEvents \in Seq(Events \cup {Foreign})
    /\ Len(watchEvents) <= QueueLen
    /\ broadcast \in Seq(Events)
    /\ Len(broadcast) <= 1
    /\ lifecycle \in {"open", "closing", "down"}
    /\ other \in [Others -> {"idle", "full", "resend"}]
    /\ ousted \in BOOLEAN

\* The queue of a server that has just started, or with events in it.
InitQueueWith(events) ==
    /\ watchEvents = events
    /\ broadcast = <<>>
    /\ lifecycle = "open"
    /\ other = [o \in Others |-> "idle"]
    /\ ousted = FALSE

Full == Len(watchEvents) = QueueLen

\* What a receive that does not block leaves in the channel.
WithoutOldest == IF watchEvents = <<>> THEN <<>> ELSE Tail(watchEvents)

\* No event about this object is in the queue.
NoneQueued == \A i \in DOMAIN watchEvents : watchEvents[i] = Foreign

\* i is the place of the newest event about this object.
Newest(i) ==
    /\ i \in DOMAIN watchEvents
    /\ watchEvents[i] # Foreign
    /\ \A j \in DOMAIN watchEvents : j > i => watchEvents[j] = Foreign

-----------------------------------------------------------------------------
(* Requests about this object.  The caller goes on to what follows.          *)

\* A send that does not block.
Send(event) ==
    /\ watchEvents' = Append(watchEvents, event)
    /\ ousted' = FALSE
    /\ UNCHANGED <<broadcast, lifecycle, other>>

DropOldest ==
    /\ watchEvents' = WithoutOldest
    /\ UNCHANGED <<broadcast, lifecycle, other, ousted>>

\* The second send finds the queue full again.
GiveUp ==
    /\ ousted' = TRUE
    /\ UNCHANGED <<watchEvents, broadcast, lifecycle, other>>

-----------------------------------------------------------------------------
(* Requests about other objects: the same steps.                             *)

OtherSends(o) ==
    /\ lifecycle = "open"
    /\ other[o] = "idle"
    /\ IF Full
       THEN other' = [other EXCEPT ![o] = "full"] /\ UNCHANGED watchEvents
       ELSE watchEvents' = Append(watchEvents, Foreign) /\ UNCHANGED other
    /\ UNCHANGED <<broadcast, lifecycle, ousted>>

\* Whatever object the oldest event is about, it is lost.
OtherMakesRoom(o) ==
    /\ other[o] = "full"
    /\ other' = [other EXCEPT ![o] = "resend"]
    /\ watchEvents' = WithoutOldest
    /\ ousted' = (ousted \/ Newest(1))
    /\ UNCHANGED <<broadcast, lifecycle>>

OtherResends(o) ==
    /\ other[o] = "resend"
    /\ other' = [other EXCEPT ![o] = "idle"]
    /\ watchEvents' = IF Full THEN watchEvents ELSE Append(watchEvents, Foreign)
    /\ UNCHANGED <<broadcast, lifecycle, ousted>>

-----------------------------------------------------------------------------
(* The dispatcher, and the end of the storage.                               *)

\* dispatchWatchEvents hands on one event.
Dispatch ==
    /\ watchEvents # <<>>
    /\ broadcast' = IF Head(watchEvents) = Foreign THEN broadcast ELSE <<Head(watchEvents)>>
    /\ watchEvents' = Tail(watchEvents)
    /\ UNCHANGED <<lifecycle, other, ousted>>

\* Destroy closes the channel, waits for the dispatcher to finish what is queued,
\* and shuts the broadcaster down.  The server has drained its requests before.
CloseQueue ==
    /\ lifecycle = "open"
    /\ \A o \in Others : other[o] = "idle"
    /\ lifecycle' = "closing"
    /\ UNCHANGED <<watchEvents, broadcast, other, ousted>>

\* Mutation: the broadcaster is shut down without waiting for the dispatcher.
ShutdownAtOnce ==
    /\ lifecycle = "closing"
    /\ lifecycle' = "down"
    /\ watchEvents' = <<>>
    /\ UNCHANGED <<broadcast, other, ousted>>

Shutdown ==
    /\ lifecycle = "closing"
    /\ watchEvents = <<>>
    /\ lifecycle' = "down"
    /\ UNCHANGED <<watchEvents, broadcast, other, ousted>>

=============================================================================
