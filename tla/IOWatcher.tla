------------------------------- MODULE IOWatcher -------------------------------
(***************************************************************************)
(* The IOWatcher of a loop (potato/net/IOWatcher.{h,cpp}) with several      *)
(* IOEvents on it, and the kernel's epoll: handleIOEvent takes a batch of   *)
(* reports and calls one callback for each, and the callbacks change the    *)
(* registrations while the rest of the batch waits.                         *)
(*                                                                         *)
(* An event is constructed, registered once for input (its owners do so     *)
(* once), perhaps for output too, and then removed and destroyed in one go. *)
(***************************************************************************)
EXTENDS Naturals, Sequences, FiniteSets

CONSTANTS Events,      \* the IOEvents
          EtModes,     \* etMode_ may be TRUE or not
          FirstSize,   \* length of events_ at first (16 in the code)
          CloseOthers, \* callbacks may destroy other events than their own
          MaxHappenings \* bound: times input arrives or a peer hangs up

ASSUME WatcherAssumption ==
  /\ IsFiniteSet(Events)
  /\ EtModes \subseteq BOOLEAN
  /\ FirstSize \in Nat \ {0}
  /\ CloseOthers \in BOOLEAN
  /\ MaxHappenings \in Nat

VARIABLES registered,  \* "fresh"; "reading"; "writing": for output too; "gone"
          etMode,      \* etMode_
          size,        \* length of events_
          at,          \* "poll" outside of handleIOEvent's loop, or "dispatch"
          batch,       \* reports of epoll_wait not yet dispatched
          numEvents,   \* how many reports the batch had
          input,       \* kernel: input to read at each event's descriptor
          hup,         \* kernel: the peer has hung up
          room,        \* kernel: room for output
          ready,       \* kernel: the events on epoll's ready list
          happened,    \* history: times input arrived or a peer hung up
          othersClosed,\* history: a callback destroyed an event that comes
                       \* later in this batch
          fault        \* a destroyed event has been dispatched

conditions == <<input, hup, room, happened>>
vars == <<registered, etMode, size, at, batch, numEvents, conditions, ready,
          othersClosed, fault>>

Init ==
  /\ registered = [e \in Events |-> "fresh"]
  /\ etMode \in EtModes
  /\ size = FirstSize
  /\ at = "poll" /\ batch = <<>> /\ numEvents = 0
  /\ input = [e \in Events |-> 0]
  /\ hup = [e \in Events |-> FALSE]
  /\ room = [e \in Events |-> TRUE]
  /\ ready = {}
  /\ happened = 0
  /\ othersClosed = FALSE
  /\ fault = FALSE

InEpoll(e) == registered[e] \in {"reading", "writing"}

-----------------------------------------------------------------------------
(* The kernel's part.                                                       *)

\* The callback that handleIOEvent chooses for what epoll reports of an event
\* registered as r: a hang-up goes before input, input before output.
HandlerFor(r, e) ==
  IF hup[e] THEN "close"
  ELSE IF input[e] > 0 THEN "read"
  ELSE IF r = "writing" /\ room[e] THEN "write"
  ELSE "none"

\* An epoll_ctl(MOD) queues the event if there is something to report.
Requeue(list, e, r) ==
  IF HandlerFor(r, e) = "none" THEN list ELSE list \cup {e}

\* Something happens at e's descriptor.
Notify(e) == ready' = IF InEpoll(e) THEN ready \cup {e} ELSE ready

Arrive(e) ==
  /\ registered[e] # "gone" /\ ~hup[e]
  /\ happened < MaxHappenings
  /\ happened' = happened + 1
  /\ input' = [input EXCEPT ![e] = @ + 1]
  /\ Notify(e)
  /\ UNCHANGED <<registered, etMode, size, at, batch, numEvents, hup, room,
                 othersClosed, fault>>

HangUp(e) ==
  /\ registered[e] # "gone" /\ ~hup[e]
  /\ happened < MaxHappenings
  /\ happened' = happened + 1
  /\ hup' = [hup EXCEPT ![e] = TRUE]
  /\ Notify(e)
  /\ UNCHANGED <<registered, etMode, size, at, batch, numEvents, input, room,
                 othersClosed, fault>>

MakeRoom(e) ==
  /\ registered[e] = "writing" /\ ~room[e]
  /\ room' = [room EXCEPT ![e] = TRUE]
  /\ Notify(e)
  /\ UNCHANGED <<registered, etMode, size, at, batch, numEvents, input, hup,
                 happened, othersClosed, fault>>

-----------------------------------------------------------------------------
(* Registrations made from functors, between two calls of handleIOEvent.    *)

\* expectReading: assert(events_ == 0), EPOLL_CTL_ADD.  A loop that accepts
\* connections and serves them too registers them inside a callback.
ExpectReading(e) ==
  /\ registered[e] = "fresh"
  /\ registered' = [registered EXCEPT ![e] = "reading"]
  /\ ready' = Requeue(ready, e, "reading")
  /\ UNCHANGED <<etMode, size, at, batch, numEvents, conditions, othersClosed,
                 fault>>

\* A send that falls short of room, and its expectWriting.
ExpectWriting(e) ==
  /\ at = "poll"
  /\ registered[e] = "reading"
  /\ registered' = [registered EXCEPT ![e] = "writing"]
  /\ room' = [room EXCEPT ![e] = FALSE]
  /\ ready' = IF hup[e] \/ input[e] > 0 THEN ready \cup {e} ELSE ready
  /\ UNCHANGED <<etMode, size, at, batch, numEvents, input, hup, happened,
                 othersClosed, fault>>

\* Variant: removeIOEvent without its EPOLL_CTL_DEL.
RemoveEventQuietly(e) ==
  /\ registered' = [registered EXCEPT ![e] = "gone"]
  /\ UNCHANGED ready

\* removeThisEvent and the end of the IOEvent: the kernel forgets it, what
\* epoll_wait has returned does not.
RemoveEvent(e) ==
  /\ registered' = [registered EXCEPT ![e] = "gone"]
  /\ ready' = ready \ {e}

\* A functor closes a connection.
CloseInFunctor(e) ==
  /\ at = "poll"
  /\ InEpoll(e)
  /\ RemoveEvent(e)
  /\ UNCHANGED <<etMode, size, at, batch, numEvents, conditions, othersClosed,
                 fault>>

-----------------------------------------------------------------------------
(* handleIOEvent.                                                           *)

\* What epoll_wait finds on the ready list that has something to report.
Live == {e \in ready : HandlerFor(registered[e], e) # "none"}

\* How many of them events_ has room for.
Reported ==
  IF Cardinality(Live) < size THEN Cardinality(Live) ELSE size

\* epoll_wait reports as many events as there are and events_ has room for, in
\* an order of its own: first[i] is the i-th.  Level-triggered, they stay on the
\* ready list; edge-triggered, they leave it.
EpollWait ==
  /\ at = "poll"
  /\ Reported > 0
  /\ \E first \in [1 .. Reported -> Live] :
       /\ \A i, j \in 1 .. Reported : first[i] = first[j] => i = j
       /\ batch' = [i \in 1 .. Reported |->
                      [event |-> first[i],
                       handler |-> HandlerFor(registered[first[i]], first[i])]]
       /\ ready' = IF etMode THEN Live \ {first[i] : i \in 1 .. Reported}
                   ELSE Live
  /\ numEvents' = Reported
  /\ at' = "dispatch"
  /\ UNCHANGED <<registered, etMode, size, conditions, othersClosed, fault>>

\* The next report.
Report == Head(batch)
Own == Report.event

\* The report of a destroyed event: data.ptr dangles.
DispatchDestroyed ==
  /\ at = "dispatch" /\ batch # <<>>
  /\ registered[Own] = "gone"
  /\ fault' = TRUE
  /\ UNCHANGED <<registered, etMode, size, at, batch, numEvents, conditions,
                 ready, othersClosed>>

\* A callback for handler h is about to run.
Dispatch(h) ==
  /\ at = "dispatch" /\ batch # <<>>
  /\ Report.handler = h
  /\ InEpoll(Own)

\* Variant: return instead of continue.
CloseCallbackReturning ==
  /\ Dispatch("close")
  /\ RemoveEvent(Own)
  /\ batch' = <<>>
  /\ UNCHANGED <<etMode, size, at, numEvents, conditions, othersClosed, fault>>

\* closeCallback_ destroys the event.
CloseCallback ==
  /\ Dispatch("close")
  /\ RemoveEvent(Own)
  /\ batch' = Tail(batch)
  /\ UNCHANGED <<etMode, size, at, numEvents, conditions, othersClosed, fault>>

\* readCallback_ reads what there is, or, level-triggered, some of it.
ReadInput ==
  \E n \in 1 .. input[Own] :
    /\ etMode => n = input[Own]
    /\ input' = [input EXCEPT ![Own] = @ - n]

\* readCallback_, and nothing happens to the registrations.
ReadCallback ==
  /\ Dispatch("read")
  /\ ReadInput
  /\ batch' = Tail(batch)
  /\ UNCHANGED <<registered, etMode, size, at, numEvents, hup, room, ready,
                 happened, othersClosed, fault>>

\* readCallback_, which sends on a connection of the loop and falls short.
ReadCallbackSends ==
  /\ Dispatch("read")
  /\ ReadInput
  /\ \E e \in Events :
       /\ registered[e] = "reading"
       /\ registered' = [registered EXCEPT ![e] = "writing"]
       /\ room' = [room EXCEPT ![e] = FALSE]
       /\ ready' = IF hup[e] \/ input'[e] > 0 THEN ready \cup {e} ELSE ready
  /\ batch' = Tail(batch)
  /\ UNCHANGED <<etMode, size, at, numEvents, hup, happened, othersClosed, fault>>

\* readCallback_ or writeCallback_ of one event closes it, or another
\* connection of the loop: close() runs inline on the loop's thread.
CallbackCloses ==
  /\ Dispatch("read") \/ Dispatch("write")
  /\ IF Report.handler = "read" THEN ReadInput ELSE UNCHANGED input
  /\ \E e \in Events :
       /\ InEpoll(e)
       /\ e = Own \/ CloseOthers
       /\ RemoveEvent(e)
       /\ othersClosed' = (othersClosed \/ \E i \in 2 .. Len(batch) :
                                               batch[i].event = e)
  /\ batch' = Tail(batch)
  /\ UNCHANGED <<etMode, size, at, numEvents, hup, room, happened, fault>>

\* writeCallback_ writes everything and calls ignoreWriting, or fills the
\* kernel's buffer and goes on waiting.
WriteCallback ==
  /\ Dispatch("write")
  /\ \/ /\ registered' = [registered EXCEPT ![Own] = "reading"]
        /\ ready' = Requeue(ready, Own, "reading")
        /\ UNCHANGED room
     \/ /\ room' = [room EXCEPT ![Own] = FALSE]
        /\ UNCHANGED <<registered, ready>>
  /\ batch' = Tail(batch)
  /\ UNCHANGED <<etMode, size, at, numEvents, input, hup, happened, othersClosed,
                 fault>>

\* Variant: the vector is doubled after every batch.
EndOfBatchGrowing ==
  /\ at = "dispatch" /\ batch = <<>>
  /\ at' = "poll"
  /\ size' = 2 * size
  /\ numEvents' = 0 /\ othersClosed' = FALSE
  /\ UNCHANGED <<registered, etMode, batch, conditions, ready, fault>>

\* The batch is done; a full events_ is doubled.
EndOfBatch ==
  /\ at = "dispatch" /\ batch = <<>>
  /\ at' = "poll"
  /\ size' = IF numEvents = size THEN 2 * size ELSE size
  /\ numEvents' = 0 /\ othersClosed' = FALSE
  /\ UNCHANGED <<registered, etMode, batch, conditions, ready, fault>>

-----------------------------------------------------------------------------
HandleIOEvent ==
  \/ EpollWait \/ DispatchDestroyed \/ CloseCallback \/ ReadCallback
  \/ ReadCallbackSends \/ CallbackCloses \/ WriteCallback \/ EndOfBatch

Next ==
  /\ ~fault
  /\ \/ HandleIOEvent
     \/ \E e \in Events :
          \/ Arrive(e) \/ HangUp(e) \/ MakeRoom(e)
          \/ ExpectReading(e) \/ ExpectWriting(e) \/ CloseInFunctor(e)

Spec == Init /\ [][Next]_vars

\* The loop keeps polling and its callbacks return.
FairSpec == Spec /\ WF_vars(~fault /\ HandleIOEvent)

-----------------------------------------------------------------------------
\* events_ grows only while there are more events than it holds.
TypeOK ==
  /\ registered \in [Events -> {"fresh", "reading", "writing", "gone"}]
  /\ etMode \in BOOLEAN /\ othersClosed \in BOOLEAN /\ fault \in BOOLEAN
  /\ size \in Nat \ {0}
  /\ size = FirstSize \/ size <= 2 * Cardinality(Events)
  /\ at \in {"poll", "dispatch"}
  /\ batch \in Seq([event : Events, handler : {"close", "read", "write"}])
  /\ numEvents \in 0 .. Cardinality(Events)
  /\ Len(batch) <= numEvents /\ numEvents <= size
  /\ input \in [Events -> 0 .. MaxHappenings]
  /\ hup \in [Events -> BOOLEAN] /\ room \in [Events -> BOOLEAN]
  /\ ready \in SUBSET Events
  /\ happened \in 0 .. MaxHappenings

\* A destroyed event is dispatched only if a callback of the same batch has
\* closed another connection: closing one's own in a callback, or any in a
\* functor, is safe.
DanglingNeedsOther == fault => othersClosed

\* Input and hang-ups are dispatched, however small events_ is and whatever
\* else is in the batch.
EveryEventDispatched ==
  \A e \in Events :
    (InEpoll(e) /\ (hup[e] \/ input[e] > 0))
      ~> (registered[e] = "gone" \/ (input[e] = 0 /\ ~hup[e]) \/ fault)
=============================================================================
