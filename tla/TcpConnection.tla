---------------------------- MODULE TcpConnection ----------------------------
(***************************************************************************)
(* One TcpConnection slot of a TcpServer (potato/net/TcpConnection.{h,cpp}) *)
(* with the threads that use it, its registration in the IOWatcher, the     *)
(* kernel's end of the socket, the peer and the application's callbacks.    *)
(*                                                                         *)
(* Handlers and callbacks run on the thread of the connection's loop.  In a *)
(* server with a thread of its own for the loop (pooled) the base loop's    *)
(* thread binds the slot to its next connection, without waiting for what   *)
(* is in progress on the loop; in one without, bindSocket runs on the loop. *)
(* A thread of the application calls send and close, which post functors.   *)
(*                                                                         *)
(* One action is the code between two points where another thread, the      *)
(* kernel or the application can act: a system call, a call of a callback,  *)
(* its return, a post.  Callbacks run on top of the handler that called     *)
(* them and may send and close, so what is in progress on the loop's thread *)
(* is a stack.  socket_, ioEvent_ and loop_ are set by bindSocket and       *)
(* cleared by reset; event stands for the three.  readBuffer_ and           *)
(* writeBuffer_ are the byte queues Buffer implements, functors the queue   *)
(* EventLoop implements, and what is in readBuffer_ is the application's    *)
(* business only.                                                           *)
(***************************************************************************)
EXTENDS Integers, Sequences

CONSTANTS PooledModes, \* the loop may be the base loop or one of the pool
          EtModes,     \* the loop's IOWatcher may be edge-triggered or not
          AppCloses,   \* where the application may call close()
          PeerResets,  \* the peer may reset the connection
          SendBuffer,  \* bytes the kernel takes before the peer reads
          MaxGens,     \* bound: connections the slot serves, one after another
          MaxSent,     \* bound: bytes sent on the loop's thread, per connection
          MaxMessage,  \* bound: bytes of one send
          MaxArrived,  \* bound: bytes arriving on one connection
          MaxDepth,    \* bound: handlers and callbacks on the stack
          MaxPosts     \* bound: calls by the application's own thread

Callbacks == {"onConnection", "onMessage", "onWriteComplete"}

ASSUME ConnectionAssumption ==
  /\ PooledModes \subseteq BOOLEAN /\ EtModes \subseteq BOOLEAN
  /\ AppCloses \subseteq Callbacks \cup {"idle", "thread"}
  /\ PeerResets \in BOOLEAN
  /\ SendBuffer \in Nat \ {0}
  /\ {MaxGens, MaxSent, MaxMessage, MaxArrived, MaxDepth, MaxPosts}
       \subseteq Nat

VARIABLES event,        \* "none": ioEvent_ is null; "bound": set by bindSocket
                        \* on another thread; "created": its functor posted;
                        \* "reading": registered for input; "writing": for
                        \* output too, isWriting_
          pooled,       \* bindSocket runs on another thread than the loop's
          etMode,       \* the event's etMode_, the same for all on a loop
          writeBuffer,  \* writeBuffer_
          stack,        \* handlers and callbacks in progress, innermost first
          functors,     \* the loop's pending functors of this slot
          app,          \* the call the application's thread is inside of
          fault,        \* where a null pointer or an assertion stopped it all
          rcvQueue,     \* kernel: number of bytes to read
          fin,          \* kernel: the peer has closed its side
          rst,          \* kernel: the peer has reset the connection
          room,         \* kernel: bytes it still takes
          starved,      \* kernel: a write fell short of room (SOCK_NOSPACE)
          ready,        \* kernel: on the ready list of an edge-triggered epoll
          gen,          \* history: which connection the slot serves
          arrived,      \* history: bytes that arrived on this connection
          stale,        \* history: writeBuffer_ was not empty at bindSocket
          greeted,      \* history: connectionCallback_ was called for it
          sent,         \* history: bytes given to send on this connection
          out,          \* history: bytes the kernel took on this connection
          mixed,        \* history: it met a call meant for an earlier one
          closedInside, \* history: closed by a callback still in progress,
                        \* or by its send
          posted        \* history: calls by the application's thread

modes == <<pooled, etMode>>
input == <<rcvQueue, fin, rst, arrived>>
output == <<room, starved>>
kernel == <<input, output, ready>>
connection == <<gen, stale, greeted>>
stream == <<sent, out, mixed>>
threads == <<functors, app, posted>>
vars == <<event, modes, writeBuffer, stack, fault, kernel, connection, stream,
          closedInside, threads>>

\* The application's thread is in no call.
NoCall == [op |-> "none", len |-> 0, gen |-> 0]

\* The functor of bindSocket.
BindCall == [op |-> "bind", len |-> 0, gen |-> 0]

Init ==
  /\ event = "none"
  /\ pooled \in PooledModes /\ etMode \in EtModes
  /\ writeBuffer = <<>> /\ out = <<>> /\ stack = <<>> /\ functors = <<>>
  /\ app = NoCall
  /\ fault = "none"
  /\ rcvQueue = 0 /\ fin = FALSE /\ rst = FALSE /\ arrived = 0
  /\ room = SendBuffer /\ starved = FALSE /\ ready = FALSE
  /\ gen = 0 /\ sent = 0 /\ posted = 0
  /\ stale = FALSE /\ greeted = FALSE /\ mixed = FALSE /\ closedInside = FALSE

\* The innermost handler or callback in progress.
Frame == IF stack = <<>> THEN "idle" ELSE Head(stack)

\* It returns, to frames or to what called it.
ReturnTo(frames) ==
  /\ stack' = frames \o Tail(stack)
  /\ closedInside' = (closedInside /\ stack' # <<>>)

MinOf(a, b) == IF a <= b THEN a ELSE b

\* inEpoll_ of the slot's event.
Registered == event \in {"reading", "writing"}

\* epoll's view of the socket.
Readable == rcvQueue > 0 \/ fin \/ rst
Writeable == event = "writing" /\ room > 0

\* The connection the application knows the slot by: the last one that
\* connectionCallback_ told it of.
Known == IF greeted THEN gen ELSE gen - 1

-----------------------------------------------------------------------------
(* Birth and death of a connection.                                         *)

\* newConnection gives the slot a new socket; the buffers are what the
\* previous connection left.
NewSocket ==
  /\ event = "none"
  /\ gen < MaxGens
  /\ gen' = gen + 1
  /\ stale' = (writeBuffer # <<>>) /\ mixed' = FALSE
  /\ UNCHANGED <<modes, writeBuffer, kernel, sent, out, closedInside, threads>>

\* Without a pool, bindSocket calls its functor: the event is registered and
\* connectionCallback_ runs.
BindSocketInLoop ==
  /\ ~pooled
  /\ stack = <<>>
  /\ NewSocket
  /\ event' = "reading"
  /\ greeted' = TRUE
  /\ stack' = <<"onConnection">>
  /\ UNCHANGED fault

\* With one, the base loop's thread fills in the fields.  It has assigned the
\* slot's callbacks too, whatever the loop's thread does with them: one that
\* is being executed may survive it or not.
BindSocket ==
  /\ pooled
  /\ NewSocket
  /\ event' = "bound"
  /\ greeted' = FALSE
  /\ \/ UNCHANGED fault
     \/ /\ \E i \in DOMAIN stack : stack[i] \in Callbacks
        /\ fault' = "newConnection"
  /\ UNCHANGED stack

\* Variant: the base loop's thread registers the event itself.
BindPostRegistering ==
  /\ event = "bound"
  /\ event' = "reading"
  /\ ready' = (etMode /\ Readable)
  /\ functors' = Append(functors, BindCall)
  /\ UNCHANGED <<modes, writeBuffer, stack, fault, input, output, connection,
                 stream, closedInside, app, posted>>

\* Its runInLoop posts the rest of bindSocket to the connection's loop.
BindPost ==
  /\ event = "bound"
  /\ event' = "created"
  /\ functors' = Append(functors, BindCall)
  /\ UNCHANGED <<modes, writeBuffer, stack, fault, kernel, connection, stream,
                 closedInside, app, posted>>

\* The loop's thread takes the next functor, which is an op.
RunFunctor(op) ==
  /\ stack = <<>>
  /\ functors # <<>> /\ Head(functors).op = op
  /\ functors' = Tail(functors)
  /\ UNCHANGED <<modes, app, posted>>

\* bindSocket's functor.  The kernel reports what has arrived meanwhile.
RunBind ==
  /\ RunFunctor("bind")
  /\ event = "created"
  /\ event' = "reading"
  /\ ready' = (etMode /\ Readable)
  /\ greeted' = TRUE
  /\ stack' = <<"onConnection">>
  /\ UNCHANGED <<writeBuffer, fault, input, output, gen, stale, stream,
                 closedInside>>

\* The kernel drops what it holds for the socket, and the histories of the
\* connection end.
CloseSocket ==
  /\ rcvQueue' = 0 /\ fin' = FALSE /\ rst' = FALSE /\ arrived' = 0
  /\ room' = SendBuffer /\ starved' = FALSE /\ ready' = FALSE
  /\ sent' = 0 /\ out' = <<>>

\* handleCloseEvent down to TcpServer::destroyConnection and reset, all
\* inline on the loop's thread: the socket is deregistered, which it must have
\* been registered for, and closed, and the slot is free again with its
\* buffers as they are.  The callback that reset makes can change nothing: the
\* socket is closed already.
HandleCloseEvent ==
  /\ IF Registered
       THEN event' = "none" /\ CloseSocket /\ UNCHANGED fault
       ELSE fault' = "removeIOEvent" /\ UNCHANGED <<event, kernel, sent, out>>
  /\ UNCHANGED writeBuffer

\* close() by the application on the loop's thread.
Close ==
  /\ event # "none" /\ Known > 0
  /\ Frame \in AppCloses
  /\ HandleCloseEvent
  /\ closedInside' = (stack # <<>>)
  /\ mixed' = (mixed \/ Known # gen)
  /\ UNCHANGED <<modes, stack, connection, threads>>

-----------------------------------------------------------------------------
(* handleIOEvent and handleReadEvent.                                       *)

\* epoll_wait reports the event and handleIOEvent calls one handler: a hang-up
\* goes before input and input before output.  An edge-triggered report takes
\* the event off the ready list whatever handler is called.
HandleIOEvent ==
  /\ Registered
  /\ stack = <<>>
  /\ IF etMode THEN ready ELSE Readable \/ Writeable
  /\ \/ /\ rst
        /\ HandleCloseEvent
        /\ UNCHANGED stack
     \/ /\ ~rst
        /\ ready' = FALSE
        /\ stack' = CASE Readable -> <<"read">>
                      [] ~Readable /\ Writeable -> <<"write">>
                      [] OTHER -> <<>>
        /\ UNCHANGED <<event, fault, writeBuffer, input, output, sent, out>>
  /\ UNCHANGED <<modes, connection, mixed, closedInside, threads>>

\* n > 0: the read buffer takes the bytes and messageCallback_ is called.
ReadSome(n) ==
  /\ Frame = "read"
  /\ rcvQueue' = rcvQueue - n
  /\ ReturnTo(<<"onMessage">>)
  /\ UNCHANGED <<event, modes, writeBuffer, fault, fin, rst, arrived, output,
                 ready, connection, stream, threads>>

\* EAGAIN: the handler returns.
ReadNothing ==
  /\ Frame = "read"
  /\ ~Readable
  /\ ReturnTo(<<>>)
  /\ UNCHANGED <<event, modes, writeBuffer, fault, kernel, connection, stream,
                 threads>>

\* Variant: the loop's condition is evaluated after the close.
ReadEndWithoutBreak ==
  /\ Frame = "read"
  /\ rcvQueue = 0 /\ (fin \/ rst)
  /\ event' = "none"
  /\ fault' = "handleReadEvent"
  /\ UNCHANGED <<modes, writeBuffer, stack, kernel, connection, stream,
                 closedInside, threads>>

\* n = 0, the peer's FIN, or an error: the connection is closed.
ReadEnd ==
  /\ Frame = "read"
  /\ rcvQueue = 0 /\ (fin \/ rst)
  /\ HandleCloseEvent
  /\ IF Registered THEN ReturnTo(<<>>) ELSE UNCHANGED <<stack, closedInside>>
  /\ UNCHANGED <<modes, connection, mixed, threads>>

\* Variant: one read per report in edge-triggered mode too.
MessageReturnsOnce ==
  /\ Frame = "onMessage"
  /\ event # "none"
  /\ ReturnTo(<<>>)
  /\ UNCHANGED <<event, modes, writeBuffer, fault, kernel, connection, stream,
                 threads>>

\* messageCallback_ returns to "while (ioEvent_->etMode())".  The slot may
\* serve the next connection by then, whose socket it reads on.
MessageReturns ==
  /\ Frame = "onMessage"
  /\ event # "none"
  /\ ReturnTo(IF etMode THEN <<"read">> ELSE <<>>)
  /\ UNCHANGED <<event, modes, writeBuffer, fault, kernel, connection, stream,
                 threads>>

\* There is no ioEvent_ any more.
MessageReturnsToNull ==
  /\ Frame = "onMessage"
  /\ event = "none"
  /\ fault' = "handleReadEvent"
  /\ UNCHANGED <<event, modes, writeBuffer, stack, kernel, connection, stream,
                 closedInside, threads>>

\* connectionCallback_ or writeCompleteCallback_ returns to its caller, which
\* does nothing more or is handleWriteEvent.
CallbackReturns ==
  /\ Frame \in {"onConnection", "onWriteComplete"}
  /\ ReturnTo(<<>>)
  /\ UNCHANGED <<event, modes, writeBuffer, fault, kernel, connection, stream,
                 threads>>

-----------------------------------------------------------------------------
(* write and handleWriteEvent.                                              *)

\* Byte i given to send on the slot, by who knows the connection as from.
NewBytes(from, len) == [i \in 1 .. len |-> <<from, sent + i>>]

\* IOEvent::expectWriting with EPOLL_CTL_MOD, which puts a readable socket on
\* the ready list again (the kernel has no room when it is called).  The event
\* must be registered.
ExpectWriting ==
  IF Registered
    THEN /\ event' = "writing"
         /\ ready' = (ready \/ (etMode /\ Readable))
         /\ UNCHANGED fault
    ELSE /\ fault' = "enableIOWriting"
         /\ UNCHANGED <<event, ready>>

\* IOEvent::ignoreWriting, without effect on an event that is not writing.
IgnoreWriting ==
  IF event = "writing"
    THEN /\ event' = "reading"
         /\ ready' = (ready \/ (etMode /\ Readable))
    ELSE UNCHANGED <<event, ready>>

\* isWriting(): the bytes queue up behind the backlog.
SendBehindBacklog(from, len) ==
  /\ event = "writing"
  /\ writeBuffer' = writeBuffer \o NewBytes(from, len)
  /\ sent' = sent + len
  /\ UNCHANGED <<event, stack, fault, kernel, out, closedInside>>

\* Variant: the kernel is tried first even if there is a backlog.
SendWholeFirst(from, len) ==
  /\ ~rst /\ len <= room
  /\ out' = out \o NewBytes(from, len)
  /\ sent' = sent + len
  /\ room' = room - len
  /\ stack' = <<"onWriteComplete">> \o stack
  /\ UNCHANGED <<event, writeBuffer, fault, input, starved, ready, closedInside>>

\* The kernel takes the whole message, and writeCompleteCallback_ is called.
SendWhole(from, len) ==
  /\ event # "writing"
  /\ ~rst /\ len <= room
  /\ out' = out \o NewBytes(from, len)
  /\ sent' = sent + len
  /\ room' = room - len
  /\ stack' = <<"onWriteComplete">> \o stack
  /\ UNCHANGED <<event, writeBuffer, fault, input, starved, ready, closedInside>>

\* Variant: the rest is stored and nothing waits for room.
SendPartAndForget(from, len) ==
  /\ event # "writing"
  /\ ~rst /\ room < len
  /\ out' = out \o SubSeq(NewBytes(from, len), 1, room)
  /\ writeBuffer' = writeBuffer \o SubSeq(NewBytes(from, len), room + 1, len)
  /\ sent' = sent + len
  /\ room' = 0
  /\ starved' = TRUE
  /\ UNCHANGED <<event, ready, fault, stack, input, closedInside>>

\* The kernel takes what it has room for - nothing is EAGAIN -, the rest goes
\* to the write buffer, and the event waits for room.
SendPart(from, len) ==
  /\ event # "writing"
  /\ ~rst /\ room < len
  /\ out' = out \o SubSeq(NewBytes(from, len), 1, room)
  /\ writeBuffer' = writeBuffer \o SubSeq(NewBytes(from, len), room + 1, len)
  /\ sent' = sent + len
  /\ room' = 0
  /\ starved' = TRUE
  /\ ExpectWriting
  /\ UNCHANGED <<stack, input, closedInside>>

\* Writing to a connection that was reset fails and closes it.
SendFails ==
  /\ event # "writing"
  /\ rst
  /\ HandleCloseEvent
  /\ closedInside' = (stack # <<>>)
  /\ UNCHANGED stack

\* The functor of write, for len > 0 bytes - an empty message moves no byte -
\* meant for connection from, on whatever connection the slot serves.
Send(from, len) ==
  /\ \/ SendBehindBacklog(from, len) \/ SendWhole(from, len)
     \/ SendPart(from, len) \/ SendFails
  /\ mixed' = (mixed \/ from # gen)
  /\ UNCHANGED <<modes, connection>>

\* write() on the loop's thread, which calls the functor.
Write(len) ==
  /\ event # "none" /\ Known > 0
  /\ Frame \in Callbacks \cup {"idle"}
  /\ Len(stack) < MaxDepth
  /\ sent + len <= MaxSent
  /\ Send(Known, len)
  /\ UNCHANGED threads

\* Variant: the application is told after every write.
HandleWriteEventTelling ==
  /\ Frame = "write"
  /\ ~rst
  /\ LET n == MinOf(room, Len(writeBuffer))
         rest == SubSeq(writeBuffer, n + 1, Len(writeBuffer))
         complete == writeBuffer # <<>> /\ rest = <<>>
     IN  /\ out' = out \o SubSeq(writeBuffer, 1, n)
         /\ writeBuffer' = rest
         /\ room' = room - n
         /\ starved' = (rest # <<>>)
         /\ IF complete THEN IgnoreWriting ELSE UNCHANGED <<event, ready>>
         /\ ReturnTo(<<"onWriteComplete", "writeTail">>)
  /\ UNCHANGED <<modes, fault, input, connection, sent, mixed, threads>>

\* One write of the backlog.  Once it is empty, the event stops waiting for
\* room and writeCompleteCallback_ is called.
HandleWriteEvent ==
  /\ Frame = "write"
  /\ ~rst
  /\ LET n == MinOf(room, Len(writeBuffer))
         rest == SubSeq(writeBuffer, n + 1, Len(writeBuffer))
         complete == writeBuffer # <<>> /\ rest = <<>>
     IN  /\ out' = out \o SubSeq(writeBuffer, 1, n)
         /\ writeBuffer' = rest
         /\ room' = room - n
         /\ starved' = (rest # <<>>)
         /\ IF complete THEN IgnoreWriting ELSE UNCHANGED <<event, ready>>
         /\ ReturnTo(IF complete THEN <<"onWriteComplete", "writeTail">>
                                 ELSE <<"writeTail">>)
  /\ UNCHANGED <<modes, fault, input, connection, sent, mixed, threads>>

\* The reset arrived after epoll_wait returned: the write fails.
HandleWriteFails ==
  /\ Frame = "write"
  /\ rst
  /\ HandleCloseEvent
  /\ ReturnTo(<<"writeTail">>)
  /\ UNCHANGED <<modes, connection, mixed, threads>>

\* The last statement of handleWriteEvent: ignoreWriting if nothing is left,
\* by the event the slot has then.
WriteTail ==
  /\ Frame = "writeTail"
  /\ writeBuffer # <<>> \/ event # "none"
  /\ ReturnTo(<<>>)
  /\ IF writeBuffer = <<>> THEN IgnoreWriting ELSE UNCHANGED <<event, ready>>
  /\ UNCHANGED <<modes, writeBuffer, fault, input, output, connection, stream,
                 threads>>

\* Nothing is left, and no event either.
WriteTailOfNull ==
  /\ Frame = "writeTail"
  /\ writeBuffer = <<>> /\ event = "none"
  /\ fault' = "handleWriteEvent"
  /\ UNCHANGED <<event, modes, writeBuffer, stack, kernel, connection, stream,
                 closedInside, threads>>

-----------------------------------------------------------------------------
(* send and close by a thread of the application.                           *)

Calls == [op : {"send"}, len : 1 .. MaxMessage]
           \cup (IF "thread" \in AppCloses THEN [op : {"close"}, len : {0}]
                                           ELSE {})

\* "if (!socket_)": the call goes on.
AppCheck(call) ==
  /\ app = NoCall
  /\ posted < MaxPosts
  /\ event # "none" /\ Known > 0
  /\ app' = [op |-> call.op, len |-> call.len, gen |-> Known]
  /\ posted' = posted + 1
  /\ UNCHANGED <<event, modes, writeBuffer, stack, fault, kernel, connection,
                 stream, closedInside, functors>>

\* loop_->runInLoop, with the loop_ the slot has now.
AppPost ==
  /\ app # NoCall
  /\ IF event = "none"
       THEN fault' = "runInLoop" /\ UNCHANGED <<functors, app>>
       ELSE /\ functors' = Append(functors, app)
            /\ app' = NoCall
            /\ UNCHANGED fault
  /\ UNCHANGED <<event, modes, writeBuffer, stack, kernel, connection, stream,
                 closedInside, posted>>

\* The functor of send or close finds no socket_.
RunNothing ==
  /\ event = "none"
  /\ RunFunctor("send") \/ RunFunctor("close")
  /\ UNCHANGED <<event, writeBuffer, stack, fault, kernel, connection, stream,
                 closedInside>>

\* The functor of send, on the connection the slot serves now.
RunSend ==
  /\ event # "none"
  /\ RunFunctor("send")
  /\ Send(Head(functors).gen, Head(functors).len)

\* The functor of close: handleCloseEvent.
RunClose ==
  /\ event # "none"
  /\ RunFunctor("close")
  /\ HandleCloseEvent
  /\ mixed' = (mixed \/ Head(functors).gen # gen)
  /\ UNCHANGED <<stack, connection, closedInside>>

-----------------------------------------------------------------------------
(* The peer and the kernel's end of the socket.                             *)

Alive == event # "none" /\ ~rst

\* Something happened that an edge-triggered epoll reports, if registered.
Edge == ready' = (etMode /\ Registered)

PeerSends ==
  /\ Alive /\ ~fin
  /\ arrived < MaxArrived
  /\ rcvQueue' = rcvQueue + 1
  /\ arrived' = arrived + 1
  /\ Edge
  /\ UNCHANGED <<event, modes, writeBuffer, stack, fault, fin, rst, output,
                 connection, stream, closedInside, threads>>

PeerCloses ==
  /\ Alive /\ ~fin
  /\ fin' = TRUE
  /\ Edge
  /\ UNCHANGED <<event, modes, writeBuffer, stack, fault, rcvQueue, rst, arrived,
                 output, connection, stream, closedInside, threads>>

PeerReset ==
  /\ PeerResets
  /\ Alive
  /\ rst' = TRUE
  /\ Edge
  /\ UNCHANGED <<event, modes, writeBuffer, stack, fault, rcvQueue, fin, arrived,
                 output, connection, stream, closedInside, threads>>

\* The peer reads, and the kernel has room again: a writer that fell short is
\* told, which in edge-triggered mode is the only notice there will be.
PeerReads(n) ==
  /\ Alive
  /\ room + n <= SendBuffer
  /\ room' = room + n
  /\ starved' = FALSE
  /\ ready' = (ready \/ (etMode /\ Registered /\ starved))
  /\ UNCHANGED <<event, modes, writeBuffer, stack, fault, input, connection,
                 stream, closedInside, threads>>

-----------------------------------------------------------------------------
LoopStep ==
  \/ HandleIOEvent
  \/ \E n \in 1 .. rcvQueue : ReadSome(n)
  \/ ReadNothing \/ ReadEnd
  \/ MessageReturns \/ MessageReturnsToNull \/ CallbackReturns
  \/ HandleWriteEvent \/ HandleWriteFails \/ WriteTail \/ WriteTailOfNull
  \/ RunBind \/ RunSend \/ RunClose \/ RunNothing

CallbackStep == Close \/ \E len \in 1 .. MaxMessage : Write(len)

AppStep == AppPost \/ \E call \in Calls : AppCheck(call)

PeerReadStep == \E n \in 1 .. SendBuffer : PeerReads(n)

Next ==
  /\ fault = "none"
  /\ \/ BindSocketInLoop \/ BindSocket \/ BindPost
     \/ LoopStep \/ CallbackStep \/ AppStep
     \/ PeerSends \/ PeerCloses \/ PeerReset \/ PeerReadStep

Spec == Init /\ [][Next]_vars

\* The loop's thread keeps running, callbacks return, the base loop's thread
\* ends a bindSocket it is in, and the peer keeps reading what the kernel
\* holds for it.  Nobody has to connect, to send or to close.
FairSpec == /\ Spec
            /\ WF_vars(fault = "none" /\ LoopStep)
            /\ WF_vars(fault = "none" /\ BindPost)
            /\ WF_vars(fault = "none" /\ PeerReadStep)

-----------------------------------------------------------------------------
\* Bytes, each with the connection it was sent to, and calls of the
\* application's thread.
MaxTotal == MaxSent + MaxPosts * MaxMessage
Bytes == (1 .. MaxGens) \X (1 .. MaxTotal)
Posted == [op : {"send", "close"}, len : 0 .. MaxMessage, gen : 1 .. MaxGens]

\* The values of the slot, of its threads, of the kernel's end and of the
\* histories.
TypeOK ==
  /\ event \in {"none", "bound", "created", "reading", "writing"}
  /\ pooled \in PooledModes /\ etMode \in EtModes
  /\ writeBuffer \in Seq(Bytes)
  /\ stack \in Seq(Callbacks \cup {"read", "write", "writeTail"})
  /\ functors \in Seq(Posted \cup {BindCall}) /\ app \in Posted \cup {NoCall}
  /\ fault \in {"none", "newConnection", "removeIOEvent", "enableIOWriting",
                "handleReadEvent", "handleWriteEvent", "runInLoop"}
  /\ rcvQueue \in 0 .. MaxArrived
  /\ room \in 0 .. SendBuffer
  /\ {fin, rst, starved, ready, stale, greeted, mixed, closedInside}
       \subseteq BOOLEAN
  /\ gen \in 0 .. MaxGens
  /\ sent \in 0 .. MaxTotal
  /\ arrived \in 0 .. MaxArrived /\ posted \in 0 .. MaxPosts
  /\ out \in Seq(Bytes)

\* Of what the kernel took and what waits in the write buffer, the bytes of the
\* connection are those given to send, in that order: no send made from inside
\* a callback or from another thread, no partial write and no backlog loses,
\* repeats or overtakes one.  There are no others, unless the slot's last
\* connection left a backlog: reset keeps the write buffer, and what is in it
\* goes to the next peer.  Nothing is said of a connection that met a call
\* meant for an earlier one.
OutputInOrder ==
  (event # "none" /\ ~mixed) =>
    LET all == out \o writeBuffer
        own == {i \in DOMAIN all : all[i][1] = gen}
    IN  /\ \A k \in 1 .. sent : \E i \in own : all[i][2] = k
        /\ \A i, j \in own : i < j => all[i][2] < all[j][2]
        /\ \A i \in own : all[i][2] <= sent
        /\ ~stale => own = DOMAIN all

\* EPOLLOUT is asked for exactly while there is a backlog: a backlog nobody
\* waits to write is stuck, and a loop that waits without one spins.  Excepted
\* is a connection whose slot was left with a backlog by the last one (stale):
\* nobody waits to write that, until a send of its own falls short.
BacklogIsAwaited ==
  (event # "none" /\ ~stale /\ fault = "none")
    => (event = "writing" <=> writeBuffer # <<>>)

\* No other callback of a connection comes before its connectionCallback_, on
\* whatever thread it was bound and whatever has arrived by then: unless the
\* handler of the slot's last connection is still in progress and reads on, or
\* a send meant for that connection is run on the new one.
ConnectionCallbackFirst ==
  (\E i \in DOMAIN stack : stack[i] \in {"onMessage", "onWriteComplete"})
    => (greeted \/ closedInside \/ mixed)

\* writeCompleteCallback_ is called when everything sent so far is with the
\* kernel, and not for a message of which a part is still queued.  Excepted is
\* a connection whose slot was left with a backlog by the last one (stale): that
\* backlog stays queued while its own messages go straight to the kernel.
CompleteWhenDrained ==
  [][(stack' # <<>> /\ Head(stack') = "onWriteComplete"
        /\ Len(stack') > Len(stack) /\ ~stale) => writeBuffer' = <<>>]_vars

\* Whatever the peer sent is read, even if it arrives while the read handler
\* or a callback runs or before the socket is registered, or the connection
\* ends.
EveryByteRead ==
  rcvQueue > 0 ~> (rcvQueue = 0 \/ event = "none" \/ fault # "none")

\* A connection that its peer has closed or reset ends, and its slot is given
\* back, even if the FIN or the reset arrives while a handler or a callback runs,
\* before the socket is registered, or together with room for a backlog.
EndedConnectionCloses ==
  (event # "none" /\ (fin \/ rst)) ~> (event = "none" \/ fault # "none")

\* A backlog is written if the peer keeps reading, or the connection ends: the
\* write side is not forgotten while input is handled.  That the peer does not
\* send for ever (MaxArrived) is a premise of it, for input goes before output
\* in every report of handleIOEvent.  Excepted is a connection whose slot was
\* left with a backlog by the last one (stale), which need not be written.
BacklogDrains ==
  (event # "none" /\ writeBuffer # <<>> /\ ~stale)
    ~> (writeBuffer = <<>> \/ event = "none" \/ fault # "none")

\* The same, with the same exception (stale), of a level-triggered connection,
\* where a room that is passed over is reported again.
BacklogDrainsLT ==
  (~etMode /\ event # "none" /\ writeBuffer # <<>> /\ ~stale)
    ~> (writeBuffer = <<>> \/ event = "none" \/ fault # "none")

\* No handler loses its event or its callback under its feet, and none meets
\* an event that is not registered yet, unless a callback still in progress
\* has closed the connection, by close() or by a send that failed, or a call
\* meant for an earlier connection arrived: FIN, errors, resets, functors that
\* wait and the binding of the slot on another thread never do it alone.  The
\* application's own thread may find the connection gone inside its call.
FaultNeedsCallback ==
  fault # "none" => (closedInside \/ mixed \/ fault = "runInLoop")

\* assert(ioEvent_) of the handlers (TcpConnection.cpp:71 and 102): a handler
\* has an ioEvent_ wherever it uses it, after its callbacks returned too.
HandlerHasEvent == fault = "none"
=============================================================================
