------------------------------ MODULE EventLoop ------------------------------
(***************************************************************************)
(* One EventLoop object (potato/net/EventLoop.{h,cpp}): the thread that     *)
(* constructed it and runs startLoop, and the other threads that call       *)
(* runInLoop and stopLoop on it.  One action is one stretch of code between *)
(* two points where another thread can observe or change the object:        *)
(* taking or releasing mutex_, an access to the atomic looping_, a system   *)
(* call on the wakeup socket pair, the call of a functor.                   *)
(*                                                                         *)
(* A functor is named by the position of its push_back, so the n-th functor *)
(* ever pushed is the number n.  runInLoop called on the loop's own thread  *)
(* is a plain call inside the step that makes it and needs no action.       *)
(***************************************************************************)
EXTENDS Integers, Sequences

CONSTANTS Loop,      \* the thread of the loop (threadId_)
          Threads,   \* the other threads
          NoThread,  \* mutex_ is free
          MaxPosts,  \* bound: functors pushed in a behaviour
          EtMode     \* the constructor's etMode

ASSUME LoopAssumption ==
  /\ Loop \notin Threads
  /\ NoThread \notin Threads \cup {Loop}
  /\ MaxPosts \in Nat
  /\ EtMode \in BOOLEAN

VARIABLES looping,          \* looping_
          pendingFunctors,  \* pendingFunctors_, guarded by mutex_
          functors,         \* the local vector of callPendingFunctors
          mutex,            \* the holder of mutex_
          wakeupSocket,     \* ints readable at each end of wakeupSocket_
          inEpoll,          \* wakeupEvent_.inEpoll_
          pc,               \* where each thread stands
          posted,           \* history: number of functors pushed
          ran,              \* history: functors run, oldest first
          fault             \* the assertion that has stopped the process

vars == <<looping, pendingFunctors, functors, mutex, wakeupSocket, inEpoll,
          pc, posted, ran, fault>>

LoopPC == {"idle", "test", "poll", "io", "run", "done", "destroyed"}
ThreadPC == {"free", "locked", "pushed", "stopping"}

Init ==
  /\ looping = FALSE
  /\ pendingFunctors = <<>>
  /\ functors = <<>>
  /\ mutex = NoThread
  /\ wakeupSocket = [first |-> 0, second |-> 0]
  /\ inEpoll = FALSE
  /\ pc = [t \in Threads \cup {Loop} |-> IF t = Loop THEN "idle" ELSE "free"]
  /\ posted = 0
  /\ ran = <<>>
  /\ fault = "none"

Goto(t, label) == pc' = [pc EXCEPT ![t] = label]

-----------------------------------------------------------------------------
(* The loop's thread.                                                       *)

\* startLoop up to its while.  enableIOReading asserts that the event is
\* fresh (events_ == 0), which it is the first time only: ignoring the
\* assertion, EPOLL_CTL_ADD of a registered socket fails and aborts.
StartLoop ==
  /\ pc[Loop] \in {"idle", "done"}
  /\ ~looping
  /\ IF inEpoll
       THEN /\ fault' = "enableIOReading"
            /\ UNCHANGED <<looping, inEpoll, pc>>
       ELSE /\ looping' = TRUE
            /\ inEpoll' = TRUE
            /\ Goto(Loop, "test")
            /\ UNCHANGED fault
  /\ UNCHANGED <<pendingFunctors, functors, mutex, wakeupSocket, posted, ran>>

\* while (looping_)
TestLooping ==
  /\ pc[Loop] = "test"
  /\ Goto(Loop, IF looping THEN "poll" ELSE "done")
  /\ UNCHANGED <<looping, pendingFunctors, functors, mutex, wakeupSocket,
                 inEpoll, posted, ran, fault>>

\* What the wakeup event's read callback leaves at its end of the pair: one
\* int is read, or all of them in edge-triggered mode.
DrainWakeup(n) == IF n = 0 \/ EtMode THEN 0 ELSE n - 1

\* Variant: a loop that was stopped while it waited leaves at once.
HandleIOEventUntilStopped ==
  /\ pc[Loop] = "poll"
  /\ wakeupSocket' = [wakeupSocket EXCEPT !.second = DrainWakeup(@)]
  /\ Goto(Loop, IF looping THEN "io" ELSE "done")
  /\ UNCHANGED <<looping, pendingFunctors, functors, mutex, inEpoll, posted,
                 ran, fault>>

\* Variant: epoll_wait(-1), which only a ready socket ends.
HandleIOEventNoTimeout ==
  /\ pc[Loop] = "poll"
  /\ wakeupSocket.second > 0
  /\ wakeupSocket' = [wakeupSocket EXCEPT !.second = DrainWakeup(@)]
  /\ Goto(Loop, "io")
  /\ UNCHANGED <<looping, pendingFunctors, functors, mutex, inEpoll, posted,
                 ran, fault>>

\* ioWatcher_.handleIOEvent(1000).  epoll_wait returns when a socket is ready,
\* when a signal interrupts it and after 1000 ms, so it always returns.
HandleIOEvent ==
  /\ pc[Loop] = "poll"
  /\ wakeupSocket' = [wakeupSocket EXCEPT !.second = DrainWakeup(@)]
  /\ Goto(Loop, "io")
  /\ UNCHANGED <<looping, pendingFunctors, functors, mutex, inEpoll, posted,
                 ran, fault>>

\* Variant: the pending functors are copied and stay pending.
TakeFunctorsCopying ==
  /\ pc[Loop] = "io"
  /\ mutex = NoThread
  /\ functors' = pendingFunctors
  /\ Goto(Loop, "run")
  /\ UNCHANGED <<looping, pendingFunctors, mutex, wakeupSocket, inEpoll,
                 posted, ran, fault>>

\* The swap of callPendingFunctors, with mutex_ taken and released.
TakeFunctors ==
  /\ pc[Loop] = "io"
  /\ mutex = NoThread
  /\ functors' = pendingFunctors
  /\ pendingFunctors' = <<>>
  /\ Goto(Loop, "run")
  /\ UNCHANGED <<looping, mutex, wakeupSocket, inEpoll, posted, ran, fault>>

\* One turn of "for (const auto &functor : functors) functor();".
RunFunctor ==
  /\ pc[Loop] = "run"
  /\ functors # <<>>
  /\ ran' = Append(ran, Head(functors))
  /\ functors' = Tail(functors)
  /\ UNCHANGED <<looping, pendingFunctors, mutex, wakeupSocket, inEpoll, pc,
                 posted, fault>>

\* Variant: a stopped loop abandons the rest of its batch.
BatchDoneOnStop ==
  /\ pc[Loop] = "run"
  /\ functors = <<>> \/ ~looping
  /\ Goto(Loop, "test")
  /\ UNCHANGED <<looping, pendingFunctors, functors, mutex, wakeupSocket,
                 inEpoll, posted, ran, fault>>

\* The for loop ends and callPendingFunctors returns to startLoop's while.
BatchDone ==
  /\ pc[Loop] = "run"
  /\ functors = <<>>
  /\ Goto(Loop, "test")
  /\ UNCHANGED <<looping, pendingFunctors, functors, mutex, wakeupSocket,
                 inEpoll, posted, ran, fault>>

\* stopLoop called by an I/O callback or by a functor: no wakeup.
StopInLoop ==
  /\ pc[Loop] \in {"io", "run"}
  /\ looping
  /\ looping' = FALSE
  /\ UNCHANGED <<pendingFunctors, functors, mutex, wakeupSocket, inEpoll, pc,
                 posted, ran, fault>>

\* ~EventLoop, once no other thread is inside a call.  removeIOEvent asserts
\* that the wakeup event is registered.
Destroy ==
  /\ pc[Loop] \in {"idle", "done"}
  /\ \A t \in Threads : pc[t] = "free"
  /\ IF inEpoll
       THEN /\ inEpoll' = FALSE
            /\ Goto(Loop, "destroyed")
            /\ UNCHANGED fault
       ELSE /\ fault' = "removeIOEvent"
            /\ UNCHANGED <<inEpoll, pc>>
  /\ UNCHANGED <<looping, pendingFunctors, functors, mutex, wakeupSocket,
                 posted, ran>>
-----------------------------------------------------------------------------
(* The other threads.                                                       *)

\* wakeup() calls potato::read on its own end of the pair; nothing is ever
\* written to that end, so the read fails with EAGAIN and is logged.
Wakeup ==
  wakeupSocket' = [wakeupSocket EXCEPT !.first = IF @ = 0 THEN 0 ELSE @ - 1]

\* runInLoop on another thread: the lock_guard, the push_back and the wakeup,
\* with the guard's destructor.
LockMutex(t) ==
  /\ pc[t] = "free"
  /\ pc[Loop] # "destroyed"
  /\ posted < MaxPosts
  /\ mutex = NoThread
  /\ mutex' = t
  /\ Goto(t, "locked")
  /\ UNCHANGED <<looping, pendingFunctors, functors, wakeupSocket, inEpoll,
                 posted, ran, fault>>

\* pendingFunctors_.push_back(functor).
PushFunctor(t) ==
  /\ pc[t] = "locked"
  /\ posted' = posted + 1
  /\ pendingFunctors' = Append(pendingFunctors, posted + 1)
  /\ Goto(t, "pushed")
  /\ UNCHANGED <<looping, functors, mutex, wakeupSocket, inEpoll, ran, fault>>

\* wakeup() and the release of the lock_guard.
WakeupAndUnlock(t) ==
  /\ pc[t] = "pushed"
  /\ Wakeup
  /\ mutex' = NoThread
  /\ Goto(t, "free")
  /\ UNCHANGED <<looping, pendingFunctors, functors, inEpoll, posted, ran,
                 fault>>

\* stopLoop on another thread.  Its assert(looping_) is the caller's duty.
StopStore(t) ==
  /\ pc[t] = "free"
  /\ looping
  /\ looping' = FALSE
  /\ Goto(t, "stopping")
  /\ UNCHANGED <<pendingFunctors, functors, mutex, wakeupSocket, inEpoll,
                 posted, ran, fault>>

StopWakeup(t) ==
  /\ pc[t] = "stopping"
  /\ Wakeup
  /\ Goto(t, "free")
  /\ UNCHANGED <<looping, pendingFunctors, functors, mutex, inEpoll, posted,
                 ran, fault>>

-----------------------------------------------------------------------------
LoopStep ==
  \/ TestLooping \/ HandleIOEvent \/ TakeFunctors \/ RunFunctor \/ BatchDone

ThreadStep(t) == PushFunctor(t) \/ WakeupAndUnlock(t) \/ StopWakeup(t)

Next ==
  /\ fault = "none"
  /\ \/ StartLoop \/ StopInLoop \/ Destroy
     \/ LoopStep
     \/ \E t \in Threads : LockMutex(t) \/ StopStore(t) \/ ThreadStep(t)

Spec == Init /\ [][Next]_vars

\* A thread that is scheduled keeps executing; nothing forces anybody to start
\* or stop the loop or to post a functor.  That handleIOEvent returns at all
\* is its 1000 ms timeout.
FairSpec == /\ Spec
            /\ WF_vars(fault = "none" /\ LoopStep)
            /\ \A t \in Threads : WF_vars(fault = "none" /\ ThreadStep(t))

-----------------------------------------------------------------------------
\* The values of the object's fields, of the locals and of the histories.
TypeOK ==
  /\ looping \in BOOLEAN
  /\ pendingFunctors \in Seq(Nat)
  /\ functors \in Seq(Nat)
  /\ mutex \in Threads \cup {NoThread}
  /\ wakeupSocket \in [first : Nat, second : Nat]
  /\ inEpoll \in BOOLEAN
  /\ pc \in [Threads \cup {Loop} -> LoopPC \cup ThreadPC]
  /\ posted \in 0 .. MaxPosts
  /\ ran \in Seq(Nat)
  /\ fault \in {"none", "enableIOReading", "removeIOEvent"}

\* Every functor handed to runInLoop is, at any moment, in exactly one place -
\* run, taken by callPendingFunctors, or pending - and the three together are
\* the functors in the order of their push_back: none is lost, duplicated or
\* overtaken, whatever the interleaving of the swap with the pushes.
InOrder == ran \o functors \o pendingFunctors = [i \in 1 .. posted |-> i]

\* The local vector of callPendingFunctors is used up whenever the loop's
\* thread is elsewhere: no stop, from whichever thread, makes the loop leave a
\* batch half way, so functors taken from pendingFunctors_ are run before
\* startLoop returns and before the next swap overwrites the vector.
BatchFinished == pc[Loop] # "run" => functors = <<>>

\* mutex_ is held exactly by the thread between its lock_guard and its end.
MutexHeld ==
  \A t \in Threads : mutex = t <=> pc[t] \in {"locked", "pushed"}

\* What runInLoop promises the other threads: one FIFO of functors, which the
\* swap into a local vector does not show.
Queue == INSTANCE FunctorQueue WITH queue <- functors \o pendingFunctors

\* Every step of the object is a post, a run or invisible in FunctorQueue.
ImplementsQueue == Queue!Spec

\* A functor pushed while the loop is looping is run, unless the loop is
\* stopped first: nobody waits forever for a functor on a live loop.
EveryFunctorRuns ==
  \A i \in 1 .. MaxPosts :
    (looping /\ posted >= i) ~> (Len(ran) >= i \/ ~looping)

\* A functor pushed before the loop has left epoll_wait and its callbacks is run,
\* whoever stops the loop meanwhile: of a loop that is stopped only functors
\* pushed after its last swap stay behind.
LastTurnIsComplete ==
  \A i \in 1 .. MaxPosts :
    (pc[Loop] \in {"poll", "io"} /\ posted >= i) ~> Len(ran) >= i

\* After stopLoop, startLoop returns, wherever the loop's thread stands: it is
\* blocked in epoll_wait, in a callback or in the middle of a batch.
StopEndsLoop ==
  (pc[Loop] \in {"test", "poll", "io", "run"} /\ ~looping) ~> pc[Loop] = "done"

\* "for EventLoop wakeup" (SocketCommon.h:59): once runInLoop has returned, a
\* loop blocked in epoll_wait with that functor pending has something to read.
WakeupArrives ==
  (pc[Loop] = "poll" /\ pendingFunctors # <<>> /\ mutex = NoThread)
     => wakeupSocket.second > 0
=============================================================================
