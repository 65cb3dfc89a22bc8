---------------------------- MODULE EventLoopPool ----------------------------
(***************************************************************************)
(* An EventLoopPool (potato/net/EventLoopPool.{h,cpp}) with N threads: the  *)
(* thread that owns the pool starts it, waits until every loop exists, and  *)
(* destroys it; each thread of the pool constructs its loop, registers it   *)
(* and runs it.  That a loop which has been stopped returns, thanks to the  *)
(* timeout of its poll, is EventLoop's matter (StopEndsLoop); getNextLoop   *)
(* is in TcpServer.                                                         *)
(***************************************************************************)
EXTENDS Integers, Sequences, FiniteSets

CONSTANTS N,           \* threadNums_
          MaxSpurious  \* bound: spurious returns of cond_.wait

ASSUME PoolAssumption == N \in Nat /\ MaxSpurious \in Nat

Threads == 1 .. N
Owner == 0
NoThread == -1

VARIABLES owner,     \* where the owner stands
          at,        \* where each thread of the pool stands
          lock,      \* the holder of lock_
          loops,     \* loops_, a loop named by its thread
          looping,   \* looping_ of each loop
          index,     \* threads created, loops stopped or threads joined so far
          spurious,  \* history: spurious wakeups
          fault      \* the assertion that has failed

vars == <<owner, at, lock, loops, looping, index, spurious, fault>>

Init ==
  /\ owner = "new"
  /\ at = [t \in Threads |-> "none"]
  /\ lock = NoThread
  /\ loops = <<>>
  /\ looping = [t \in Threads |-> FALSE]
  /\ index = 0
  /\ spurious = 0
  /\ fault = "none"

-----------------------------------------------------------------------------
(* The owner: start.                                                        *)

\* start() is called once, if at all.
Start ==
  /\ owner = "new"
  /\ owner' = "create"
  /\ UNCHANGED <<at, lock, loops, looping, index, spurious, fault>>

\* Variant: one thread too many.
CreateThreadOneMore ==
  /\ owner = "create"
  /\ index <= N
  /\ at' = [t \in Threads |-> IF t = index + 1 THEN "construct" ELSE at[t]]
  /\ index' = index + 1
  /\ UNCHANGED <<owner, lock, loops, looping, spurious, fault>>

\* new std::thread for one round of the loop.
CreateThread ==
  /\ owner = "create"
  /\ index < N
  /\ at' = [at EXCEPT ![index + 1] = "construct"]
  /\ index' = index + 1
  /\ UNCHANGED <<owner, lock, loops, looping, spurious, fault>>

\* UniqueLock, on the way into cond_.wait or on the way out of its sleep.
OwnerLock ==
  /\ \/ owner = "create" /\ index = N
     \/ owner = "awake"
  /\ lock = NoThread
  /\ lock' = Owner
  /\ owner' = "check"
  /\ UNCHANGED <<at, loops, looping, index, spurious, fault>>

\* Variant: cond_.wait without its predicate.
CheckLoopsOnce ==
  /\ owner = "check"
  /\ owner' = IF loops # <<>> \/ N = 0 THEN "started" ELSE "asleep"
  /\ lock' = NoThread
  /\ UNCHANGED <<at, loops, looping, index, spurious, fault>>

\* The predicate of cond_.wait, under lock_.  If it is false the owner releases
\* lock_ and goes to sleep in one step, else start() returns.
CheckLoops ==
  /\ owner = "check"
  /\ owner' = IF Len(loops) = N THEN "started" ELSE "asleep"
  /\ lock' = NoThread
  /\ UNCHANGED <<at, loops, looping, index, spurious, fault>>

\* cond_.wait returns for no reason.
SpuriousWakeup ==
  /\ owner = "asleep"
  /\ spurious < MaxSpurious
  /\ owner' = "awake"
  /\ spurious' = spurious + 1
  /\ UNCHANGED <<at, lock, loops, looping, index, fault>>

-----------------------------------------------------------------------------
(* The owner: ~EventLoopPool.                                               *)

\* The pool is destroyed after start() has returned, or without it.
Destroy ==
  /\ owner \in {"new", "started"}
  /\ owner' = "stop"
  /\ index' = 0
  /\ UNCHANGED <<at, lock, loops, looping, spurious, fault>>

\* stopLoop of the next loop, up to the store to looping_.
StopLoop ==
  /\ owner = "stop"
  /\ index < Len(loops)
  /\ LET l == loops[index + 1]
     IN  IF looping[l]
           THEN /\ looping' = [looping EXCEPT ![l] = FALSE]
                /\ owner' = "wake"
                /\ UNCHANGED fault
           ELSE /\ fault' = "stopLoop"
                /\ UNCHANGED <<looping, owner>>
  /\ UNCHANGED <<at, lock, loops, index, spurious>>

\* Variant: the same loop again.
WakeupStaying ==
  /\ owner = "wake"
  /\ owner' = "stop"
  /\ UNCHANGED <<at, lock, loops, looping, index, spurious, fault>>

\* The rest of stopLoop, inLoopThread and wakeup, which wakes nobody.  The loop
\* lives on the stack of its thread: if that has ended by now the members read
\* here are gone, and the owner proceeds or crashes.
Wakeup ==
  /\ owner = "wake"
  /\ \/ /\ owner' = "stop"
        /\ index' = index + 1
        /\ UNCHANGED fault
     \/ /\ at[loops[index + 1]] = "ended"
        /\ fault' = "wakeup"
        /\ UNCHANGED <<owner, index>>
  /\ UNCHANGED <<at, lock, loops, looping, spurious>>

\* Variant: the last loop is left out.
StopsDoneEarly ==
  /\ owner = "stop"
  /\ index + 1 >= Len(loops)
  /\ owner' = "join"
  /\ index' = 0
  /\ UNCHANGED <<at, lock, loops, looping, spurious, fault>>

\* All loops have been told.
StopsDone ==
  /\ owner = "stop"
  /\ index = Len(loops)
  /\ owner' = "join"
  /\ index' = 0
  /\ UNCHANGED <<at, lock, loops, looping, spurious, fault>>

\* threads_ has as many elements as threads were created.
Created == {t \in Threads : at[t] # "none"}

\* Variant: the owner joins nobody.
JoinNobody ==
  /\ owner = "join"
  /\ owner' = "done"
  /\ UNCHANGED <<at, lock, loops, looping, index, spurious, fault>>

\* join of the next thread, or the end of the destructor.
Join ==
  /\ owner = "join"
  /\ IF index < Cardinality(Created)
       THEN /\ at[index + 1] = "ended"
            /\ index' = index + 1
            /\ UNCHANGED owner
       ELSE /\ owner' = "done"
            /\ UNCHANGED index
  /\ UNCHANGED <<at, lock, loops, looping, spurious, fault>>

-----------------------------------------------------------------------------
(* The threads of the pool: threadFunc.                                     *)

\* The loop is constructed on the thread's stack, and lock_ is taken.
ConstructAndLock(t) ==
  /\ at[t] = "construct"
  /\ lock = NoThread
  /\ lock' = t
  /\ at' = [at EXCEPT ![t] = "locked"]
  /\ UNCHANGED <<owner, loops, looping, index, spurious, fault>>

\* Variant: nobody is notified.
RegisterQuietly(t) ==
  /\ at[t] = "locked"
  /\ loops' = Append(loops, t)
  /\ lock' = NoThread
  /\ at' = [at EXCEPT ![t] = "registered"]
  /\ UNCHANGED <<owner, looping, index, spurious, fault>>

\* emplace_back, notify_one and the end of the guard.
Register(t) ==
  /\ at[t] = "locked"
  /\ loops' = Append(loops, t)
  /\ owner' = IF owner = "asleep" THEN "awake" ELSE owner
  /\ lock' = NoThread
  /\ at' = [at EXCEPT ![t] = "registered"]
  /\ UNCHANGED <<looping, index, spurious, fault>>

\* startLoop, up to its while.
StartLoop(t) ==
  /\ at[t] = "registered"
  /\ looping' = [looping EXCEPT ![t] = TRUE]
  /\ at' = [at EXCEPT ![t] = "looping"]
  /\ UNCHANGED <<owner, lock, loops, index, spurious, fault>>

\* The loop sees looping_ cleared and returns; ~EventLoop and the thread's end.
LeaveLoop(t) ==
  /\ at[t] = "looping"
  /\ ~looping[t]
  /\ at' = [at EXCEPT ![t] = "ended"]
  /\ UNCHANGED <<owner, lock, loops, looping, index, spurious, fault>>

-----------------------------------------------------------------------------
OwnerStep ==
  \/ CreateThread \/ OwnerLock \/ CheckLoops
  \/ StopLoop \/ Wakeup \/ StopsDone \/ Join

ThreadStep(t) ==
  ConstructAndLock(t) \/ Register(t) \/ StartLoop(t) \/ LeaveLoop(t)

Next ==
  /\ fault = "none"
  /\ \/ Start \/ SpuriousWakeup \/ Destroy
     \/ OwnerStep
     \/ \E t \in Threads : ThreadStep(t)

Spec == Init /\ [][Next]_vars

\* Every thread keeps executing; nobody has to start or to destroy the pool.
FairSpec == /\ Spec
            /\ WF_vars(fault = "none" /\ OwnerStep)
            /\ \A t \in Threads : WF_vars(fault = "none" /\ ThreadStep(t))

-----------------------------------------------------------------------------
TypeOK ==
  /\ owner \in {"new", "create", "check", "asleep", "awake", "started", "stop",
                "wake", "join", "done"}
  /\ at \in [Threads -> {"none", "construct", "locked", "registered", "looping",
                         "ended"}]
  /\ lock \in Threads \cup {Owner, NoThread}
  /\ loops \in Seq(Threads)
  /\ looping \in [Threads -> BOOLEAN]
  /\ index \in 0 .. N
  /\ spurious \in 0 .. MaxSpurious
  /\ fault \in {"none", "stopLoop", "wakeup"}

\* lock_ is held by exactly the thread that registers its loop, or by the owner
\* at its predicate, so loops_ is not written while it is read.
LockExclusive ==
  /\ lock = Owner <=> owner = "check"
  /\ \A t \in Threads : lock = t <=> at[t] = "locked"

\* When start() returns every thread has registered its loop, once: getNextLoop
\* deals connections out to all of them.
StartWaitsForAll ==
  owner = "started" =>
    /\ Len(loops) = N
    /\ \A t \in Threads : \E i \in 1 .. N : loops[i] = t

\* getNextLoop and the destructor read loops_ without lock_; nobody writes it
\* any more once start() has returned.
LoopsSettled ==
  [][(owner \in {"started", "stop", "wake", "join", "done"})
       => UNCHANGED loops]_vars

\* The assertion of stopLoop fails for a loop whose thread has registered it and
\* not yet entered startLoop.
OnlyEarlyStop == fault = "stopLoop" => at[loops[index + 1]] = "registered"

\* The loops that the destructor has still to stop have not ended.
UntoldLoopsLive ==
  owner = "stop" =>
    \A i \in index + 1 .. Len(loops) : at[loops[i]] # "ended"

\* Of the loops it stops the destructor finds none gone when it begins with it,
\* and stopLoop's assertion fails only for one that is registered and not yet
\* started, never for one that runs or was stopped before.  A loop may vanish
\* under the destructor only within its own stopLoop, after the store to
\* looping_ (fault "wakeup").
FaultNeedsEarlyStop == OnlyEarlyStop /\ UntoldLoopsLive

\* No thread of the pool outlives the destructor, which takes away lock_, cond_
\* and the loops' list.
NothingLeftRunning ==
  owner = "done" => \A t \in Threads : at[t] \in {"none", "ended"}

\* start() returns: no registration goes unnoticed between the predicate and
\* the sleep.
StartReturns == (owner = "create") ~> (owner = "started")

\* The destructor stops every loop and joins every thread, unless it fails on
\* a loop that has not started or that has ended already.
DestroyEnds == (owner = "stop") ~> (owner = "done" \/ fault # "none")
=============================================================================
