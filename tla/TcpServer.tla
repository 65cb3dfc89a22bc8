------------------------------ MODULE TcpServer ------------------------------
(***************************************************************************)
(* A TcpServer with N >= 1 loops of its EventLoopPool                       *)
(* (potato/net/TcpServer.{h,cpp}): the thread of the base loop accepts      *)
(* connections, borrows slots and binds them; the threads of the loops      *)
(* register them, meet their end and return the slots.  Thread 0 is the     *)
(* base loop's, thread t the t-th loop's.                                   *)
(*                                                                         *)
(* The pending functors of a loop are the queue that EventLoop implements.  *)
(* What a connection does between its registration and its end is           *)
(* TcpConnection's matter.                                                  *)
(***************************************************************************)
EXTENDS Integers, Sequences, FiniteSets

CONSTANTS N,              \* threadNums_ of the pool
          Grain,          \* slots created at a time (200)
          MaxConnections  \* bound: connections accepted

ASSUME ServerAssumption ==
  /\ N \in Nat \ {0}
  /\ Grain \in Nat \ {0}
  /\ MaxConnections \in Nat

Base == 0
Loops == 1 .. N
Threads == {Base} \cup Loops

NoThread == -1
NoSlot == -1
NoLoop == 0  \* loop_ is null: no connection is bound to the base loop

VARIABLES pool,        \* connectionPool_.size()
          availIndex,  \* availIndex_
          lock,        \* the holder of lock_
          next,        \* next_ of the EventLoopPool
          slot,        \* [loop, event, socket]: loop_, ioEvent_ and socket_
          functors,    \* the pending functors of each loop
          at,          \* where each thread stands
          conn,        \* the slot each thread is at work on
          app,         \* an application thread inside TcpConnection::close
          accepted,    \* history: connections accepted so far
          served,      \* history: connections given to connectionCallback_
          fault        \* the assertion that has failed

vars == <<pool, availIndex, lock, next, slot, functors, at, conn, app, accepted,
          served, fault>>

\* A slot that serves no connection.
Unbound == [loop |-> NoLoop, event |-> "null", socket |-> 0]

\* newConnection creates slots at most once, so there are never more.
Slots == 0 .. Grain * (MaxConnections + 1) - 1

Init ==
  /\ pool = Grain
  /\ availIndex = 0 .. Grain - 1
  /\ lock = NoThread
  /\ next = 0
  /\ slot = [s \in Slots |-> Unbound]
  /\ functors = [l \in Loops |-> <<>>]
  /\ at = [t \in Threads |-> "poll"]
  /\ conn = [t \in Threads |-> NoSlot]
  /\ app = NoSlot
  /\ accepted = 0
  /\ served = {}
  /\ fault = "none"

Goto(t, label) == at' = [at EXCEPT ![t] = label]

-----------------------------------------------------------------------------
(* lock_, a SpinLock.                                                       *)

\* What a thread that waits for lock_ does with it.
Section == [grow |-> "growing", take |-> "taking", return |-> "returning"]

\* The test_and_set that finds the flag clear; one that does not is repeated
\* after a yield.
Lock(t) ==
  /\ at[t] \in DOMAIN Section
  /\ lock = NoThread
  /\ lock' = t
  /\ Goto(t, Section[at[t]])
  /\ UNCHANGED <<pool, availIndex, next, slot, functors, conn, app, accepted,
                 served, fault>>

-----------------------------------------------------------------------------
(* The base loop's thread.                                                  *)

\* handleAccept hands a socket to newConnection.
NewConnection ==
  /\ at[Base] = "poll"
  /\ accepted < MaxConnections
  /\ accepted' = accepted + 1
  /\ Goto(Base, "borrow")
  /\ UNCHANGED <<pool, availIndex, lock, next, slot, functors, conn, app,
                 served, fault>>

\* The test of availIndex_.empty() outside lock_.  It races with an insert on
\* another thread and may see the set before or after it.
BorrowCheck ==
  /\ at[Base] = "borrow"
  /\ Goto(Base, IF availIndex = {} THEN "grow" ELSE "take")
  /\ UNCHANGED <<pool, availIndex, lock, next, slot, functors, conn, app,
                 accepted, served, fault>>

\* Variant: the test is not repeated under lock_.
BorrowGrowUnchecked ==
  /\ at[Base] = "growing"
  /\ availIndex' = availIndex \cup (pool .. pool + Grain - 1)
  /\ pool' = pool + Grain
  /\ lock' = NoThread
  /\ Goto(Base, "take")
  /\ UNCHANGED <<next, slot, functors, conn, app, accepted, served, fault>>

\* The test under lock_ and the new slots.
BorrowGrow ==
  /\ at[Base] = "growing"
  /\ IF availIndex = {}
       THEN /\ availIndex' = pool .. pool + Grain - 1
            /\ pool' = pool + Grain
       ELSE UNCHANGED <<availIndex, pool>>
  /\ lock' = NoThread
  /\ Goto(Base, "take")
  /\ UNCHANGED <<next, slot, functors, conn, app, accepted, served, fault>>

\* *availIndex_.begin() of an unordered_set is any of its elements, and
\* undefined if there is none.
BorrowTake ==
  /\ at[Base] = "taking"
  /\ lock' = NoThread
  /\ Goto(Base, "bind")
  /\ \/ \E s \in availIndex :
          /\ availIndex' = availIndex \ {s}
          /\ conn' = [conn EXCEPT ![Base] = s]
          /\ UNCHANGED fault
     \/ /\ availIndex = {}
        /\ fault' = "borrowConnection"
        /\ UNCHANGED <<availIndex, conn>>
  /\ UNCHANGED <<pool, next, slot, functors, app, accepted, served>>

\* Variant: next_ starts over one loop too early.
NextLoopShort(n) == IF n + 1 >= N - 1 THEN 0 ELSE n + 1

\* Variant: next_ starts over one loop too late.
NextLoopOver(n) == IF n >= N THEN 0 ELSE n + 1

\* getNextLoop's "next_++", and 0 after the last.
NextLoop(n) == IF n + 1 >= N THEN 0 ELSE n + 1

\* Variant: the loop is not told.
BindSocketQuietly ==
  /\ at[Base] = "bind"
  /\ slot' = [slot EXCEPT ![conn[Base]] =
                [loop |-> next + 1, event |-> "created", socket |-> accepted]]
  /\ next' = NextLoop(next)
  /\ Goto(Base, "poll")
  /\ conn' = [conn EXCEPT ![Base] = NoSlot]
  /\ UNCHANGED <<pool, availIndex, lock, functors, app, accepted, served, fault>>

\* getNextLoop and bindSocket, whose assertions say that the slot serves no
\* connection.  socket_ is set last, so that no other thread tells its states
\* in between from the one before.
BindSocket ==
  /\ at[Base] = "bind"
  /\ LET s == conn[Base]
         l == next + 1
     IN  IF slot[s] # Unbound
           THEN /\ fault' = "bindSocket"
                /\ UNCHANGED <<slot, functors, next, at, conn>>
           ELSE /\ slot' = [slot EXCEPT ![s] = [loop |-> l, event |-> "created",
                                                socket |-> accepted]]
                /\ functors' = [functors EXCEPT
                                  ![l] = Append(@, [op |-> "bind", slot |-> s])]
                /\ next' = NextLoop(next)
                /\ Goto(Base, "poll")
                /\ conn' = [conn EXCEPT ![Base] = NoSlot]
                /\ UNCHANGED fault
  /\ UNCHANGED <<pool, availIndex, lock, app, accepted, served>>

-----------------------------------------------------------------------------
(* The threads of the loops.                                                *)

\* Thread t begins to run the head of its functors.
NextFunctor(t, op) ==
  /\ at[t] = "poll"
  /\ functors[t] # <<>>
  /\ Head(functors[t]).op = op

\* The functor of bindSocket: expectReading, which asserts that the event is
\* fresh, and connectionCallback_.
RunBind(t) ==
  /\ NextFunctor(t, "bind")
  /\ LET s == Head(functors[t]).slot
     IN  IF slot[s].event = "created"
           THEN /\ slot' = [slot EXCEPT ![s].event = "registered"]
                /\ served' = served \cup {slot[s].socket}
                /\ UNCHANGED fault
           ELSE /\ fault' = "expectReading"
                /\ UNCHANGED <<slot, served>>
  /\ functors' = [functors EXCEPT ![t] = Tail(@)]
  /\ UNCHANGED <<pool, availIndex, lock, next, at, conn, app, accepted>>

\* Variant: the slot is free before it is reset.
CloseReturning(t, s) ==
  /\ at[t] = "poll"
  /\ slot[s].loop = t /\ slot[s].event = "registered"
  /\ availIndex' = availIndex \cup {s}
  /\ slot' = [slot EXCEPT ![s].event = "removed"]
  /\ conn' = [conn EXCEPT ![t] = s]
  /\ Goto(t, "reset")
  /\ UNCHANGED <<pool, lock, next, functors, app, accepted, served, fault>>

\* handleCloseEvent for a connection of loop t, called by a handler or through
\* close() by a callback: the event is removed, the socket is closed, and
\* destroyConnection, on the thread of getLoop(), goes on to reset.
CloseConnection(t, s) ==
  /\ at[t] = "poll"
  /\ slot[s].loop = t /\ slot[s].event = "registered"
  /\ slot' = [slot EXCEPT ![s].event = "removed"]
  /\ conn' = [conn EXCEPT ![t] = s]
  /\ Goto(t, "reset")
  /\ UNCHANGED <<pool, availIndex, lock, next, functors, app, accepted, served,
                 fault>>

\* reset: connectionCallback_, which finds the socket closed, and then loop_
\* and ioEvent_.
ResetEvent(t) ==
  /\ at[t] = "reset"
  /\ slot' = [slot EXCEPT ![conn[t]].loop = NoLoop, ![conn[t]].event = "null"]
  /\ Goto(t, "resetSocket")
  /\ UNCHANGED <<pool, availIndex, lock, next, functors, conn, app, accepted,
                 served, fault>>

\* socket_.reset(), the end of reset.
ResetSocket(t) ==
  /\ at[t] = "resetSocket"
  /\ slot' = [slot EXCEPT ![conn[t]].socket = 0]
  /\ Goto(t, "return")
  /\ UNCHANGED <<pool, availIndex, lock, next, functors, conn, app, accepted,
                 served, fault>>

\* returnConnection's insert and the end of its guard; the handler returns.
ReturnConnection(t) ==
  /\ at[t] = "returning"
  /\ availIndex' = availIndex \cup {conn[t]}
  /\ conn' = [conn EXCEPT ![t] = NoSlot]
  /\ lock' = NoThread
  /\ Goto(t, "poll")
  /\ UNCHANGED <<pool, next, slot, functors, app, accepted, served, fault>>

-----------------------------------------------------------------------------
(* A thread of the application that calls close() on a connection which one *)
(* of its callbacks has seen.                                               *)

\* "if (!socket_) return;"
CloseCheck(s) ==
  /\ app = NoSlot
  /\ slot[s].socket # 0
  /\ app' = s
  /\ UNCHANGED <<pool, availIndex, lock, next, slot, functors, at, conn,
                 accepted, served, fault>>

\* The assertions of close() and loop_->runInLoop.
ClosePost ==
  /\ app # NoSlot
  /\ LET l == slot[app].loop
     IN  IF l = NoLoop
           THEN fault' = "close" /\ UNCHANGED functors
           ELSE /\ functors' = [functors EXCEPT
                                  ![l] = Append(@, [op |-> "close", slot |-> app])]
                /\ UNCHANGED fault
  /\ app' = NoSlot
  /\ UNCHANGED <<pool, availIndex, lock, next, slot, at, conn, accepted, served>>

\* The functor of close(), for whatever connection the slot serves by now.
\* Another loop's connection is destroyed by that loop.
RunClose(t) ==
  /\ NextFunctor(t, "close")
  /\ LET s == Head(functors[t]).slot
         l == slot[s].loop
         rest == [functors EXCEPT ![t] = Tail(@)]
     IN  \/ /\ slot[s].socket = 0 \/ slot[s].event = "removed"
            /\ functors' = rest
            /\ UNCHANGED <<slot, at, conn, fault>>
         \/ /\ slot[s].socket # 0 /\ slot[s].event \in {"null", "created"}
            /\ fault' = "handleCloseEvent"
            /\ functors' = rest
            /\ UNCHANGED <<slot, at, conn>>
         \/ /\ slot[s].event = "registered"
            /\ slot' = [slot EXCEPT ![s].event = "removed"]
            /\ IF l = t
                 THEN /\ functors' = rest
                      /\ conn' = [conn EXCEPT ![t] = s]
                      /\ Goto(t, "reset")
                 ELSE /\ functors' = [rest EXCEPT
                           ![l] = Append(@, [op |-> "destroy", slot |-> s])]
                      /\ UNCHANGED <<conn, at>>
            /\ UNCHANGED fault
  /\ UNCHANGED <<pool, availIndex, lock, next, app, accepted, served>>

\* The functor of destroyConnection.
RunDestroy(t) ==
  /\ NextFunctor(t, "destroy")
  /\ functors' = [functors EXCEPT ![t] = Tail(@)]
  /\ conn' = [conn EXCEPT ![t] = Head(functors[t]).slot]
  /\ Goto(t, "reset")
  /\ UNCHANGED <<pool, availIndex, lock, next, slot, app, accepted, served, fault>>

-----------------------------------------------------------------------------
BaseStep ==
  BorrowCheck \/ Lock(Base) \/ BorrowGrow \/ BorrowTake \/ BindSocket

LoopStep(t) ==
  \/ RunBind(t)
  \/ ResetEvent(t) \/ ResetSocket(t) \/ Lock(t) \/ ReturnConnection(t)

Next ==
  /\ fault = "none"
  /\ \/ NewConnection \/ BaseStep
     \/ \E t \in Loops :
          LoopStep(t) \/ \E s \in 0 .. pool - 1 : CloseConnection(t, s)

Spec == Init /\ [][Next]_vars

\* Every thread keeps executing.  Nobody has to connect and no connection has
\* to end.
FairSpec == /\ Spec
            /\ WF_vars(fault = "none" /\ BaseStep)
            /\ \A t \in Loops : WF_vars(fault = "none" /\ LoopStep(t))

\* The server whose application closes connections from a thread of its own.
SharedNext ==
  \/ Next
  \/ /\ fault = "none"
     /\ \/ \E s \in 0 .. pool - 1 : CloseCheck(s)
        \/ ClosePost
        \/ \E t \in Loops : RunClose(t) \/ RunDestroy(t)

SharedSpec == Init /\ [][SharedNext]_vars

-----------------------------------------------------------------------------
TypeOK ==
  /\ pool \in Nat
  /\ availIndex \subseteq 0 .. pool - 1
  /\ lock \in Threads \cup {NoThread}
  /\ next \in 0 .. N - 1
  /\ slot \in [Slots -> [loop : Loops \cup {NoLoop},
                         event : {"null", "created", "registered", "removed"},
                         socket : 0 .. MaxConnections]]
  /\ functors \in [Loops -> Seq([op : {"bind", "close", "destroy"}, slot : Slots])]
  /\ at \in [Threads -> {"poll", "borrow", "grow", "growing", "take", "taking",
                         "bind", "reset", "resetSocket", "return", "returning"}]
  /\ conn \in [Threads -> Slots \cup {NoSlot}]
  /\ app \in Slots \cup {NoSlot}
  /\ accepted \in 0 .. MaxConnections
  /\ served \subseteq 1 .. MaxConnections
  /\ fault \in {"none", "borrowConnection", "bindSocket", "expectReading",
                "close", "handleCloseEvent"}

\* The threads inside the three critical sections of lock_ exclude each other,
\* so that availIndex_ is never changed by two threads at once.
LockExclusive ==
  \A t \in Threads :
    lock = t <=> at[t] \in {"growing", "taking", "returning"}

\* What holds of the slots as the application sees none of them from outside
\* its callbacks: a slot that borrowConnection hands out has been reset to the
\* last field, so the assertions of bindSocket hold; there is always a slot to
\* take, though the set was tested without lock_; and the functor of
\* bindSocket finds its connection with an event that is not yet registered.
AssertionsHold == fault = "none"

\* A slot in the hands of a thread, or bound.
Held == ({conn[t] : t \in Threads} \ {NoSlot})
          \cup {s \in 0 .. pool - 1 : slot[s] # Unbound}

Pool == INSTANCE SlotPool WITH free <- availIndex, held <- Held

\* Every slot is at any moment free or held, and not both: no slot serves two
\* connections, none is lost when connections end on several loops at once,
\* and new ones appear only when none is free, see SlotPool.
ImplementsPool == Pool!Spec

\* getNextLoop gives every loop its turn: the k-th connection accepted is
\* served by the loop whose turn it is when they are dealt out one by one.
RoundRobin ==
  \A s \in 0 .. pool - 1 :
    slot[s].loop # NoLoop => slot[s].loop = ((slot[s].socket - 1) % N) + 1

\* A connection that was accepted is registered on its loop and reported to
\* connectionCallback_: neither its slot nor its functor goes astray.
EveryConnectionServed ==
  \A c \in 1 .. MaxConnections : accepted >= c ~> c \in served
=============================================================================
