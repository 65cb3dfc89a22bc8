# libpotato in TLA+

This directory specifies libpotato, a small C++ library of TCP servers: one
event loop per thread, buffered connections on top of epoll, a pool of
connection slots. The modules are translated from `src/potato`; each definition
names the code it stands for in `PROJECT.json` ("map"). TLC checks every module
on small instances, and TLAPS proves the safety of the systems for all
values of their constants.

Run everything from here: `tlc -config EventLoop_loop.cfg MCEventLoop` checks one
run, `tlapm EventLoopProofs.tla` one module of proofs.

## Inventory

| Component | State | Operations | Correct when |
|---|---|---|---|
| `EventLoop` | `looping_`, `pendingFunctors_` under `mutex_`, the wakeup socket pair and its event | `startLoop`, `stopLoop`, `runInLoop`, `wakeup`, destructor | functors run once each, in the order of their `push_back`, in whole batches; a live loop runs each, a stopped loop returns |
| `IOWatcher`, `IOEvent` | epoll set, event mask, `inEpoll_`, `isWriting_` | `handleIOEvent`, `expectReading`, `expectWriting`, `ignoreWriting`, `removeThisEvent` | an event is registered exactly between its `expectReading` and its removal; no dispatch to a dead event; no notice lost in edge-triggered mode |
| `Buffer` | a vector, a read index, a write index | `write*`, `read*`, `retrieve*`, `hasWritten`, `expandBuffer`, `reset` | a byte queue, in bounded memory, with room for every `read(2)` |
| `TcpConnection` | `loop_`, `ioEvent_`, `socket_` (null between two connections), two buffers | `bindSocket`, `send`, `close`, the three handlers | bytes leave in order, once; a backlog is awaited, and written; input is not left behind; nobody uses what `reset` has cleared |
| `TcpServer` | the slots, `availIndex_` under `lock_`, acceptor, pool | `start`, `newConnection`, `borrowConnection`, `returnConnection`, `destroyConnection` | a slot serves one connection at a time, none is lost |
| `EventLoopPool` | base loop, thread per loop, round-robin index | `start`, `getNextLoop`, destructor | all loops exist before the first connection; all threads are joined |
| `Acceptor` | listening socket and event, a spare descriptor | `listen`, `handleAccept` | accepts every pending connection; gets out of `EMFILE` |
| `SpinLock`, `Mutex` | a flag | lock, unlock | mutual exclusion |
| `StringSlice`, `Endian`, `Date`, `Timestamp` | values | slicing, search, byte order, calendar, comparison | equal to their reference definitions |
| `IpAddress` | a socket address | constructors, `Port` | the kernel reads the port and address that were meant |
| `Socket`, `SocketCommon`, `Logger` | descriptors, text | wrappers of system calls, formatting | no logic of their own: `Socket` as its users meet it, the others not modelled |

How they interact. A `TcpServer` owns an `Acceptor` on the base loop and an
`EventLoopPool`. `handleAccept` hands a socket to `newConnection`, which borrows
a slot and calls `bindSocket` with the next loop of the pool; `bindSocket` posts
to that loop with `runInLoop`. From then on the loop's `IOWatcher` calls the
connection's handlers, the handlers call the application, and the application
calls `send` and `close`, from inside the callbacks or from other threads through
`runInLoop`. A handler that meets the end of the connection calls
`destroyConnection`, which resets the slot and puts it back under `lock_`.

What is hard in it:

- functors pushed by any thread while the loop swaps and runs them; a stop at any
  moment; a wakeup that must not be missed (`EventLoop.cpp`);
- callbacks that send and close, re-entering the object whose handler is in
  progress, whose fields `reset` clears (`TcpConnection.cpp`);
- partial writes, and output competing with input for one `else if`
  (`IOWatcher.cpp:36`), with events that are reported once only in
  edge-triggered mode;
- a batch of reports whose callbacks close events further down in it
  (`IOWatcher.cpp:30`);
- accepting without a descriptor left, while other threads open files
  (`Acceptor.cpp:49`);
- a slot bound by one thread while its last handler runs on another, with calls
  of a third on their way to it, and with what the last connection left in it
  (`TcpServer.cpp:26`, `TcpConnection.cpp:27` and `40`);
- one vector whose readable part moves, grows and is reset (`Buffer.cpp:30`);
- shutdown: loops on the stacks of threads that another thread stops and joins
  (`EventLoopPool.cpp`).

`PROJECT.json` lists these hazards one by one, each at its line, with the
properties that cover it or the reason why none does yet.

## Modules

    FunctorQueue   <- EventLoop   <- EventLoopProofs
    ByteQueue      <- Buffer      <- BufferProofs
    SlotPool       <- TcpServer    <- TcpServerProofs
                      TcpConnection <- TcpConnectionProofs
                      EventLoopPool <- EventLoopPoolProofs
                      Acceptor      <- AcceptorProofs
                      IOWatcher     <- IOWatcherProofs
    StringSlice, IpAddress, Date   <- Values   <- ValuesProofs
    Endian         <- IpAddress

For each of the eight systems (the second column, and `Values`) a module `MC...`
instantiates it for TLC.

**FunctorQueue** is what a user of `runInLoop` may rely on: functors enter and
leave a queue one at a time.

**EventLoop** is one `EventLoop` object with the thread that runs it and any
number of others. An action is the code between two points where another thread
can look: `StartLoop`, `TestLooping` (`while (looping_)`), `HandleIOEvent`,
`TakeFunctors` (the swap under the mutex), `RunFunctor`, `BatchDone`; on other
threads `LockMutex`, `PushFunctor`, `WakeupAndUnlock` (the three steps of
`runInLoop`), `StopStore` and `StopWakeup`. `StopInLoop` is `stopLoop` from a
callback, `Destroy` the destructor. A functor is the number of its `push_back`.
`fault` records an assertion of the code that failed, after which nothing runs.
The callers' duties are guards: `startLoop` on a loop that is not looping,
`stopLoop` on one that is, destruction when no thread is inside a call.

**ByteQueue** is what a user of a `Buffer` may rely on: bytes come out in the
order in which they went in. **Buffer** is the vector and its two indices,
`ExpandBuffer` with its choice between moving the bytes and growing, and the
operations: `Write`, `Retrieve`, and `Receive` - the composite of `read(2)` into
`beginWrite()`, `hasWritten` and `expandBuffer` by which `handleReadEvent` uses
it. `peak`, `written` and `io` are history. A `retrieve` of more than is readable
is the caller's fault and has no step.

**TcpConnection** is one slot of a server with the threads that use it, the
kernel's end of the socket and the peer. Since handlers call the application and
the application calls `send` and `close`, the handlers and callbacks in progress
on the loop's thread form a `stack`; one action is the code between two calls, two
system calls or two points where another thread can look. `event` stands for
`ioEvent_`, `socket_` and `loop_`, which `bindSocket` sets and `reset` clears:
`"none"`, set (`"bound"`), set with the functor posted (`"created"`), registered
for input (`"reading"`), or for output too (`"writing"`). A server without threads
of its own binds on the loop (`BindSocketInLoop`); in one with threads (`pooled`)
the base loop's thread does it (`BindSocket`, `BindPost`) as soon as `reset` has
given the slot back, whatever handler of the last connection is still on the
stack: that handler then reads on from the new socket (`MessageReturns`), and a
callback that is assigned while it is executed may not survive it. The
application's own thread is `AppCheck` (`if (!socket_) return`), `AppPost`
(`loop_->runInLoop`, with the `loop_` of that moment) and the functors `RunSend`
and `RunClose`, which act on whatever connection they find. `functors` is the
loop's queue as far as it is about this slot.

`writeBuffer` is a plain sequence, which is what `Buffer` implements. Bytes are
pairs of the connection their sender means and the position in the stream, so that
a lost, repeated, reordered or misdirected byte shows. The kernel is `rcvQueue`,
`fin`, `rst`, `room`, and, for edge-triggered epoll, `ready` (the ready list) and
`starved` (a writer fell short and is to be told). `connectionCallback_` called by
`reset` can change nothing, since the socket is closed by then, and has no step.
Histories tell what the properties except: `stale` (a backlog was left in the
slot), `closedInside` (a callback still in progress closed the connection, or its
send did), `mixed` (a call meant for an earlier connection arrived). `fault` names
the place where a null pointer or an assertion stops the program.

**SlotPool** is what `newConnection` and `destroyConnection` rely on: a slot is
free or held, one changes hands at a time, and new ones appear only when none is
free. **TcpServer** is the slots of a server, `availIndex_` and `lock_`, with the
thread of the base loop (thread 0), which accepts, borrows and binds, and the
threads of `N >= 1` loops, which register connections, meet their end and return
the slots. `at` says where a thread stands between two points where another can
look: `BorrowCheck` is the test outside the lock, `Lock` the spin lock's
test-and-set that succeeds, `BorrowGrow`, `BorrowTake` and `ReturnConnection` the
three critical sections. A slot is `[loop, event, socket]`; the event goes from
created to registered to removed and back to null. Within `bindSocket` the fields
are set in one step, since `socket_` comes last; `ResetEvent` and `ResetSocket`
are two, for a reader on another thread. The functors of a loop are a FIFO, which
is what `EventLoop` implements; `bindSocket` posts to one and `RunBind` is its
functor. What a connection does between its registration and its end is
`TcpConnection`'s matter. `SharedSpec` adds an application that calls `close()`
from a thread of its own (`CloseCheck`, `ClosePost`, `RunClose`, `RunDestroy`).

**EventLoopPool** is the pool with its owner's thread and `N` threads. The owner
creates the threads, waits on `cond_` (`CheckLoops` evaluates the predicate and
either returns or falls asleep and releases `lock_`; `Register` or a spurious
wakeup ends the sleep), and in the destructor stops each loop (`StopLoop`,
`Wakeup`) and joins each thread. A thread constructs its loop, registers it, runs
it and, once it sees itself stopped, ends and takes the loop, which lives on its
stack, with it.

**Acceptor** is the acceptor on its loop's thread, one action per system call with
the tests of its result, with the kernel's queue of connections and the process's
descriptors, which other threads take (`OthersOpen`) and give back (`OthersClose`)
between any two of them. `accept` looks for a free descriptor (`EMFILE`) before it
looks at the queue (`EAGAIN`), so a full process spends its spare even when nobody
waits (`SpendSpare`, then `NothingToRefuse`). `deprived` is history: another
thread took the last descriptor while the acceptor was without its own. Without
the spare, `handleAccept` goes through accept, close and open until somebody gives
a descriptor back; the loop stands still meanwhile, and the properties except it.

**IOWatcher** is `handleIOEvent` with all events of a loop: the ready list of the
kernel, the batch that `epoll_wait` returns, `events_` with its size, and the
callbacks, which may send, close their own connection or another of the loop.
The ready list is a set, of which `epoll_wait` reports as many events as `events_`
has room for, in any order: that each is dispatched in the end rests on the growth
of `events_` alone and not on the order in which a kernel takes its list.
An event that is closed leaves the kernel's list at once, but not the batch: its
`data.ptr` dangles there (`DispatchDestroyed` sets `fault`). `othersClosed` says
that a callback of this batch closed an event further down in it, and
`CloseOthers` lets callbacks do that.

**StringSlice**, **Endian**, **IpAddress** and **Date** are operators, one per
function of the value classes: slices, the search with its table of borders,
integers as bytes of a host's order, the socket address of a port, the calendar.
`mktime` and `localtime_r` are external and modelled by the Gregorian calendar in a
zone without a change of clocks. A byte has `Radix` values, a minute `Sixty`
seconds and a second `Thousand` milliseconds, so that an instance can be small. A
loop of the code is a recursive function on its rounds: `done[i]`, `table[i]` and
`scan[i]` are what `split` and the two loops of `find` have after `i` of them, and
`from[k]` is where the fall back from a border of length `k` ends. **Values** calls
them: one step, one call, and its result.

Definitions marked "Variant" are not part of any specification: each is a
plausible mistake in the definition that follows it, and shows that the property
named in `PROJECT.json` ("mutants") depends on that code.

## Runs

| Run | Shows | Bounds |
|---|---|---|
| `EventLoop_loop` | `BatchFinished`, refinement of `FunctorQueue`; `EveryFunctorRuns`, `LastTurnIsComplete`, `StopEndsLoop` | 3 threads besides the loop, 4 functors: a batch of several, a push during the swap, during a batch and after a stop, two threads waiting for the mutex |
| `Buffer_queue` | `BoundedMemory`, `RoomToRead`, refinement of `ByteQueue` | vector of 2, room 2, up to 3 bytes at once and in the buffer: all boundaries of `expandBuffer` are met, and it grows more than once |
| `TcpConnection_slot` | `OutputInOrder`, `BacklogIsAwaited`, `CompleteWhenDrained`, `ConnectionCallbackFirst`, `FaultNeedsCallback`, `EveryByteRead`, `EndedConnectionCloses`, and, level-triggered, `BacklogDrainsLT` | servers with and without threads, both modes, closes from every callback and thread, resets, two connections on the slot, 2 bytes sent on the loop's thread and up to 2 by another into a kernel buffer of 1 (partial writes, messages behind a backlog of several), 2 bytes arriving, stack of 3, one call by the application's own thread, begun and ended anywhere |
| `TcpServer_slots` | `AssertionsHold`, `RoundRobin`, refinement of `SlotPool`; `EveryConnectionServed` | 2 loops, 4 connections, slots created one at a time instead of 200: the pool is empty again and again, and grows while slots come back |
| `EventLoopPool_start` | `LoopsSettled`, `FaultNeedsEarlyStop`, `NothingLeftRunning`; `StartReturns`, `DestroyEnds` | 3 threads, 2 spurious wakeups: several threads in each stage, registrations before, during and after the owner's sleep |
| `Acceptor_accept` | `DescriptorsAccounted`, `SpareKept`; `EveryClientAnswered`, `HandleAcceptReturns` | both modes, 4 descriptors of which others may hold any number at first, 4 clients, 2 opens by others, 2 other failures: out of descriptors with a full and an empty queue, several refusals in one call, the spare lost between any two system calls |
| `IOWatcher_batches` | `DanglingNeedsOther`; `EveryEventDispatched` | both modes, 3 events, room for 1 at first (16 in the code), so that `events_` is full and grows twice; 2 arrivals or hang-ups, sends that fall short, closes of any event from any callback |
| `Values_results` | `FindIsFirst`, `OnlyDelimitersLost`, `IntegersArrive`, `CalendarAgrees` | all texts of up to 6 and patterns of up to 4 of 2 characters: patterns with borders of every length they can have; integers of 1 to 3 bytes of 4 values, all of them, between hosts of both orders; all ports of 2 such bytes; years 1998-2006 and 2098-2103 (a century that is a leap year and one that is not), months 0-12 and a year added, the days at the ends of months, February 29 among them; time stamps around midnight |

All but `EventLoop_loop`, `TcpConnection_slot` and `Values_results` check their
module's type invariant too; that of `EventLoop` and of `TcpConnection` is proved.
Four more show that the code does not do what its comments, assertions or tests say:

| Run | The code |
|---|---|
| `EventLoop_WakeupArrives` | `wakeup()` *reads* from the pair it should write to: nothing wakes a blocked loop, which finds its functors when the 1000 ms are over |
| `TcpConnection_HandlerHasEvent` | `close()` in `messageCallback_` leaves `handleReadEvent` with a null `ioEvent_` at its `while` |
| `TcpConnection_BacklogDrains` | edge-triggered, a report of input *and* room calls the read handler only, and the notice of room is gone |
| `TcpServer_AssertionsHold` | `close()` on another thread tests `socket_`, the loop's thread resets the connection, and `assert(loop_)` fails |

Other behaviour the models show without a run of its own: a loop that was never
started fails `assert(inEpoll_)` when destroyed, and one that is started twice
`assert(events_ == 0)` (`fault` in `Destroy` and `StartLoop` of `EventLoop`); the
destructor of the pool fails on a loop that is registered and not yet started, and
uses a loop that has ended if its thread is done between the store to `looping_` and
`wakeup` (`fault` in `StopLoop` and `Wakeup` of `EventLoopPool`: `DestroyEnds`
excepts both, `FaultNeedsEarlyStop` says that there is no third way); the
write buffer of a closed connection is sent to the next peer of its slot (`stale`
in `TcpConnection`: `OutputInOrder` allows foreign bytes there); a `send` or `close`
of another thread may reach the slot's next connection, even before it is
registered (`mixed`, with the faults `enableIOWriting` and `removeIOEvent`), or find
no `loop_` (`runInLoop`); a callback that closes another
connection leaves a dangling pointer in the batch (`DanglingNeedsOther`).

Deadlock is not checked: each of these systems may stop (a loop is destroyed, a
process has aborted, the bounds are used up).

## Fairness

`EventLoop`: weak fairness of the loop's thread and of every thread inside a
call. That `HandleIOEvent` is always enabled at "poll" is the timeout of 1000 ms;
the variant without it breaks `EveryFunctorRuns` and `StopEndsLoop`, because
`wakeup` wakes nobody. Weak fairness is enough for the mutex since `MaxPosts`
bounds how often others can take it. Functors and callbacks are assumed to
return. Nobody has to start, stop or post.

`TcpConnection`: weak fairness of the loop's thread - its handlers proceed,
callbacks return, and `epoll_wait` returns when something is ready -, of the base
loop's thread inside `bindSocket`, and of a peer that reads what the kernel holds for
it. Nobody has to connect, send, close or reset, and the application's own thread may
stop inside its call. `MaxArrived` is a
premise of `BacklogDrains`: with a peer that never stops sending, input goes
before output in each report and a backlog may starve.

`TcpServer`: weak fairness of the base loop's thread and of each loop's: they
take `lock_` when it is free, and run what is posted. Nobody has to connect and
no connection has to end. Weak fairness is enough for the spin lock because
`MaxConnections` bounds how often the others can take it.

`Acceptor`: weak fairness of the loop's thread, in `epoll_wait` and in
`handleAccept`. Nobody has to connect, to end a connection or to give back a
descriptor. `MaxErrors` bounds the failures other than `EMFILE` and `EAGAIN`, after
each of which the code calls `accept` again.

`IOWatcher`: weak fairness of `handleIOEvent`, whose callbacks return. Nothing has
to arrive.

`EventLoopPool`: weak fairness of the owner inside `start` and the destructor
and of each thread. Spurious wakeups are bounded by `MaxSpurious`: an unbounded
run of them could keep `lock_` from a thread for good. Nobody has to start or
destroy the pool.

## Proofs

**EventLoopProofs**, for every set of threads, bound and mode. The inductive
invariant is `TypeOK`, `InOrder`, `BatchFinished`, `MutexHeld` and
`PostAdmitted`, which says that the thread that holds the mutex was let in with
`posted < MaxPosts` and still sees it. `InOrder` is not inductive without
`BatchFinished`: the swap overwrites the local vector, and loses nothing only
because it is empty then; nor without `MutexHeld`: a push must see the vector
the swap leaves. `Implementation` maps each step to one of `FunctorQueue` or to a
stutter.

**BufferProofs**, for every initial size, room and bound. Lemmas state what
`ExpandBuffer`, `Store` and `Retrieved` do to a valid buffer: its contents, its
indices and the length of its vector. The inductive invariant is `TypeOK`,
`BoundedMemory`, `EmptyIsReset`, `RoomToRead` and `PeakCovers` (what is readable
is at most `peak`), which ties the length of the vector, bounded by what it held
when it grew, to the history. `Implementation` is the refinement of `ByteQueue`.

**TcpServerProofs**, for every number of loops, growth of the pool and number of
connections. The inductive invariant says who has a slot: `availIndex_`
(`OutOfHand`), a thread between `borrowConnection` and `bindSocket` or between
the connection's end and `returnConnection` (`HandsOn`, `InHand`), or a
connection that its loop will register or has registered (`OutOfHand`,
`FunctorsFresh`). Since the slot of each is in a different state, no assertion of
`bindSocket`, `reset` or `newConnection` can fail (`NoAssertionFails`).
`SomeAvailable` carries the test outside the lock (`TcpServer.cpp:46`) to the
removal under it: between the two others only give slots back. `Implementation`
refines `SlotPool`; `DealtInTurn` needs one invariant more, that `next_` is the
number of connections dealt out modulo `N`.

**EventLoopPoolProofs**, for every number of threads. The inductive invariant says
what `loops_` lists (`Listed`: the threads that have registered, each once), whom
the owner finds at each of its stages (`Stages`), and which loops have been told
to stop (`Running`). The owner returns from `start` when `Len(loops) = N`; that
this means *every* thread is a counting argument (`Full`): an injection of `N`
positions into `N` threads is onto. Since `Running` says that a loop ends only after it
was told, the destructor finds none of those still to be stopped gone, and only one
that has not started may fail its assertion (`OnlyEarlyStopFails`). From there on no thread is at its
`emplace_back`, so `loops_` may be read without its lock (`LoopsAreSettled`).

**AcceptorProofs**, for every number of descriptors, clients and bounds. The
inductive invariant is `TypeOK`, `DescriptorsAccounted`, `SpareKept` strengthened to
every stage of `handleAccept` (`SpareWithin`: where the spare is gone, a descriptor
is free or `idleFd_` holds a connection to refuse, unless the acceptor was
deprived), `HandsEmpty` (what `idleFd_` may refer to at each stage) and
`QueueArrived`.

**TcpConnectionProofs**, for both modes, servers with and without threads, every
placement of the application's closes, every size of the kernel's buffer and
every bound. The inductive invariant has five parts:

- `TypeOK` and `Counted`: what was sent on a connection is within the loop's own
  bound and that of the calls of other threads that no longer wait (`Waiting`),
  which bounds `sent`.
- `Posts`: the functor of `bindSocket` is in the queue exactly while the event is
  `"created"`, and once (`BindPending`); no call means a connection later than the
  one the application has been told of (`CallsKnown`), so that a `send` cannot come
  before its `connectionCallback_` unless it was meant for another (`mixed`).
- `Slot`: which stacks there are (`Stacked`: only `writeCompleteCallback_` is called
  on top of something, and `handleWriteEvent` begins alone, with an event that waits
  for room), that such an event has a backlog (`HasBacklog`), and what may be in
  progress on a slot that is not registered (`Orphaned`): a handler whose connection
  a callback closed, one that a misdirected functor called, or `handleWriteEvent`
  after a failed write, which still sees its backlog and so does not touch the event.
  `FaultNeedsCallback` and `BacklogIsAwaited` are not inductive without these.
- `Order`: `OutputInOrder`, with `OwnGone` (as long as no backlog is awaited, what is in
  the write buffer is an earlier connection's) and `Kept` (no byte is of a
  connection to come). A send that writes before a backlog would break the order;
  `OwnGone` says why there is none to break when `isWriting_` is false.

Lemmas state what a write of some length does to the bytes of a connection
(`Moved`, `PutBehind`, `PutAround`), with positions in place of a filter of the
sequence.

**IOWatcherProofs**, for any events and any first length of `events_`. The inductive
invariant is `TypeOK`, `Counted`, `Idle`, `DanglingNeedsOther` and three facts about
who is where: the kernel lists only registered events (`ReadyRegistered`), a batch
has each event once (`Distinct`), and what waits in it is registered unless a
callback has closed another event than its own (`Present`). `Distinct` is why a
callback may close its own connection: no second report of it waits.
`OwnClosesAreSafe` draws the conclusion: as long as callbacks close no connection
but their own, no destroyed event is ever dispatched.

**ValuesProofs** has no induction over steps, since a call is one step; what it needs
is induction over data. A set of natural numbers that is not empty has a least
element (`LeastNatural`, from the well-foundedness of `<`), which gives induction up
to a bound for any set (`Induction`, `Descent`) without an induction scheme. A loop is
a recursive function on its rounds; its invariant is a family of sets, `S[i]`
for what it may have after `i` rounds. `LoopExists` shows that the recursion has
a solution if the rounds lead from set to set, `LoopInvariant` that every solution
stays in them. With these:

- The integers (`IntegersCorrect`), for every even radix up to 256, which is the
  code's, and any widths up to eight bytes. The first `n` digits of a number
  sum up to less than the `n`-th power (`SumBounded`), so that division gives back each
  (`DigitsOfSum`), and a number is the sum of its digits (`SumOfDigits`). A host's memory
  is these digits in one order or the other; `hostToNetwork` leaves the most
  significant first on both (`HostToNetworkIs`), on which `ReadWritten` and the port
  and address of `IpAddress` (`AddressIsRight`) rest.
- The search (`FindIs`, `SearchCorrect`), for every text and pattern. `Stands(t, p, i, j)`
  says that the first `j` characters of `p` end at character `i` of `t`; a border of
  a prefix of `p` is what stands in `p` itself, shifted by one. What stands shorter
  is a border of what stands longer (`Overlap`), and conversely (`Transitive`), so falling
  back from the longest that stands at `i` along longest borders meets everything
  that could grow (`ExtendLongest`). The same lemma serves both loops: the first keeps
  a table of longest borders (`TableDefined`), the second the longest beginning
  of the pattern and that no match has ended (`RoundFinds`).
- `split` and `trim` (`SplitIs`, `DivisionCorrect`), for every text: after `i` characters the
  pieces, with a delimiter after each, make the text up to `begin`, and no
  delimiter has been met since (`Pieces`).
- The calendar, for any years, any number of seconds to a minute and minutes to an
  hour, any milliseconds to a second. `localtime_r` is modelled as the choice of the
  date whose day has the right number; the months of the Gregorian calendar follow
  each other without gap or overlap (`MonthsOrdered`), so the choice is unique, and a
  `Date` made of fields has those fields (`NormalisedDate`). From it follow `MonthsAdded`,
  for every integer number of months, `YearAdded`, since a year is twelve months and
  only February loses a day by it, and `CalendarCorrect`.

`InOrder`, `MutexHeld`, `EmptyIsReset`, `LockExclusive`, `StartWaitsForAll` and the
`TypeOK` of `EventLoop` and `TcpConnection` are theorems that no run lists: they are steps of the arguments above, and what depends
on them (`ImplementsQueue`, `BoundedMemory`, `ImplementsPool`, `LoopsSettled`) is
checked.

The assumptions are those on the constants (`LoopAssumption`, `BufferAssumption`,
`ServerAssumption`, `PoolAssumption`, `AcceptorAssumption`, `ConnectionAssumption`,
`WatcherAssumption`, `DateAssumption`, `EndianAssumption`, `ValuesAssumption`), which TLC
evaluates on every run of their modules.

Only model-checked:

- the liveness properties, which are outside the prover's reach;
- `SharedSpec`, under which `AssertionsHold` does not hold.

## Not modelled

- A slot whose next connection goes to another loop while a handler of the last
  one is still in progress: in `TcpConnection` both are on the same loop, and
  `TcpServer` ends a handler with `ReturnConnection`. With two loops the two threads
  would use one slot at once; the same mistake of the application opens the way
  to it (`closedInside`).
- `bindSocket` and `reset` are one step each in `TcpConnection` although they set
  and clear several fields (`TcpServer` has two for `reset`): `socket_`, which
  callers test, is set last, and `loop_`, which they use, is cleared first, so a
  caller in between fares as one before `reset`.
- `TcpServer::start`, which calls `listen`, the pool's `start` and `startLoop`. With
  threads it never returns: `loop_` is private and no connection has it. Without,
  a callback may stop the base loop through `getLoop()`, and the slots, destroyed
  with the server, assert that no connection is open.
- `removeThisEvent` and `reset` destroy the `std::function` that is being
  executed when a handler closes its own connection. The handlers do not use
  the captures after that, except where `HandlerHasEvent` says so.
- `retrieve(void *, size_t)` of `Buffer`, which drops the bytes twice; nothing
  under `src/` calls it.
- `write` of a slice of the buffer itself, whose bytes `expandBuffer` moves or frees
  before they are copied (`Buffer.cpp:8`): nothing under `src/` does it.
- The current time, the layout of texts, the range of `int64_t`, changes of clocks.
- The branches for platforms other than Linux.
- Sends of no bytes; the contents of messages to users, logging, and the addresses
  connections carry (`IpAddress` stands alone, in `Values`).
- A failed `epoll_ctl` or `socketpair`, on which the library aborts.

## Plan

Done: `EventLoop`, `Buffer`, `TcpConnection` with its three threads, `TcpServer`,
`EventLoopPool`, `Acceptor`, `IOWatcher`, the value classes.

Their safety is proved: every invariant, action property and refinement that a
passing run checks is a theorem, and what is left to TLC is liveness.

To come: two loops in `TcpConnection`, with a stack for each.
