-------------------------- MODULE EventLoopPoolProofs --------------------------
(***************************************************************************)
(* Theorems about EventLoopPool, for every number of threads.  The          *)
(* inductive invariant says what loops_ lists, what the owner may assume of  *)
(* the threads at each stage of start and of the destructor, and which of   *)
(* the loops have been told to stop.                                        *)
(***************************************************************************)
EXTENDS EventLoopPool, FiniteSetTheorems, TLAPS

\* The thread has put its loop into loops_.
Registered(t) == at[t] \in {"registered", "looping", "ended"}

\* loops_ lists the threads that have registered, each once.
Listed ==
  /\ \A i \in 1 .. Len(loops) : Registered(loops[i])
  /\ \A t \in Threads : Registered(t) => \E i \in 1 .. Len(loops) : loops[i] = t
  /\ \A i, j \in 1 .. Len(loops) : loops[i] = loops[j] => i = j

\* Whom the owner finds: nobody before start, the threads it has created during
\* start, all of them at work after it; in the destructor of a pool that was
\* never started, nobody.
Stages ==
  /\ owner = "new" => index = 0 /\ \A t \in Threads : at[t] = "none"
  /\ owner = "create" => \A t \in Threads : at[t] = "none" <=> t > index
  /\ owner \in {"check", "asleep", "awake"} => \A t \in Threads : at[t] # "none"
  /\ owner = "started" => \A t \in Threads : Registered(t)
  /\ owner \in {"stop", "wake", "join", "done"} =>
       \/ \A t \in Threads : at[t] = "none"
       \/ \A t \in Threads : Registered(t)

\* How many loops have been stopped.
Told == CASE owner = "stop" -> index
          [] owner = "wake" -> index + 1
          [] owner \in {"join", "done"} -> Len(loops)
          [] OTHER -> 0

\* A loop that has not been told to stop has looping_ set as soon as its thread
\* is inside startLoop; one that was told never has it again.
Running ==
  /\ Told <= Len(loops)
  /\ \A t \in Threads : looping[t] => Registered(t)
  /\ \A i \in 1 .. Len(loops) :
       IF i <= Told
         THEN at[loops[i]] \in {"looping", "ended"} /\ ~looping[loops[i]]
         ELSE /\ at[loops[i]] \in {"registered", "looping"}
              /\ looping[loops[i]] <=> at[loops[i]] = "looping"

\* The threads joined so far have ended.
Joined == owner = "join" => \A t \in 1 .. index : at[t] = "ended"

\* The inductive invariant.
IInv ==
  /\ TypeOK /\ LockExclusive /\ Listed /\ Stages /\ Running /\ Joined
  /\ StartWaitsForAll /\ OnlyEarlyStop /\ NothingLeftRunning

-----------------------------------------------------------------------------
(* Counting.                                                                *)

\* loops_ has room for every thread, and is full only when all have registered:
\* an injection of the positions into threads as many as they.
LEMMA Full ==
  ASSUME TypeOK, Listed
  PROVE  /\ Len(loops) <= N
         /\ Len(loops) = N =>
              \A t \in Threads : Registered(t) /\ \E i \in 1 .. N : loops[i] = t
<1> DEFINE n == Len(loops)
<1>1. n \in Nat /\ loops \in [1 .. n -> Threads]
  BY DEF TypeOK
<1>2. loops \in Injection(1 .. n, Threads)
  BY <1>1 DEF Listed, Injection, IsInjective
<1>3. /\ IsFiniteSet(Threads) /\ Cardinality(Threads) = N
      /\ Cardinality(1 .. n) = n
  <2>1. 1 \in Int /\ N \in Int /\ n \in Int /\ n >= 0 /\ N >= 0
    BY <1>1, PoolAssumption
  <2>2. /\ IsFiniteSet(1 .. N)
        /\ Cardinality(1 .. N) = IF 1 > N THEN 0 ELSE N - 1 + 1
        /\ Cardinality(1 .. n) = IF 1 > n THEN 0 ELSE n - 1 + 1
    BY <2>1, FS_Interval
  <2> QED
    BY <2>1, <2>2 DEF Threads
<1>4. n <= N /\ (n = N => loops \in Surjection(1 .. n, Threads))
  BY <1>2, <1>3, FS_Injection
<1> QED
  BY <1>1, <1>4 DEF Listed, Surjection

\* threads_ is empty or complete.
LEMMA CreatedSize ==
  /\ (\A t \in Threads : at[t] = "none") => Cardinality(Created) = 0
  /\ (\A t \in Threads : at[t] # "none") => Cardinality(Created) = N
<1>1. (\A t \in Threads : at[t] = "none") => Created = {}
  BY DEF Created
<1>2. (\A t \in Threads : at[t] # "none") => Created = 1 .. N
  BY DEF Created, Threads
<1>3. Cardinality(1 .. N) = N
  <2>1. 1 \in Int /\ N \in Int /\ N >= 0
    BY PoolAssumption
  <2>2. Cardinality(1 .. N) = IF 1 > N THEN 0 ELSE N - 1 + 1
    BY <2>1, FS_Interval
  <2> QED
    BY <2>1, <2>2
<1> QED
  BY <1>1, <1>2, <1>3, FS_EmptySet

-----------------------------------------------------------------------------
(* One lemma per action.                                                    *)

LEMMA InitIInv == Init => IInv
<1> SUFFICES ASSUME Init PROVE IInv
  OBVIOUS
<1>1. TypeOK
  BY PoolAssumption DEF TypeOK, Init
<1>2. LockExclusive
  BY DEF LockExclusive, Init, Owner, NoThread
<1>3. Listed
  BY DEF Listed, Registered, Init
<1>4. Stages
  BY DEF Stages, Init
<1>5. Running
  BY DEF Running, Told, Init
<1>6. Joined
  BY DEF Joined, Init
<1>7. StartWaitsForAll
  BY DEF StartWaitsForAll, Init
<1>8. OnlyEarlyStop
  BY DEF OnlyEarlyStop, Init
<1>9. NothingLeftRunning
  BY DEF NothingLeftRunning, Init
<1> QED
  BY <1>1, <1>2, <1>3, <1>4, <1>5, <1>6, <1>7, <1>8, <1>9 DEF IInv

\* Nothing has been created yet.
LEMMA StartKeeps ==
  ASSUME IInv, fault = "none", Start
  PROVE  IInv'
<1>1. TypeOK'
  BY DEF IInv, TypeOK, Start
<1>2. LockExclusive'
  BY DEF IInv, LockExclusive, Start
<1>3. Listed'
  BY DEF IInv, Listed, Registered, Start
<1>4. Stages'
  BY DEF IInv, TypeOK, Stages, Start
<1>5. Running'
  BY DEF IInv, Running, Listed, Told, Stages, Start
<1>6. Joined'
  BY DEF Joined, Start
<1>7. StartWaitsForAll'
  BY DEF StartWaitsForAll, Start
<1>8. OnlyEarlyStop'
  BY DEF OnlyEarlyStop, Start
<1>9. NothingLeftRunning'
  BY DEF NothingLeftRunning, Start
<1> QED
  BY <1>1, <1>2, <1>3, <1>4, <1>5, <1>6, <1>7, <1>8, <1>9 DEF IInv

\* The owner wakes early.
LEMMA SpuriousWakeupKeeps ==
  ASSUME IInv, fault = "none", SpuriousWakeup
  PROVE  IInv'
<1>1. TypeOK'
  BY PoolAssumption DEF IInv, TypeOK, SpuriousWakeup
<1>2. LockExclusive'
  BY DEF IInv, LockExclusive, SpuriousWakeup
<1>3. Listed'
  BY DEF IInv, Listed, Registered, SpuriousWakeup
<1>4. Stages'
  BY DEF IInv, Stages, SpuriousWakeup
<1>5. Running'
  BY DEF IInv, Running, Told, Registered, SpuriousWakeup
<1>6. Joined'
  BY DEF Joined, SpuriousWakeup
<1>7. StartWaitsForAll'
  BY DEF StartWaitsForAll, SpuriousWakeup
<1>8. OnlyEarlyStop'
  BY DEF OnlyEarlyStop, SpuriousWakeup
<1>9. NothingLeftRunning'
  BY DEF NothingLeftRunning, SpuriousWakeup
<1> QED
  BY <1>1, <1>2, <1>3, <1>4, <1>5, <1>6, <1>7, <1>8, <1>9 DEF IInv

\* No loop has been told yet.
LEMMA DestroyKeeps ==
  ASSUME IInv, fault = "none", Destroy
  PROVE  IInv'
<1>1. TypeOK'
  BY PoolAssumption DEF IInv, TypeOK, Destroy
<1>2. LockExclusive'
  BY DEF IInv, LockExclusive, Destroy
<1>3. Listed'
  BY DEF IInv, Listed, Registered, Destroy
<1>4. Stages'
  BY DEF IInv, Stages, Registered, Destroy
<1>5. Running'
  BY DEF IInv, Running, Told, Registered, Destroy
<1>6. Joined'
  BY DEF Joined, Destroy
<1>7. StartWaitsForAll'
  BY DEF StartWaitsForAll, Destroy
<1>8. OnlyEarlyStop'
  BY DEF OnlyEarlyStop, Destroy
<1>9. NothingLeftRunning'
  BY DEF NothingLeftRunning, Destroy
<1> QED
  BY <1>1, <1>2, <1>3, <1>4, <1>5, <1>6, <1>7, <1>8, <1>9 DEF IInv

\* The threads up to index exist.
LEMMA CreateThreadKeeps ==
  ASSUME IInv, fault = "none", CreateThread
  PROVE  IInv'
<1>1. TypeOK'
  <2>1. index \in Nat /\ N \in Nat /\ index < N
    BY PoolAssumption DEF IInv, TypeOK, CreateThread
  <2>2. index + 1 \in 0 .. N
    BY <2>1
  <2> QED
    BY <2>2 DEF IInv, TypeOK, CreateThread
<1>2. LockExclusive'
  BY DEF IInv, TypeOK, LockExclusive, Stages, CreateThread
<1>3. Listed'
  BY DEF IInv, TypeOK, Listed, Registered, Stages, CreateThread
<1>4. Stages'
  BY SMTT(30) DEF IInv, TypeOK, Stages, CreateThread
<1>5. Running'
  BY DEF IInv, TypeOK, Running, Told, Registered, Stages, CreateThread
<1>6. Joined'
  BY DEF Joined, CreateThread
<1>7. StartWaitsForAll'
  BY DEF StartWaitsForAll, CreateThread
<1>8. OnlyEarlyStop'
  BY DEF OnlyEarlyStop, CreateThread
<1>9. NothingLeftRunning'
  BY DEF NothingLeftRunning, CreateThread
<1> QED
  BY <1>1, <1>2, <1>3, <1>4, <1>5, <1>6, <1>7, <1>8, <1>9 DEF IInv

\* All threads have been created.
LEMMA OwnerLockKeeps ==
  ASSUME IInv, fault = "none", OwnerLock
  PROVE  IInv'
<1>1. TypeOK'
  BY DEF IInv, TypeOK, OwnerLock
<1>2. LockExclusive'
  BY DEF IInv, TypeOK, LockExclusive, Owner, NoThread, OwnerLock
<1>3. Listed'
  BY DEF IInv, Listed, Registered, OwnerLock
<1>4. Stages'
  <2>1. owner = "create" => \A t \in Threads : at[t] # "none"
    BY DEF IInv, TypeOK, Stages, OwnerLock, Threads
  <2> QED
    BY <2>1 DEF IInv, Stages, OwnerLock
<1>5. Running'
  BY DEF IInv, Running, Told, Registered, Stages, OwnerLock
<1>6. Joined'
  BY DEF Joined, OwnerLock
<1>7. StartWaitsForAll'
  BY DEF StartWaitsForAll, OwnerLock
<1>8. OnlyEarlyStop'
  BY DEF IInv, TypeOK, OnlyEarlyStop, Running, OwnerLock
<1>9. NothingLeftRunning'
  BY DEF NothingLeftRunning, OwnerLock
<1> QED
  BY <1>1, <1>2, <1>3, <1>4, <1>5, <1>6, <1>7, <1>8, <1>9 DEF IInv

\* A full loops_ lists every thread (Full).
LEMMA CheckLoopsKeeps ==
  ASSUME IInv, fault = "none", CheckLoops
  PROVE  IInv'
<1>1. TypeOK'
  BY DEF IInv, TypeOK, CheckLoops
<1>2. LockExclusive'
  BY DEF IInv, TypeOK, LockExclusive, Owner, NoThread, CheckLoops
<1>3. Listed'
  BY DEF IInv, Listed, Registered, CheckLoops
<1>4. Stages'
  <2>1. Len(loops) = N => \A t \in Threads : Registered(t)
    BY Full DEF IInv
  <2> QED
    BY <2>1 DEF IInv, Stages, Registered, CheckLoops
<1>5. Running'
  BY DEF IInv, Running, Told, Registered, CheckLoops
<1>6. Joined'
  BY DEF Joined, CheckLoops
<1>7. StartWaitsForAll'
  BY Full DEF IInv, StartWaitsForAll, CheckLoops
<1>8. OnlyEarlyStop'
  BY DEF OnlyEarlyStop, CheckLoops
<1>9. NothingLeftRunning'
  BY DEF NothingLeftRunning, CheckLoops
<1> QED
  BY <1>1, <1>2, <1>3, <1>4, <1>5, <1>6, <1>7, <1>8, <1>9 DEF IInv

\* looping_ is clear only if the thread has not entered startLoop.
LEMMA StopLoopKeeps ==
  ASSUME IInv, fault = "none", StopLoop
  PROVE  IInv'
<1>1. TypeOK'
  BY DEF IInv, TypeOK, StopLoop
<1>2. LockExclusive'
  BY DEF IInv, LockExclusive, StopLoop
<1>3. Listed'
  BY DEF IInv, Listed, Registered, StopLoop
<1>4. Stages'
  BY DEF IInv, Stages, Registered, StopLoop
<1>5. Running'
  BY SMTT(30) DEF IInv, TypeOK, Running, Listed, Told, Registered, StopLoop
<1>6. Joined'
  BY DEF Joined, StopLoop
<1>7. StartWaitsForAll'
  BY DEF StartWaitsForAll, StopLoop
<1>8. OnlyEarlyStop'
  BY DEF IInv, TypeOK, OnlyEarlyStop, Running, Told, StopLoop
<1>9. NothingLeftRunning'
  BY DEF NothingLeftRunning, StopLoop
<1> QED
  BY <1>1, <1>2, <1>3, <1>4, <1>5, <1>6, <1>7, <1>8, <1>9 DEF IInv

\* One more loop has been told.
LEMMA WakeupKeeps ==
  ASSUME IInv, fault = "none", Wakeup
  PROVE  IInv'
<1>1. TypeOK'
  <2>1. index \in Nat /\ N \in Nat /\ Len(loops) \in Nat
    BY PoolAssumption DEF IInv, TypeOK
  <2>2. index + 1 <= Len(loops)
    BY DEF IInv, Running, Told, Wakeup
  <2>3. index + 1 <= N
    BY <2>1, <2>2, Full DEF IInv
  <2>4. index + 1 \in 0 .. N
    BY <2>1, <2>3
  <2> QED
    BY <2>4 DEF IInv, TypeOK, Wakeup
<1>2. LockExclusive'
  BY DEF IInv, LockExclusive, Owner, Wakeup
<1>3. Listed'
  BY DEF IInv, Listed, Registered, Wakeup
<1>4. Stages'
  BY DEF IInv, TypeOK, Stages, Registered, Wakeup
<1>5. Running'
  BY DEF IInv, Running, Told, Registered, Wakeup
<1>6. Joined'
  BY DEF Joined, Wakeup
<1>7. StartWaitsForAll'
  BY DEF StartWaitsForAll, Wakeup
<1>8. OnlyEarlyStop'
  BY DEF OnlyEarlyStop, Listed, Wakeup
<1>9. NothingLeftRunning'
  BY DEF NothingLeftRunning, Wakeup
<1> QED
  BY <1>1, <1>2, <1>3, <1>4, <1>5, <1>6, <1>7, <1>8, <1>9 DEF IInv

\* All loops have been told.
LEMMA StopsDoneKeeps ==
  ASSUME IInv, fault = "none", StopsDone
  PROVE  IInv'
<1>1. TypeOK'
  BY PoolAssumption DEF IInv, TypeOK, StopsDone
<1>2. LockExclusive'
  BY DEF IInv, LockExclusive, StopsDone
<1>3. Listed'
  BY DEF IInv, Listed, Registered, StopsDone
<1>4. Stages'
  BY DEF IInv, Stages, Registered, StopsDone
<1>5. Running'
  BY DEF IInv, Running, Listed, Told, StopsDone
<1>6. Joined'
  BY DEF Joined, StopsDone
<1>7. StartWaitsForAll'
  BY DEF StartWaitsForAll, StopsDone
<1>8. OnlyEarlyStop'
  BY DEF OnlyEarlyStop, StopsDone
<1>9. NothingLeftRunning'
  BY DEF NothingLeftRunning, StopsDone
<1> QED
  BY <1>1, <1>2, <1>3, <1>4, <1>5, <1>6, <1>7, <1>8, <1>9 DEF IInv

\* threads_ is empty or complete (CreatedSize).
LEMMA JoinKeeps ==
  ASSUME IInv, fault = "none", Join
  PROVE  IInv'
<1>1. TypeOK'
  <2>1. index \in Nat /\ N \in Nat
    BY PoolAssumption DEF IInv, TypeOK
  <2>2. Cardinality(Created) \in {0, N}
    BY CreatedSize DEF IInv, Stages, Registered, Join
  <2>3. index < Cardinality(Created) => index + 1 \in 0 .. N
    BY <2>1, <2>2
  <2> QED
    BY <2>3 DEF IInv, TypeOK, Join
<1>2. LockExclusive'
  BY DEF IInv, LockExclusive, Join
<1>3. Listed'
  BY DEF IInv, Listed, Registered, Join
<1>4. Stages'
  BY DEF IInv, Stages, Registered, Join
<1>5. Running'
  BY DEF IInv, Running, Listed, Told, Join
<1>6. Joined'
  BY DEF IInv, TypeOK, Joined, Join
<1>7. StartWaitsForAll'
  BY DEF StartWaitsForAll, Join
<1>8. OnlyEarlyStop'
  BY DEF OnlyEarlyStop, Join
<1>9. NothingLeftRunning'
  <2>1. CASE \A t \in Threads : at[t] = "none"
    BY <2>1 DEF NothingLeftRunning, Join
  <2>2. CASE \A t \in Threads : Registered(t)
    <3>1. Cardinality(Created) = N
      BY <2>2, CreatedSize DEF Registered
    <3>2. index \in 0 .. N /\ N \in Nat
      BY PoolAssumption DEF IInv, TypeOK
    <3>3. index >= N => \A t \in Threads : at[t] = "ended"
      BY <3>2 DEF IInv, Joined, Join, Threads
    <3> QED
      BY <3>1, <3>2, <3>3 DEF NothingLeftRunning, Join
  <2> QED
    BY <2>1, <2>2 DEF IInv, Stages, Join
<1> QED
  BY <1>1, <1>2, <1>3, <1>4, <1>5, <1>6, <1>7, <1>8, <1>9 DEF IInv

\* lock_ changes hands when it is free.
LEMMA ConstructAndLockKeeps ==
  ASSUME IInv, fault = "none", NEW t \in Threads, ConstructAndLock(t)
  PROVE  IInv'
<1>1. TypeOK'
  BY DEF IInv, TypeOK, ConstructAndLock
<1>2. LockExclusive'
  BY DEF IInv, TypeOK, LockExclusive, Owner, NoThread, ConstructAndLock
<1>3. Listed'
  BY DEF IInv, Listed, Registered, ConstructAndLock
<1>4. Stages'
  BY DEF IInv, Stages, Registered, ConstructAndLock
<1>5. Running'
  BY DEF IInv, Running, Told, Registered, ConstructAndLock
<1>6. Joined'
  BY DEF IInv, Joined, ConstructAndLock
<1>7. StartWaitsForAll'
  BY DEF IInv, StartWaitsForAll, ConstructAndLock
<1>8. OnlyEarlyStop'
  BY DEF OnlyEarlyStop, ConstructAndLock
<1>9. NothingLeftRunning'
  BY DEF IInv, NothingLeftRunning, ConstructAndLock
<1> QED
  BY <1>1, <1>2, <1>3, <1>4, <1>5, <1>6, <1>7, <1>8, <1>9 DEF IInv

\* A thread registers once, before start returns.
LEMMA RegisterKeeps ==
  ASSUME IInv, fault = "none", NEW t \in Threads, Register(t)
  PROVE  IInv'
<1>1. TypeOK'
  BY DEF IInv, TypeOK, Register
<1>2. LockExclusive'
  BY DEF IInv, TypeOK, LockExclusive, Threads, Owner, NoThread, Register
<1>3. Listed'
  BY DEF IInv, TypeOK, Listed, Registered, Register
<1>4. Stages'
  BY DEF IInv, Stages, Registered, Register
<1>5. Running'
  BY DEF IInv, TypeOK, Running, Told, Registered, Stages, Register
<1>6. Joined'
  BY DEF IInv, Joined, Register
<1>7. StartWaitsForAll'
  <2>1. owner # "started" /\ owner' # "started"
    BY DEF IInv, Stages, Registered, Register
  <2> QED
    BY <2>1 DEF StartWaitsForAll
<1>8. OnlyEarlyStop'
  BY DEF OnlyEarlyStop, Register
<1>9. NothingLeftRunning'
  BY DEF IInv, NothingLeftRunning, Register
<1> QED
  BY <1>1, <1>2, <1>3, <1>4, <1>5, <1>6, <1>7, <1>8, <1>9 DEF IInv

\* The loop has not been told to stop, since it is only registered.
LEMMA StartLoopKeeps ==
  ASSUME IInv, fault = "none", NEW t \in Threads, StartLoop(t)
  PROVE  IInv'
<1>1. TypeOK'
  BY DEF IInv, TypeOK, StartLoop
<1>2. LockExclusive'
  BY DEF IInv, LockExclusive, StartLoop
<1>3. Listed'
  BY DEF IInv, Listed, Registered, StartLoop
<1>4. Stages'
  BY DEF IInv, Stages, Registered, StartLoop
<1>5. Running'
  BY DEF IInv, TypeOK, Running, Told, Registered, StartLoop
<1>6. Joined'
  BY DEF IInv, Joined, StartLoop
<1>7. StartWaitsForAll'
  BY DEF IInv, StartWaitsForAll, StartLoop
<1>8. OnlyEarlyStop'
  BY DEF OnlyEarlyStop, StartLoop
<1>9. NothingLeftRunning'
  BY DEF IInv, NothingLeftRunning, StartLoop
<1> QED
  BY <1>1, <1>2, <1>3, <1>4, <1>5, <1>6, <1>7, <1>8, <1>9 DEF IInv

\* Only a loop that has been told sees looping_ clear.
LEMMA LeaveLoopKeeps ==
  ASSUME IInv, fault = "none", NEW t \in Threads, LeaveLoop(t)
  PROVE  IInv'
<1>1. TypeOK'
  BY DEF IInv, TypeOK, LeaveLoop
<1>2. LockExclusive'
  BY DEF IInv, LockExclusive, LeaveLoop
<1>3. Listed'
  BY DEF IInv, Listed, Registered, LeaveLoop
<1>4. Stages'
  BY DEF IInv, Stages, Registered, LeaveLoop
<1>5. Running'
  BY DEF IInv, Running, Told, Registered, LeaveLoop
<1>6. Joined'
  BY DEF IInv, Joined, LeaveLoop
<1>7. StartWaitsForAll'
  BY DEF IInv, StartWaitsForAll, LeaveLoop
<1>8. OnlyEarlyStop'
  BY DEF OnlyEarlyStop, LeaveLoop
<1>9. NothingLeftRunning'
  BY DEF IInv, NothingLeftRunning, LeaveLoop
<1> QED
  BY <1>1, <1>2, <1>3, <1>4, <1>5, <1>6, <1>7, <1>8, <1>9 DEF IInv

-----------------------------------------------------------------------------
(* The invariant and what follows from it.                                  *)

LEMMA NextIInv == IInv /\ [Next]_vars => IInv'
<1> SUFFICES ASSUME IInv, [Next]_vars PROVE IInv'
  OBVIOUS
<1>1. CASE UNCHANGED vars
  BY <1>1 DEF IInv, TypeOK, LockExclusive, Listed, Stages, Running, Told,
              Joined, StartWaitsForAll, OnlyEarlyStop,
              NothingLeftRunning, Registered, vars
<1>2. CASE Next
  <2>1. fault = "none"
    BY <1>2 DEF Next
  <2>2. CASE Start
    BY <2>1, <2>2, StartKeeps
  <2>3. CASE SpuriousWakeup
    BY <2>1, <2>3, SpuriousWakeupKeeps
  <2>4. CASE Destroy
    BY <2>1, <2>4, DestroyKeeps
  <2>5. CASE OwnerStep
    BY <2>1, <2>5, CreateThreadKeeps, OwnerLockKeeps, CheckLoopsKeeps,
       StopLoopKeeps, WakeupKeeps, StopsDoneKeeps, JoinKeeps DEF OwnerStep
  <2>6. CASE \E t \in Threads : ThreadStep(t)
    BY <2>1, <2>6, ConstructAndLockKeeps, RegisterKeeps, StartLoopKeeps,
       LeaveLoopKeeps DEF ThreadStep
  <2> QED
    BY <1>2, <2>2, <2>3, <2>4, <2>5, <2>6 DEF Next
<1> QED
  BY <1>1, <1>2

LEMMA Invariance == Spec => []IInv
BY InitIInv, NextIInv, PTL DEF Spec

\* Types: the owner's count of threads and loops stays within threadNums_, so
\* loops_[i] and threads_[i] are read inside their vectors.
THEOREM TypeCorrect == Spec => []TypeOK
<1>1. IInv => TypeOK
  BY DEF IInv
<1> QED
  BY <1>1, Invariance, PTL

\* lock_ is held by whoever reads the predicate or registers a loop.
THEOREM MutualExclusion == Spec => []LockExclusive
<1>1. IInv => LockExclusive
  BY DEF IInv
<1> QED
  BY <1>1, Invariance, PTL

\* start returns with a loop for each thread, each once: loops_ has as many
\* entries as there are threads, and no thread registers twice.
THEOREM StartIsComplete == Spec => []StartWaitsForAll
<1>1. IInv => StartWaitsForAll
  BY DEF IInv
<1> QED
  BY <1>1, Invariance, PTL

\* The only loop whose stopLoop fails its assertion is one that is registered
\* and has not entered startLoop, and no loop ends before it is told to stop.
THEOREM OnlyEarlyStopFails == Spec => []FaultNeedsEarlyStop
<1>1. IInv => FaultNeedsEarlyStop
  <2> SUFFICES ASSUME IInv, owner = "stop",
                      NEW i \in index + 1 .. Len(loops)
               PROVE  at[loops[i]] # "ended"
    BY DEF IInv, FaultNeedsEarlyStop, UntoldLoopsLive
  <2>1. index \in Nat /\ Len(loops) \in Nat
    BY DEF IInv, TypeOK
  <2>2. Told = index
    BY DEF Told
  <2>3. i \in 1 .. Len(loops) /\ ~(i <= Told)
    BY <2>1, <2>2
  <2> QED
    BY <2>3 DEF IInv, Running
<1> QED
  BY <1>1, Invariance, PTL

\* The destructor returns after every thread of the pool has ended.
THEOREM ThreadsAreJoined == Spec => []NothingLeftRunning
<1>1. IInv => NothingLeftRunning
  BY DEF IInv
<1> QED
  BY <1>1, Invariance, PTL

\* loops_ is written only in emplace_back, by a thread that has not registered,
\* and there is none once start has returned.
THEOREM LoopsAreSettled == Spec => LoopsSettled
<1> DEFINE Settled ==
      (owner \in {"started", "stop", "wake", "join", "done"}) => UNCHANGED loops
<1>1. IInv /\ [Next]_vars => [Settled]_vars
  <2> SUFFICES ASSUME IInv, Next,
                      owner \in {"started", "stop", "wake", "join", "done"}
               PROVE  UNCHANGED loops
    OBVIOUS
  <2>1. \A t \in Threads : at[t] # "locked"
    BY DEF IInv, Stages, Registered
  <2>2. \A t \in Threads : ThreadStep(t) => UNCHANGED loops
    BY <2>1 DEF ThreadStep, ConstructAndLock, Register, StartLoop, LeaveLoop
  <2>3. OwnerStep => UNCHANGED loops
    BY DEF OwnerStep, CreateThread, OwnerLock, CheckLoops, StopLoop, Wakeup,
           StopsDone, Join
  <2> QED
    BY <2>2, <2>3 DEF Next, Start, SpuriousWakeup, Destroy
<1> QED
  BY <1>1, Invariance, PTL DEF Spec, LoopsSettled
=============================================================================
