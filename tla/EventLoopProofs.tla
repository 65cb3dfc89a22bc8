-------------------------- MODULE EventLoopProofs --------------------------
(***************************************************************************)
(* Theorems about EventLoop, for every set of threads, every bound on the   *)
(* functors and both trigger modes.  The inductive invariant conjoins the   *)
(* four invariants the run EventLoop_loop checks; the implementation of   *)
(* FunctorQueue follows from it step by step.                               *)
(***************************************************************************)
EXTENDS EventLoop, SequenceTheorems, TLAPS

\* The thread that holds the lock was admitted under the bound MaxPosts.
PostAdmitted == \A t \in Threads : pc[t] = "locked" => posted < MaxPosts

\* The inductive invariant.  InOrder alone is not inductive: the swap keeps it
\* only because BatchFinished makes the overwritten vector empty; PostAdmitted
\* keeps posted in its type, and only because MutexHeld lets one thread push.
IInv == TypeOK /\ InOrder /\ BatchFinished /\ MutexHeld /\ PostAdmitted

-----------------------------------------------------------------------------
(* Sequences.                                                               *)

\* A non-empty sequence is its head followed by its tail.
LEMMA HeadThenTail ==
  ASSUME NEW S, NEW f \in Seq(S), f # <<>>
  PROVE  <<Head(f)>> \o Tail(f) = f
<1>1. /\ Head(f) \in S
      /\ Tail(f) \in Seq(S)
      /\ Len(Tail(f)) = Len(f) - 1
      /\ \A i \in 1 .. Len(Tail(f)) : Tail(f)[i] = f[i+1]
  BY HeadTailProperties
<1>2. <<Head(f)>> \in Seq(S)
  BY <1>1
<1>3. /\ <<Head(f)>> \o Tail(f) \in Seq(S)
      /\ Len(<<Head(f)>> \o Tail(f)) = Len(f)
  BY <1>1, <1>2, ConcatProperties, LenProperties
<1>4. \A i \in 1 .. Len(f) : (<<Head(f)>> \o Tail(f))[i] = f[i]
  BY <1>1, <1>2, LenProperties
<1> QED
  BY <1>3, <1>4, SeqEqual

\* The head and the tail of f \o p are those of f: the oldest functor handed
\* over is the next one of the batch.
LEMMA HeadTailOfConcat ==
  ASSUME NEW S, NEW f \in Seq(S), NEW p \in Seq(S), f # <<>>
  PROVE  /\ f \o p # <<>>
         /\ Head(f \o p) = Head(f)
         /\ Tail(f \o p) = Tail(f) \o p
<1>1. /\ Head(f) \in S
      /\ Tail(f) \in Seq(S)
      /\ Len(Tail(f)) = Len(f) - 1
      /\ \A i \in 1 .. Len(Tail(f)) : Tail(f)[i] = f[i+1]
  BY HeadTailProperties
<1>2. /\ f \o p \in Seq(S)
      /\ Len(f \o p) = Len(f) + Len(p)
      /\ \A i \in 1 .. Len(f) + Len(p) :
           (f \o p)[i] = IF i <= Len(f) THEN f[i] ELSE p[i - Len(f)]
      /\ f \o p # <<>>
  BY ConcatProperties, ConcatEqualIffEmpty
<1>3. /\ Tail(f) \o p \in Seq(S)
      /\ Len(Tail(f) \o p) = Len(f) - 1 + Len(p)
      /\ \A i \in 1 .. Len(f) - 1 + Len(p) :
           (Tail(f) \o p)[i]
             = IF i <= Len(f) - 1 THEN Tail(f)[i] ELSE p[i - (Len(f) - 1)]
  BY <1>1, ConcatProperties
<1>4. /\ Tail(f \o p) \in Seq(S)
      /\ Len(Tail(f \o p)) = Len(f) + Len(p) - 1
      /\ \A i \in 1 .. Len(f) + Len(p) - 1 : Tail(f \o p)[i] = (f \o p)[i+1]
  BY <1>2, HeadTailProperties
<1>5. Len(f) \in Nat \ {0} /\ Len(p) \in Nat
  BY EmptySeq, LenProperties
<1>6. Head(f \o p) = Head(f)
  BY <1>2, <1>5
<1>7. \A i \in 1 .. Len(f) + Len(p) - 1 : Tail(f \o p)[i] = (Tail(f) \o p)[i]
  BY <1>1, <1>2, <1>3, <1>4, <1>5
<1>8. Tail(f \o p) = Tail(f) \o p
  BY <1>3, <1>4, <1>5, <1>7, SeqEqual
<1> QED
  BY <1>2, <1>6, <1>8

\* Moving the head of f to the end of r does not change r \o f: what one turn
\* of callPendingFunctors's for loop does to the functors run and taken.
LEMMA MoveHead ==
  ASSUME NEW S, NEW r \in Seq(S), NEW f \in Seq(S), f # <<>>
  PROVE  /\ Append(r, Head(f)) \in Seq(S)
         /\ Tail(f) \in Seq(S)
         /\ Append(r, Head(f)) \o Tail(f) = r \o f
<1>1. Head(f) \in S /\ Tail(f) \in Seq(S)
  BY HeadTailProperties
<1>2. <<Head(f)>> \in Seq(S) /\ Append(r, Head(f)) = r \o <<Head(f)>>
  BY <1>1, AppendIsConcat
<1>3. <<Head(f)>> \o Tail(f) = f
  BY HeadThenTail
<1>4. (r \o <<Head(f)>>) \o Tail(f) = r \o (<<Head(f)>> \o Tail(f))
  BY <1>1, <1>2, ConcatAssociative
<1>5. Append(r, Head(f)) \in Seq(S)
  BY <1>1, AppendProperties
<1> QED
  BY <1>1, <1>2, <1>3, <1>4, <1>5

\* 1..n as a sequence, and the sequence one longer: what a push_back does to
\* the functors in the order of their push_back.
LEMMA NextNumber ==
  ASSUME NEW n \in Nat
  PROVE  /\ [i \in 1 .. n |-> i] \in Seq(Nat)
         /\ Len([i \in 1 .. n |-> i]) = n
         /\ Append([i \in 1 .. n |-> i], n + 1) = [i \in 1 .. n + 1 |-> i]
OBVIOUS

\* A push at the end of the second part is a push at the end of the whole.
LEMMA AppendToSecond ==
  ASSUME NEW S, NEW f \in Seq(S), NEW p \in Seq(S), NEW e \in S
  PROVE  /\ Append(p, e) \in Seq(S)
         /\ f \o Append(p, e) = Append(f \o p, e)
<1>1. /\ <<e>> \in Seq(S)
      /\ Append(p, e) \in Seq(S)
      /\ Append(p, e) = p \o <<e>>
  BY AppendIsConcat, AppendProperties
<1>2. f \o p \in Seq(S)
  BY ConcatProperties
<1>3. f \o (p \o <<e>>) = (f \o p) \o <<e>>
  BY <1>1, ConcatAssociative
<1>4. Append(f \o p, e) = (f \o p) \o <<e>>
  BY <1>2, AppendIsConcat
<1> QED
  BY <1>1, <1>3, <1>4

\* A push at the end of the third part is a push at the end of the whole.
LEMMA AppendToLast ==
  ASSUME NEW S, NEW r \in Seq(S), NEW f \in Seq(S), NEW p \in Seq(S), NEW e \in S
  PROVE  /\ Append(p, e) \in Seq(S)
         /\ r \o f \o Append(p, e) = Append(r \o f \o p, e)
<1>1. r \o f \in Seq(S)
  BY ConcatProperties
<1> QED
  BY <1>1, AppendToSecond

-----------------------------------------------------------------------------
(* Safety.                                                                  *)

\* A fresh EventLoop satisfies the inductive invariant.
LEMMA InitInv == Init => IInv
<1> SUFFICES ASSUME Init PROVE IInv
  OBVIOUS
<1> USE LoopAssumption DEF Init
<1>1. TypeOK
  <2>1. <<>> \in Seq(Nat)
    BY EmptySeq
  <2>2. pc \in [Threads \cup {Loop} -> LoopPC \cup ThreadPC]
    BY DEF LoopPC, ThreadPC
  <2>3. posted \in 0 .. MaxPosts
    OBVIOUS
  <2> QED
    BY <2>1, <2>2, <2>3 DEF TypeOK
<1>2. InOrder
  <2>1. <<>> \in Seq(Nat) /\ <<>> \o <<>> \o <<>> = <<>>
    BY EmptySeq, ConcatEmptySeq
  <2>2. [i \in 1 .. 0 |-> i] = <<>>
    OBVIOUS
  <2> QED
    BY <2>1, <2>2 DEF InOrder
<1>3. BatchFinished
  BY DEF BatchFinished
<1>4. MutexHeld /\ PostAdmitted
  BY DEF MutexHeld, PostAdmitted
<1> QED
  BY <1>1, <1>2, <1>3, <1>4 DEF IInv

\* Each step of the loop's thread keeps it: the swap and the for loop of
\* callPendingFunctors are the two that move functors.
LEMMA LoopInv ==
  ASSUME IInv, StartLoop \/ StopInLoop \/ Destroy \/ LoopStep
  PROVE  IInv'
<1> USE LoopAssumption DEF LoopPC, ThreadPC, Goto
<1>1. CASE StartLoop
  <2>1. TypeOK'
    BY <1>1 DEF IInv, TypeOK, StartLoop
  <2>2. InOrder' /\ BatchFinished' /\ MutexHeld' /\ PostAdmitted'
    BY <1>1 DEF IInv, TypeOK, StartLoop, InOrder, BatchFinished, MutexHeld,
         PostAdmitted
  <2> QED
    BY <2>1, <2>2 DEF IInv
<1>2. CASE StopInLoop
  BY <1>2 DEF IInv, TypeOK, StopInLoop, InOrder, BatchFinished, MutexHeld,
         PostAdmitted
<1>3. CASE Destroy
  <2>1. TypeOK'
    BY <1>3 DEF IInv, TypeOK, Destroy
  <2>2. InOrder' /\ BatchFinished' /\ MutexHeld' /\ PostAdmitted'
    BY <1>3 DEF IInv, TypeOK, Destroy, InOrder, BatchFinished, MutexHeld,
         PostAdmitted
  <2> QED
    BY <2>1, <2>2 DEF IInv
<1>4. CASE TestLooping
  BY <1>4 DEF IInv, TypeOK, TestLooping, InOrder, BatchFinished, MutexHeld,
         PostAdmitted
<1>5. CASE HandleIOEvent
  <2>1. wakeupSocket' \in [first : Nat, second : Nat]
    BY <1>5 DEF IInv, TypeOK, HandleIOEvent, DrainWakeup
  <2> QED
    BY <1>5, <2>1
       DEF IInv, TypeOK, HandleIOEvent, InOrder, BatchFinished, MutexHeld,
         PostAdmitted
<1>6. CASE TakeFunctors
  <2>1. TypeOK'
    BY <1>6, EmptySeq DEF IInv, TypeOK, TakeFunctors
  <2>2. InOrder'
    <3>1. /\ ran \in Seq(Nat)
          /\ pendingFunctors \in Seq(Nat)
          /\ functors = <<>>
      BY <1>6 DEF IInv, TypeOK, BatchFinished, TakeFunctors
    <3>2. /\ ran \o pendingFunctors \in Seq(Nat)
          /\ ran \o <<>> = ran
      BY <3>1, ConcatProperties, ConcatEmptySeq
    <3>3. (ran \o pendingFunctors) \o <<>> = ran \o <<>> \o pendingFunctors
      BY <3>2, ConcatEmptySeq
    <3> QED
      BY <1>6, <3>1, <3>3 DEF IInv, InOrder, TakeFunctors
  <2>3. BatchFinished' /\ MutexHeld' /\ PostAdmitted'
    BY <1>6 DEF IInv, TypeOK, TakeFunctors, BatchFinished, MutexHeld,
         PostAdmitted
  <2> QED
    BY <2>1, <2>2, <2>3 DEF IInv
<1>7. CASE RunFunctor
  <2>1. /\ ran \in Seq(Nat)
        /\ functors \in Seq(Nat)
        /\ functors # <<>>
    BY <1>7 DEF IInv, TypeOK, RunFunctor
  <2>2. TypeOK'
    BY <1>7, <2>1, MoveHead DEF IInv, TypeOK, RunFunctor
  <2>3. InOrder'
    <3>1. ran' \o functors' = ran \o functors
      BY <1>7, <2>1, MoveHead DEF RunFunctor
    <3> QED
      BY <1>7, <3>1 DEF IInv, InOrder, RunFunctor
  <2>4. BatchFinished' /\ MutexHeld' /\ PostAdmitted'
    BY <1>7 DEF IInv, TypeOK, RunFunctor, BatchFinished, MutexHeld,
         PostAdmitted
  <2> QED
    BY <2>2, <2>3, <2>4 DEF IInv
<1>8. CASE BatchDone
  BY <1>8 DEF IInv, TypeOK, BatchDone, InOrder, BatchFinished, MutexHeld,
         PostAdmitted
<1> QED
  BY <1>1, <1>2, <1>3, <1>4, <1>5, <1>6, <1>7, <1>8 DEF LoopStep

\* Each step of another thread keeps it: only the push_back touches the
\* functors, at the end of what InOrder lines up.
LEMMA ThreadInv ==
  ASSUME IInv, NEW t \in Threads,
         LockMutex(t) \/ StopStore(t) \/ ThreadStep(t)
  PROVE  IInv'
<1> USE LoopAssumption DEF LoopPC, ThreadPC, Goto
<1>1. CASE LockMutex(t)
  <2>1. TypeOK' /\ InOrder' /\ BatchFinished'
    BY <1>1 DEF IInv, TypeOK, LockMutex, InOrder, BatchFinished
  <2>2. MutexHeld' /\ PostAdmitted'
    BY <1>1 DEF IInv, TypeOK, LockMutex, MutexHeld, PostAdmitted
  <2> QED
    BY <2>1, <2>2 DEF IInv
<1>2. CASE PushFunctor(t)
  <2>1. /\ ran \in Seq(Nat)
        /\ functors \in Seq(Nat)
        /\ pendingFunctors \in Seq(Nat)
        /\ posted \in Nat
        /\ posted + 1 \in Nat
    BY <1>2 DEF IInv, TypeOK
  <2>2. posted < MaxPosts
    BY <1>2 DEF IInv, PostAdmitted, PushFunctor
  <2>3. TypeOK'
    BY <1>2, <2>1, <2>2, AppendToLast DEF IInv, TypeOK, PushFunctor
  <2>4. InOrder'
    <3>1. ran \o functors \o Append(pendingFunctors, posted + 1)
            = Append(ran \o functors \o pendingFunctors, posted + 1)
      BY <2>1, AppendToLast, SMTT(30)
    <3>2. ran \o functors \o pendingFunctors = [i \in 1 .. posted |-> i]
      BY DEF IInv, InOrder
    <3>3. Append([i \in 1 .. posted |-> i], posted + 1)
            = [i \in 1 .. posted + 1 |-> i]
      BY <2>1, NextNumber
    <3> QED
      BY <1>2, <3>1, <3>2, <3>3 DEF InOrder, PushFunctor
  <2>5. BatchFinished' /\ MutexHeld' /\ PostAdmitted'
    BY <1>2 DEF IInv, TypeOK, PushFunctor, BatchFinished, MutexHeld,
         PostAdmitted
  <2> QED
    BY <2>3, <2>4, <2>5 DEF IInv
<1>3. CASE WakeupAndUnlock(t)
  <2>1. wakeupSocket' \in [first : Nat, second : Nat]
    BY <1>3, SMTT(30) DEF IInv, TypeOK, WakeupAndUnlock, Wakeup
  <2>2. TypeOK' /\ InOrder' /\ BatchFinished'
    BY <1>3, <2>1 DEF IInv, TypeOK, WakeupAndUnlock, InOrder, BatchFinished
  <2>3. MutexHeld' /\ PostAdmitted'
    BY <1>3 DEF IInv, TypeOK, WakeupAndUnlock, MutexHeld, PostAdmitted
  <2> QED
    BY <2>2, <2>3 DEF IInv
<1>4. CASE StopStore(t)
  BY <1>4 DEF IInv, TypeOK, StopStore, InOrder, BatchFinished, MutexHeld,
         PostAdmitted
<1>5. CASE StopWakeup(t)
  <2>1. wakeupSocket' \in [first : Nat, second : Nat]
    BY <1>5, SMTT(30) DEF IInv, TypeOK, StopWakeup, Wakeup
  <2> QED
    BY <1>5, <2>1
       DEF IInv, TypeOK, StopWakeup, InOrder, BatchFinished, MutexHeld,
         PostAdmitted
<1> QED
  BY <1>1, <1>2, <1>3, <1>4, <1>5 DEF ThreadStep

\* Every step keeps the inductive invariant.
LEMMA NextInv == IInv /\ [Next]_vars => IInv'
<1> SUFFICES ASSUME IInv, [Next]_vars PROVE IInv'
  OBVIOUS
<1>1. CASE UNCHANGED vars
  BY <1>1 DEF vars, IInv, TypeOK, InOrder, BatchFinished, MutexHeld,
              PostAdmitted
<1>2. CASE Next
  BY <1>2, LoopInv, ThreadInv DEF Next
<1> QED
  BY <1>1, <1>2

\* The inductive invariant holds in every reachable state.
THEOREM Invariance == Spec => []IInv
BY InitInv, NextInv, PTL DEF Spec

\* The fields, locals and histories of a loop keep their types.
THEOREM TypeCorrect == Spec => []TypeOK
<1>1. IInv => TypeOK
  BY DEF IInv
<1> QED
  BY <1>1, Invariance, PTL

\* runInLoop and callPendingFunctors lose, repeat and reorder no functor, for
\* any number of threads.
THEOREM FunctorsInOrder == Spec => []InOrder
<1>1. IInv => InOrder
  BY DEF IInv
<1> QED
  BY <1>1, Invariance, PTL

\* A batch taken by callPendingFunctors is always run to its end.
THEOREM BatchesFinish == Spec => []BatchFinished
<1>1. IInv => BatchFinished
  BY DEF IInv
<1> QED
  BY <1>1, Invariance, PTL

\* mutex_ admits one pushing thread at a time and is always released.
THEOREM MutualExclusion == Spec => []MutexHeld
<1>1. IInv => MutexHeld
  BY DEF IInv
<1> QED
  BY <1>1, Invariance, PTL

-----------------------------------------------------------------------------
(* EventLoop implements FunctorQueue.                                       *)

\* A new loop has neither functors nor a history.
LEMMA InitRefines == Init => Queue!Init
<1> SUFFICES ASSUME Init PROVE Queue!Init
  OBVIOUS
<1>1. <<>> \o <<>> = <<>>
  BY EmptySeq, ConcatEmptySeq
<1> QED
  BY <1>1 DEF Init, Queue!Init

\* push_back is Post, one turn of the for loop is Run, everything else - the
\* swap included - is invisible.
LEMMA NextRefines == IInv /\ [Next]_vars => [Queue!Next]_(Queue!vars)
<1> SUFFICES ASSUME IInv, [Next]_vars PROVE [Queue!Next]_(Queue!vars)
  OBVIOUS
<1>1. /\ ran \in Seq(Nat)
      /\ functors \in Seq(Nat)
      /\ pendingFunctors \in Seq(Nat)
      /\ posted \in Nat
  BY LoopAssumption DEF IInv, TypeOK
<1>2. ASSUME UNCHANGED <<ran, functors, pendingFunctors>>
      PROVE  UNCHANGED Queue!vars
  BY <1>2 DEF Queue!vars
<1>3. CASE UNCHANGED vars \/ StartLoop \/ StopInLoop \/ Destroy \/ TestLooping
             \/ HandleIOEvent \/ BatchDone
  BY <1>2, <1>3 DEF vars, StartLoop, StopInLoop, Destroy, TestLooping,
                    HandleIOEvent, BatchDone
<1>4. ASSUME NEW t \in Threads,
             LockMutex(t) \/ WakeupAndUnlock(t) \/ StopStore(t) \/ StopWakeup(t)
      PROVE  UNCHANGED Queue!vars
  BY <1>2, <1>4 DEF LockMutex, WakeupAndUnlock, StopStore, StopWakeup
<1>5. CASE TakeFunctors
  <2>1. functors = <<>>
    BY <1>5 DEF IInv, BatchFinished, TakeFunctors
  <2>2. functors \o pendingFunctors = pendingFunctors \o <<>>
    BY <1>1, <2>1, ConcatEmptySeq
  <2> QED
    BY <1>5, <2>2 DEF TakeFunctors, Queue!vars
<1>6. CASE RunFunctor
  <2>1. functors # <<>>
    BY <1>6 DEF RunFunctor
  <2>2. <<Head(functors)>> \o Tail(functors) = functors
    BY <1>1, <2>1, HeadThenTail
  <2>3. /\ functors \o pendingFunctors # <<>>
        /\ Head(functors \o pendingFunctors) = Head(functors)
        /\ Tail(functors \o pendingFunctors) = Tail(functors) \o pendingFunctors
    BY <1>1, <2>1, HeadTailOfConcat
  <2> QED
    BY <1>6, <2>3 DEF RunFunctor, Queue!Next, Queue!Run
<1>7. ASSUME NEW t \in Threads, PushFunctor(t)
      PROVE  Queue!Next
  <2>1. Len(ran) + Len(functors \o pendingFunctors) = posted
    <3>1. Len(ran \o functors \o pendingFunctors) = posted
      BY <1>1, NextNumber DEF IInv, InOrder
    <3>2. /\ Len(ran \o functors \o pendingFunctors)
               = Len(ran) + Len(functors) + Len(pendingFunctors)
          /\ Len(functors \o pendingFunctors)
               = Len(functors) + Len(pendingFunctors)
      BY <1>1, ConcatProperties, LenProperties
    <3> QED
      BY <1>1, <3>1, <3>2, LenProperties
  <2>2. functors \o Append(pendingFunctors, posted + 1)
          = Append(functors \o pendingFunctors, posted + 1)
    BY <1>1, AppendToSecond
  <2> QED
    BY <1>7, <2>1, <2>2 DEF PushFunctor, Queue!Next, Queue!Post
<1> QED
  BY <1>3, <1>4, <1>5, <1>6, <1>7 DEF Next, LoopStep, ThreadStep

\* Every behaviour of an EventLoop and its threads is one of FunctorQueue: the
\* batches are invisible to those who hand over functors.
THEOREM Implementation == Spec => ImplementsQueue
<1>1. Spec => Queue!Init
  BY InitRefines DEF Spec
<1> QED
  BY <1>1, Invariance, NextRefines, PTL DEF Spec, ImplementsQueue, Queue!Spec
=============================================================================
