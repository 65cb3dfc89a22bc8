---------------------------- MODULE FunctorQueue ----------------------------
(***************************************************************************)
(* What EventLoop::runInLoop promises the other threads: the functors they  *)
(* hand over are run one at a time, each exactly once, in the order in      *)
(* which they were handed over.  A functor is named by the position of its  *)
(* hand-over, so the n-th functor ever posted is the number n.              *)
(***************************************************************************)
EXTENDS Integers, Sequences

VARIABLES queue,   \* functors handed over and not yet run
          ran      \* functors run so far, oldest first

vars == <<queue, ran>>

Init == queue = <<>> /\ ran = <<>>

\* A thread hands over the next functor.
Post == /\ queue' = Append(queue, Len(ran) + Len(queue) + 1)
        /\ UNCHANGED ran

\* The loop's thread runs the functor that has waited longest.
Run == /\ queue # <<>>
       /\ ran' = Append(ran, Head(queue))
       /\ queue' = Tail(queue)

Next == Post \/ Run

Spec == Init /\ [][Next]_vars
=============================================================================
