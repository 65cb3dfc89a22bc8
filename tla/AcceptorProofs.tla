---------------------------- MODULE AcceptorProofs ----------------------------
(***************************************************************************)
(* Theorems about Acceptor, for every number of descriptors and clients and *)
(* whatever other threads open and close.                                   *)
(***************************************************************************)
EXTENDS Acceptor, TLAPS

\* As long as nobody took the last descriptor from it, the acceptor has its
\* spare, or holds a connection in its place, or finds a free descriptor.
SpareWithin ==
  ~deprived =>
    /\ at \in {"new", "poll", "accept"} => idleFd = "spare"
    /\ at \in {"spent", "reopen", "last"} => free > 0
    /\ at = "refuse" => idleFd = "client" \/ free > 0

\* Once the spare is spent idleFd_ refers to a connection to refuse or to
\* nothing.
HandsEmpty ==
  /\ at \in {"spent", "reopen", "last", "destroyed"} => idleFd = "none"
  /\ at = "refuse" => idleFd # "spare"

\* Only what has arrived is in the queue.
QueueArrived == queue <= arrived

\* The counts stay in their ranges because they add up (DescriptorsAccounted)
\* and because of QueueArrived.
IInv ==
  TypeOK /\ DescriptorsAccounted /\ SpareWithin /\ HandsEmpty /\ QueueArrived

\* What the constants are.
LEMMA Bounds ==
  /\ Limit \in Nat /\ MaxClients \in Nat /\ MaxOpens \in Nat
  /\ MaxErrors \in Nat /\ EtModes \subseteq BOOLEAN
BY AcceptorAssumption

\* Natural numbers that add up to the limit are within it.
LEMMA CountsFit ==
  ASSUME DescriptorsAccounted', {free', served', others'} \subseteq Nat
  PROVE  {free', served', others'} \subseteq 0 .. Limit
BY Bounds DEF DescriptorsAccounted

\* The constructor takes the spare if it can.
LEMMA InitIInv == Init => IInv
<1> SUFFICES ASSUME Init PROVE IInv
  OBVIOUS
<1>0. /\ at = "new" /\ etMode \in BOOLEAN /\ ready = FALSE /\ others \in 0 .. Limit
      /\ queue = 0 /\ served = 0 /\ arrived = 0 /\ opens = 0 /\ errors = 0
  BY Bounds DEF Init
<1>1. CASE others = Limit
  <2>1. deprived = TRUE /\ idleFd = "none" /\ free = 0
    BY <1>1, Zenon DEF Init
  <2>2. TypeOK
    <3>1. etMode \in BOOLEAN /\ ready \in BOOLEAN /\ deprived \in BOOLEAN
      BY <1>0, <2>1, Zenon
    <3>2. {free, served, others} \subseteq 0 .. Limit
      BY <1>0, <2>1, Bounds
    <3>3. /\ queue \in 0 .. MaxClients /\ arrived \in 0 .. MaxClients
          /\ opens \in 0 .. MaxOpens /\ errors \in 0 .. MaxErrors
      BY <1>0, Bounds
    <3> QED
      BY <1>0, <2>1, <3>1, <3>2, <3>3 DEF TypeOK
  <2>3. DescriptorsAccounted
    BY <1>0, <1>1, <2>1 DEF DescriptorsAccounted
  <2>4. SpareWithin /\ HandsEmpty /\ QueueArrived
    BY <1>0, <2>1 DEF SpareWithin, HandsEmpty, QueueArrived
  <2> QED
    BY <2>2, <2>3, <2>4 DEF IInv
<1>2. CASE others # Limit
  <2>1. deprived = FALSE /\ idleFd = "spare" /\ free = Limit - others - 1
    BY <1>2, Zenon DEF Init
  <2>2. free \in 0 .. Limit
    BY <1>0, <1>2, <2>1, Bounds
  <2>3. TypeOK
    <3>1. etMode \in BOOLEAN /\ ready \in BOOLEAN /\ deprived \in BOOLEAN
      BY <1>0, <2>1, Zenon
    <3>2. {free, served, others} \subseteq 0 .. Limit
      BY <1>0, <2>1, <2>2, Bounds
    <3>3. /\ queue \in 0 .. MaxClients /\ arrived \in 0 .. MaxClients
          /\ opens \in 0 .. MaxOpens /\ errors \in 0 .. MaxErrors
      BY <1>0, Bounds
    <3> QED
      BY <1>0, <2>1, <3>1, <3>2, <3>3 DEF TypeOK
  <2>4. DescriptorsAccounted
    BY <1>0, <2>1, Bounds DEF DescriptorsAccounted
  <2>5. SpareWithin /\ HandsEmpty /\ QueueArrived
    BY <1>0, <2>1 DEF SpareWithin, HandsEmpty, QueueArrived
  <2> QED
    BY <2>3, <2>4, <2>5 DEF IInv
<1> QED
  BY <1>1, <1>2

\* Every step keeps the account, and leaves the acceptor a way back to its
\* spare.
LEMMA NextIInv == IInv /\ [Next]_vars => IInv'
<1> SUFFICES ASSUME IInv, [Next]_vars PROVE IInv'
  OBVIOUS
<1>1. CASE Listen
  <2>1. DescriptorsAccounted' /\ {free', served', others'} \subseteq Nat
    BY <1>1 DEF IInv, TypeOK, DescriptorsAccounted, Listen, world
  <2>2. TypeOK'
    BY <1>1, <2>1 DEF IInv, TypeOK, Listen, kernel, world
  <2>3. SpareWithin' /\ HandsEmpty' /\ QueueArrived'
    BY <1>1 DEF IInv, SpareWithin, HandsEmpty, QueueArrived, Listen, kernel,
                world
  <2> QED
    BY <2>1, <2>2, <2>3 DEF IInv
<1>2. CASE Destroy
  <2>1. DescriptorsAccounted' /\ {free', served', others'} \subseteq Nat
    BY <1>2 DEF IInv, TypeOK, DescriptorsAccounted, Destroy, world
  <2>2. TypeOK'
    BY <1>2, <2>1, CountsFit DEF IInv, TypeOK, Destroy, kernel, world
  <2>3. SpareWithin' /\ HandsEmpty' /\ QueueArrived'
    BY <1>2 DEF IInv, SpareWithin, HandsEmpty, QueueArrived, Destroy, kernel,
                world
  <2> QED
    BY <2>1, <2>2, <2>3 DEF IInv
<1>3. CASE HandleIOEvent
  <2>1. DescriptorsAccounted' /\ {free', served', others'} \subseteq Nat
    BY <1>3 DEF IInv, TypeOK, DescriptorsAccounted, HandleIOEvent, world
  <2>2. TypeOK'
    BY <1>3, <2>1, CountsFit DEF IInv, TypeOK, HandleIOEvent, world
  <2>3. SpareWithin' /\ HandsEmpty' /\ QueueArrived'
    BY <1>3 DEF IInv, SpareWithin, HandsEmpty, QueueArrived, HandleIOEvent,
                world
  <2> QED
    BY <2>1, <2>2, <2>3 DEF IInv
<1>4. CASE AcceptConnection
  <2>1. DescriptorsAccounted' /\ {free', served', others'} \subseteq Nat
    BY <1>4 DEF IInv, TypeOK, DescriptorsAccounted, AcceptConnection
  <2>2. TypeOK'
    BY <1>4, <2>1, CountsFit, Bounds DEF IInv, TypeOK, AcceptConnection
  <2>3. SpareWithin' /\ HandsEmpty' /\ QueueArrived'
    BY <1>4 DEF IInv, TypeOK, SpareWithin, HandsEmpty, QueueArrived,
                AcceptConnection
  <2> QED
    BY <2>1, <2>2, <2>3 DEF IInv
<1>5. CASE AcceptNothing
  <2>1. DescriptorsAccounted' /\ {free', served', others'} \subseteq Nat
    BY <1>5 DEF IInv, TypeOK, DescriptorsAccounted, AcceptNothing, world
  <2>2. TypeOK'
    BY <1>5, <2>1 DEF IInv, TypeOK, AcceptNothing, kernel, world
  <2>3. SpareWithin' /\ HandsEmpty' /\ QueueArrived'
    BY <1>5 DEF IInv, SpareWithin, HandsEmpty, QueueArrived, AcceptNothing,
                kernel, world
  <2> QED
    BY <2>1, <2>2, <2>3 DEF IInv
<1>6. CASE SpendSpare
  <2>1. DescriptorsAccounted' /\ {free', served', others'} \subseteq Nat
    BY <1>6 DEF IInv, TypeOK, DescriptorsAccounted, SpendSpare, world
  <2>2. TypeOK'
    BY <1>6, <2>1, CountsFit DEF IInv, TypeOK, SpendSpare, kernel, world
  <2>3. SpareWithin' /\ HandsEmpty' /\ QueueArrived'
    BY <1>6 DEF IInv, SpareWithin, HandsEmpty, QueueArrived, SpendSpare,
                kernel, world
  <2> QED
    BY <2>1, <2>2, <2>3 DEF IInv
<1>7. CASE AcceptFails
  <2>1. DescriptorsAccounted' /\ {free', served', others'} \subseteq Nat
    BY <1>7 DEF IInv, TypeOK, DescriptorsAccounted, AcceptFails, world
  <2>2. TypeOK'
    BY <1>7, <2>1, Bounds DEF IInv, TypeOK, AcceptFails, kernel, world
  <2>3. SpareWithin' /\ HandsEmpty' /\ QueueArrived'
    BY <1>7 DEF IInv, SpareWithin, HandsEmpty, QueueArrived, AcceptFails,
                kernel, world
  <2> QED
    BY <2>1, <2>2, <2>3 DEF IInv
<1>8. CASE AcceptToRefuse
  <2>1. DescriptorsAccounted' /\ {free', served', others'} \subseteq Nat
    BY <1>8 DEF IInv, TypeOK, DescriptorsAccounted, HandsEmpty, AcceptToRefuse,
                world
  <2>2. TypeOK'
    BY <1>8, <2>1, Bounds DEF IInv, TypeOK, AcceptToRefuse, world
  <2>3. SpareWithin' /\ HandsEmpty' /\ QueueArrived'
    BY <1>8 DEF IInv, TypeOK, SpareWithin, HandsEmpty, QueueArrived,
                AcceptToRefuse, world
  <2> QED
    BY <2>1, <2>2, <2>3 DEF IInv
<1>9. CASE NothingToRefuse
  <2>1. DescriptorsAccounted' /\ {free', served', others'} \subseteq Nat
    BY <1>9 DEF IInv, TypeOK, DescriptorsAccounted, NothingToRefuse, world
  <2>2. TypeOK'
    BY <1>9, <2>1 DEF IInv, TypeOK, NothingToRefuse, kernel, world
  <2>3. SpareWithin' /\ HandsEmpty' /\ QueueArrived'
    BY <1>9 DEF IInv, SpareWithin, HandsEmpty, QueueArrived, NothingToRefuse,
                kernel, world
  <2> QED
    BY <2>1, <2>2, <2>3 DEF IInv
<1>10. CASE RefuseFails
  <2>1. DescriptorsAccounted' /\ {free', served', others'} \subseteq Nat
    BY <1>10 DEF IInv, TypeOK, DescriptorsAccounted, RefuseFails, world
  <2>2. TypeOK'
    BY <1>10, <2>1, Bounds DEF IInv, TypeOK, RefuseFails, kernel, world
  <2>3. SpareWithin' /\ HandsEmpty' /\ QueueArrived'
    BY <1>10 DEF IInv, SpareWithin, HandsEmpty, QueueArrived, RefuseFails,
                 kernel, world
  <2> QED
    BY <2>1, <2>2, <2>3 DEF IInv
<1>11. CASE Refuse
  <2>1. DescriptorsAccounted' /\ {free', served', others'} \subseteq Nat
    BY <1>11 DEF IInv, TypeOK, DescriptorsAccounted, Refuse, world
  <2>2. TypeOK'
    BY <1>11, <2>1, CountsFit DEF IInv, TypeOK, Refuse, kernel, world
  <2>3. SpareWithin' /\ HandsEmpty' /\ QueueArrived'
    BY <1>11 DEF IInv, TypeOK, SpareWithin, HandsEmpty, QueueArrived, Refuse,
                 kernel, world
  <2> QED
    BY <2>1, <2>2, <2>3 DEF IInv
<1>12. CASE Reopen
  <2>1. DescriptorsAccounted' /\ {free', served', others'} \subseteq Nat
    BY <1>12 DEF IInv, TypeOK, DescriptorsAccounted, HandsEmpty, Reopen, world
  <2>2. TypeOK'
    BY <1>12, <2>1, CountsFit DEF IInv, TypeOK, Reopen, kernel, world
  <2>3. SpareWithin' /\ HandsEmpty' /\ QueueArrived'
    BY <1>12 DEF IInv, SpareWithin, HandsEmpty, QueueArrived, Reopen, kernel,
                 world
  <2> QED
    BY <2>1, <2>2, <2>3 DEF IInv
<1>13. CASE Arrive
  <2>1. DescriptorsAccounted' /\ {free', served', others'} \subseteq Nat
    BY <1>13 DEF IInv, TypeOK, DescriptorsAccounted, Arrive
  <2>2. TypeOK'
    BY <1>13, <2>1, Bounds DEF IInv, TypeOK, QueueArrived, Arrive
  <2>3. SpareWithin' /\ HandsEmpty' /\ QueueArrived'
    BY <1>13 DEF IInv, TypeOK, SpareWithin, HandsEmpty, QueueArrived, Arrive
  <2> QED
    BY <2>1, <2>2, <2>3 DEF IInv
<1>14. CASE EndConnection
  <2>1. DescriptorsAccounted' /\ {free', served', others'} \subseteq Nat
    BY <1>14 DEF IInv, TypeOK, DescriptorsAccounted, EndConnection
  <2>2. TypeOK'
    BY <1>14, <2>1, CountsFit DEF IInv, TypeOK, EndConnection, kernel
  <2>3. SpareWithin' /\ HandsEmpty' /\ QueueArrived'
    BY <1>14 DEF IInv, TypeOK, SpareWithin, HandsEmpty, QueueArrived,
                 EndConnection, kernel
  <2> QED
    BY <2>1, <2>2, <2>3 DEF IInv
<1>15. CASE OthersOpen
  <2>1. DescriptorsAccounted' /\ {free', served', others'} \subseteq Nat
    BY <1>15 DEF IInv, TypeOK, DescriptorsAccounted, OthersOpen, kernel
  <2>2. TypeOK'
    BY <1>15, <2>1, CountsFit, Bounds DEF IInv, TypeOK, OthersOpen, kernel
  <2>3. ~deprived' => ~deprived /\ (idleFd # "none" \/ free' > 0)
    <3>1. deprived' = (deprived \/ (free = 1 /\ idleFd = "none"))
      BY <1>15 DEF OthersOpen
    <3>2. ~deprived' => ~deprived /\ (free # 1 \/ idleFd # "none")
      BY <3>1, Zenon
    <3>3. free \in Nat /\ free > 0 /\ free' = free - 1
      BY <1>15 DEF OthersOpen, IInv, TypeOK
    <3> QED
      BY <3>2, <3>3
  <2>4. SpareWithin' /\ HandsEmpty' /\ QueueArrived'
    BY <1>15, <2>3 DEF IInv, TypeOK, SpareWithin, HandsEmpty, QueueArrived,
                       OthersOpen, kernel
  <2> QED
    BY <2>1, <2>2, <2>4 DEF IInv
<1>16. CASE OthersClose
  <2>1. DescriptorsAccounted' /\ {free', served', others'} \subseteq Nat
    BY <1>16 DEF IInv, TypeOK, DescriptorsAccounted, OthersClose
  <2>2. TypeOK'
    BY <1>16, <2>1, CountsFit DEF IInv, TypeOK, OthersClose, kernel
  <2>3. SpareWithin' /\ HandsEmpty' /\ QueueArrived'
    BY <1>16 DEF IInv, TypeOK, SpareWithin, HandsEmpty, QueueArrived,
                 OthersClose, kernel
  <2> QED
    BY <2>1, <2>2, <2>3 DEF IInv
<1>17. CASE UNCHANGED vars
  BY <1>17 DEF IInv, TypeOK, DescriptorsAccounted, SpareWithin, HandsEmpty,
               QueueArrived, vars, kernel, world
<1> QED
  BY <1>1, <1>2, <1>3, <1>4, <1>5, <1>6, <1>7, <1>8, <1>9, <1>10, <1>11, <1>12,
     <1>13, <1>14, <1>15, <1>16, <1>17 DEF Next, HandleAccept

LEMMA Invariance == Spec => []IInv
BY InitIInv, NextIInv, PTL DEF Spec

\* Types: no count of descriptors leaves its range.
THEOREM TypeCorrect == Spec => []TypeOK
<1>1. IInv => TypeOK
  BY DEF IInv
<1> QED
  BY <1>1, Invariance, PTL

\* handleAccept loses no descriptor, whatever fails in it.
THEOREM NoDescriptorLost == Spec => []DescriptorsAccounted
<1>1. IInv => DescriptorsAccounted
  BY DEF IInv
<1> QED
  BY <1>1, Invariance, PTL

\* handleAccept gets its spare descriptor back, unless another thread took the
\* last one while it was spent.
THEOREM SpareReturns == Spec => []SpareKept
<1>1. IInv => SpareKept
  BY DEF IInv, SpareWithin, SpareKept
<1> QED
  BY <1>1, Invariance, PTL
=============================================================================
