--------------------------- MODULE TcpServerProofs ---------------------------
(***************************************************************************)
(* Theorems about TcpServer, for every number of loops, every size by which *)
(* the pool grows and every number of connections.  The inductive invariant *)
(* says who has a slot: availIndex_, a thread, or a connection whose loop   *)
(* will register it or has done so.                                         *)
(***************************************************************************)
EXTENDS TcpServer, SequenceTheorems, TLAPS

\* Where the threads can be.
Places ==
  /\ at[Base] \in {"poll", "borrow", "grow", "growing", "take", "taking", "bind"}
  /\ \A t \in Loops :
       at[t] \in {"poll", "reset", "resetSocket", "return", "returning"}

\* The base loop creates slots at most once for a connection.
PoolFits ==
  /\ pool <= Grain * (accepted + 1)
  /\ at[Base] \in {"borrow", "grow", "growing"} => pool <= Grain * accepted
  /\ at[Base] # "poll" => accepted # 0

\* A thread holds a slot from borrowConnection to bindSocket, or from the
\* connection's end to returnConnection.
HandsOn ==
  /\ conn[Base] # NoSlot <=> at[Base] = "bind"
  /\ \A t \in Loops : conn[t] # NoSlot <=> at[t] # "poll"
  /\ \A t, u \in Threads : conn[t] = conn[u] /\ conn[t] # NoSlot => t = u

\* What a thread knows of the slot it holds.
InHand ==
  /\ \A t \in Threads : conn[t] # NoSlot => conn[t] \in 0 .. pool - 1 \ availIndex
  /\ conn[Base] # NoSlot => slot[conn[Base]] = Unbound
  /\ \A t \in Loops :
       /\ at[t] = "reset" =>
            slot[conn[t]].loop = t /\ slot[conn[t]].event = "removed"
       /\ at[t] = "resetSocket" =>
            slot[conn[t]].loop = NoLoop /\ slot[conn[t]].event = "null"
       /\ at[t] \in {"return", "returning"} => slot[conn[t]] = Unbound

\* Free slots and slots that do not exist yet are unbound; a bound slot in
\* nobody's hands serves a connection.
OutOfHand ==
  /\ \A s \in availIndex : slot[s] = Unbound
  /\ \A s \in Slots : s >= pool => slot[s] = Unbound
  /\ \A s \in Slots :
       slot[s] # Unbound /\ (\A t \in Threads : conn[t] # s) =>
         /\ slot[s].loop \in Loops
         /\ slot[s].event \in {"created", "registered"}
         /\ slot[s].socket # 0

\* The functors of a loop wait for connections of that loop that are not yet
\* registered, each for its own.
FunctorsFresh ==
  \A l \in Loops : \A i \in 1 .. Len(functors[l]) :
    /\ functors[l][i].op = "bind"
    /\ slot[functors[l][i].slot].loop = l
    /\ slot[functors[l][i].slot].event = "created"
    /\ \A j \in 1 .. Len(functors[l]) :
         functors[l][j].slot = functors[l][i].slot => i = j

\* The base loop takes a slot only after it has seen or made one; others only
\* give slots back.
SomeAvailable == at[Base] \in {"take", "taking"} => availIndex # {}

\* The inductive invariant.  No assertion fails because of who has a slot
\* (InHand, OutOfHand), and nobody else has it because the sections of lock_
\* exclude each other; FunctorsFresh says that posted functors still meet the
\* connection they were posted for.
IInv ==
  /\ TypeOK /\ Places /\ PoolFits /\ LockExclusive /\ HandsOn /\ InHand
  /\ OutOfHand /\ FunctorsFresh /\ SomeAvailable /\ AssertionsHold

-----------------------------------------------------------------------------
(* Names, types and sizes.                                                  *)

\* The names of "nobody" are not the names of somebody.
LEMMA Names ==
  /\ Base \notin Loops /\ Base \in Threads /\ Loops \subseteq Threads
  /\ NoThread \notin Threads
  /\ NoSlot \notin Slots /\ Slots \subseteq Nat
  /\ NoLoop \notin Loops
BY ServerAssumption DEF Base, Loops, Threads, NoThread, NoSlot, NoLoop, Slots

\* What a slot can be.
State == [loop : Loops \cup {NoLoop},
          event : {"null", "created", "registered", "removed"},
          socket : 0 .. MaxConnections]

\* Where a thread can be.
Labels == {"poll", "borrow", "grow", "growing", "take", "taking", "bind",
           "reset", "resetSocket", "return", "returning"}

\* What a loop can be asked to run.
Functors == [op : {"bind", "close", "destroy"}, slot : Slots]

\* A thread that goes to a label is there, and the others stay.
LEMMA GotoTyped ==
  ASSUME TypeOK, NEW t \in Threads, NEW l \in Labels, Goto(t, l)
  PROVE  /\ at' \in [Threads -> Labels]
         /\ at'[t] = l
         /\ \A u \in Threads \ {t} : at'[u] = at[u]
BY DEF TypeOK, Goto, Labels

\* Arithmetic of the pool's size.
LEMMA Times ==
  ASSUME NEW g \in Nat, NEW a \in Nat, NEW b \in Nat, a <= b
  PROVE  /\ g * a \in Nat
         /\ g * a <= g * b
         /\ g * (a + 1) = g * a + g
OBVIOUS

\* The slots that exist, and those about to be created, are among Slots.
LEMMA PoolInSlots ==
  ASSUME TypeOK, PoolFits
  PROVE  /\ 0 .. pool - 1 \subseteq Slots
         /\ at[Base] \in {"borrow", "grow", "growing"} =>
              0 .. pool + Grain - 1 \subseteq Slots
<1>1. /\ Grain \in Nat /\ MaxConnections \in Nat /\ accepted \in Nat
      /\ accepted <= MaxConnections /\ pool \in Nat
  BY ServerAssumption DEF TypeOK
<1>2. Grain * (accepted + 1) <= Grain * (MaxConnections + 1)
  BY <1>1, Times
<1>3. Grain * (accepted + 1) = Grain * accepted + Grain
  BY <1>1, Times
<1> QED
  BY <1>1, <1>2, <1>3, Times DEF PoolFits, Slots

\* The types of the variables, with the names used here.
LEMMA Typed ==
  ASSUME TypeOK
  PROVE  /\ slot \in [Slots -> State]
         /\ at \in [Threads -> Labels]
         /\ functors \in [Loops -> Seq(Functors)]
         /\ conn \in [Threads -> Slots \cup {NoSlot}]
         /\ pool \in Nat /\ availIndex \subseteq 0 .. pool - 1
BY DEF TypeOK, State, Labels, Functors

\* A free slot, the slot of connection c before and after its registration,
\* and so on, are states of a slot.
LEMMA States ==
  /\ Unbound \in State
  /\ \A l \in Loops, c \in 0 .. MaxConnections :
       [loop |-> l, event |-> "created", socket |-> c] \in State
  /\ \A r \in State :
       /\ [r EXCEPT !.event = "registered"] \in State
       /\ [r EXCEPT !.event = "removed"] \in State
       /\ [r EXCEPT !.loop = NoLoop, !.event = "null"] \in State
       /\ [r EXCEPT !.socket = 0] \in State
<1>1. 0 \in 0 .. MaxConnections
  BY ServerAssumption
<1> QED
  BY <1>1 DEF State, Unbound

-----------------------------------------------------------------------------
(* The initial states.                                                      *)

\* A new server satisfies the inductive invariant.
LEMMA InitIInv == Init => IInv
<1> SUFFICES ASSUME Init PROVE IInv
  OBVIOUS
<1>1. 0 .. Grain - 1 \subseteq Slots /\ Grain <= Grain * (0 + 1)
  BY ServerAssumption, Times DEF Slots
<1>2. slot \in [Slots -> State] /\ at \in [Threads -> Labels]
  BY States DEF Init, Labels
<1>3. functors \in [Loops -> Seq(Functors)]
  BY DEF Init
<1>4. TypeOK
  BY <1>2, <1>3, ServerAssumption
     DEF Init, TypeOK, State, Labels, Functors
<1>5. Places /\ SomeAvailable /\ AssertionsHold /\ LockExclusive
  BY Names DEF Init, Places, SomeAvailable, AssertionsHold, LockExclusive
<1>6. PoolFits /\ HandsOn
  BY <1>1, Names DEF Init, PoolFits, HandsOn
<1>7. InHand
  BY Names DEF Init, InHand
<1>8. OutOfHand
  BY <1>1 DEF Init, OutOfHand
<1>9. FunctorsFresh
  BY DEF Init, FunctorsFresh
<1> QED
  BY <1>4, <1>5, <1>6, <1>7, <1>8, <1>9 DEF IInv

-----------------------------------------------------------------------------
(* The steps that preserve IInv: the base loop's.                           *)

\* newConnection's begin.
LEMMA NewConnectionKeeps ==
  ASSUME IInv, NewConnection
  PROVE  IInv'
<1> USE Names DEF IInv, NewConnection
<1>1. /\ at' \in [Threads -> Labels] /\ at'[Base] = "borrow"
      /\ \A u \in Loops : at'[u] = at[u]
  BY GotoTyped DEF Labels, Threads
<1>2. /\ accepted' \in 0 .. MaxConnections /\ accepted' # 0
      /\ pool <= Grain * accepted'
  BY ServerAssumption DEF TypeOK, PoolFits
<1>3. TypeOK'
  BY <1>1, <1>2 DEF TypeOK, Labels
<1>4. PoolFits'
  BY <1>2, <1>3, ServerAssumption, Times DEF PoolFits, TypeOK
<1>5. Places' /\ LockExclusive' /\ HandsOn' /\ SomeAvailable'
  BY <1>1 DEF Places, LockExclusive, HandsOn, SomeAvailable, Threads
<1>6. InHand' /\ OutOfHand' /\ FunctorsFresh' /\ AssertionsHold'
  BY <1>1 DEF InHand, OutOfHand, FunctorsFresh, AssertionsHold
<1> QED
  BY <1>3, <1>4, <1>5, <1>6

\* The test outside lock_.
LEMMA BorrowCheckKeeps ==
  ASSUME IInv, BorrowCheck
  PROVE  IInv'
<1> USE Names DEF IInv, BorrowCheck
<1>1. /\ at' \in [Threads -> Labels]
      /\ at'[Base] = IF availIndex = {} THEN "grow" ELSE "take"
      /\ \A u \in Loops : at'[u] = at[u]
  BY GotoTyped DEF Labels, Threads
<1>2. TypeOK'
  BY <1>1 DEF TypeOK, Labels
<1>3. Places' /\ PoolFits' /\ LockExclusive' /\ HandsOn' /\ SomeAvailable'
  BY <1>1 DEF Places, PoolFits, LockExclusive, HandsOn, SomeAvailable, Threads
<1>4. InHand' /\ OutOfHand' /\ FunctorsFresh' /\ AssertionsHold'
  BY <1>1 DEF InHand, OutOfHand, FunctorsFresh, AssertionsHold
<1> QED
  BY <1>2, <1>3, <1>4

\* For the base loop's thread and the others alike.
LEMMA LockKeeps ==
  ASSUME IInv, NEW t \in Threads, Lock(t)
  PROVE  IInv'
<1> USE Names DEF IInv, Lock
<1>1. /\ at[t] \in {"grow", "take", "return"}
      /\ Section[at[t]] = CASE at[t] = "grow" -> "growing"
                            [] at[t] = "take" -> "taking"
                            [] at[t] = "return" -> "returning"
  BY DEF Section
<1>2. /\ at' \in [Threads -> Labels] /\ at'[t] = Section[at[t]]
      /\ \A u \in Threads \ {t} : at'[u] = at[u]
  BY <1>1, GotoTyped DEF Labels
<1>3. TypeOK'
  BY <1>2 DEF TypeOK, Labels
<1>4. Places'
  BY <1>1, <1>2 DEF Places, Threads
<1>5. PoolFits' /\ HandsOn' /\ SomeAvailable'
  BY <1>1, <1>2 DEF Places, PoolFits, HandsOn, SomeAvailable, Threads
<1>6. LockExclusive'
  BY <1>1, <1>2 DEF LockExclusive, Threads
<1>7. InHand'
  BY <1>1, <1>2 DEF InHand, Threads
<1>8. OutOfHand' /\ FunctorsFresh' /\ AssertionsHold'
  BY DEF OutOfHand, FunctorsFresh, AssertionsHold
<1> QED
  BY <1>3, <1>4, <1>5, <1>6, <1>7, <1>8

\* The new slots.
LEMMA BorrowGrowKeeps ==
  ASSUME IInv, BorrowGrow
  PROVE  IInv'
<1> USE Names DEF IInv, BorrowGrow
<1>1. /\ at' \in [Threads -> Labels] /\ at'[Base] = "take"
      /\ \A u \in Loops : at'[u] = at[u]
  BY GotoTyped DEF Labels, Threads
<1>2. /\ pool \in Nat /\ Grain \in Nat \ {0} /\ availIndex \subseteq 0 .. pool - 1
      /\ accepted \in Nat /\ pool <= Grain * accepted /\ accepted # 0
  BY ServerAssumption DEF TypeOK, PoolFits
<1>3. /\ pool' \in Nat /\ pool <= pool' /\ pool' <= pool + Grain
      /\ availIndex' \subseteq 0 .. pool' - 1 /\ availIndex' # {}
      /\ \A s \in availIndex' : s \in availIndex \/ s >= pool
  <2>1. CASE availIndex = {}
    <3>1. pool' = pool + Grain /\ availIndex' = pool .. pool + Grain - 1
      BY <2>1
    <3>2. pool \in availIndex'
      BY <1>2, <3>1
    <3> QED
      BY <1>2, <3>1, <3>2
  <2>2. CASE availIndex # {}
    <3>1. pool' = pool /\ availIndex' = availIndex
      BY <2>2
    <3> QED
      BY <1>2, <2>2, <3>1
  <2> QED
    BY <2>1, <2>2
<1>4. TypeOK'
  <2>1. lock' \in Threads \cup {NoThread}
    OBVIOUS
  <2> QED
    BY <1>1, <1>3, <2>1 DEF TypeOK, Labels
<1>5. Places' /\ SomeAvailable' /\ HandsOn' /\ AssertionsHold'
  BY <1>1, <1>3 DEF Places, SomeAvailable, HandsOn, AssertionsHold
<1>6. PoolFits'
  <2>1. Grain * (accepted + 1) = Grain * accepted + Grain /\ Grain * accepted \in Nat
    BY <1>2, Times
  <2> QED
    BY <1>1, <1>2, <1>3, <2>1 DEF PoolFits
<1>7. LockExclusive'
  BY <1>1 DEF LockExclusive, Threads
<1>8. InHand'
  <2>1. \A t \in Threads :
          conn[t] # NoSlot => conn[t] \in 0 .. pool' - 1 /\ conn[t] \notin availIndex'
    <3> SUFFICES ASSUME NEW t \in Threads, conn[t] # NoSlot
                 PROVE  conn[t] \in 0 .. pool' - 1 /\ conn[t] \notin availIndex'
      OBVIOUS
    <3>1. conn[t] \in 0 .. pool - 1 /\ conn[t] \notin availIndex
      BY DEF InHand
    <3> QED
      BY <1>2, <1>3, <3>1
  <2> QED
    BY <1>1, <2>1 DEF InHand
<1>9. OutOfHand'
  <2>1. \A s \in availIndex' : s \in Slots
    BY <1>2, <1>3, PoolInSlots
  <2>2. \A s \in availIndex' : slot[s] = Unbound
    BY <1>3, <2>1 DEF OutOfHand
  <2>3. \A s \in Slots : s >= pool' => slot[s] = Unbound
    BY <1>2, <1>3 DEF OutOfHand
  <2> QED
    BY <2>2, <2>3 DEF OutOfHand
<1>10. FunctorsFresh'
  BY DEF FunctorsFresh
<1> QED
  BY <1>4, <1>5, <1>6, <1>7, <1>8, <1>9, <1>10

\* The slot taken.
LEMMA BorrowTakeKeeps ==
  ASSUME IInv, BorrowTake
  PROVE  IInv'
<1> USE Names DEF IInv
<1>1. /\ at' \in [Threads -> Labels] /\ at'[Base] = "bind"
      /\ \A u \in Loops : at'[u] = at[u]
  BY GotoTyped DEF BorrowTake, Labels, Threads
<1>2. PICK s \in availIndex :
        /\ availIndex' = availIndex \ {s}
        /\ conn' = [conn EXCEPT ![Base] = s]
        /\ UNCHANGED fault
  BY DEF BorrowTake, SomeAvailable
<1>3. s \in 0 .. pool - 1 /\ s \in Slots /\ s # NoSlot /\ slot[s] = Unbound
  BY PoolInSlots, ZenonT(40) DEF TypeOK, OutOfHand
<1>4. /\ conn' \in [Threads -> Slots \cup {NoSlot}] /\ conn'[Base] = s
      /\ \A u \in Loops : conn'[u] = conn[u]
  BY <1>2, <1>3, Typed
<1>5. TypeOK'
  <2>1. lock' \in Threads \cup {NoThread}
    BY DEF BorrowTake
  <2> QED
    BY <1>1, <1>2, <1>4, <2>1 DEF TypeOK, BorrowTake, Labels
<1>6. Places' /\ PoolFits' /\ SomeAvailable' /\ AssertionsHold'
  BY <1>1, <1>2
     DEF Places, PoolFits, SomeAvailable, AssertionsHold, BorrowTake
<1>7. LockExclusive'
  BY <1>1 DEF LockExclusive, BorrowTake, Threads
<1>8. HandsOn'
  <2>1. \A t \in Loops : conn[t] # s
    BY <1>3 DEF InHand
  <2> QED
    BY <1>1, <1>3, <1>4, <2>1 DEF HandsOn, Threads
<1>9. InHand'
  <2>1. \A t \in Threads :
          conn'[t] # NoSlot => conn'[t] \in 0 .. pool - 1 \ availIndex'
    BY <1>2, <1>3, <1>4 DEF InHand, Threads
  <2> QED
    BY <1>1, <1>3, <1>4, <2>1 DEF InHand, BorrowTake
<1>10. OutOfHand'
  <2>1. \A u \in Slots :
          (\A t \in Threads : conn'[t] # u) /\ slot[u] # Unbound
            => \A t \in Threads : conn[t] # u
    BY <1>3, <1>4 DEF Threads, HandsOn, BorrowTake
  <2> QED
    BY <1>2, <2>1 DEF OutOfHand, BorrowTake
<1>11. FunctorsFresh'
  BY DEF FunctorsFresh, BorrowTake
<1> QED
  BY <1>5, <1>6, <1>7, <1>8, <1>9, <1>10, <1>11

\* A functor's connection is fresh, and on the functor's loop.
LEMMA FunctorSlot ==
  ASSUME IInv, NEW k \in Loops, NEW i \in 1 .. Len(functors[k])
  PROVE  /\ functors[k][i].slot \in Slots
         /\ functors[k][i].op = "bind"
         /\ slot[functors[k][i].slot].loop = k
         /\ slot[functors[k][i].slot].event = "created"
         /\ \A j \in 1 .. Len(functors[k]) :
              functors[k][j].slot = functors[k][i].slot => i = j
<1>1. functors[k] \in Seq(Functors)
  BY Typed DEF IInv
<1>2. functors[k][i] \in Functors
  BY <1>1, ElementOfSeq
<1>3. functors[k][i].slot \in Slots
  BY <1>2 DEF Functors
<1> QED
  BY <1>3 DEF IInv, FunctorsFresh

\* bindSocket and its functor's way into the loop's queue.
LEMMA BindSocketKeeps ==
  ASSUME IInv, BindSocket
  PROVE  IInv'
<1> USE Names DEF IInv
<1> DEFINE s == conn[Base]
           l == next + 1
           f == [op |-> "bind", slot |-> s]
<1>1. /\ at[Base] = "bind" /\ s # NoSlot /\ slot[s] = Unbound
      /\ s \in 0 .. pool - 1 /\ s \notin availIndex /\ s \in Slots
  BY PoolInSlots DEF BindSocket, HandsOn, InHand
<1>2. /\ slot' = [slot EXCEPT ![s] = [loop |-> l, event |-> "created",
                                      socket |-> accepted]]
      /\ functors' = [functors EXCEPT ![l] = Append(@, f)]
      /\ next' = NextLoop(next)
      /\ Goto(Base, "poll")
      /\ conn' = [conn EXCEPT ![Base] = NoSlot]
      /\ UNCHANGED <<fault, pool, availIndex, lock, app, accepted, served>>
  BY <1>1 DEF BindSocket
<1>3. l \in Loops /\ NextLoop(next) \in 0 .. N - 1
  BY ServerAssumption DEF TypeOK, NextLoop, Loops
<1>4. /\ at' \in [Threads -> Labels] /\ at'[Base] = "poll"
      /\ \A u \in Loops : at'[u] = at[u]
  BY <1>2, GotoTyped DEF Labels, Threads
<1>5. /\ slot' \in [Slots -> State]
      /\ slot'[s] = [loop |-> l, event |-> "created", socket |-> accepted]
      /\ slot'[s].loop = l /\ slot'[s].event = "created" /\ slot'[s].socket = accepted
      /\ \A u \in Slots \ {s} : slot'[u] = slot[u]
  <2>1. [loop |-> l, event |-> "created", socket |-> accepted] \in State
    BY <1>3, States DEF TypeOK
  <2> QED
    BY <1>1, <1>2, <2>1, Typed
<1>6. /\ functors' \in [Loops -> Seq(Functors)]
      /\ functors'[l] = Append(functors[l], f)
      /\ \A k \in Loops \ {l} : functors'[k] = functors[k]
  <2>1. functors[l] \in Seq(Functors) /\ f \in Functors
    BY <1>1, <1>3, Typed DEF Functors
  <2>2. Append(functors[l], f) \in Seq(Functors)
    BY <2>1, AppendProperties
  <2> QED
    BY <1>2, <1>3, <2>2, Typed
<1>7. /\ conn' \in [Threads -> Slots \cup {NoSlot}] /\ conn'[Base] = NoSlot
      /\ \A u \in Loops : conn'[u] = conn[u]
  BY <1>2, Typed
<1>8. \A t \in Loops : conn[t] # s
  BY <1>1 DEF HandsOn
<1>9. TypeOK'
  BY <1>2, <1>3, <1>4, <1>5, <1>6, <1>7 DEF TypeOK, State, Labels, Functors
<1>10. Places' /\ PoolFits' /\ SomeAvailable' /\ AssertionsHold'
  BY <1>2, <1>4 DEF Places, PoolFits, SomeAvailable, AssertionsHold
<1>11. LockExclusive'
  BY <1>1, <1>2, <1>4 DEF LockExclusive, Threads
<1>12. HandsOn'
  BY <1>4, <1>7 DEF HandsOn, Threads
<1>13. InHand'
  <2>1. \A t \in Loops : conn[t] # NoSlot => slot'[conn[t]] = slot[conn[t]]
    BY <1>5, <1>8, Typed
  <2> QED
    BY <1>2, <1>4, <1>7, <2>1 DEF InHand, HandsOn, Threads
<1>14. OutOfHand'
  <2>1. \A u \in availIndex' : slot'[u] = Unbound
    BY <1>1, <1>2, <1>5, PoolInSlots DEF OutOfHand, TypeOK
  <2>2. \A u \in Slots : u >= pool' => slot'[u] = Unbound
    <3>1. \A u \in Slots : u >= pool => u # s
      BY <1>1, Typed
    <3> QED
      BY <1>2, <1>5, <3>1 DEF OutOfHand
  <2>3. ASSUME NEW u \in Slots, slot'[u] # Unbound,
               \A t \in Threads : conn'[t] # u
        PROVE  /\ slot'[u].loop \in Loops
               /\ slot'[u].event \in {"created", "registered"}
               /\ slot'[u].socket # 0
    <3>1. CASE u = s
      BY <1>1, <1>3, <1>5, <3>1 DEF PoolFits
    <3>2. CASE u # s
      BY <1>5, <1>7, <2>3, <3>2 DEF OutOfHand, Threads
    <3> QED
      BY <3>1, <3>2
  <2> QED
    BY <2>1, <2>2, <2>3 DEF OutOfHand
<1>15. FunctorsFresh'
  <2>1. /\ functors[l] \in Seq(Functors) /\ Len(functors[l]) \in Nat
        /\ Len(functors'[l]) = Len(functors[l]) + 1
        /\ \A i \in 1 .. Len(functors[l]) : functors'[l][i] = functors[l][i]
        /\ functors'[l][Len(functors[l]) + 1] = f
    <3>1. functors[l] \in Seq(Functors) /\ f \in Functors
      BY <1>1, <1>3, Typed DEF Functors
    <3> QED
      BY <1>6, <3>1, AppendProperties, LenProperties
  <2>2. ASSUME NEW k \in Loops, NEW i \in 1 .. Len(functors[k])
        PROVE  /\ functors[k][i].slot \in Slots /\ functors[k][i].slot # s
               /\ functors[k][i].op = "bind"
               /\ slot'[functors[k][i].slot].loop = k
               /\ slot'[functors[k][i].slot].event = "created"
    <3>1. /\ functors[k][i].slot \in Slots /\ functors[k][i].op = "bind"
          /\ slot[functors[k][i].slot].loop = k
          /\ slot[functors[k][i].slot].event = "created"
      BY FunctorSlot
    <3>2. functors[k][i].slot # s
      BY <1>1, <3>1 DEF Unbound
    <3>3. slot'[functors[k][i].slot] = slot[functors[k][i].slot]
      BY <1>5, <3>1, <3>2
    <3> QED
      BY <3>1, <3>2, <3>3
  <2>3. ASSUME NEW k \in Loops, k # l, NEW i \in 1 .. Len(functors'[k])
        PROVE  /\ functors'[k][i].op = "bind"
               /\ slot'[functors'[k][i].slot].loop = k
               /\ slot'[functors'[k][i].slot].event = "created"
               /\ \A j \in 1 .. Len(functors'[k]) :
                    functors'[k][j].slot = functors'[k][i].slot => i = j
    BY <1>6, <2>2, <2>3 DEF FunctorsFresh
  <2>4. ASSUME NEW i \in 1 .. Len(functors'[l])
        PROVE  /\ functors'[l][i].op = "bind"
               /\ slot'[functors'[l][i].slot].loop = l
               /\ slot'[functors'[l][i].slot].event = "created"
               /\ \A j \in 1 .. Len(functors'[l]) :
                    functors'[l][j].slot = functors'[l][i].slot => i = j
    <3>1. CASE i = Len(functors[l]) + 1
      <4>1. functors'[l][i] = f /\ f.op = "bind" /\ f.slot = s
        BY <2>1, <3>1
      <4>2. \A j \in 1 .. Len(functors[l]) : functors'[l][j].slot # s
        BY <1>3, <2>1, <2>2
      <4> QED
        BY <1>5, <2>1, <3>1, <4>1, <4>2
    <3>2. CASE i \in 1 .. Len(functors[l])
      <4>1. functors'[l][i] = functors[l][i]
        BY <2>1, <3>2
      <4>2. functors'[l][Len(functors[l]) + 1].slot # functors'[l][i].slot
        BY <1>3, <2>1, <2>2, <3>2, <4>1
      <4>3. \A j \in 1 .. Len(functors[l]) :
              functors'[l][j].slot = functors'[l][i].slot => i = j
        BY <1>3, <2>1, <3>2, <4>1 DEF FunctorsFresh
      <4> QED
        BY <1>3, <2>1, <2>2, <3>2, <4>1, <4>2, <4>3
    <3> QED
      BY <2>1, <2>4, <3>1, <3>2
  <2> QED
    BY <2>3, <2>4 DEF FunctorsFresh
<1> QED
  BY <1>9, <1>10, <1>11, <1>12, <1>13, <1>14, <1>15

-----------------------------------------------------------------------------
(* The steps that preserve IInv: a loop's.                                  *)

\* A slot that serves a connection is in nobody's hands.
LEMMA ServingNotHeld ==
  ASSUME IInv, NEW s \in Slots, slot[s].event \in {"created", "registered"}
  PROVE  /\ \A t \in Threads : conn[t] # s
         /\ s \in 0 .. pool - 1 /\ s \notin availIndex
         /\ slot[s] # Unbound
<1> USE Names DEF IInv
<1>1. slot[s] # Unbound
  BY DEF Unbound
<1>2. conn[Base] # s
  BY <1>1 DEF InHand
<1>3. \A t \in Loops : conn[t] # s
  BY <1>1 DEF InHand, HandsOn, Places
<1>4. s \in 0 .. pool - 1 /\ s \notin availIndex
  BY <1>1 DEF OutOfHand, TypeOK
<1> QED
  BY <1>1, <1>2, <1>3, <1>4 DEF Threads

\* The functor of bindSocket.
LEMMA RunBindKeeps ==
  ASSUME IInv, NEW t \in Loops, RunBind(t)
  PROVE  IInv'
<1> USE Names DEF IInv
<1> DEFINE q == functors[t]
           s == Head(q).slot
<1>1. /\ q \in Seq(Functors) /\ q # <<>> /\ Len(q) \in Nat \ {0}
      /\ Head(q) = q[1] /\ Tail(q) \in Seq(Functors) /\ Len(Tail(q)) = Len(q) - 1
      /\ \A i \in 1 .. Len(Tail(q)) : Tail(q)[i] = q[i+1]
  <2>1. q \in Seq(Functors) /\ q # <<>>
    BY Typed DEF RunBind, NextFunctor
  <2> QED
    BY <2>1, HeadTailProperties, LenProperties, EmptySeq
<1>2. /\ s \in Slots /\ slot[s].event = "created" /\ slot[s].loop = t
  <2>1. q[1] \in Functors
    BY <1>1, ElementOfSeq
  <2> QED
    BY <1>1, <2>1 DEF Functors, FunctorsFresh
<1>3. /\ (\A u \in Threads : conn[u] # s) /\ s \in 0 .. pool - 1
      /\ s \notin availIndex /\ slot[s] # Unbound /\ slot[s].socket # 0
  BY <1>2, ServingNotHeld DEF OutOfHand
<1>4. /\ slot' = [slot EXCEPT ![s].event = "registered"]
      /\ served' = served \cup {slot[s].socket}
      /\ functors' = [functors EXCEPT ![t] = Tail(@)]
      /\ UNCHANGED <<fault, pool, availIndex, lock, next, at, conn, app, accepted>>
  BY <1>2 DEF RunBind
<1>5. /\ slot' \in [Slots -> State] /\ slot[s] \in State
      /\ slot'[s] = [slot[s] EXCEPT !.event = "registered"]
      /\ slot'[s].event = "registered" /\ slot'[s].loop = t
      /\ slot'[s].socket = slot[s].socket
      /\ \A u \in Slots \ {s} : slot'[u] = slot[u]
  <2>1. slot[s] \in State
    BY <1>2, Typed
  <2>2. [slot[s] EXCEPT !.event = "registered"] \in State
    BY <2>1, States
  <2>3. slot'[s] = [slot[s] EXCEPT !.event = "registered"]
    BY <1>2, <1>4, Typed
  <2>4. /\ slot'[s].event = "registered" /\ slot'[s].loop = t
        /\ slot'[s].socket = slot[s].socket
    BY <1>2, <2>1, <2>3 DEF State
  <2> QED
    BY <1>2, <1>4, <2>1, <2>2, <2>3, <2>4, Typed
<1>6. /\ functors' \in [Loops -> Seq(Functors)] /\ functors'[t] = Tail(q)
      /\ \A k \in Loops \ {t} : functors'[k] = functors[k]
  BY <1>1, <1>4, Typed
<1>7. TypeOK'
  <2>1. slot[s].socket \in 1 .. MaxConnections
    BY <1>3, <1>5, ServerAssumption DEF State
  <2> QED
    BY <1>4, <1>5, <1>6, <2>1 DEF TypeOK, State, Functors
<1>8. /\ Places' /\ PoolFits' /\ LockExclusive' /\ HandsOn' /\ SomeAvailable'
      /\ AssertionsHold'
  BY <1>4
     DEF Places, PoolFits, LockExclusive, HandsOn, SomeAvailable, AssertionsHold
<1>9. InHand'
  <2>1. \A u \in Threads : conn[u] # NoSlot => slot'[conn[u]] = slot[conn[u]]
    BY <1>3, <1>5, Typed
  <2> QED
    <3>1. \A u \in Threads :
            conn'[u] # NoSlot => conn'[u] \in 0 .. pool' - 1 \ availIndex'
      BY <1>4 DEF InHand
    <3>2. conn'[Base] # NoSlot => slot'[conn'[Base]] = Unbound
      BY <1>4, <2>1 DEF InHand
    <3>3. \A u \in Loops : at[u] # "poll" => slot'[conn'[u]] = slot[conn[u]]
      BY <1>4, <2>1 DEF HandsOn
    <3> QED
      BY <1>4, <3>1, <3>2, <3>3, ZenonT(60) DEF InHand
<1>10. OutOfHand'
  <2>1. \A u \in availIndex' : slot'[u] = Unbound
    BY <1>3, <1>4, <1>5, PoolInSlots DEF OutOfHand, TypeOK
  <2>2. \A u \in Slots : u >= pool' => slot'[u] = Unbound
    BY <1>3, <1>4, <1>5 DEF OutOfHand, TypeOK
  <2>3. ASSUME NEW u \in Slots, slot'[u] # Unbound,
               \A v \in Threads : conn'[v] # u
        PROVE  /\ slot'[u].loop \in Loops
               /\ slot'[u].event \in {"created", "registered"}
               /\ slot'[u].socket # 0
    <3>1. CASE u = s
      BY <1>3, <1>5, <3>1
    <3>2. CASE u # s
      BY <1>4, <1>5, <2>3, <3>2 DEF OutOfHand
    <3> QED
      BY <3>1, <3>2
  <2> QED
    BY <2>1, <2>2, <2>3 DEF OutOfHand
<1>11. FunctorsFresh'
  <2>1. ASSUME NEW k \in Loops, k # t, NEW i \in 1 .. Len(functors[k])
        PROVE  /\ functors[k][i].op = "bind"
               /\ slot'[functors[k][i].slot].loop = k
               /\ slot'[functors[k][i].slot].event = "created"
               /\ \A j \in 1 .. Len(functors[k]) :
                    functors[k][j].slot = functors[k][i].slot => i = j
    <3>1. functors[k][i].slot # s
      BY <1>2, <2>1, FunctorSlot
    <3> QED
      BY <1>5, <3>1, FunctorSlot
  <2>2. ASSUME NEW i \in 1 .. Len(Tail(q))
        PROVE  /\ Tail(q)[i].op = "bind"
               /\ slot'[Tail(q)[i].slot].loop = t
               /\ slot'[Tail(q)[i].slot].event = "created"
               /\ \A j \in 1 .. Len(Tail(q)) :
                    Tail(q)[j].slot = Tail(q)[i].slot => i = j
    <3>1. /\ i + 1 \in 1 .. Len(q) /\ 1 \in 1 .. Len(q) /\ i + 1 # 1
          /\ Tail(q)[i] = q[i+1]
      BY <1>1
    <3>2. /\ q[i+1].slot \in Slots /\ q[i+1].op = "bind"
          /\ slot[q[i+1].slot].loop = t /\ slot[q[i+1].slot].event = "created"
          /\ \A j \in 1 .. Len(q) : q[j].slot = q[i+1].slot => i + 1 = j
      BY <3>1, FunctorSlot
    <3>3. q[i+1].slot # s
      BY <1>1, <3>1, <3>2
    <3>4. \A j \in 1 .. Len(Tail(q)) : q[j+1].slot = q[i+1].slot => i = j
      BY <1>1, <3>1, <3>2
    <3> QED
      BY <1>1, <1>5, <3>1, <3>2, <3>3, <3>4
  <2>3. ASSUME NEW k \in Loops, NEW i \in 1 .. Len(functors'[k])
        PROVE  /\ functors'[k][i].op = "bind"
               /\ slot'[functors'[k][i].slot].loop = k
               /\ slot'[functors'[k][i].slot].event = "created"
               /\ \A j \in 1 .. Len(functors'[k]) :
                    functors'[k][j].slot = functors'[k][i].slot => i = j
    <3>1. CASE k = t
      <4>1. functors'[k] = Tail(q)
        BY <1>6, <3>1
      <4> QED
        BY <2>2, <3>1, <4>1
    <3>2. CASE k # t
      <4>1. functors'[k] = functors[k]
        BY <1>6, <3>2
      <4> QED
        BY <2>1, <3>2, <4>1
    <3> QED
      BY <3>1, <3>2
  <2> QED
    BY <2>3 DEF FunctorsFresh
<1> QED
  BY <1>7, <1>8, <1>9, <1>10, <1>11

\* The end of a connection.
LEMMA CloseConnectionKeeps ==
  ASSUME IInv, NEW t \in Loops, NEW s \in 0 .. pool - 1, CloseConnection(t, s)
  PROVE  IInv'
<1> USE Names DEF IInv
<1>1. /\ s \in Slots /\ slot[s].loop = t /\ slot[s].event = "registered"
      /\ at[t] = "poll" /\ slot[s] \in State
  BY PoolInSlots, Typed DEF CloseConnection
<1>2. (\A u \in Threads : conn[u] # s) /\ s \notin availIndex /\ s # NoSlot
  BY <1>1, ServingNotHeld
<1>3. /\ at' \in [Threads -> Labels] /\ at'[t] = "reset"
      /\ \A u \in Threads \ {t} : at'[u] = at[u]
  BY GotoTyped DEF CloseConnection, Labels
<1>4. /\ slot' \in [Slots -> State]
      /\ slot'[s].event = "removed" /\ slot'[s].loop = t
      /\ \A u \in Slots \ {s} : slot'[u] = slot[u]
  <2>1. slot'[s] = [slot[s] EXCEPT !.event = "removed"]
    BY <1>1, Typed DEF CloseConnection
  <2>2. [slot[s] EXCEPT !.event = "removed"] \in State
    BY <1>1, States
  <2>3. slot'[s].event = "removed" /\ slot'[s].loop = t
    BY <1>1, <2>1 DEF State
  <2> QED
    BY <1>1, <2>1, <2>2, <2>3, Typed DEF CloseConnection
<1>5. /\ conn' \in [Threads -> Slots \cup {NoSlot}] /\ conn'[t] = s
      /\ \A u \in Threads \ {t} : conn'[u] = conn[u]
  BY <1>1, Typed DEF CloseConnection
<1>6. TypeOK'
  BY <1>3, <1>4, <1>5 DEF TypeOK, CloseConnection, State, Labels
<1>7. Places' /\ PoolFits' /\ SomeAvailable' /\ AssertionsHold'
  BY <1>3 DEF Places, PoolFits, SomeAvailable, AssertionsHold, CloseConnection
<1>8. LockExclusive'
  BY <1>1, <1>3 DEF LockExclusive, CloseConnection
<1>9. HandsOn'
  <2>1. conn'[Base] = conn[Base] /\ at'[Base] = at[Base]
    BY <1>3, <1>5
  <2>2. \A u \in Loops : conn'[u] # NoSlot <=> at'[u] # "poll"
    BY <1>2, <1>3, <1>5 DEF HandsOn
  <2>3. \A u, v \in Threads :
          conn'[u] = conn'[v] /\ conn'[u] # NoSlot => u = v
    BY <1>2, <1>5 DEF HandsOn
  <2> QED
    BY <2>1, <2>2, <2>3 DEF HandsOn
<1>10. InHand'
  <2>1. \A u \in Threads : conn[u] # NoSlot => slot'[conn[u]] = slot[conn[u]]
    BY <1>2, <1>4, Typed
  <2>2. \A u \in Threads :
          conn'[u] # NoSlot => conn'[u] \in 0 .. pool' - 1 \ availIndex'
    BY <1>2, <1>5 DEF InHand, CloseConnection
  <2>3. conn'[Base] # NoSlot => slot'[conn'[Base]] = Unbound
    BY <1>5, <2>1 DEF InHand
  <2>4. ASSUME NEW u \in Loops
        PROVE  /\ at'[u] = "reset" =>
                    slot'[conn'[u]].loop = u /\ slot'[conn'[u]].event = "removed"
               /\ at'[u] = "resetSocket" =>
                    slot'[conn'[u]].loop = NoLoop /\ slot'[conn'[u]].event = "null"
               /\ at'[u] \in {"return", "returning"} => slot'[conn'[u]] = Unbound
    <3>1. CASE u = t
      BY <1>3, <1>4, <1>5, <3>1
    <3>2. CASE u # t
      <4>1. at[u] # "poll" => slot'[conn'[u]] = slot[conn[u]]
        BY <1>5, <2>1, <3>2 DEF HandsOn
      <4> QED
        BY <1>3, <3>2, <4>1 DEF InHand
    <3> QED
      BY <3>1, <3>2
  <2> QED
    BY <2>2, <2>3, <2>4 DEF InHand
<1>11. OutOfHand'
  <2>1. \A u \in availIndex' : slot'[u] = Unbound
    BY <1>2, <1>4, PoolInSlots, Typed DEF OutOfHand, CloseConnection
  <2>2. \A u \in Slots : u >= pool' => slot'[u] = Unbound
    <3>1. \A u \in Slots : u >= pool => u # s
      BY Typed
    <3> QED
      BY <1>4, <3>1 DEF OutOfHand, CloseConnection
  <2>3. ASSUME NEW u \in Slots, slot'[u] # Unbound,
               \A v \in Threads : conn'[v] # u
        PROVE  /\ slot'[u].loop \in Loops
               /\ slot'[u].event \in {"created", "registered"}
               /\ slot'[u].socket # 0
    <3>1. u # s
      BY <1>5, <2>3
    <3>2. \A v \in Threads : conn[v] # u
      BY <1>1, <1>5, <2>3 DEF HandsOn
    <3> QED
      BY <1>4, <2>3, <3>1, <3>2 DEF OutOfHand
  <2> QED
    BY <2>1, <2>2, <2>3 DEF OutOfHand
<1>12. FunctorsFresh'
  <2>1. ASSUME NEW k \in Loops, NEW i \in 1 .. Len(functors[k])
        PROVE  slot'[functors[k][i].slot] = slot[functors[k][i].slot]
    BY <1>1, <1>4, FunctorSlot
  <2> QED
    BY <2>1 DEF FunctorsFresh, CloseConnection
<1> QED
  BY <1>6, <1>7, <1>8, <1>9, <1>10, <1>11, <1>12

\* What the two halves of reset have in common: the slot changes in the hands of
\* thread t, which goes on to a place where the slot is as it should be.
LEMMA ResetKeeps ==
  ASSUME IInv, NEW t \in Loops, NEW r \in State, NEW l \in {"resetSocket", "return"},
         at[t] \in {"reset", "resetSocket"},
         slot' = [slot EXCEPT ![conn[t]] = r], Goto(t, l),
         l = "resetSocket" => r.loop = NoLoop /\ r.event = "null",
         l = "return" => r = Unbound,
         UNCHANGED <<pool, availIndex, lock, next, functors, conn, app, accepted,
                     served, fault>>
  PROVE  IInv'
<1> USE Names DEF IInv
<1> DEFINE s == conn[t]
<1>1. /\ s \in Slots /\ s \in 0 .. pool - 1 /\ s \notin availIndex /\ s # NoSlot
      /\ \A u \in Threads \ {t} : conn[u] # s
  BY Typed DEF HandsOn, InHand
<1>2. slot[s].event \notin {"created", "registered"}
  BY <1>1, ServingNotHeld
<1>3. /\ at' \in [Threads -> Labels] /\ at'[t] = l
      /\ \A u \in Threads \ {t} : at'[u] = at[u]
  BY GotoTyped DEF Labels
<1>4. /\ slot' \in [Slots -> State] /\ slot'[s] = r
      /\ \A u \in Slots \ {s} : slot'[u] = slot[u]
  BY <1>1, Typed
<1>5. TypeOK'
  BY <1>3, <1>4 DEF TypeOK, State, Labels
<1>6. /\ Places' /\ PoolFits' /\ SomeAvailable' /\ AssertionsHold' /\ HandsOn'
      /\ LockExclusive'
  BY <1>3
     DEF Places, PoolFits, SomeAvailable, AssertionsHold, HandsOn, LockExclusive
<1>7. InHand'
  <2>1. \A u \in Threads \ {t} : conn[u] # NoSlot => slot'[conn[u]] = slot[conn[u]]
    BY <1>1, <1>4, Typed
  <2>2. conn[Base] # NoSlot => slot'[conn[Base]] = Unbound
    BY <2>1 DEF InHand
  <2>3. ASSUME NEW u \in Loops
        PROVE  /\ at'[u] = "reset" =>
                    slot'[conn'[u]].loop = u /\ slot'[conn'[u]].event = "removed"
               /\ at'[u] = "resetSocket" =>
                    slot'[conn'[u]].loop = NoLoop /\ slot'[conn'[u]].event = "null"
               /\ at'[u] \in {"return", "returning"} => slot'[conn'[u]] = Unbound
    <3>1. CASE u = t
      BY <1>3, <1>4, <3>1
    <3>2. CASE u # t
      <4>1. at[u] # "poll" => slot'[conn'[u]] = slot[conn[u]]
        BY <2>1, <3>2 DEF HandsOn
      <4> QED
        BY <1>3, <3>2, <4>1 DEF InHand
    <3> QED
      BY <3>1, <3>2
  <2> QED
    BY <2>2, <2>3 DEF InHand
<1>8. OutOfHand'
  <2>1. \A u \in availIndex : slot'[u] = Unbound
    BY <1>1, <1>4, PoolInSlots, Typed DEF OutOfHand
  <2>2. \A u \in Slots : u >= pool => slot'[u] = Unbound
    <3>1. \A u \in Slots : u >= pool => u # s
      BY <1>1, Typed
    <3> QED
      BY <1>4, <3>1 DEF OutOfHand
  <2>3. \A u \in Slots : (\A v \in Threads : conn[v] # u) => slot'[u] = slot[u]
    BY <1>4
  <2> QED
    BY <2>1, <2>2, <2>3 DEF OutOfHand
<1>9. FunctorsFresh'
  <2>1. ASSUME NEW k \in Loops, NEW i \in 1 .. Len(functors[k])
        PROVE  slot'[functors[k][i].slot] = slot[functors[k][i].slot]
    BY <1>2, <1>4, FunctorSlot
  <2> QED
    BY <2>1 DEF FunctorsFresh
<1> QED
  BY <1>5, <1>6, <1>7, <1>8, <1>9

\* reset, first half.
LEMMA ResetEventKeeps ==
  ASSUME IInv, NEW t \in Loops, ResetEvent(t)
  PROVE  IInv'
<1> USE Names DEF IInv
<1> DEFINE r == [slot[conn[t]] EXCEPT !.loop = NoLoop, !.event = "null"]
<1>1. conn[t] \in Slots
  BY Typed DEF HandsOn, ResetEvent
<1>2. slot[conn[t]] \in State
  BY <1>1, Typed
<1>3. r \in State
  BY <1>2, States
<1>4. r.loop = NoLoop /\ r.event = "null"
  BY <1>2 DEF State
<1>5. slot' = [slot EXCEPT ![conn[t]] = r]
  BY <1>1, Typed DEF ResetEvent
<1> HIDE DEF r
<1> QED
  BY <1>3, <1>4, <1>5, ResetKeeps DEF ResetEvent

\* reset, second half.
LEMMA ResetSocketKeeps ==
  ASSUME IInv, NEW t \in Loops, ResetSocket(t)
  PROVE  IInv'
<1> USE Names DEF IInv
<1> DEFINE r == [slot[conn[t]] EXCEPT !.socket = 0]
<1>1. conn[t] \in Slots
  BY Typed DEF HandsOn, ResetSocket
<1>2. /\ slot[conn[t]] \in State
      /\ slot[conn[t]].loop = NoLoop /\ slot[conn[t]].event = "null"
  BY <1>1, Typed DEF InHand, ResetSocket
<1>3. r \in State
  BY <1>2, States
<1>4. r = Unbound
  BY <1>2 DEF State, Unbound
<1>5. slot' = [slot EXCEPT ![conn[t]] = r]
  BY <1>1, Typed DEF ResetSocket
<1> HIDE DEF r
<1> QED
  BY <1>3, <1>4, <1>5, ResetKeeps DEF ResetSocket

\* The slot goes back.
LEMMA ReturnConnectionKeeps ==
  ASSUME IInv, NEW t \in Loops, ReturnConnection(t)
  PROVE  IInv'
<1> USE Names DEF IInv, ReturnConnection
<1>1. /\ conn[t] \in 0 .. pool - 1 /\ conn[t] # NoSlot /\ slot[conn[t]] = Unbound
      /\ \A u \in Threads \ {t} : conn[u] # conn[t]
  BY DEF HandsOn, InHand
<1>2. /\ at' \in [Threads -> Labels] /\ at'[t] = "poll"
      /\ \A u \in Threads \ {t} : at'[u] = at[u]
  BY GotoTyped DEF Labels
<1>3. /\ conn' \in [Threads -> Slots \cup {NoSlot}] /\ conn'[t] = NoSlot
      /\ \A u \in Threads \ {t} : conn'[u] = conn[u]
  BY Typed
<1>4. availIndex' \subseteq 0 .. pool' - 1
  BY <1>1 DEF TypeOK
<1>5. TypeOK'
  BY <1>2, <1>3, <1>4 DEF TypeOK, Labels
<1>6. Places' /\ PoolFits' /\ SomeAvailable' /\ AssertionsHold'
  BY <1>2 DEF Places, PoolFits, SomeAvailable, AssertionsHold
<1>7. LockExclusive'
  BY <1>2 DEF LockExclusive
<1>8. HandsOn'
  BY <1>2, <1>3 DEF HandsOn
<1>9. InHand'
  BY <1>1, <1>2, <1>3 DEF InHand
<1>10. OutOfHand'
  <2>1. \A u \in Slots : slot[u] # Unbound /\ (\A v \in Threads : conn'[v] # u)
          => \A v \in Threads : conn[v] # u
    BY <1>1, <1>3
  <2> QED
    BY <1>1, <2>1 DEF OutOfHand
<1>11. FunctorsFresh'
  BY DEF FunctorsFresh
<1> QED
  BY <1>5, <1>6, <1>7, <1>8, <1>9, <1>10, <1>11

-----------------------------------------------------------------------------
(* The invariants.                                                          *)

\* Every step preserves the inductive invariant.
LEMMA NextIInv == IInv /\ [Next]_vars => IInv'
<1> SUFFICES ASSUME IInv, [Next]_vars PROVE IInv'
  OBVIOUS
<1>1. CASE NewConnection
  BY <1>1, NewConnectionKeeps
<1>2. CASE BorrowCheck
  BY <1>2, BorrowCheckKeeps
<1>3. CASE Lock(Base)
  BY <1>3, Names, LockKeeps
<1>4. CASE BorrowGrow
  BY <1>4, BorrowGrowKeeps
<1>5. CASE BorrowTake
  BY <1>5, BorrowTakeKeeps
<1>6. CASE BindSocket
  BY <1>6, BindSocketKeeps
<1>7. ASSUME NEW t \in Loops, RunBind(t) PROVE IInv'
  BY <1>7, RunBindKeeps
<1>8. ASSUME NEW t \in Loops, NEW s \in 0 .. pool - 1, CloseConnection(t, s)
      PROVE  IInv'
  BY <1>8, CloseConnectionKeeps
<1>9. ASSUME NEW t \in Loops, ResetEvent(t) PROVE IInv'
  BY <1>9, ResetEventKeeps
<1>10. ASSUME NEW t \in Loops, ResetSocket(t) PROVE IInv'
  BY <1>10, ResetSocketKeeps
<1>11. ASSUME NEW t \in Loops, Lock(t) PROVE IInv'
  BY <1>11, Names, LockKeeps
<1>12. ASSUME NEW t \in Loops, ReturnConnection(t) PROVE IInv'
  BY <1>12, ReturnConnectionKeeps
<1>13. CASE UNCHANGED vars
  <2>1. TypeOK' /\ Places' /\ PoolFits' /\ LockExclusive'
    BY <1>13 DEF vars, IInv, TypeOK, Places, PoolFits, LockExclusive
  <2>2. HandsOn' /\ SomeAvailable' /\ AssertionsHold'
    BY <1>13 DEF vars, IInv, HandsOn, SomeAvailable, AssertionsHold
  <2>3. InHand'
    BY <1>13 DEF vars, IInv, InHand
  <2>4. OutOfHand' /\ FunctorsFresh'
    BY <1>13 DEF vars, IInv, OutOfHand, FunctorsFresh
  <2> QED
    BY <2>1, <2>2, <2>3, <2>4 DEF IInv
<1> QED
  BY <1>1, <1>2, <1>3, <1>4, <1>5, <1>6, <1>7, <1>8, <1>9, <1>10, <1>11, <1>12, <1>13
     DEF Next, BaseStep, LoopStep

\* The inductive invariant holds throughout.
LEMMA Invariance == Spec => []IInv
BY InitIInv, NextIInv, PTL DEF Spec

\* The fields and histories of a server keep their types: the indices in
\* availIndex_ are those of slots, next_ that of a loop.
THEOREM TypeCorrect == Spec => []TypeOK
BY Invariance, PTL DEF IInv

\* lock_ is held by exactly the thread inside one of its critical sections.
THEOREM MutualExclusion == Spec => []LockExclusive
BY Invariance, PTL DEF IInv

\* borrowConnection always finds a slot, bindSocket a reset one, and the functor
\* of bindSocket a fresh event, however the connections' ends interleave.
THEOREM NoAssertionFails == Spec => []AssertionsHold
BY Invariance, PTL DEF IInv

-----------------------------------------------------------------------------
(* The implementation of SlotPool.                                          *)

\* A step that changes no availIndex_ and leaves held slots held is a stutter.
LEMMA Stutter ==
  ASSUME UNCHANGED availIndex, Held' = Held
  PROVE  [Pool!Next]_(Pool!vars)
BY DEF Pool!vars

\* A larger pool has the slots of a smaller one.
LEMMA Intervals ==
  ASSUME NEW a \in Nat, NEW b \in Nat, a <= b
  PROVE  /\ \A s \in 0 .. a - 1 : s \in 0 .. b - 1
         /\ \A s \in 0 .. b - 1 : ~ s >= a => s \in 0 .. a - 1
OBVIOUS

\* borrowConnection's new slots.
LEMMA GrowImplements ==
  ASSUME IInv, BorrowGrow
  PROVE  [Pool!Next]_(Pool!vars)
<1>1. Held \subseteq 0 .. pool - 1
  BY DEF Held, IInv, InHand
<1>2. Held' = Held
  <2>1. /\ pool \in Nat /\ pool' \in Nat /\ Grain \in Nat
        /\ pool <= pool' /\ pool' <= pool + Grain
    <3>1. pool \in Nat /\ Grain \in Nat \ {0}
      BY ServerAssumption DEF IInv, TypeOK
    <3>2. pool' = pool \/ pool' = pool + Grain
      BY DEF BorrowGrow
    <3> QED
      BY <3>1, <3>2
  <2>2. \A s \in 0 .. pool' - 1 : slot[s] # Unbound => s \in 0 .. pool - 1
    <3> DEFINE top == pool + Grain
    <3>1. top \in Nat /\ pool' <= top
      BY <2>1
    <3>3. 0 .. top - 1 \subseteq Slots
      <4>1. 0 .. pool + Grain - 1 \subseteq Slots
        BY PoolInSlots DEF BorrowGrow, IInv
      <4>2. pool + Grain - 1 = top - 1
        BY <2>1
      <4> QED
        BY <4>1, <4>2
    <3> HIDE DEF top
    <3>2. \A s \in 0 .. pool' - 1 : s \in 0 .. top - 1
      BY <2>1, <3>1, Intervals
    <3>4. \A s \in Slots : slot[s] # Unbound => ~ s >= pool
      BY DEF IInv, OutOfHand
    <3>5. \A s \in 0 .. pool' - 1 : ~ s >= pool => s \in 0 .. pool - 1
      BY <2>1, Intervals
    <3> QED
      BY <3>2, <3>3, <3>4, <3>5
  <2>3. \A s \in 0 .. pool - 1 : s \in 0 .. pool' - 1
    BY <2>1, Intervals
  <2> QED
    BY <2>2, <2>3 DEF Held, BorrowGrow
<1>3. CASE availIndex = {}
  <2>1. availIndex' = pool .. pool + Grain - 1
    BY <1>3 DEF BorrowGrow
  <2>2. pool \in Nat /\ Grain \in Nat \ {0}
    BY ServerAssumption DEF IInv, TypeOK
  <2>3. pool \in availIndex'
    BY <2>1, <2>2
  <2>4. \A s \in 0 .. pool - 1 : s \notin availIndex'
    BY <2>1, <2>2
  <2> QED
    BY <1>1, <1>2, <1>3, <2>3, <2>4 DEF Pool!Next, Pool!Grow
<1>4. CASE availIndex # {}
  BY <1>2, <1>4, Stutter DEF BorrowGrow
<1> QED
  BY <1>3, <1>4

\* Every step is a step of a SlotPool or a stutter.
LEMMA NextImplements == IInv /\ IInv' /\ [Next]_vars => [Pool!Next]_(Pool!vars)
<1> SUFFICES ASSUME IInv, IInv', [Next]_vars PROVE [Pool!Next]_(Pool!vars)
  OBVIOUS
<1> USE Names
<1>1. CASE UNCHANGED <<availIndex, pool, conn, slot>>
  BY <1>1, Stutter DEF Held
<1>2. CASE BorrowGrow
  BY <1>2, GrowImplements
<1>3. CASE BorrowTake
  <2>1. PICK s \in availIndex :
          availIndex' = availIndex \ {s} /\ conn' = [conn EXCEPT ![Base] = s]
    BY <1>3 DEF BorrowTake, IInv, SomeAvailable
  <2>2. s # NoSlot /\ conn[Base] = NoSlot
    BY <1>3, PoolInSlots, ZenonT(40) DEF BorrowTake, IInv, TypeOK, HandsOn
  <2>3. /\ conn'[Base] = s
        /\ \A t \in Threads \ {Base} : conn'[t] = conn[t]
        /\ UNCHANGED <<pool, slot>>
    BY <1>3, <2>1, Typed DEF BorrowTake, IInv
  <2>4. Held' = Held \cup {s}
    BY <2>2, <2>3 DEF Held
  <2> QED
    BY <2>1, <2>4 DEF Pool!Next, Pool!Borrow
<1>4. CASE BindSocket
  <2> DEFINE s == conn[Base]
  <2>1. /\ s # NoSlot /\ slot[s] = Unbound /\ s \in 0 .. pool - 1 /\ s \in Slots
        /\ UNCHANGED <<availIndex, pool>>
    BY <1>4, PoolInSlots DEF BindSocket, IInv, HandsOn, InHand
  <2>2. /\ conn' = [conn EXCEPT ![Base] = NoSlot]
        /\ slot' = [slot EXCEPT ![s] = [loop |-> next + 1, event |-> "created",
                                        socket |-> accepted]]
    BY <1>4, <2>1 DEF BindSocket
  <2>3. /\ conn'[Base] = NoSlot
        /\ \A t \in Threads \ {Base} : conn'[t] = conn[t]
        /\ slot'[s].event = "created" /\ slot'[s] # Unbound
        /\ \A u \in Slots \ {s} : slot'[u] = slot[u]
    BY <2>1, <2>2, Typed DEF IInv, Unbound
  <2>4. \A u \in 0 .. pool - 1 : u \in Slots
    BY PoolInSlots DEF IInv
  <2>5. Held' = Held
    BY <2>1, <2>3, <2>4 DEF Held
  <2> QED
    BY <2>1, <2>5, Stutter
<1>5. ASSUME NEW t \in Loops, RunBind(t) PROVE [Pool!Next]_(Pool!vars)
  <2>1. UNCHANGED <<availIndex, pool, conn>>
    BY <1>5 DEF RunBind
  <2>2. \A u \in Slots : slot'[u] # Unbound <=> slot[u] # Unbound
    <3> DEFINE s == Head(functors[t]).slot
    <3>1. CASE slot[s].event = "created"
      <4>1. slot' = [slot EXCEPT ![s].event = "registered"]
        BY <1>5, <3>1 DEF RunBind
      <4>2. \A u \in Slots \ {s} : slot'[u] = slot[u]
        BY <4>1, Typed DEF IInv
      <4>3. s \in Slots => slot[s] # Unbound /\ slot'[s].event = "registered"
        BY <3>1, <4>1, Typed DEF IInv, Unbound, State
      <4>4. s \in Slots => slot'[s] # Unbound
        BY <4>3 DEF Unbound
      <4> QED
        BY <4>2, <4>3, <4>4
    <3>2. CASE slot[s].event # "created"
      BY <1>5, <3>2 DEF RunBind
    <3> QED
      BY <3>1, <3>2
  <2>3. \A u \in 0 .. pool - 1 : u \in Slots
    BY PoolInSlots DEF IInv
  <2>4. Held' = Held
    BY <2>1, <2>2, <2>3 DEF Held
  <2> QED
    BY <2>1, <2>4, Stutter
<1>6. ASSUME NEW t \in Loops, NEW s \in 0 .. pool - 1, CloseConnection(t, s)
      PROVE  [Pool!Next]_(Pool!vars)
  <2>1. /\ s \in Slots /\ s # NoSlot /\ conn[t] = NoSlot
        /\ slot[s].event = "registered" /\ slot[s] # Unbound
        /\ UNCHANGED <<availIndex, pool>>
    BY <1>6, PoolInSlots DEF CloseConnection, IInv, HandsOn, Unbound
  <2>2. /\ conn'[t] = s
        /\ \A u \in Threads \ {t} : conn'[u] = conn[u]
        /\ \A u \in Slots \ {s} : slot'[u] = slot[u]
    BY <1>6, <2>1, Typed DEF CloseConnection, IInv
  <2>3. \A u \in 0 .. pool - 1 : u \in Slots
    BY PoolInSlots DEF IInv
  <2>4. Held' = Held
    <3>1. ASSUME NEW u, u # s PROVE u \in Held' <=> u \in Held
      BY <2>1, <2>2, <2>3, <3>1 DEF Held
    <3>2. s \in Held' /\ s \in Held
      BY <2>1, <2>2 DEF Held
    <3> QED
      BY <3>1, <3>2
  <2> QED
    BY <2>1, <2>4, Stutter
<1>7. ASSUME NEW t \in Loops, ResetEvent(t) \/ ResetSocket(t)
      PROVE  [Pool!Next]_(Pool!vars)
  <2> DEFINE s == conn[t]
  <2>1. /\ s # NoSlot /\ s \in Slots /\ UNCHANGED <<availIndex, pool, conn>>
        /\ \A u \in Slots \ {s} : slot'[u] = slot[u]
    BY <1>7, Typed DEF ResetEvent, ResetSocket, IInv, HandsOn
  <2>2. \A u \in 0 .. pool - 1 : u \in Slots
    BY PoolInSlots DEF IInv
  <2>3. Held' = Held
    <3>1. ASSUME NEW u, u # s PROVE u \in Held' <=> u \in Held
      BY <2>1, <2>2, <3>1 DEF Held
    <3>2. s \in Held' /\ s \in Held
      BY <2>1 DEF Held
    <3> QED
      BY <3>1, <3>2
  <2> QED
    BY <2>1, <2>3, Stutter
<1>8. ASSUME NEW t \in Loops, ReturnConnection(t) PROVE [Pool!Next]_(Pool!vars)
  <2> DEFINE s == conn[t]
  <2>1. /\ s # NoSlot /\ slot[s] = Unbound
        /\ \A u \in Threads \ {t} : conn[u] # s
        /\ availIndex' = availIndex \cup {s} /\ UNCHANGED <<pool, slot>>
    BY <1>8 DEF ReturnConnection, IInv, HandsOn, InHand
  <2>2. conn'[t] = NoSlot /\ \A u \in Threads \ {t} : conn'[u] = conn[u]
    BY <1>8, Typed DEF ReturnConnection, IInv
  <2>3. s \in Held
    BY <2>1 DEF Held
  <2>4. Held' = Held \ {s}
    BY <2>1, <2>2 DEF Held
  <2> QED
    BY <2>1, <2>3, <2>4 DEF Pool!Next, Pool!Return
<1>9. ASSUME NEW t \in Threads, Lock(t) PROVE UNCHANGED <<availIndex, pool, conn, slot>>
  BY <1>9 DEF Lock
<1> QED
  BY <1>1, <1>2, <1>3, <1>4, <1>5, <1>6, <1>7, <1>8, <1>9
     DEF Next, BaseStep, LoopStep, NewConnection, BorrowCheck, vars

\* A new server is a new SlotPool.
LEMMA InitImplements == Init => Pool!Init
<1> SUFFICES ASSUME Init PROVE availIndex # {} /\ Held = {}
  BY DEF Pool!Init
<1>1. 0 \in availIndex
  BY ServerAssumption DEF Init
<1>2. \A s \in 0 .. pool - 1 : s \in Slots
  BY InitIInv, PoolInSlots DEF IInv
<1>3. Held = {}
  BY <1>2 DEF Init, Held
<1> QED
  BY <1>1, <1>3

\* The slots of a server are a SlotPool: each is free or held, changes hands one
\* at a time, and new ones appear only when none is free.
THEOREM Implementation == Spec => ImplementsPool
BY Invariance, InitImplements, NextImplements, PTL
   DEF Spec, ImplementsPool, Pool!Spec

-----------------------------------------------------------------------------
(* Whose turn it is.                                                        *)

\* next_ counts the connections dealt out, modulo the number of loops.
Turn == next = (IF at[Base] = "poll" THEN accepted ELSE accepted - 1) % N

\* RoundRobin for all slots.
Dealt ==
  \A s \in Slots :
    slot[s].loop # NoLoop => slot[s].loop = ((slot[s].socket - 1) % N) + 1

\* A number has one quotient and one remainder.
LEMMA Remainder ==
  ASSUME NEW n \in Nat \ {0}, NEW q \in Nat, NEW r \in 0 .. n - 1
  PROVE  (n * q + r) % n = r
OBVIOUS

\* Division with remainder.
LEMMA Quotient ==
  ASSUME NEW n \in Nat \ {0}, NEW k \in Nat
  PROVE  /\ k \div n \in Nat
         /\ k % n \in 0 .. n - 1
         /\ k = n * (k \div n) + (k % n)
<1>1. k \div n \in Int /\ k \div n >= 0
  OBVIOUS
<1>2. k % n \in 0 .. n - 1
  OBVIOUS
<1>3. k = n * (k \div n) + (k % n)
  OBVIOUS
<1> QED
  BY <1>1, <1>2, <1>3

\* getNextLoop's increment and test are an addition modulo threadNums_.
LEMMA NextLoopIsModulo ==
  ASSUME NEW k \in Nat
  PROVE  NextLoop(k % N) = (k + 1) % N
<1> DEFINE q == k \div N
           r == k % N
<1>1. N \in Nat \ {0} /\ q \in Nat /\ r \in 0 .. N - 1 /\ k = N * q + r
  BY ServerAssumption, Quotient
<1> HIDE DEF q, r
<1>2. CASE r + 1 >= N
  <2>1. k + 1 = N * (q + 1) + 0
    BY <1>1, <1>2
  <2>2. (k + 1) % N = 0
    BY <1>1, <2>1, Remainder
  <2> QED
    BY <1>2, <2>2 DEF NextLoop, r
<1>3. CASE ~ r + 1 >= N
  <2>1. k + 1 = N * q + (r + 1) /\ r + 1 \in 0 .. N - 1
    BY <1>1, <1>3
  <2>2. (k + 1) % N = r + 1
    BY <1>1, <2>1, Remainder
  <2> QED
    BY <1>3, <2>2 DEF NextLoop, r
<1> QED
  BY <1>2, <1>3

\* The first turn is that of the first loop.
LEMMA InitTurn == Init => Turn /\ Dealt
<1> SUFFICES ASSUME Init PROVE Turn /\ Dealt
  OBVIOUS
<1>1. 0 % N = 0
  BY ServerAssumption
<1>2. Turn
  BY <1>1, Names DEF Init, Turn
<1>3. Dealt
  BY DEF Init, Dealt, Unbound
<1> QED
  BY <1>2, <1>3

\* Every step keeps the count of the turns.
LEMMA NextTurn ==
  IInv /\ Turn /\ Dealt /\ [Next]_vars => Turn' /\ Dealt'
<1> SUFFICES ASSUME IInv, Turn, Dealt, [Next]_vars
             PROVE  Turn' /\ Dealt'
  OBVIOUS
<1> USE Names
<1>1. Turn'
  <2>1. CASE NewConnection
    <3>1. at[Base] = "poll" /\ at'[Base] = "borrow" /\ accepted' - 1 = accepted
      BY <2>1, Typed DEF NewConnection, Goto, IInv, TypeOK
    <3> QED
      BY <2>1, <3>1 DEF NewConnection, Turn
  <2>2. CASE BindSocket
    <3>1. /\ at[Base] = "bind" /\ accepted \in Nat /\ accepted # 0
      BY <2>2 DEF BindSocket, IInv, TypeOK, PoolFits
    <3>2. /\ next' = NextLoop(next) /\ at'[Base] = "poll" /\ accepted' = accepted
      BY <2>2, Typed DEF BindSocket, IInv, HandsOn, InHand, Goto
    <3>3. NextLoop((accepted - 1) % N) = ((accepted - 1) + 1) % N
      BY <3>1, NextLoopIsModulo
    <3> QED
      BY <3>1, <3>2, <3>3 DEF Turn
  <2>3. CASE UNCHANGED <<next, accepted>> /\ (at'[Base] = "poll" <=> at[Base] = "poll")
    BY <2>3 DEF Turn
  <2>4. CASE BorrowCheck \/ Lock(Base) \/ BorrowGrow \/ BorrowTake
    <3>1. /\ at[Base] # "poll" /\ at'[Base] # "poll" /\ UNCHANGED <<next, accepted>>
      BY <2>4, Typed
         DEF BorrowCheck, Lock, BorrowGrow, BorrowTake, Goto, Section, IInv
    <3> QED
      BY <2>3, <3>1
  <2>5. ASSUME NEW t \in Loops,
               \/ LoopStep(t) \/ \E s \in 0 .. pool - 1 : CloseConnection(t, s)
        PROVE  Turn'
    <3>1. /\ UNCHANGED <<next, accepted>> /\ at'[Base] = at[Base]
      BY <2>5, Typed
         DEF LoopStep, RunBind, ResetEvent, ResetSocket, Lock, ReturnConnection,
             CloseConnection, Goto, IInv
    <3> QED
      BY <2>3, <3>1
  <2>6. CASE UNCHANGED vars
    BY <2>3, <2>6 DEF vars
  <2> QED
    BY <2>1, <2>2, <2>4, <2>5, <2>6 DEF Next, BaseStep
<1>2. Dealt'
  <2>1. CASE UNCHANGED slot
    BY <2>1 DEF Dealt
  <2>2. CASE BindSocket
    <3> DEFINE s == conn[Base]
               r == [loop |-> next + 1, event |-> "created", socket |-> accepted]
    <3>1. slot' = [slot EXCEPT ![s] = r]
      BY <2>2 DEF BindSocket, IInv, HandsOn, InHand
    <3>2. r.loop = ((r.socket - 1) % N) + 1
      BY <2>2 DEF BindSocket, Turn
    <3>3. s \in Slots
      BY <2>2, Typed DEF BindSocket, IInv, HandsOn
    <3> HIDE DEF r
    <3>4. slot'[s] = r /\ \A u \in Slots \ {s} : slot'[u] = slot[u]
      BY <3>1, <3>3, Typed DEF IInv
    <3> QED
      BY <3>2, <3>4 DEF Dealt
  <2>3. ASSUME NEW t \in Loops, RunBind(t) PROVE Dealt'
    <3> DEFINE s == Head(functors[t]).slot
    <3>1. CASE slot[s].event = "created"
      <4>1. slot' = [slot EXCEPT ![s].event = "registered"]
        BY <2>3, <3>1 DEF RunBind
      <4>2. \A u \in Slots :
              slot'[u].loop = slot[u].loop /\ slot'[u].socket = slot[u].socket
        BY <4>1, Typed DEF IInv, State
      <4> QED
        BY <4>2 DEF Dealt
    <3>2. CASE slot[s].event # "created"
      BY <2>1, <2>3, <3>2 DEF RunBind
    <3> QED
      BY <3>1, <3>2
  <2>4. ASSUME NEW t \in Loops, NEW s \in 0 .. pool - 1, CloseConnection(t, s)
        PROVE  Dealt'
    <3>1. slot' = [slot EXCEPT ![s].event = "removed"]
      BY <2>4 DEF CloseConnection
    <3>2. \A u \in Slots :
            slot'[u].loop = slot[u].loop /\ slot'[u].socket = slot[u].socket
      BY <3>1, Typed DEF IInv, State
    <3> QED
      BY <3>2 DEF Dealt
  <2>5. ASSUME NEW t \in Loops, ResetEvent(t) PROVE Dealt'
    <3>1. slot' = [slot EXCEPT ![conn[t]].loop = NoLoop, ![conn[t]].event = "null"]
      BY <2>5 DEF ResetEvent
    <3>2. \A u \in Slots : slot'[u].loop = NoLoop \/ slot'[u] = slot[u]
      BY <3>1, Typed DEF IInv, State
    <3> QED
      BY <3>2 DEF Dealt
  <2>6. ASSUME NEW t \in Loops, ResetSocket(t) PROVE Dealt'
    <3>1. slot' = [slot EXCEPT ![conn[t]].socket = 0] /\ slot[conn[t]].loop = NoLoop
      BY <2>6 DEF ResetSocket, IInv, InHand
    <3>2. \A u \in Slots : slot'[u].loop = NoLoop \/ slot'[u] = slot[u]
      BY <3>1, Typed DEF IInv, State
    <3> QED
      BY <3>2 DEF Dealt
  <2>7. ASSUME NEW t \in Threads, Lock(t) \/ (t \in Loops /\ ReturnConnection(t))
        PROVE  UNCHANGED slot
    BY <2>7 DEF Lock, ReturnConnection
  <2>8. CASE NewConnection \/ BorrowCheck \/ BorrowGrow \/ BorrowTake \/ UNCHANGED vars
    BY <2>1, <2>8 DEF NewConnection, BorrowCheck, BorrowGrow, BorrowTake, vars
  <2> QED
    BY <2>1, <2>2, <2>3, <2>4, <2>5, <2>6, <2>7, <2>8 DEF Next, BaseStep, LoopStep
<1> QED
  BY <1>1, <1>2

\* A connection is served by the loop whose turn it was: dealing them out with
\* next_ neither skips nor favours a loop, for any number of loops.
THEOREM DealtInTurn == Spec => []RoundRobin
<1>1. IInv /\ Dealt => RoundRobin
  BY PoolInSlots DEF IInv, Dealt, RoundRobin
<1>2. Spec => [](Turn /\ Dealt)
  BY Invariance, InitTurn, NextTurn, PTL DEF Spec
<1> QED
  BY <1>1, <1>2, Invariance, PTL
=============================================================================
