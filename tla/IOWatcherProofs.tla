---------------------------- MODULE IOWatcherProofs ----------------------------
(***************************************************************************)
(* Theorems about IOWatcher, for any events and any length of events_.  The *)
(* inductive invariant says what the reports that wait in a batch are       *)
(* about: different events, each still registered unless a callback of the  *)
(* batch has closed an event other than its own.                            *)
(***************************************************************************)
EXTENDS IOWatcher, FiniteSetTheorems, SequenceTheorems, TLAPS

\* Outside of handleIOEvent's loop nothing is left of a batch.
Idle == at = "poll" => batch = <<>> /\ numEvents = 0 /\ ~othersClosed

\* epoll_wait reports an event once.
Distinct ==
  \A i, j \in 1 .. Len(batch) : batch[i].event = batch[j].event => i = j

\* The kernel has only registered events on its list.
ReadyRegistered == \A e \in ready : InEpoll(e)

\* The reports that wait are about registered events, unless a callback has
\* closed another event than its own.
Present ==
  ~othersClosed => \A i \in 1 .. Len(batch) : InEpoll(batch[i].event)

\* What there is to read has arrived.
Counted == \A e \in Events : input[e] <= happened

\* The inductive invariant.
IInv ==
  /\ TypeOK /\ Counted /\ Idle /\ Distinct /\ ReadyRegistered /\ Present
  /\ DanglingNeedsOther

\* What a report is.
Reports == [event : Events, handler : {"close", "read", "write"}]

\* A step leaves an event registered if it was.
Stays(e) == InEpoll(e) => registered'[e] \in {"reading", "writing"}

\* The stages of an event.
Stages == {"fresh", "reading", "writing", "gone"}

-----------------------------------------------------------------------------
(* The parts of the steps.                                                  *)

\* A batch that goes on by one report: what waits was waiting.
LEMMA NextReport ==
  ASSUME NEW S, NEW s \in Seq(S), s # <<>>
  PROVE  /\ Head(s) \in S /\ Head(s) = s[1]
         /\ Len(s) \in Nat /\ Len(s) >= 1
         /\ Tail(s) \in Seq(S)
         /\ Len(Tail(s)) = Len(s) - 1
         /\ \A i \in 1 .. Len(Tail(s)) : i + 1 \in 1 .. Len(s)
                                         /\ Tail(s)[i] = s[i + 1]
<1>1. Len(s) \in Nat /\ Len(s) # 0
  BY LenProperties, EmptySeq
<1>2. Tail(s) \in Seq(S) /\ Len(Tail(s)) = Len(s) - 1
      /\ \A i \in 1 .. Len(s) - 1 : Tail(s)[i] = s[i + 1]
  BY HeadTailProperties
<1>3. Head(s) \in S /\ Head(s) = s[1]
  BY HeadTailProperties, <1>1, ElementOfSeq
<1> QED
  BY <1>1, <1>2, <1>3

\* Callbacks change no report: those that wait after one are the others that
\* waited before it.
LEMMA BatchGoesOn ==
  ASSUME IInv, at = "dispatch", batch # <<>>, batch' = Tail(batch),
         UNCHANGED <<at, numEvents, size>>
  PROVE  /\ batch' \in Seq(Reports)
         /\ Len(batch)' <= numEvents'
         /\ Idle'
         /\ Distinct'
         /\ Own \in Events /\ Report = batch[1]
         /\ 1 \in 1 .. Len(batch)
         /\ \A i \in 1 .. Len(batch') : /\ i + 1 \in 1 .. Len(batch)
                                        /\ batch'[i] = batch[i + 1]
                                        /\ batch'[i].event \in Events
                                        /\ batch'[i].event # Own
<1>1. batch \in Seq(Reports)
  BY DEF IInv, TypeOK, Reports
<1>2. /\ Head(batch) \in Reports /\ Head(batch) = batch[1]
      /\ Len(batch) \in Nat /\ Len(batch) >= 1
      /\ batch' \in Seq(Reports)
      /\ Len(batch') = Len(batch) - 1
      /\ \A i \in 1 .. Len(batch') : i + 1 \in 1 .. Len(batch)
                                     /\ batch'[i] = batch[i + 1]
  BY ONLY <1>1, NextReport, batch # <<>>, batch' = Tail(batch)
<1>3. Len(batch') \in Nat /\ numEvents \in Nat /\ Len(batch) <= numEvents
  BY <1>2, LenProperties, FS_CardinalityType, WatcherAssumption
     DEF IInv, TypeOK, WatcherAssumption
<1>4. Len(batch)' <= numEvents'
  BY <1>2, <1>3
<1>5. \A i \in 1 .. Len(batch') : batch'[i] \in Reports
  BY <1>2, ElementOfSeq
<1>6. 1 \in 1 .. Len(batch)
  BY <1>2
<1>7. Distinct'
  <2>1. SUFFICES ASSUME NEW i \in 1 .. Len(batch'), NEW j \in 1 .. Len(batch'),
                        batch'[i].event = batch'[j].event
                 PROVE  i = j
    BY DEF Distinct
  <2>2. i + 1 = j + 1
    BY <1>2, <2>1 DEF IInv, Distinct
  <2> QED
    BY <2>2
<1>8. \A i \in 1 .. Len(batch') : batch'[i].event # batch[1].event
  <2>1. SUFFICES ASSUME NEW i \in 1 .. Len(batch'),
                        batch'[i].event = batch[1].event
                 PROVE  FALSE
    OBVIOUS
  <2>2. i + 1 = 1
    BY <1>2, <1>6, <2>1 DEF IInv, Distinct
  <2> QED
    BY <2>2
<1>9. Idle'
  BY DEF Idle
<1> QED
  BY <1>2, <1>4, <1>5, <1>6, <1>7, <1>8, <1>9 DEF Reports, Own, Report

\* A report that waits is about an event.
LEMMA EventOf ==
  ASSUME TypeOK
  PROVE  /\ batch \in Seq(Reports)
         /\ \A i \in 1 .. Len(batch) : batch[i].event \in Events
<1>1. batch \in Seq(Reports)
  BY DEF TypeOK, Reports
<1>2. \A i \in 1 .. Len(batch) : batch[i] \in Reports
  BY <1>1, ElementOfSeq
<1> QED
  BY <1>1, <1>2 DEF Reports

\* Only the report at hand is about its event.
LEMMA OthersWait ==
  ASSUME IInv, batch # <<>>
  PROVE  \A i \in 1 .. Len(batch) : i > 1 => /\ batch[i].event # Own
                                            /\ batch[i].event \in Events
<1>1. /\ batch \in Seq(Reports)
      /\ \A i \in 1 .. Len(batch) : batch[i].event \in Events
  BY EventOf DEF IInv
<1>2. Head(batch) = batch[1] /\ 1 \in 1 .. Len(batch)
  BY ONLY <1>1, NextReport, batch # <<>>
<1> QED
  BY <1>1, <1>2 DEF IInv, Distinct, Own, Report

\* The end of one event leaves the others as they are.
LEMMA OthersStay ==
  ASSUME IInv, NEW e \in Events, RemoveEvent(e)
  PROVE  /\ registered' \in [Events -> Stages]
         /\ ready' \in SUBSET Events
         /\ ReadyRegistered'
         /\ \A d \in Events : d # e /\ InEpoll(d) => InEpoll(d)'
BY DEF IInv, TypeOK, RemoveEvent, Stages, ReadyRegistered, InEpoll

\* A registration that changes keeps an event registered.
LEMMA StayRegistered ==
  ASSUME IInv, NEW e \in Events, NEW r \in {"reading", "writing"},
         registered' = [registered EXCEPT ![e] = r],
         ready' = ready \/ ready' = ready \cup {e}
  PROVE  /\ registered' \in [Events -> Stages]
         /\ ready' \in SUBSET Events
         /\ ReadyRegistered'
         /\ \A d \in Events : InEpoll(d) => InEpoll(d)'
BY DEF IInv, TypeOK, Stages, ReadyRegistered, InEpoll

\* What the kernel adds to its list is registered.
LEMMA Notified ==
  ASSUME IInv, NEW e \in Events, Notify(e), UNCHANGED registered
  PROVE  ready' \in SUBSET Events /\ ReadyRegistered'
BY DEF IInv, TypeOK, Notify, ReadyRegistered, InEpoll

\* readCallback_ takes input away.
LEMMA InputRead ==
  ASSUME IInv, Own \in Events, ReadInput
  PROVE  /\ input' \in [Events -> 0 .. MaxHappenings]
         /\ \A e \in Events : input'[e] <= happened
<1>1. PICK n \in 1 .. input[Own] : input' = [input EXCEPT ![Own] = @ - n]
  BY DEF ReadInput
<1>2. /\ input \in [Events -> 0 .. MaxHappenings] /\ MaxHappenings \in Nat
      /\ happened \in Nat /\ \A e \in Events : input[e] <= happened
  BY WatcherAssumption DEF IInv, TypeOK, Counted, WatcherAssumption
<1>3. input[Own] - n \in 0 .. MaxHappenings /\ input[Own] - n <= happened
  BY <1>1, <1>2
<1> HIDE DEF Own
<1> QED
  BY <1>1, <1>2, <1>3

-----------------------------------------------------------------------------
(* The steps.                                                               *)

\* At first nothing is registered.
LEMMA Beginning == Init => IInv
<1> SUFFICES ASSUME Init
             PROVE  IInv
  OBVIOUS
<1>1. Cardinality(Events) \in Nat
  BY FS_CardinalityType, WatcherAssumption DEF WatcherAssumption
<1>2. Len(batch) = 0 /\ batch \in Seq(Reports)
  BY EmptySeq DEF Init
<1>3. TypeOK
  <2>1. /\ registered \in [Events -> Stages] /\ etMode \in BOOLEAN
        /\ othersClosed \in BOOLEAN /\ fault \in BOOLEAN
        /\ size \in Nat \ {0} /\ size = FirstSize
        /\ at \in {"poll", "dispatch"}
    BY WatcherAssumption DEF Init, WatcherAssumption, Stages
  <2>2. numEvents \in 0 .. Cardinality(Events)
        /\ Len(batch) <= numEvents /\ numEvents <= size
    BY <1>1, <1>2, <2>1 DEF Init
  <2>3. /\ input \in [Events -> 0 .. MaxHappenings]
        /\ hup \in [Events -> BOOLEAN] /\ room \in [Events -> BOOLEAN]
        /\ ready \in SUBSET Events
        /\ happened \in 0 .. MaxHappenings
    BY WatcherAssumption DEF Init, WatcherAssumption
  <2> QED
    BY <1>2, <2>1, <2>2, <2>3 DEF TypeOK, Reports, Stages
<1>4. Counted /\ Idle /\ ReadyRegistered /\ DanglingNeedsOther
  BY DEF Init, Counted, Idle, ReadyRegistered, DanglingNeedsOther
<1>5. Distinct /\ Present
  BY <1>2 DEF Distinct, Present
<1> QED
  BY <1>3, <1>4, <1>5 DEF IInv

\* What happens at a descriptor leaves the registrations alone.
LEMMA KernelStep ==
  ASSUME IInv, NEW e \in Events, Arrive(e) \/ HangUp(e) \/ MakeRoom(e)
  PROVE  IInv'
<1>1. Notify(e) /\ UNCHANGED <<registered, etMode, size, at, batch, numEvents,
                              othersClosed, fault>>
  BY DEF Arrive, HangUp, MakeRoom
<1>2. ready' \in SUBSET Events /\ ReadyRegistered'
  BY <1>1, Notified
<1>3. /\ MaxHappenings \in Nat /\ happened \in 0 .. MaxHappenings
      /\ input \in [Events -> 0 .. MaxHappenings]
      /\ \A d \in Events : input[d] <= happened
  BY WatcherAssumption DEF WatcherAssumption, IInv, TypeOK, Counted
<1>4. /\ happened' \in 0 .. MaxHappenings
      /\ input' \in [Events -> 0 .. MaxHappenings]
      /\ \A d \in Events : input'[d] <= happened'
  <2>1. CASE Arrive(e)
    <3>1. happened' = happened + 1 /\ happened + 1 <= MaxHappenings
      BY <1>3, <2>1 DEF Arrive
    <3>2. input' = [input EXCEPT ![e] = input[e] + 1]
      BY <2>1 DEF Arrive
    <3>3. input[e] + 1 \in 0 .. MaxHappenings /\ input[e] + 1 <= happened + 1
      BY <1>3, <3>1
    <3>4. input' \in [Events -> 0 .. MaxHappenings]
      BY <1>3, <3>2, <3>3
    <3>5. \A d \in Events : input'[d] <= happened + 1
      <4> TAKE d \in Events
      <4>1. input[d] <= happened + 1
        BY <1>3
      <4> QED
        BY <1>3, <3>2, <3>3, <4>1
    <3> QED
      BY <1>3, <3>1, <3>4, <3>5
  <2>2. CASE HangUp(e)
    BY <1>3, <2>2 DEF HangUp
  <2>3. CASE MakeRoom(e)
    BY <1>3, <2>3 DEF MakeRoom
  <2> QED
    BY <2>1, <2>2, <2>3
<1>5. hup' \in [Events -> BOOLEAN] /\ room' \in [Events -> BOOLEAN]
  BY DEF Arrive, HangUp, MakeRoom, IInv, TypeOK
<1>6. TypeOK'
  BY <1>1, <1>2, <1>4, <1>5 DEF IInv, TypeOK
<1>7. Counted'
  BY <1>4 DEF Counted
<1>8. (Idle /\ Distinct /\ Present /\ DanglingNeedsOther)'
  BY <1>1 DEF IInv, Idle, Distinct, Present, InEpoll, DanglingNeedsOther
<1> QED
  BY <1>2, <1>6, <1>7, <1>8 DEF IInv

\* A registration made or changed: the events of a batch stay registered.
LEMMA RegistrationStep ==
  ASSUME IInv, NEW e \in Events, ExpectReading(e) \/ ExpectWriting(e)
  PROVE  IInv'
<1>1. UNCHANGED <<etMode, size, at, batch, numEvents, input, hup, happened,
                  othersClosed, fault>>
  BY DEF ExpectReading, ExpectWriting, conditions
<1>2. \E r \in {"reading", "writing"} :
        registered' = [registered EXCEPT ![e] = r]
  BY DEF ExpectReading, ExpectWriting
<1>3. ready' = ready \/ ready' = ready \cup {e}
  BY DEF ExpectReading, ExpectWriting, Requeue
<1>4. /\ registered' \in [Events -> Stages]
      /\ ready' \in SUBSET Events
      /\ ReadyRegistered'
      /\ \A d \in Events : InEpoll(d) => InEpoll(d)'
  BY <1>2, <1>3, StayRegistered
<1>5. room' \in [Events -> BOOLEAN]
  BY DEF ExpectReading, ExpectWriting, conditions, IInv, TypeOK
<1>6. TypeOK'
  BY <1>1, <1>4, <1>5 DEF IInv, TypeOK, Stages
<1>7. Present'
  BY <1>1, <1>4, EventOf DEF IInv, Present
<1>8. (Counted /\ Idle /\ Distinct /\ DanglingNeedsOther)'
  BY <1>1 DEF IInv, Counted, Idle, Distinct, DanglingNeedsOther
<1> QED
  BY <1>4, <1>6, <1>7, <1>8 DEF IInv

\* A functor finds no batch to disturb.
LEMMA FunctorStep ==
  ASSUME IInv, NEW e \in Events, CloseInFunctor(e)
  PROVE  IInv'
<1>1. UNCHANGED <<etMode, size, at, batch, numEvents, conditions,
                  othersClosed, fault>> /\ at = "poll" /\ RemoveEvent(e)
  BY DEF CloseInFunctor
<1>2. registered' \in [Events -> Stages] /\ ready' \in SUBSET Events
      /\ ReadyRegistered'
  BY <1>1, OthersStay
<1>3. TypeOK'
  BY <1>1, <1>2 DEF IInv, TypeOK, Stages, conditions
<1>4. Len(batch') = 0
  BY <1>1, EmptySeq DEF IInv, Idle
<1>5. Present'
  BY <1>4 DEF Present
<1>6. (Counted /\ Idle /\ Distinct /\ DanglingNeedsOther)'
  BY <1>1 DEF IInv, Counted, Idle, Distinct, DanglingNeedsOther, conditions
<1> QED
  BY <1>2, <1>3, <1>5, <1>6 DEF IInv

\* How many events epoll_wait reports: no more than there are.
LEMMA Room ==
  ASSUME IInv
  PROVE  /\ Cardinality(Live) \in Nat /\ Cardinality(Events) \in Nat
         /\ Reported \in Nat /\ Reported <= size
         /\ Reported <= Cardinality(Events)
<1>1. IsFiniteSet(Events) /\ Live \subseteq Events
  BY WatcherAssumption DEF WatcherAssumption, IInv, TypeOK, Live
<1>2. /\ Cardinality(Live) \in Nat /\ Cardinality(Events) \in Nat
      /\ Cardinality(Live) <= Cardinality(Events)
  BY <1>1, FS_Subset, FS_CardinalityType
<1>3. size \in Nat
  BY DEF IInv, TypeOK
<1> HIDE DEF Live
<1> QED
  BY <1>2, <1>3 DEF Reported

\* epoll_wait reports different events, and registered ones only.
LEMMA WaitStep ==
  ASSUME IInv, EpollWait
  PROVE  IInv'
<1> DEFINE n == Reported
           report(f) == [i \in 1 .. n |->
                          [event |-> f[i],
                           handler |-> HandlerFor(registered[f[i]], f[i])]]
<1>1. PICK f \in [1 .. n -> Live] :
        /\ \A i, j \in 1 .. n : f[i] = f[j] => i = j
        /\ batch' = report(f)
        /\ ready' \in SUBSET Live
  BY DEF EpollWait
<1>2. UNCHANGED <<registered, etMode, size, conditions, othersClosed, fault>>
      /\ numEvents' = n /\ at' = "dispatch"
  BY DEF EpollWait
<1>3. n \in Nat /\ n <= size /\ n <= Cardinality(Events)
      /\ Cardinality(Events) \in Nat
  BY Room
<1>4. \A e \in Live : /\ e \in Events /\ InEpoll(e)
                      /\ HandlerFor(registered[e], e)
                           \in {"close", "read", "write"}
  BY DEF Live, IInv, TypeOK, ReadyRegistered, HandlerFor
<1>5. \A i \in 1 .. n : f[i] \in Live
  BY <1>1
<1> HIDE DEF n
<1>6. report(f) \in [1 .. n -> Reports]
  BY <1>4, <1>5 DEF Reports
<1>7. batch' \in Seq(Reports)
  BY <1>1, <1>3, <1>6, IsASeq
<1>8. Len(batch') = n
  BY <1>1, <1>3, <1>6, <1>7, LenProperties
<1>9. \A i \in 1 .. n : batch'[i].event = f[i]
  BY <1>1
<1>10. Distinct'
  <2>1. SUFFICES ASSUME NEW i \in 1 .. n, NEW j \in 1 .. n,
                        batch'[i].event = batch'[j].event
                 PROVE  i = j
    BY <1>8 DEF Distinct
  <2> QED
    BY <1>1, <1>9, <2>1
<1>11. Present'
  BY <1>2, <1>4, <1>5, <1>8, <1>9 DEF Present, InEpoll
<1>12. ReadyRegistered' /\ ready' \in SUBSET Events
  BY <1>1, <1>2, <1>4 DEF ReadyRegistered, InEpoll
<1>13. TypeOK'
  BY <1>2, <1>3, <1>7, <1>8, <1>12 DEF IInv, TypeOK, Reports, conditions
<1>14. (Counted /\ Idle /\ DanglingNeedsOther)'
  BY <1>2 DEF IInv, Counted, Idle, DanglingNeedsOther, conditions
<1> QED
  BY <1>10, <1>11, <1>12, <1>13, <1>14 DEF IInv

\* A destroyed event is reported only if the report was not to be trusted.
LEMMA DestroyedStep ==
  ASSUME IInv, DispatchDestroyed
  PROVE  IInv'
<1>1. at = "dispatch" /\ batch # <<>> /\ registered[Own] = "gone"
      /\ fault' = TRUE
      /\ UNCHANGED <<registered, etMode, size, at, batch, numEvents,
                     conditions, ready, othersClosed>>
  BY DEF DispatchDestroyed
<1>2. batch \in Seq(Reports) /\ TypeOK
  BY EventOf DEF IInv
<1>3. Head(batch) = batch[1] /\ 1 \in 1 .. Len(batch)
  BY ONLY <1>1, <1>2, NextReport
<1>4. othersClosed
  BY <1>1, <1>3 DEF IInv, Present, InEpoll, Own, Report
<1>5. TypeOK'
  BY <1>1 DEF IInv, TypeOK, conditions
<1>6. (Counted /\ Idle /\ Distinct /\ ReadyRegistered /\ Present)'
  BY <1>1 DEF IInv, Counted, Idle, Distinct, ReadyRegistered, Present, InEpoll,
              conditions
<1>7. DanglingNeedsOther'
  BY <1>1, <1>4 DEF DanglingNeedsOther
<1> QED
  BY <1>5, <1>6, <1>7 DEF IInv

\* A callback: whatever it does, reports of registered events go on waiting or
\* othersClosed is set.  What it has to keep is named in the hypotheses.
LEMMA CallbackStep ==
  ASSUME IInv, at = "dispatch", batch # <<>>, batch' = Tail(batch),
         UNCHANGED <<etMode, size, at, numEvents, hup, happened, fault>>,
         registered' \in [Events -> Stages],
         input' \in [Events -> 0 .. MaxHappenings],
         \A e \in Events : input'[e] <= happened,
         room' \in [Events -> BOOLEAN],
         ready' \in SUBSET Events, ReadyRegistered',
         othersClosed' \in BOOLEAN, othersClosed => othersClosed',
         ~othersClosed' =>
           \A i \in 1 .. Len(batch) :
             i > 1 => Stays(batch[i].event)
  PROVE  IInv'
<1>1. /\ batch' \in Seq(Reports) /\ Len(batch)' <= numEvents'
      /\ Idle' /\ Distinct'
      /\ \A i \in 1 .. Len(batch') : /\ i + 1 \in 1 .. Len(batch)
                                     /\ batch'[i] = batch[i + 1]
  BY BatchGoesOn
<1>2. TypeOK'
  BY <1>1 DEF IInv, TypeOK, Reports, Stages
<1>3. Present'
  <2>1. SUFFICES ASSUME ~othersClosed', NEW i \in 1 .. Len(batch')
                 PROVE  registered'[batch'[i].event] \in {"reading", "writing"}
    BY DEF Present, InEpoll
  <2>2. i + 1 \in 1 .. Len(batch) /\ batch'[i] = batch[i + 1] /\ i + 1 > 1
    BY <1>1
  <2>3. InEpoll(batch[i + 1].event)
    BY <2>1, <2>2 DEF IInv, Present
  <2>4. Stays(batch[i + 1].event)
    BY <2>1, <2>2
  <2> QED
    BY <2>2, <2>3, <2>4 DEF Stays
<1>4. Counted'
  BY DEF Counted
<1>5. DanglingNeedsOther'
  BY DEF IInv, DanglingNeedsOther
<1> QED
  BY <1>1, <1>2, <1>3, <1>4, <1>5 DEF IInv

\* closeCallback_ destroys its own event, of which no other report waits.
LEMMA CloseStep ==
  ASSUME IInv, CloseCallback
  PROVE  IInv'
<1>1. /\ at = "dispatch" /\ batch # <<>> /\ batch' = Tail(batch)
      /\ RemoveEvent(Own)
      /\ UNCHANGED <<etMode, size, at, numEvents, conditions, othersClosed,
                     fault>>
  BY DEF CloseCallback, Dispatch
<1>2. Own \in Events /\ Own = batch[1].event
  BY <1>1, BatchGoesOn DEF Own
<1>3. /\ registered' \in [Events -> Stages] /\ ready' \in SUBSET Events
      /\ ReadyRegistered'
      /\ \A d \in Events : d # Own => registered'[d] = registered[d]
  BY <1>1, <1>2, OthersStay DEF RemoveEvent, IInv, TypeOK
<1>4. \A i \in 1 .. Len(batch) : i > 1 => Stays(batch[i].event)
  BY <1>1, <1>2, <1>3, OthersWait DEF Stays, InEpoll
<1>5. /\ input' \in [Events -> 0 .. MaxHappenings]
      /\ \A e \in Events : input'[e] <= happened
      /\ room' \in [Events -> BOOLEAN]
      /\ othersClosed' \in BOOLEAN
      /\ UNCHANGED <<hup, happened>>
  BY <1>1 DEF IInv, TypeOK, Counted, conditions
<1> QED
  BY <1>1, <1>3, <1>4, <1>5, CallbackStep

\* readCallback_ that changes no registration.
LEMMA ReadStep ==
  ASSUME IInv, ReadCallback
  PROVE  IInv'
<1>1. /\ at = "dispatch" /\ batch # <<>> /\ batch' = Tail(batch)
      /\ ReadInput
      /\ UNCHANGED <<registered, etMode, size, at, numEvents, hup, room, ready,
                     happened, othersClosed, fault>>
  BY DEF ReadCallback, Dispatch
<1>2. Own \in Events
  BY <1>1, BatchGoesOn
<1>3. /\ input' \in [Events -> 0 .. MaxHappenings]
      /\ \A e \in Events : input'[e] <= happened
  BY <1>1, <1>2, InputRead
<1>4. \A i \in 1 .. Len(batch) : i > 1 => Stays(batch[i].event)
  BY <1>1 DEF Stays, InEpoll
<1>5. /\ registered' \in [Events -> Stages] /\ ready' \in SUBSET Events
      /\ room' \in [Events -> BOOLEAN] /\ othersClosed' \in BOOLEAN
      /\ ReadyRegistered'
  BY <1>1 DEF IInv, TypeOK, Stages, ReadyRegistered, InEpoll
<1> QED
  BY <1>1, <1>3, <1>4, <1>5, CallbackStep

\* readCallback_ that falls short of room on some connection.
LEMMA ReadSendsStep ==
  ASSUME IInv, ReadCallbackSends
  PROVE  IInv'
<1>1. /\ at = "dispatch" /\ batch # <<>> /\ batch' = Tail(batch)
      /\ ReadInput
      /\ UNCHANGED <<etMode, size, at, numEvents, hup, happened, othersClosed,
                     fault>>
  BY DEF ReadCallbackSends, Dispatch
<1>2. PICK e \in Events :
        /\ registered' = [registered EXCEPT ![e] = "writing"]
        /\ room' = [room EXCEPT ![e] = FALSE]
        /\ ready' = ready \/ ready' = ready \cup {e}
  BY DEF ReadCallbackSends
<1>3. Own \in Events
  BY <1>1, BatchGoesOn
<1>4. /\ input' \in [Events -> 0 .. MaxHappenings]
      /\ \A d \in Events : input'[d] <= happened
  BY <1>1, <1>3, InputRead
<1>5. /\ registered' \in [Events -> Stages]
      /\ ready' \in SUBSET Events
      /\ ReadyRegistered'
      /\ \A d \in Events : InEpoll(d) => InEpoll(d)'
  BY <1>2, StayRegistered
<1>6. \A i \in 1 .. Len(batch) : i > 1 => Stays(batch[i].event)
  BY <1>5, EventOf DEF IInv, Stays, InEpoll
<1>7. room' \in [Events -> BOOLEAN] /\ othersClosed' \in BOOLEAN
  BY <1>1, <1>2 DEF IInv, TypeOK
<1> QED
  BY <1>1, <1>4, <1>5, <1>6, <1>7, CallbackStep

\* A callback that closes a connection: if a report of that one waits, it is
\* not the callback's own event.
LEMMA ClosesStep ==
  ASSUME IInv, CallbackCloses
  PROVE  IInv'
<1>1. /\ at = "dispatch" /\ batch # <<>> /\ batch' = Tail(batch)
      /\ IF Report.handler = "read" THEN ReadInput ELSE UNCHANGED input
      /\ UNCHANGED <<etMode, size, at, numEvents, hup, room, happened, fault>>
  BY DEF CallbackCloses, Dispatch
<1>2. PICK e \in Events :
        /\ RemoveEvent(e)
        /\ othersClosed' = (othersClosed \/ \E i \in 2 .. Len(batch) :
                                               batch[i].event = e)
  BY DEF CallbackCloses
<1>3. Own \in Events /\ Len(batch) \in Nat
  BY <1>1, BatchGoesOn, EventOf, LenProperties DEF IInv
<1>4. /\ input' \in [Events -> 0 .. MaxHappenings]
      /\ \A d \in Events : input'[d] <= happened
  <2>1. CASE ReadInput
    BY <1>3, <2>1, InputRead
  <2>2. CASE UNCHANGED input
    BY <2>2 DEF IInv, TypeOK, Counted
  <2> QED
    BY <1>1, <2>1, <2>2
<1>5. /\ registered' \in [Events -> Stages] /\ ready' \in SUBSET Events
      /\ ReadyRegistered'
      /\ \A d \in Events : d # e => registered'[d] = registered[d]
  BY <1>2, OthersStay DEF RemoveEvent, IInv, TypeOK
<1>6. othersClosed' \in BOOLEAN /\ (othersClosed => othersClosed')
  <2>1. othersClosed \in BOOLEAN
    BY DEF IInv, TypeOK
  <2> QED
    BY <1>2, <2>1, Zenon
<1>7. ~othersClosed' => \A i \in 2 .. Len(batch) : batch[i].event # e
  BY <1>2, Zenon
<1>8. ~othersClosed' =>
        \A i \in 1 .. Len(batch) : i > 1 => Stays(batch[i].event)
  <2>1. SUFFICES ASSUME ~othersClosed', NEW i \in 1 .. Len(batch), i > 1
                 PROVE  Stays(batch[i].event)
    OBVIOUS
  <2>2. i \in 2 .. Len(batch)
    BY <1>3, <2>1
  <2>3. batch[i].event # e /\ batch[i].event \in Events
    BY <1>7, <2>1, <2>2, EventOf DEF IInv
  <2> QED
    BY <1>5, <2>3 DEF Stays, InEpoll
<1>9. room' \in [Events -> BOOLEAN]
  BY <1>1 DEF IInv, TypeOK
<1> QED
  BY <1>1, <1>4, <1>5, <1>6, <1>8, <1>9, CallbackStep

\* writeCallback_ writes all or goes on waiting for room.
LEMMA WriteStep ==
  ASSUME IInv, WriteCallback
  PROVE  IInv'
<1>1. /\ at = "dispatch" /\ batch # <<>> /\ batch' = Tail(batch)
      /\ InEpoll(Own)
      /\ UNCHANGED <<etMode, size, at, numEvents, input, hup, happened,
                     othersClosed, fault>>
  BY DEF WriteCallback, Dispatch
<1>2. Own \in Events
  BY <1>1, BatchGoesOn
<1>3. /\ registered' \in [Events -> Stages]
      /\ ready' \in SUBSET Events
      /\ ReadyRegistered'
      /\ \A d \in Events :
           InEpoll(d) => registered'[d] \in {"reading", "writing"}
      /\ room' \in [Events -> BOOLEAN]
  <2>1. CASE registered' = [registered EXCEPT ![Own] = "reading"]
             /\ ready' = Requeue(ready, Own, "reading") /\ UNCHANGED room
    <3>1. ready' = ready \/ ready' = ready \cup {Own}
      BY <2>1 DEF Requeue
    <3> HIDE DEF Own
    <3> QED
      BY <1>2, <2>1, <3>1, StayRegistered DEF InEpoll, IInv, TypeOK
  <2>2. CASE room' = [room EXCEPT ![Own] = FALSE]
             /\ UNCHANGED <<registered, ready>>
    BY <1>2, <2>2 DEF IInv, TypeOK, Stages, ReadyRegistered, InEpoll
  <2> QED
    BY <2>1, <2>2 DEF WriteCallback
<1>4. \A i \in 1 .. Len(batch) : i > 1 => Stays(batch[i].event)
  BY <1>3, EventOf DEF IInv, Stays
<1>5. /\ input' \in [Events -> 0 .. MaxHappenings]
      /\ \A e \in Events : input'[e] <= happened
      /\ othersClosed' \in BOOLEAN
  BY <1>1 DEF IInv, TypeOK, Counted
<1> QED
  BY <1>1, <1>3, <1>4, <1>5, CallbackStep

\* events_ grows after a batch that filled it, which had no more reports than
\* there are events.
LEMMA EndStep ==
  ASSUME IInv, ~fault, EndOfBatch
  PROVE  IInv'
<1>1. /\ batch = <<>> /\ at' = "poll" /\ numEvents' = 0 /\ ~othersClosed'
      /\ size' = IF numEvents = size THEN 2 * size ELSE size
      /\ othersClosed' = FALSE
      /\ UNCHANGED <<registered, etMode, batch, conditions, ready, fault>>
  BY DEF EndOfBatch
<1>2. Len(batch') = 0
  BY <1>1, EmptySeq
<1>3. /\ size \in Nat \ {0} /\ Cardinality(Events) \in Nat
      /\ numEvents \in 0 .. Cardinality(Events)
      /\ size = FirstSize \/ size <= 2 * Cardinality(Events)
  BY FS_CardinalityType, WatcherAssumption DEF IInv, TypeOK, WatcherAssumption
<1>4. /\ size' \in Nat \ {0}
      /\ size' = FirstSize \/ size' <= 2 * Cardinality(Events)
      /\ 0 \in 0 .. Cardinality(Events) /\ 0 <= size'
  BY <1>1, <1>3
<1>5. TypeOK'
  <2>1. /\ numEvents' \in 0 .. Cardinality(Events)
        /\ Len(batch') <= numEvents' /\ numEvents' <= size'
    BY <1>1, <1>2, <1>4
  <2>2. batch' \in Seq(Reports) /\ othersClosed' \in BOOLEAN
        /\ at' \in {"poll", "dispatch"}
    BY <1>1, EventOf DEF IInv
  <2> QED
    BY <1>1, <1>4, <2>1, <2>2 DEF IInv, TypeOK, conditions, Reports
<1>6. (Distinct /\ Present)'
  BY <1>2 DEF Distinct, Present
<1>7. (Counted /\ Idle /\ ReadyRegistered /\ DanglingNeedsOther)'
  BY <1>1 DEF IInv, Counted, Idle, ReadyRegistered, InEpoll, DanglingNeedsOther,
              conditions
<1> QED
  BY <1>5, <1>6, <1>7 DEF IInv

\* Every step keeps the invariant.
LEMMA Preservation == IInv /\ [Next]_vars => IInv'
<1> SUFFICES ASSUME IInv, [Next]_vars
             PROVE  IInv'
  OBVIOUS
<1>1. CASE UNCHANGED vars
  BY <1>1 DEF vars, conditions, IInv, TypeOK, Counted, Idle, Distinct,
              ReadyRegistered, Present, InEpoll, DanglingNeedsOther
<1>2. CASE Next
  <2>1. CASE \E e \in Events : Arrive(e) \/ HangUp(e) \/ MakeRoom(e)
    BY <2>1, KernelStep
  <2>2. CASE \E e \in Events : ExpectReading(e) \/ ExpectWriting(e)
    BY <2>2, RegistrationStep
  <2>3. CASE \E e \in Events : CloseInFunctor(e)
    BY <2>3, FunctorStep
  <2>4. CASE EpollWait
    BY <2>4, WaitStep
  <2>5. CASE DispatchDestroyed
    BY <2>5, DestroyedStep
  <2>6. CASE CloseCallback
    BY <2>6, CloseStep
  <2>7. CASE ReadCallback \/ ReadCallbackSends
    BY <2>7, ReadStep, ReadSendsStep
  <2>8. CASE CallbackCloses
    BY <2>8, ClosesStep
  <2>9. CASE WriteCallback
    BY <2>9, WriteStep
  <2>10. CASE EndOfBatch /\ ~fault
    BY <2>10, EndStep
  <2> QED
    BY <1>2, <2>1, <2>2, <2>3, <2>4, <2>5, <2>6, <2>7, <2>8, <2>9, <2>10
       DEF Next, HandleIOEvent
<1> QED
  BY <1>1, <1>2

\* The invariant holds throughout.
LEMMA Invariance == Spec => []IInv
BY Beginning, Preservation, PTL DEF Spec

\* Every variable keeps to its set: in particular a batch is never larger than
\* events_, nor events_ larger than twice the events there are, unless it was
\* so at first, however often handleIOEvent doubles it.
THEOREM TypeCorrect == Spec => []TypeOK
<1>1. IInv => TypeOK
  BY DEF IInv
<1> QED
  BY <1>1, Invariance, PTL

\* handleIOEvent follows data.ptr to a destroyed event only if a callback of the
\* same batch has closed a connection, not its own, whose report waits.
THEOREM DestroyedExplained == Spec => []DanglingNeedsOther
<1>1. IInv => DanglingNeedsOther
  BY DEF IInv
<1> QED
  BY <1>1, Invariance, PTL

\* If callbacks close no connection but their own, no step marks a report that
\* waits: the event at hand is in the batch once.
LEMMA OwnOnly ==
  ASSUME CloseOthers = FALSE
  PROVE  IInv /\ ~othersClosed /\ [Next]_vars => ~othersClosed'
<1> SUFFICES ASSUME IInv, ~othersClosed, [Next]_vars
             PROVE  ~othersClosed'
  OBVIOUS
<1>1. CASE CallbackCloses
  <2>1. batch # <<>>
    BY <1>1 DEF CallbackCloses, Dispatch
  <2>2. othersClosed' = (othersClosed \/ \E i \in 2 .. Len(batch) :
                                            batch[i].event = Own)
    BY <1>1 DEF CallbackCloses
  <2>3. Len(batch) \in Nat
    BY EventOf, LenProperties DEF IInv
  <2>4. \A i \in 2 .. Len(batch) : batch[i].event # Own
    <3> TAKE i \in 2 .. Len(batch)
    <3>1. i \in 1 .. Len(batch) /\ i > 1
      BY <2>3
    <3> QED
      BY <2>1, <3>1, OthersWait
  <2> QED
    BY <2>2, <2>4, Zenon
<1>2. CASE EndOfBatch
  BY <1>2 DEF EndOfBatch
<1>3. CASE ~CallbackCloses /\ ~EndOfBatch
  BY <1>3 DEF Next, HandleIOEvent, vars, EpollWait, DispatchDestroyed,
              CloseCallback, ReadCallback, ReadCallbackSends, WriteCallback,
              Arrive, HangUp, MakeRoom, ExpectReading, ExpectWriting,
              CloseInFunctor
<1> QED
  BY <1>1, <1>2, <1>3

\* In a loop whose callbacks close no connection but their own, and whose other
\* closes run in functors, handleIOEvent never follows a dangling data.ptr,
\* whatever the kernel reports and in whatever order.
THEOREM OwnClosesAreSafe ==
  ASSUME CloseOthers = FALSE
  PROVE  Spec => []~fault
<1>1. Init => ~othersClosed
  BY DEF Init
<1>2. IInv /\ ~othersClosed /\ [Next]_vars => ~othersClosed'
  BY OwnOnly
<1>3. IInv /\ ~othersClosed => ~fault
  BY DEF IInv, DanglingNeedsOther
<1> QED
  BY <1>1, <1>2, <1>3, Invariance, PTL DEF Spec
================================================================================
