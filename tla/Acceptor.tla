------------------------------- MODULE Acceptor -------------------------------
(***************************************************************************)
(* An Acceptor (potato/net/Acceptor.{h,cpp}) on the thread of its loop, the *)
(* kernel's queue of connections, and the descriptors of the process, which *)
(* other threads take and give back all the time.  The acceptor keeps one   *)
(* descriptor in reserve, idleFd_: when there is no other left it is spent  *)
(* on accepting a connection in order to close it.                          *)
(*                                                                         *)
(* One action is one system call with the tests of its result.  accept      *)
(* looks for a free descriptor (EMFILE) before it looks at the queue        *)
(* (EAGAIN).                                                                *)
(***************************************************************************)
EXTENDS Integers

CONSTANTS Limit,       \* descriptors of the process, but for the loops' own
          EtModes,     \* the loop's IOWatcher may be edge-triggered or not
          MaxClients,  \* bound: connections that arrive
          MaxOpens,    \* bound: descriptors others open
          MaxErrors    \* bound: failures of accept for another reason

ASSUME AcceptorAssumption ==
  /\ {Limit, MaxClients, MaxOpens, MaxErrors} \subseteq Nat
  /\ EtModes \subseteq BOOLEAN

VARIABLES at,        \* where the loop's thread stands
          idleFd,    \* what idleFd_ refers to, or "none"
          etMode,    \* the event's etMode_
          free,      \* kernel: descriptors nobody uses
          queue,     \* kernel: connections to accept
          ready,     \* kernel: an edge not yet reported
          served,    \* connections handed to newConnectionCallback_ and open
          others,    \* descriptors in use for anything else
          arrived,   \* history: connections that arrived
          opens,     \* history: descriptors others opened
          errors,    \* history: failures for another reason
          deprived   \* history: others took the last descriptor while the
                     \* acceptor was without its own

kernel == <<etMode, queue, ready>>
world == <<served, others, arrived, opens>>
vars == <<at, idleFd, free, kernel, world, errors, deprived>>

\* The constructor: the spare is opened if there is a descriptor left.
Init ==
  /\ at = "new"
  /\ etMode \in EtModes
  /\ others \in 0 .. Limit
  /\ deprived = (others = Limit)
  /\ idleFd = IF deprived THEN "none" ELSE "spare"
  /\ free = IF deprived THEN 0 ELSE Limit - others - 1
  /\ queue = 0 /\ ready = FALSE
  /\ served = 0 /\ arrived = 0 /\ opens = 0 /\ errors = 0

-----------------------------------------------------------------------------
(* The loop's thread.                                                       *)

\* listen() is called once, before the loop runs.
Listen ==
  /\ at = "new"
  /\ at' = "poll"
  /\ UNCHANGED <<idleFd, free, kernel, world, errors, deprived>>

\* The destructor of an acceptor that listens.  One that does not fails the
\* assertion of removeIOEvent.
Destroy ==
  /\ at = "poll"
  /\ at' = "destroyed"
  /\ free' = IF idleFd = "none" THEN free ELSE free + 1
  /\ idleFd' = "none"
  /\ UNCHANGED <<kernel, world, errors, deprived>>

\* epoll_wait reports the listening socket and calls handleAccept.
HandleIOEvent ==
  /\ at = "poll"
  /\ IF etMode THEN ready ELSE queue > 0
  /\ ready' = FALSE
  /\ at' = "accept"
  /\ UNCHANGED <<idleFd, free, etMode, queue, world, errors, deprived>>

\* Variant: the result of accept is not tested.
AcceptUntested ==
  /\ at = "accept"
  /\ free > 0
  /\ queue' = queue - 1
  /\ served' = served + 1
  /\ free' = free - 1
  /\ UNCHANGED <<at, idleFd, etMode, ready, others, arrived, opens, errors,
                 deprived>>

\* Variant: one connection per call.
AcceptOne ==
  /\ at = "accept"
  /\ free > 0 /\ queue > 0
  /\ free' = free - 1
  /\ queue' = queue - 1
  /\ served' = served + 1
  /\ at' = "poll"
  /\ UNCHANGED <<idleFd, etMode, ready, others, arrived, opens, errors, deprived>>

\* A connection is accepted and handed to newConnectionCallback_.
AcceptConnection ==
  /\ at = "accept"
  /\ free > 0 /\ queue > 0
  /\ free' = free - 1
  /\ queue' = queue - 1
  /\ served' = served + 1
  /\ UNCHANGED <<at, idleFd, etMode, ready, others, arrived, opens, errors,
                 deprived>>

\* EAGAIN: handleAccept returns.
AcceptNothing ==
  /\ at = "accept"
  /\ free > 0 /\ queue = 0
  /\ at' = "poll"
  /\ UNCHANGED <<idleFd, free, kernel, world, errors, deprived>>

\* EMFILE, and the spare is closed (or, if there is none, nothing).
SpendSpare ==
  /\ at = "accept"
  /\ free = 0
  /\ at' = "spent"
  /\ free' = IF idleFd = "none" THEN 0 ELSE 1
  /\ idleFd' = "none"
  /\ UNCHANGED <<kernel, world, errors, deprived>>

\* Any other failure of accept is logged and accept called again.
AcceptFails ==
  /\ at = "accept"
  /\ errors < MaxErrors
  /\ errors' = errors + 1
  /\ UNCHANGED <<at, idleFd, free, kernel, world, deprived>>

\* The second accept, into the place of the spare.
AcceptToRefuse ==
  /\ at = "spent"
  /\ free > 0 /\ queue > 0
  /\ free' = free - 1
  /\ queue' = queue - 1
  /\ idleFd' = "client"
  /\ at' = "refuse"
  /\ UNCHANGED <<etMode, ready, world, errors, deprived>>

\* Variant: EAGAIN goes the way of the other failures.
NothingToRefuseGoingOn ==
  /\ at = "spent"
  /\ free > 0 /\ queue = 0
  /\ at' = "refuse"
  /\ UNCHANGED <<idleFd, free, kernel, world, errors, deprived>>

\* EAGAIN from the second accept.
NothingToRefuse ==
  /\ at = "spent"
  /\ free > 0 /\ queue = 0
  /\ at' = "last"
  /\ UNCHANGED <<idleFd, free, kernel, world, errors, deprived>>

\* The second accept fails, because another thread has taken the descriptor or
\* for another reason, and idleFd_ is -1.
RefuseFails ==
  /\ at = "spent"
  /\ \/ free = 0 /\ UNCHANGED errors
     \/ errors < MaxErrors /\ errors' = errors + 1
  /\ at' = "refuse"
  /\ UNCHANGED <<idleFd, free, kernel, world, deprived>>

\* Variant: the refused connection stays open.
RefuseLeaking ==
  /\ at = "refuse"
  /\ idleFd' = "none"
  /\ at' = "reopen"
  /\ UNCHANGED <<free, kernel, world, errors, deprived>>

\* The connection is closed.
Refuse ==
  /\ at = "refuse"
  /\ free' = IF idleFd = "none" THEN free ELSE free + 1
  /\ idleFd' = "none"
  /\ at' = "reopen"
  /\ UNCHANGED <<kernel, world, errors, deprived>>

\* Variant: the spare is opened only on the way to the next accept.
ReopenBeforeNext ==
  /\ at \in {"reopen", "last"}
  /\ IF free > 0 /\ at = "reopen"
       THEN free' = free - 1 /\ idleFd' = "spare"
       ELSE UNCHANGED <<free, idleFd>>
  /\ at' = IF at = "reopen" THEN "accept" ELSE "poll"
  /\ UNCHANGED <<kernel, world, errors, deprived>>

\* The spare is opened again, if there is a descriptor, and handleAccept goes
\* on or, after EAGAIN, returns.
Reopen ==
  /\ at \in {"reopen", "last"}
  /\ IF free > 0
       THEN free' = free - 1 /\ idleFd' = "spare"
       ELSE UNCHANGED <<free, idleFd>>
  /\ at' = IF at = "reopen" THEN "accept" ELSE "poll"
  /\ UNCHANGED <<kernel, world, errors, deprived>>

-----------------------------------------------------------------------------
(* Clients, and the other threads of the process.                           *)

\* A connection arrives.
Arrive ==
  /\ at \notin {"new", "destroyed"}
  /\ arrived < MaxClients
  /\ arrived' = arrived + 1
  /\ queue' = queue + 1
  /\ ready' = TRUE
  /\ UNCHANGED <<at, idleFd, free, etMode, served, others, opens, errors,
                 deprived>>

\* A connection ends on the thread of its loop.
EndConnection ==
  /\ served > 0
  /\ served' = served - 1
  /\ free' = free + 1
  /\ UNCHANGED <<at, idleFd, kernel, others, arrived, opens, errors, deprived>>

\* Another part of the process opens a file or socket, or closes one.
OthersOpen ==
  /\ opens < MaxOpens
  /\ free > 0
  /\ free' = free - 1
  /\ others' = others + 1
  /\ opens' = opens + 1
  /\ deprived' = (deprived \/ (free = 1 /\ idleFd = "none"))
  /\ UNCHANGED <<at, idleFd, kernel, served, arrived, errors>>

OthersClose ==
  /\ others > 0
  /\ others' = others - 1
  /\ free' = free + 1
  /\ UNCHANGED <<at, idleFd, kernel, served, arrived, opens, errors, deprived>>

-----------------------------------------------------------------------------
HandleAccept ==
  \/ AcceptConnection \/ AcceptNothing \/ SpendSpare \/ AcceptFails
  \/ AcceptToRefuse \/ NothingToRefuse \/ RefuseFails \/ Refuse \/ Reopen

Next ==
  \/ Listen \/ Destroy \/ HandleIOEvent \/ HandleAccept
  \/ Arrive \/ EndConnection \/ OthersOpen \/ OthersClose

Spec == Init /\ [][Next]_vars

\* The loop's thread keeps executing; nobody has to connect or to close.
FairSpec == Spec /\ WF_vars(HandleIOEvent) /\ WF_vars(HandleAccept)

-----------------------------------------------------------------------------
TypeOK ==
  /\ at \in {"new", "poll", "accept", "spent", "refuse", "reopen", "last",
             "destroyed"}
  /\ idleFd \in {"none", "spare", "client"}
  /\ etMode \in BOOLEAN /\ ready \in BOOLEAN /\ deprived \in BOOLEAN
  /\ {free, served, others} \subseteq 0 .. Limit
  /\ queue \in 0 .. MaxClients /\ arrived \in 0 .. MaxClients
  /\ opens \in 0 .. MaxOpens
  /\ errors \in 0 .. MaxErrors

\* handleAccept loses no descriptor: each is free, in idleFd_, a connection
\* that was handed out, or somebody else's.
DescriptorsAccounted ==
  Limit = free + served + others + (IF idleFd = "none" THEN 0 ELSE 1)

\* Between two calls of handleAccept idleFd_ is a spare descriptor again,
\* however many connections were refused, unless another thread was faster
\* when it was the only one left.
SpareKept == at \in {"new", "poll"} /\ ~deprived => idleFd = "spare"

\* Every pending connection is accepted or refused, although an edge is
\* reported once and there may be no descriptor for it.
EveryClientAnswered ==
  (queue > 0) ~> (queue = 0 \/ deprived \/ at = "destroyed")

\* handleAccept returns to the loop even if there is no descriptor left and no
\* connection ends.  Deprived of its spare it calls accept, close and open
\* forever, and the loop stands still, until somebody closes a descriptor.
HandleAcceptReturns == (at = "accept") ~> (at = "poll" \/ deprived)
=============================================================================
