------------------------------ MODULE SlotPool ------------------------------
(***************************************************************************)
(* What newConnection and destroyConnection of a TcpServer may rely on: a   *)
(* slot is free or held, one slot at a time changes hands, and new slots    *)
(* appear only when none is free.                                           *)
(***************************************************************************)
VARIABLES free,  \* slots for the next connections
          held   \* slots of connections, from their birth to their end

vars == <<free, held>>

\* borrowConnection
Borrow ==
  \E s \in free : free' = free \ {s} /\ held' = held \cup {s}

\* returnConnection
Return ==
  \E s \in held : held' = held \ {s} /\ free' = free \cup {s}

\* borrowConnection's new slots.
Grow ==
  /\ free = {}
  /\ free' # {} /\ free' \cap held = {}
  /\ UNCHANGED held

Init == free # {} /\ held = {}

Next == Borrow \/ Return \/ Grow

Spec == Init /\ [][Next]_vars
=============================================================================
