------------------------------ MODULE MCValues ------------------------------
(* Values instantiated for TLC. *)
EXTENDS Values

\* Leap years, common years, and the two kinds of century.
MCYears == (1998 .. 2006) \cup (2098 .. 2103)
=============================================================================
