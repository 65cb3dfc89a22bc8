----------------------------- MODULE MCIOWatcher -----------------------------
(* IOWatcher instantiated for TLC. *)
EXTENDS IOWatcher
=============================================================================
