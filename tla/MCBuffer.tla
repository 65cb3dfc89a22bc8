------------------------------ MODULE MCBuffer ------------------------------
(* Buffer instantiated for TLC. *)
EXTENDS Buffer
=============================================================================
