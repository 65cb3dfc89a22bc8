----------------------------- MODULE MCAcceptor -----------------------------
(* Acceptor instantiated for TLC. *)
EXTENDS Acceptor
=============================================================================
