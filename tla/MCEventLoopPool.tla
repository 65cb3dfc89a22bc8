-------------------------- MODULE MCEventLoopPool --------------------------
(* EventLoopPool instantiated for TLC. *)
EXTENDS EventLoopPool
=============================================================================
