---------------------------- MODULE MCTcpServer ----------------------------
(* TcpServer instantiated for TLC. *)
EXTENDS TcpServer
=============================================================================
