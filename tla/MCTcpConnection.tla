--------------------------- MODULE MCTcpConnection ---------------------------
(* TcpConnection instantiated for TLC. *)
EXTENDS TcpConnection
=============================================================================
