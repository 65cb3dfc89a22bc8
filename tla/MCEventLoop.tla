---------------------------- MODULE MCEventLoop ----------------------------
(* EventLoop instantiated for TLC: threads are model values.  The runs check *)
(* liveness too, so the threads are not declared symmetric.                  *)
EXTENDS EventLoop
=============================================================================
