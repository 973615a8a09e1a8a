--------------------------- MODULE MCTcpConnection --------------------------
(* TcpConnection with short messages, so that a write can take all, some or  *)
(* none of one, on the loop thread and from other threads.                   *)
EXTENDS TcpConnection
=============================================================================
