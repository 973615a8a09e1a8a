----------------------------- MODULE MCTcpServer ------------------------------
(* Two connections over no, one or two threads.                                  *)
EXTENDS TcpServer
=============================================================================
