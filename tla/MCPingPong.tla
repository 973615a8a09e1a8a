----------------------------- MODULE MCPingPong -----------------------------
(* Two sessions, one of which may hang, on the same loop or on two; a block of  *)
(* two bytes and room for one on the way back, so that a write can block half   *)
(* way.                                                                         *)
EXTENDS PingPong
=============================================================================
