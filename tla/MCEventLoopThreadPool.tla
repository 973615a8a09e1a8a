------------------------ MODULE MCEventLoopThreadPool -------------------------
(* A pool of three threads that is asked for a loop five times; a pool of two    *)
(* that is destroyed at any time; and a pool without threads.                   *)
EXTENDS EventLoopThreadPool
=============================================================================
