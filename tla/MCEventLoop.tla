---------------------------- MODULE MCEventLoop -----------------------------
(* EventLoop with two other threads, four functors one of which is queued   *)
(* quietly, one I/O channel and an eventfd that is full at two.              *)
EXTENDS EventLoop
=============================================================================
