---------------------------- MODULE FunctorQueue ----------------------------
(***************************************************************************)
(* What EventLoop promises about the functors it is handed, with no word   *)
(* about threads, locks, the swap or the wake-up descriptor:               *)
(*   - a functor given to QueueInLoop waits in one queue,                  *)
(*   - the queue is served first in, first out,                            *)
(*   - every functor is run at most once,                                  *)
(*   - RunInLoop on the loop's own thread runs its functor at once, ahead  *)
(*     of everything that is queued.                                       *)
(***************************************************************************)
EXTENDS Naturals, Sequences, Functions

CONSTANT Tasks          \* the functors; each is handed over at most once

VARIABLES queue,        \* functors accepted and not yet begun
          done          \* functors begun, in order

qvars == <<queue, done>>

Fresh(t) == t \notin Range(queue) \cup Range(done)

Init == queue = <<>> /\ done = <<>>

Submit(t) ==
  /\ Fresh(t)
  /\ queue' = Append(queue, t)
  /\ UNCHANGED done

RunNow(t) ==
  /\ Fresh(t)
  /\ done' = Append(done, t)
  /\ UNCHANGED queue

RunHead ==
  /\ queue # <<>>
  /\ done' = Append(done, Head(queue))
  /\ queue' = Tail(queue)

Next == RunHead \/ \E t \in Tasks : Submit(t) \/ RunNow(t)

Spec == Init /\ [][Next]_qvars
=============================================================================
