-------------------------- MODULE EventLoopProofs ---------------------------
(***************************************************************************)
(* Proofs about EventLoop.tla, for any number of threads, functors and     *)
(* channels and any eventfd limit:                                         *)
(*   TypeCorrect     the type invariant,                                   *)
(*   NoWakeupIsLost  NoLostWakeup,                                         *)
(*   ImplementsQueue every step is a step of FunctorQueue or a stutter.    *)
(***************************************************************************)
EXTENDS EventLoop, TLAPS

-----------------------------------------------------------------------------
(* Facts about sequences and their ranges *)

(* The range of a sequence over S is a set of elements of S. *)
LEMMA RangeInSet ==
  ASSUME NEW S, NEW s \in Seq(S)
  PROVE  Range(s) \subseteq S
  BY DEF Range

(* The empty sequence has an empty range. *)
LEMMA RangeEmpty == Range(<<>>) = {}
  BY DEF Range

(* Appending x adds at most x to the range. *)
LEMMA RangeAppend ==
  ASSUME NEW S, NEW s \in Seq(S), NEW x \in S
  PROVE  Range(Append(s, x)) \subseteq Range(s) \cup {x}
  <1> SUFFICES ASSUME NEW i \in DOMAIN Append(s, x)
               PROVE  Append(s, x)[i] \in Range(s) \cup {x}
    BY DEF Range
  <1>1. CASE i = Len(s) + 1
    BY <1>1
  <1>2. CASE i # Len(s) + 1
    <2>1. i \in DOMAIN s /\ Append(s, x)[i] = s[i]
      BY <1>2
    <2> QED BY <2>1 DEF Range
  <1> QED BY <1>1, <1>2

-----------------------------------------------------------------------------
(* A write to the eventfd leaves it readable, full or not. *)
LEMMA WakeupWakes ==
  ASSUME wake_fd_ \in 0..EventfdMax, Wakeup
  PROVE  wake_fd_' \in 0..EventfdMax /\ wake_fd_' > 0
  BY EventfdAssumption DEF Wakeup

(* Every value a variable of the loop takes has its type (event_loop.h:63-80). *)
THEOREM TypeCorrect == Spec => []TypeOK
  <1>1. Init => TypeOK
    <2> SUFFICES ASSUME Init PROVE TypeOK
      OBVIOUS
    <2>1. <<>> \in Seq(Tasks)
      OBVIOUS
    <2>2. 0 \in 0..EventfdMax
      BY EventfdAssumption
    <2>3. caller \in [Threads -> {"idle", "queueing", "quitting"}]
      BY DEF Init
    <2> QED BY <2>1, <2>2, <2>3 DEF Init, TypeOK, PCs
  <1>2. TypeOK /\ [Next]_vars => TypeOK'
    <2> SUFFICES ASSUME TypeOK, [Next]_vars PROVE TypeOK'
      OBVIOUS
    <2> USE DEF TypeOK, PCs, loopvars, flags, queues
    <2>1. CASE EnterLoop \/ ClearQuit \/ TestQuit \/ StartPoll
      BY <2>1 DEF EnterLoop, ClearQuit, TestQuit, StartPoll
    <2>2. CASE PollReturns \/ PollGivesUp \/ HandleRead
      BY <2>2, EventfdAssumption DEF PollReturns, PollGivesUp, HandleRead
    <2>3. ASSUME NEW c \in Channels, HandleEvent(c) \/ BecomeReady(c) PROVE TypeOK'
      BY <2>3 DEF HandleEvent, BecomeReady
    <2>4. CASE StartFunctors \/ SwapFunctors \/ FunctorsDone
      BY <2>4 DEF StartFunctors, SwapFunctors, FunctorsDone
    <2>5. CASE EndCallback \/ ExitLoop \/ Quit_Self
      BY <2>5 DEF EndCallback, ExitLoop, Quit_Self
    <2>6. ASSUME NEW t \in Tasks, QueueInLoop_Self(t) \/ RunInLoop_Self(t) PROVE TypeOK'
      <3>1. Append(pending_functors_, t) \in Seq(Tasks) /\ Append(executed, t) \in Seq(Tasks)
        OBVIOUS
      <3>2. CASE QueueInLoop_Self(t)
        <4>1. wake_fd_' \in 0..EventfdMax
          BY <3>2, WakeupWakes DEF QueueInLoop_Self
        <4> QED BY <3>1, <3>2, <4>1 DEF QueueInLoop_Self
      <3>3. CASE RunInLoop_Self(t)
        BY <3>1, <3>3 DEF RunInLoop_Self
      <3> QED BY <2>6, <3>2, <3>3
    <2>7. ASSUME NEW th \in Threads, NEW t \in Tasks, QueueInLoop_Foreign(th, t) PROVE TypeOK'
      <3>1. Append(pending_functors_, t) \in Seq(Tasks)
        OBVIOUS
      <3> QED BY <2>7, <3>1 DEF QueueInLoop_Foreign
    <2>8. ASSUME NEW th \in Threads, Quit_Foreign(th) \/ Wakeup_Foreign(th) PROVE TypeOK'
      <3>1. wake_fd_' \in 0..EventfdMax
        BY <2>8, WakeupWakes DEF Quit_Foreign, Wakeup_Foreign
      <3> QED BY <2>8, <3>1 DEF Quit_Foreign, Wakeup_Foreign
    <2>9. CASE UNCHANGED vars
      BY <2>9 DEF vars
    <2>10. CASE RunFunctor
      <3>1. functors # <<>>
        BY <2>10 DEF RunFunctor
      <3>2. Head(functors) \in Tasks /\ Tail(functors) \in Seq(Tasks)
        BY <3>1
      <3>3. Append(executed, Head(functors)) \in Seq(Tasks)
        BY <3>2
      <3> QED BY <2>10, <3>2, <3>3 DEF RunFunctor
    <2> QED
      BY <2>1, <2>2, <2>3, <2>4, <2>5, <2>6, <2>7, <2>8, <2>9, <2>10 DEF Next, LoopStep
  <1> QED BY <1>1, <1>2, PTL DEF Spec

-----------------------------------------------------------------------------
(* The local batch is empty outside its loop, so the swap empties the queue. *)
BatchInv == pc # "run" => functors = <<>>

(* calling_pending_functors_ is set exactly while DoPendingFunctors runs. *)
CallingInv == calling_pending_functors_ <=> pc \in {"swap", "run"}

(* From the moment a batch is taken until the next epoll_wait has returned, a *)
(* functor that is queued and not quiet has a wake-up in the eventfd or in a  *)
(* thread that is about to write one.  Between the return of epoll_wait and   *)
(* the swap the eventfd may be drained: the swap is still to come.            *)
WakeInv ==
  pc \notin {"io", "swap"} =>
    Range(pending_functors_) \subseteq QuietTasks \/ wake_fd_ > 0 \/ Waking # {}

LoopInv == TypeOK /\ BatchInv /\ CallingInv /\ WakeInv

(* BatchInv and CallingInv are kept by every step. *)
LEMMA PhaseStep ==
  ASSUME TypeOK, BatchInv, CallingInv, [Next]_vars
  PROVE  BatchInv' /\ CallingInv'
  <1> USE DEF TypeOK, BatchInv, CallingInv, loopvars, flags, queues
  <1>1. CASE EnterLoop \/ ClearQuit \/ TestQuit \/ StartPoll
    BY <1>1 DEF EnterLoop, ClearQuit, TestQuit, StartPoll
  <1>2. CASE PollReturns \/ PollGivesUp \/ HandleRead
    BY <1>2 DEF PollReturns, PollGivesUp, HandleRead
  <1>3. ASSUME NEW c \in Channels, HandleEvent(c) \/ BecomeReady(c)
        PROVE  BatchInv' /\ CallingInv'
    BY <1>3 DEF HandleEvent, BecomeReady
  <1>4. CASE StartFunctors \/ SwapFunctors \/ RunFunctor \/ FunctorsDone
    BY <1>4 DEF StartFunctors, SwapFunctors, RunFunctor, FunctorsDone
  <1>5. CASE EndCallback \/ ExitLoop \/ Quit_Self
    BY <1>5 DEF EndCallback, ExitLoop, Quit_Self
  <1>6. ASSUME NEW t \in Tasks, QueueInLoop_Self(t) \/ RunInLoop_Self(t)
        PROVE  BatchInv' /\ CallingInv'
    BY <1>6 DEF QueueInLoop_Self, RunInLoop_Self
  <1>7. ASSUME NEW th \in Threads, NEW t \in Tasks, QueueInLoop_Foreign(th, t)
        PROVE  BatchInv' /\ CallingInv'
    BY <1>7 DEF QueueInLoop_Foreign
  <1>8. ASSUME NEW th \in Threads, Quit_Foreign(th) \/ Wakeup_Foreign(th)
        PROVE  BatchInv' /\ CallingInv'
    BY <1>8 DEF Quit_Foreign, Wakeup_Foreign
  <1>9. CASE UNCHANGED vars
    BY <1>9 DEF vars
  <1> QED
    BY <1>1, <1>2, <1>3, <1>4, <1>5, <1>6, <1>7, <1>8, <1>9 DEF Next, LoopStep

(* WakeInv is kept by every step; the interesting ones are the three ways a  *)
(* functor is queued, the eventfd's write and read, and the swap.            *)
LEMMA WakeStep ==
  ASSUME LoopInv, [Next]_vars
  PROVE  WakeInv'
  <1> USE DEF LoopInv, TypeOK, loopvars, flags, queues
  <1>1. CASE EnterLoop \/ ClearQuit \/ TestQuit \/ StartPoll
    BY <1>1 DEF EnterLoop, ClearQuit, TestQuit, StartPoll, WakeInv, Waking
  <1>2. CASE PollReturns \/ PollGivesUp \/ HandleRead
    BY <1>2 DEF PollReturns, PollGivesUp, HandleRead, WakeInv
  <1>3. ASSUME NEW c \in Channels, HandleEvent(c) \/ BecomeReady(c) PROVE WakeInv'
    BY <1>3 DEF HandleEvent, BecomeReady, WakeInv, Waking
  <1>4. CASE StartFunctors \/ RunFunctor \/ FunctorsDone
    BY <1>4 DEF StartFunctors, RunFunctor, FunctorsDone, WakeInv, Waking
  <1>5. CASE SwapFunctors
    <2>1. pending_functors_' = <<>>
      BY <1>5 DEF SwapFunctors, BatchInv
    <2> QED BY <2>1, RangeEmpty DEF WakeInv
  <1>6. CASE EndCallback \/ ExitLoop \/ Quit_Self
    BY <1>6 DEF EndCallback, ExitLoop, Quit_Self, WakeInv, Waking
  <1>7. ASSUME NEW t \in Tasks, QueueInLoop_Self(t) PROVE WakeInv'
    <2> USE <1>7 DEF QueueInLoop_Self
    <2>1. Range(pending_functors_') \subseteq Range(pending_functors_) \cup {t}
      BY RangeAppend
    <2>2. CASE InQuietCode /\ t \in QuietTasks
      <3>1. wake_fd_' = wake_fd_
        BY <2>2 DEF InQuietCode, NeedsWakeup, CallingInv
      <3> QED BY <2>1, <2>2, <3>1 DEF WakeInv, Waking, InQuietCode
    <2>3. CASE InLoudCode
      <3>1. CASE pc = "io"
        BY <3>1 DEF WakeInv
      <3>2. CASE pc = "run"
        <4>1. wake_fd_' > 0
          BY <3>2, WakeupWakes DEF NeedsWakeup, CallingInv
        <4> QED BY <4>1 DEF WakeInv
      <3> QED BY <2>3, <3>1, <3>2 DEF InLoudCode
    <2> QED BY <2>2, <2>3
  <1>8. ASSUME NEW t \in Tasks, RunInLoop_Self(t) PROVE WakeInv'
    BY <1>8 DEF RunInLoop_Self, WakeInv, Waking
  <1>9. ASSUME NEW th \in Threads, NEW t \in Tasks, QueueInLoop_Foreign(th, t) PROVE WakeInv'
    <2>1. th \in Waking'
      BY <1>9 DEF QueueInLoop_Foreign, NeedsWakeup, Waking
    <2> QED BY <2>1 DEF WakeInv
  <1>10. ASSUME NEW th \in Threads, Quit_Foreign(th) PROVE WakeInv'
    <2>1. th \in Waking'
      BY <1>10 DEF Quit_Foreign, Waking
    <2> QED BY <2>1 DEF WakeInv
  <1>11. ASSUME NEW th \in Threads, Wakeup_Foreign(th) PROVE WakeInv'
    <2>1. wake_fd_' > 0
      BY <1>11, WakeupWakes DEF Wakeup_Foreign
    <2> QED BY <2>1 DEF WakeInv
  <1>12. CASE UNCHANGED vars
    BY <1>12 DEF vars, WakeInv, Waking
  <1> QED
    BY <1>1, <1>2, <1>3, <1>4, <1>5, <1>6, <1>7, <1>8, <1>9, <1>10, <1>11, <1>12
       DEF Next, LoopStep

(* QueueInLoop, Wakeup, HandleRead and DoPendingFunctors never lose a wake-up,  *)
(* however many threads queue, whatever the callbacks do and however full the   *)
(* eventfd is: a loop asleep in epoll_wait has only quiet functors waiting.     *)
THEOREM NoWakeupIsLost == Spec => []NoLostWakeup
  <1>1. Init => BatchInv /\ CallingInv /\ WakeInv
    BY RangeEmpty DEF Init, BatchInv, CallingInv, WakeInv
  <1>2. TypeOK /\ BatchInv /\ CallingInv /\ WakeInv /\ [Next]_vars
          => BatchInv' /\ CallingInv' /\ WakeInv'
    BY PhaseStep, WakeStep DEF LoopInv
  <1>3. TypeOK /\ WakeInv => NoLostWakeup
    BY DEF TypeOK, WakeInv, NoLostWakeup, Asleep
  <1> QED BY <1>1, <1>2, <1>3, TypeCorrect, PTL DEF Spec

-----------------------------------------------------------------------------
(* The queue of FunctorQueue is what is left of the batch, then what is pending. *)
Queue == functors \o pending_functors_

(* A step that touches neither list nor the history is a stutter of the queue. *)
LEMMA QueueStutters ==
  ASSUME UNCHANGED <<functors, pending_functors_, executed>>
  PROVE  UNCHANGED <<Queue, executed>>
  BY DEF Queue

(* QueueInLoop, from any thread, is Submit: appending to pending_functors_ *)
(* appends to the whole queue.                                             *)
LEMMA QueueSubmits ==
  ASSUME TypeOK, NEW t \in Tasks, Fresh(t),
         pending_functors_' = Append(pending_functors_, t),
         UNCHANGED <<functors, executed>>
  PROVE  FQ!Submit(t)
  <1>1. functors \o Append(pending_functors_, t) = Append(functors \o pending_functors_, t)
    BY DEF TypeOK
  <1>2. FQ!Fresh(t)
    BY DEF FQ!Fresh, FQ!Range, Fresh, Range
  <1> QED BY <1>1, <1>2 DEF FQ!Submit

(* Taking the batch leaves the queue as it was, because the batch was empty. *)
LEMMA SwapStutters ==
  ASSUME TypeOK, BatchInv, SwapFunctors
  PROVE  UNCHANGED <<Queue, executed>>
  <1>1. functors = <<>>
    BY DEF SwapFunctors, BatchInv
  <1>2. <<>> \o pending_functors_ = pending_functors_ \o <<>>
    BY DEF TypeOK
  <1> QED BY <1>1, <1>2 DEF SwapFunctors, Queue

(* Running the head of the batch runs the head of the queue. *)
LEMMA RunFunctorRunsHead ==
  ASSUME TypeOK, RunFunctor
  PROVE  FQ!RunHead
  <1>1. functors # <<>> /\ functors \in Seq(Tasks) /\ pending_functors_ \in Seq(Tasks)
    BY DEF TypeOK, RunFunctor
  <1>2. functors \o pending_functors_ # <<>>
    BY <1>1
  <1>3. Head(functors \o pending_functors_) = Head(functors)
    BY <1>1
  <1>4. Tail(functors \o pending_functors_) = Tail(functors) \o pending_functors_
    BY <1>1
  <1> QED BY <1>2, <1>3, <1>4 DEF FQ!RunHead, RunFunctor

(* Every step of the loop is a step of the abstract queue or leaves it alone. *)
LEMMA QueueStep ==
  ASSUME TypeOK, BatchInv, [Next]_vars
  PROVE  [FQ!Next]_(FQ!qvars)
  <1>0. ASSUME UNCHANGED <<Queue, executed>> PROVE [FQ!Next]_(FQ!qvars)
    BY <1>0 DEF Queue, FQ!qvars
  <1> USE DEF loopvars, flags, queues
  <1>1. CASE EnterLoop \/ ClearQuit \/ TestQuit \/ StartPoll
    BY <1>1, <1>0, QueueStutters DEF EnterLoop, ClearQuit, TestQuit, StartPoll
  <1>2. CASE PollReturns \/ PollGivesUp \/ HandleRead
    BY <1>2, <1>0, QueueStutters DEF PollReturns, PollGivesUp, HandleRead
  <1>3. ASSUME NEW c \in Channels, HandleEvent(c) \/ BecomeReady(c)
        PROVE  [FQ!Next]_(FQ!qvars)
    BY <1>3, <1>0, QueueStutters DEF HandleEvent, BecomeReady
  <1>4. CASE StartFunctors \/ FunctorsDone
    BY <1>4, <1>0, QueueStutters DEF StartFunctors, FunctorsDone
  <1>5. CASE SwapFunctors
    BY <1>5, <1>0, SwapStutters
  <1>6. CASE RunFunctor
    BY <1>6, RunFunctorRunsHead DEF FQ!Next
  <1>7. CASE EndCallback \/ ExitLoop \/ Quit_Self
    BY <1>7, <1>0, QueueStutters DEF EndCallback, ExitLoop, Quit_Self
  <1>8. ASSUME NEW t \in Tasks, QueueInLoop_Self(t) PROVE [FQ!Next]_(FQ!qvars)
    <2>1. FQ!Submit(t)
      BY <1>8, QueueSubmits DEF QueueInLoop_Self
    <2> QED BY <2>1 DEF FQ!Next
  <1>9. ASSUME NEW t \in Tasks, RunInLoop_Self(t) PROVE [FQ!Next]_(FQ!qvars)
    <2>1. FQ!Fresh(t)
      BY <1>9 DEF RunInLoop_Self, FQ!Fresh, FQ!Range, Fresh, Range
    <2>2. FQ!RunNow(t)
      BY <1>9, <2>1 DEF RunInLoop_Self, FQ!RunNow
    <2> QED BY <2>2 DEF FQ!Next
  <1>10. ASSUME NEW th \in Threads, NEW t \in Tasks, QueueInLoop_Foreign(th, t)
         PROVE  [FQ!Next]_(FQ!qvars)
    <2>1. FQ!Submit(t)
      BY <1>10, QueueSubmits DEF QueueInLoop_Foreign
    <2> QED BY <2>1 DEF FQ!Next
  <1>11. ASSUME NEW th \in Threads, Quit_Foreign(th) \/ Wakeup_Foreign(th)
         PROVE  [FQ!Next]_(FQ!qvars)
    BY <1>11, <1>0, QueueStutters DEF Quit_Foreign, Wakeup_Foreign
  <1>12. CASE UNCHANGED vars
    BY <1>12, <1>0, QueueStutters DEF vars
  <1> QED
    BY <1>1, <1>2, <1>3, <1>4, <1>5, <1>6, <1>7, <1>8, <1>9, <1>10, <1>11, <1>12
       DEF Next, LoopStep

(* EventLoop implements FunctorQueue: first in first out and at most once, for *)
(* functors queued by QueueInLoop from any thread and run by DoPendingFunctors *)
(* or, by RunInLoop on the loop's own thread, at once.                         *)
THEOREM ImplementsQueue == Spec => ServesFunctorsInOrder
  <1>1. Init => FQ!Init /\ BatchInv /\ CallingInv
    <2>1. <<>> \o <<>> = <<>>
      OBVIOUS
    <2> QED BY <2>1 DEF Init, FQ!Init, BatchInv, CallingInv
  <1>2. TypeOK /\ BatchInv /\ CallingInv /\ [Next]_vars => BatchInv' /\ CallingInv'
    BY PhaseStep
  <1>3. TypeOK /\ BatchInv /\ [Next]_vars => [FQ!Next]_(FQ!qvars)
    BY QueueStep
  <1> QED BY <1>1, <1>2, <1>3, TypeCorrect, PTL DEF Spec, ServesFunctorsInOrder, FQ!Spec
=============================================================================
