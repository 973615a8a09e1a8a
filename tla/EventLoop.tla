----------------------------- MODULE EventLoop ------------------------------
(***************************************************************************)
(* One EventLoop (src/src/event_loop.cc): the thread that runs Loop(), the *)
(* callbacks it runs, and any number of other threads that call            *)
(* QueueInLoop, RunInLoop and Quit on it.                                  *)
(*                                                                         *)
(* A step of the loop thread is what it does between two points at which   *)
(* another thread can see or change shared state: an access to an atomic,  *)
(* the critical section of mutex_, the blocking epoll_wait, a callback.    *)
(*                                                                         *)
(*   pc          where the loop thread is                                  *)
(*   "out"       before Loop()               "io"    dispatching events    *)
(*   "enter"     looping_ set, quit_ not     "swap"  in DoPendingFunctors  *)
(*   "test"      at while (!quit_)           "run"   running the batch     *)
(*   "timers"    in CheckAndHandle           "exit"  left the while        *)
(*   "poll"      in epoll_wait               "done"  Loop() has returned   *)
(*                                                                         *)
(* The deadline of epoll_wait is the subject of TimerManager.tla; here it  *)
(* may pass at any time, and no property below relies on it passing.       *)
(***************************************************************************)
EXTENDS Naturals, Sequences, FiniteSets, Functions

CONSTANTS
  Threads,      \* threads other than the loop's own
  Tasks,        \* functors, each handed to the loop at most once
  QuietTasks,   \* those the loop thread itself queues where nothing wakes it:
                \* from a timer callback or before it calls Loop()
  Channels,     \* channels of the loop other than wakeup_channel_
  WakeChannel,  \* wakeup_channel_
  EventfdMax    \* the largest value an eventfd counter can hold

ASSUME QuietAssumption == QuietTasks \subseteq Tasks
ASSUME WakeAssumption == WakeChannel \notin Channels
ASSUME EventfdAssumption == EventfdMax \in Nat \ {0}

VARIABLES
  pc, in_callback,
  looping_, quit_, calling_pending_functors_,
  pending_functors_,   \* guarded by mutex_
  functors,            \* DoPendingFunctors' local vector, what is left of it
  wake_fd_,            \* the eventfd counter
  active_channels_,    \* returned by Polling and not yet handled
  ready,               \* channels the kernel has an event for
  caller,              \* what each other thread is in the middle of
  executed             \* history: functors begun, in order

loopvars == <<pc, in_callback>>
flags    == <<looping_, quit_, calling_pending_functors_>>
queues   == <<pending_functors_, functors, executed>>
vars     == <<loopvars, flags, queues, wake_fd_, active_channels_, ready, caller>>

PCs == {"out", "enter", "test", "timers", "poll", "io", "swap", "run", "exit", "done"}

TypeOK ==
  /\ pc \in PCs
  /\ in_callback \in BOOLEAN
  /\ looping_ \in BOOLEAN
  /\ quit_ \in BOOLEAN
  /\ calling_pending_functors_ \in BOOLEAN
  /\ pending_functors_ \in Seq(Tasks)
  /\ functors \in Seq(Tasks)
  /\ executed \in Seq(Tasks)
  /\ wake_fd_ \in 0..EventfdMax
  /\ active_channels_ \subseteq Channels \cup {WakeChannel}
  /\ ready \subseteq Channels
  /\ caller \in [Threads -> {"idle", "queueing", "quitting"}]

Init ==
  /\ pc = "out" /\ in_callback = FALSE
  /\ looping_ = FALSE /\ quit_ = FALSE /\ calling_pending_functors_ = FALSE
  /\ pending_functors_ = <<>> /\ functors = <<>> /\ executed = <<>>
  /\ wake_fd_ = 0 /\ active_channels_ = {} /\ ready = {}
  /\ caller = [th \in Threads |-> "idle"]

(* A functor no one has handed to the loop yet. *)
Fresh(t) == t \notin Range(functors \o pending_functors_) \cup Range(executed)

-----------------------------------------------------------------------------
(* The wake-up descriptor.  wake_fd_ is a non-blocking eventfd: a write adds *)
(* one, or fails (and is only logged) when the counter is full; a read       *)
(* returns the counter and clears it.                                        *)

Wakeup == wake_fd_' = IF wake_fd_ < EventfdMax THEN wake_fd_ + 1 ELSE wake_fd_

(* QueueInLoop's test `!IsInLoopThread() || calling_pending_functors_`. *)
NeedsWakeup_OnlyForeign(inLoop) == ~inLoop
NeedsWakeup(inLoop) == ~inLoop \/ calling_pending_functors_

-----------------------------------------------------------------------------
(* Other threads.  Each operation is the shared write and then Wakeup(). *)

QueueInLoop_Foreign(th, t) ==
  /\ caller[th] = "idle"
  /\ t \notin QuietTasks /\ Fresh(t)
  /\ pending_functors_' = Append(pending_functors_, t)
  /\ caller' = [caller EXCEPT ![th] = IF NeedsWakeup(FALSE) THEN "queueing" ELSE "idle"]
  /\ UNCHANGED <<loopvars, flags, functors, executed, wake_fd_, active_channels_, ready>>

Quit_Foreign(th) ==
  /\ caller[th] = "idle"
  /\ quit_' = TRUE
  /\ caller' = [caller EXCEPT ![th] = "quitting"]
  /\ UNCHANGED <<loopvars, looping_, calling_pending_functors_, queues,
                 wake_fd_, active_channels_, ready>>

Wakeup_Foreign_NotOnQuit(th) ==
  /\ caller[th] # "idle"
  /\ IF caller[th] = "queueing" THEN Wakeup ELSE UNCHANGED wake_fd_
  /\ caller' = [caller EXCEPT ![th] = "idle"]
  /\ UNCHANGED <<loopvars, flags, queues, active_channels_, ready>>

Wakeup_Foreign(th) ==
  /\ caller[th] # "idle"
  /\ Wakeup
  /\ caller' = [caller EXCEPT ![th] = "idle"]
  /\ UNCHANGED <<loopvars, flags, queues, active_channels_, ready>>

-----------------------------------------------------------------------------
(* What code running on the loop thread may do: a callback of any kind, and *)
(* the code before Loop().                                                   *)

InQuietCode  == pc = "out" \/ (pc = "timers" /\ in_callback)
InLoudCode   == pc \in {"io", "run"} /\ in_callback

QueueInLoop_Self(t) ==
  /\ \/ InQuietCode /\ t \in QuietTasks
     \/ InLoudCode /\ t \notin QuietTasks
  /\ Fresh(t)
  /\ pending_functors_' = Append(pending_functors_, t)
  /\ IF NeedsWakeup(TRUE) THEN Wakeup ELSE UNCHANGED wake_fd_
  /\ UNCHANGED <<loopvars, flags, functors, executed, active_channels_, ready, caller>>

RunInLoop_Self(t) ==
  /\ InQuietCode \/ InLoudCode
  /\ Fresh(t)
  /\ executed' = Append(executed, t)
  /\ UNCHANGED <<loopvars, flags, pending_functors_, functors, wake_fd_,
                 active_channels_, ready, caller>>

Quit_Self ==
  /\ InQuietCode \/ InLoudCode
  /\ quit_' = TRUE
  /\ UNCHANGED <<loopvars, looping_, calling_pending_functors_, queues, wake_fd_,
                 active_channels_, ready, caller>>

(* Every callback the loop runs is user code that returns. *)
EndCallback ==
  /\ in_callback
  /\ in_callback' = FALSE
  /\ UNCHANGED <<pc, flags, queues, wake_fd_, active_channels_, ready, caller>>

-----------------------------------------------------------------------------
(* The loop thread, step by step. *)

EnterLoop ==
  /\ pc = "out"
  /\ pc' = "enter"
  /\ looping_' = TRUE
  /\ UNCHANGED <<in_callback, quit_, calling_pending_functors_, queues, wake_fd_,
                 active_channels_, ready, caller>>

ClearQuit ==
  /\ pc = "enter"
  /\ pc' = "test"
  /\ quit_' = FALSE
  /\ UNCHANGED <<in_callback, looping_, calling_pending_functors_, queues, wake_fd_,
                 active_channels_, ready, caller>>

(* while (!quit_).  in_callback: whether any timer is due; a pass over the   *)
(* due timers is finite (TimerManager.tla) and is one window of user code.   *)
TestQuit ==
  /\ pc = "test"
  /\ \/ quit_ /\ pc' = "exit" /\ UNCHANGED in_callback
     \/ ~quit_ /\ pc' = "timers" /\ in_callback' \in BOOLEAN
  /\ UNCHANGED <<flags, queues, wake_fd_, active_channels_, ready, caller>>

StartPoll ==
  /\ pc = "timers" /\ ~in_callback
  /\ pc' = "poll"
  /\ active_channels_' = {}
  /\ UNCHANGED <<in_callback, flags, queues, wake_fd_, ready, caller>>

HasEvent == wake_fd_ > 0 \/ ready # {}

PollReturns ==
  /\ pc = "poll" /\ HasEvent
  /\ pc' = "io"
  /\ active_channels_' = ready \cup {c \in {WakeChannel} : wake_fd_ > 0}
  /\ UNCHANGED <<in_callback, flags, queues, wake_fd_, ready, caller>>

(* The deadline passed or a signal interrupted the wait: no channel is active. *)
PollGivesUp ==
  /\ pc = "poll" /\ ~HasEvent
  /\ pc' = "io"
  /\ UNCHANGED <<in_callback, flags, queues, wake_fd_, active_channels_, ready, caller>>

(* wakeup_channel_'s read callback, EventLoop::HandleRead. *)
HandleRead ==
  /\ pc = "io" /\ ~in_callback
  /\ WakeChannel \in active_channels_
  /\ active_channels_' = active_channels_ \ {WakeChannel}
  /\ wake_fd_' = 0
  /\ UNCHANGED <<loopvars, flags, queues, ready, caller>>

HandleEvent(c) ==
  /\ pc = "io" /\ ~in_callback
  /\ c \in active_channels_
  /\ active_channels_' = active_channels_ \ {c}
  /\ ready' = ready \ {c}
  /\ in_callback' = TRUE
  /\ UNCHANGED <<pc, flags, queues, wake_fd_, caller>>

StartFunctors ==
  /\ pc = "io" /\ ~in_callback
  /\ active_channels_ = {}
  /\ pc' = "swap"
  /\ calling_pending_functors_' = TRUE
  /\ UNCHANGED <<in_callback, looping_, quit_, queues, wake_fd_, active_channels_,
                 ready, caller>>

SwapFunctors_Copy ==
  /\ pc = "swap"
  /\ pc' = "run"
  /\ functors' = pending_functors_
  /\ UNCHANGED <<pending_functors_, in_callback, flags, executed, wake_fd_,
                 active_channels_, ready, caller>>

(* functors.swap(pending_functors_) under mutex_. *)
SwapFunctors ==
  /\ pc = "swap"
  /\ pc' = "run"
  /\ functors' = pending_functors_
  /\ pending_functors_' = functors
  /\ UNCHANGED <<in_callback, flags, executed, wake_fd_, active_channels_, ready, caller>>

RunFunctor ==
  /\ pc = "run" /\ ~in_callback
  /\ functors # <<>>
  /\ executed' = Append(executed, Head(functors))
  /\ functors' = Tail(functors)
  /\ in_callback' = TRUE
  /\ UNCHANGED <<pc, flags, pending_functors_, wake_fd_, active_channels_, ready, caller>>

FunctorsDone ==
  /\ pc = "run" /\ ~in_callback
  /\ functors = <<>>
  /\ pc' = "test"
  /\ calling_pending_functors_' = FALSE
  /\ UNCHANGED <<in_callback, looping_, quit_, queues, wake_fd_, active_channels_,
                 ready, caller>>

ExitLoop ==
  /\ pc = "exit"
  /\ pc' = "done"
  /\ looping_' = FALSE
  /\ UNCHANGED <<in_callback, quit_, calling_pending_functors_, queues, wake_fd_,
                 active_channels_, ready, caller>>

-----------------------------------------------------------------------------
(* The kernel finds a channel ready. *)
BecomeReady(c) ==
  /\ c \notin ready
  /\ ready' = ready \cup {c}
  /\ UNCHANGED <<loopvars, flags, queues, wake_fd_, active_channels_, caller>>

LoopStep ==
  \/ EnterLoop \/ ClearQuit \/ TestQuit \/ StartPoll \/ PollReturns
  \/ HandleRead \/ (\E c \in Channels : HandleEvent(c))
  \/ StartFunctors \/ SwapFunctors \/ RunFunctor \/ FunctorsDone
  \/ EndCallback \/ ExitLoop

Next ==
  \/ LoopStep
  \/ PollGivesUp
  \/ Quit_Self
  \/ \E t \in Tasks : QueueInLoop_Self(t) \/ RunInLoop_Self(t)
  \/ \E th \in Threads :
       \/ \E t \in Tasks : QueueInLoop_Foreign(th, t)
       \/ Quit_Foreign(th)
       \/ Wakeup_Foreign(th)
  \/ \E c \in Channels : BecomeReady(c)

(* The scheduler runs the loop thread, and runs a thread that is inside       *)
(* QueueInLoop or Quit to the end of the call.  Nothing obliges a callback or *)
(* another thread to call anything, a channel to become ready, or the         *)
(* deadline of epoll_wait to pass.                                            *)
Fairness ==
  /\ WF_vars(LoopStep)
  /\ \A th \in Threads : WF_vars(Wakeup_Foreign(th))

Spec == Init /\ [][Next]_vars /\ Fairness

-----------------------------------------------------------------------------
(* Properties *)

Waking == {th \in Threads : caller[th] # "idle"}

(* The loop sleeps in epoll_wait and nothing that has been started will end it. *)
Asleep == pc = "poll" /\ wake_fd_ = 0 /\ Waking = {}

(* No lost wake-up: when the loop sleeps, the only functors that can be waiting *)
(* in pending_functors_ are ones its own thread queued from a timer callback or *)
(* before Loop().  Every functor queued by another thread, by an event handler  *)
(* or by another functor has a wake-up written or about to be written, whatever *)
(* the interleaving of the append, the swap, the eventfd write and its read.    *)
NoLostWakeup == Asleep => Range(pending_functors_) \subseteq QuietTasks

(* EventLoop keeps FunctorQueue's promise: first in first out, at most once. *)
FQ == INSTANCE FunctorQueue WITH queue <- functors \o pending_functors_, done <- executed
ServesFunctorsInOrder == FQ!Spec

(* A functor that another thread, a handler or a functor queued is run without  *)
(* waiting for the poll deadline, unless the loop is told to quit first.        *)
QueuedIsRun ==
  \A t \in Tasks \ QuietTasks :
    (t \in Range(pending_functors_)) ~> (t \in Range(executed) \/ quit_)

(* A Quit() another thread calls on a loop that is past `quit_ = false` makes   *)
(* Loop() return, again without help from the poll deadline.                    *)
QuitStopsLoop ==
  \A th \in Threads :
    (quit_ /\ caller[th] = "quitting" /\ pc \notin {"out", "enter"}) ~> (pc = "done")
=============================================================================
