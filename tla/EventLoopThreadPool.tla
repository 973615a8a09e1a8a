------------------------- MODULE EventLoopThreadPool --------------------------
(***************************************************************************)
(* A pool of event loops, one per thread: EventLoopThreadPool::Start,      *)
(* GetNextLoop and the pool's destruction (event_loop_thread_poll.cc), the  *)
(* EventLoopThreads it owns (event_loop_thread.cc) and their Threads       *)
(* (thread.cc).  The owner is the thread of the base loop.                 *)
(*                                                                         *)
(* opc is the owner's position, on thread number cur where it is about one: *)
(*   "new"     before Start              "ready"  Start has returned       *)
(*   "create"  Thread::Start             "dtor"   at line 21 of             *)
(*   "sem"     in sem_wait                        ~EventLoopThread         *)
(*   "wait"    at while (loop_ == null)  "quit", "wakeup"  in Quit()       *)
(*   "asleep"  in cond_.wait             "join"   in thread_.Join          *)
(*   "gone"    the pool is destroyed                                       *)
(* wpc is the position of each thread of the pool:                         *)
(*   "none"       not created            "test"   at while (!quit_)        *)
(*   "spawned"    before sem_post        "poll"   in epoll_wait            *)
(*   "func"       in ThreadFunc          "left"   Loop() has returned      *)
(*   "init"       the init callback ran  "ended"  ThreadFunc has returned  *)
(*   "published"  loop_ set, before quit_ = false                          *)
(*                                                                         *)
(* A loop is reduced to quit_ and the wake-up (EventLoop.tla has the rest); *)
(* only the pool's owner tells its loops to quit.                          *)
(***************************************************************************)
EXTENDS Naturals, Sequences

CONSTANTS
  num_threads_,    \* as given to SetThreadNum
  MaxGets          \* bound: calls of GetNextLoop

ASSUME NumThreadsAssumption == num_threads_ \in Nat
ASSUME MaxGetsAssumption == MaxGets \in Nat

Workers == 1..num_threads_
Base == 0                       \* base_loop_

VARIABLES
  opc, cur,
  started_, loops_, next_,      \* the pool
  wpc, loop_,                   \* of each EventLoopThread: loop_ # nullptr
  quit_, woken,                 \* of each loop: quit_, and its eventfd is readable
  inits,                        \* history: init callbacks run, per loop
  given                         \* history: loops GetNextLoop has returned

pool  == <<started_, loops_, next_>>
loopv == <<quit_, woken>>
vars  == <<opc, cur, pool, wpc, loop_, loopv, inits, given>>

OwnerPCs == {"new", "create", "sem", "wait", "asleep", "ready",
             "dtor", "quit", "wakeup", "join", "gone"}
WorkerPCs == {"none", "spawned", "func", "init", "published", "test", "poll", "left", "ended"}

TypeOK ==
  /\ opc \in OwnerPCs
  /\ cur \in 0..num_threads_
  /\ started_ \in BOOLEAN
  /\ loops_ \in Seq(Workers)
  /\ next_ \in Nat /\ (loops_ # <<>> => next_ < Len(loops_))
  /\ wpc \in [Workers -> WorkerPCs]
  /\ loop_ \in [Workers -> BOOLEAN]
  /\ quit_ \in [Workers -> BOOLEAN] /\ woken \in [Workers -> BOOLEAN]
  /\ inits \in [Workers \cup {Base} -> Nat]
  /\ given \in Seq(Workers \cup {Base})

Init ==
  /\ opc = "new" /\ cur = 0
  /\ started_ = FALSE /\ loops_ = <<>> /\ next_ = 0
  /\ wpc = [i \in Workers |-> "none"]
  /\ loop_ = [i \in Workers |-> FALSE]
  /\ quit_ = [i \in Workers |-> FALSE] /\ woken = [i \in Workers |-> FALSE]
  /\ inits = [i \in Workers \cup {Base} |-> 0]
  /\ given = <<>>

-----------------------------------------------------------------------------
(* The owner: Start *)

(* The end of the for loop, and the base loop's own init callback. *)
RunsOnBase == num_threads_ = 1

StartNext(i) ==
  IF i < num_threads_
  THEN opc' = "create" /\ cur' = i + 1 /\ UNCHANGED inits
  ELSE /\ opc' = "ready" /\ cur' = 0
       /\ inits' = IF RunsOnBase THEN [inits EXCEPT ![Base] = @ + 1] ELSE inits

Start ==
  /\ opc = "new"
  /\ started_' = TRUE
  /\ StartNext(0)
  /\ UNCHANGED <<loops_, next_, wpc, loop_, loopv, given>>

ThreadStart ==
  /\ opc = "create"
  /\ opc' = "sem"
  /\ wpc' = [wpc EXCEPT ![cur] = "spawned"]
  /\ UNCHANGED <<cur, pool, loop_, loopv, inits, given>>

SemWait ==
  /\ opc = "sem" /\ wpc[cur] # "spawned"
  /\ opc' = "wait"
  /\ UNCHANGED <<cur, pool, wpc, loop_, loopv, inits, given>>

(* StartLoop with mutex_ held: sleep, or take the loop and go on. *)
WaitForLoop ==
  /\ opc = "wait"
  /\ IF loop_[cur]
     THEN /\ loops_' = Append(loops_, cur)
          /\ StartNext(cur)
     ELSE opc' = "asleep" /\ UNCHANGED <<cur, loops_, inits>>
  /\ UNCHANGED <<started_, next_, wpc, loop_, loopv, given>>

SpuriousWakeup ==
  /\ opc = "asleep"
  /\ opc' = "wait"
  /\ UNCHANGED <<cur, pool, wpc, loop_, loopv, inits, given>>

-----------------------------------------------------------------------------
(* The owner: use and destruction *)

Following(n) == IF n + 1 >= Len(loops_) THEN 0 ELSE n + 1

GetNextLoop ==
  /\ opc = "ready" /\ Len(given) < MaxGets
  /\ IF loops_ = <<>>
     THEN given' = Append(given, Base) /\ UNCHANGED next_
     ELSE given' = Append(given, loops_[next_ + 1]) /\ next_' = Following(next_)
  /\ UNCHANGED <<opc, cur, started_, loops_, wpc, loop_, loopv, inits>>

(* threads_ is destroyed front to back. *)
DestroyNext(i) ==
  /\ opc' = IF i < num_threads_ THEN "dtor" ELSE "gone"
  /\ cur' = IF i < num_threads_ THEN i + 1 ELSE 0

Destroy ==
  /\ opc = "ready"
  /\ DestroyNext(0)
  /\ UNCHANGED <<pool, wpc, loop_, loopv, inits, given>>

(* loop_ is read without the mutex; when it is null the thread is detached. *)
TestLoop ==
  /\ opc = "dtor"
  /\ IF loop_[cur] THEN opc' = "quit" /\ UNCHANGED cur ELSE DestroyNext(cur)
  /\ UNCHANGED <<pool, wpc, loop_, loopv, inits, given>>

SetQuit ==
  /\ opc = "quit"
  /\ opc' = "wakeup"
  /\ quit_' = [quit_ EXCEPT ![cur] = TRUE]
  /\ UNCHANGED <<cur, pool, wpc, loop_, woken, inits, given>>

WakeUp_Not ==
  /\ opc = "wakeup"
  /\ opc' = "join"
  /\ UNCHANGED <<woken, cur, pool, wpc, loop_, quit_, inits, given>>

WakeUp ==
  /\ opc = "wakeup"
  /\ opc' = "join"
  /\ woken' = [woken EXCEPT ![cur] = TRUE]
  /\ UNCHANGED <<cur, pool, wpc, loop_, quit_, inits, given>>

Join_Not ==
  /\ opc = "join"
  /\ DestroyNext(cur)
  /\ UNCHANGED <<pool, wpc, loop_, loopv, inits, given>>

Join ==
  /\ opc = "join" /\ wpc[cur] = "ended"
  /\ DestroyNext(cur)
  /\ UNCHANGED <<pool, wpc, loop_, loopv, inits, given>>

-----------------------------------------------------------------------------
(* A thread of the pool *)

Goes(i, from, to) == wpc[i] = from /\ wpc' = [wpc EXCEPT ![i] = to]

SemPost(i) ==
  /\ Goes(i, "spawned", "func")
  /\ UNCHANGED <<opc, cur, pool, loop_, loopv, inits, given>>

(* ThreadFunc: construct the loop, run the init callback on it. *)
InitLoop(i) ==
  /\ Goes(i, "func", "init")
  /\ inits' = [inits EXCEPT ![i] = @ + 1]
  /\ UNCHANGED <<opc, cur, pool, loop_, loopv, given>>

(* Under mutex_: set loop_ and notify. *)
Publish_NoNotify(i) ==
  /\ Goes(i, "init", "published")
  /\ loop_' = [loop_ EXCEPT ![i] = TRUE]
  /\ UNCHANGED <<opc, cur, pool, loopv, inits, given>>

Publish_BeforeInit(i) ==
  /\ wpc[i] \in {"func", "init"} /\ ~loop_[i]
  /\ wpc' = IF wpc[i] = "init" THEN [wpc EXCEPT ![i] = "published"] ELSE wpc
  /\ loop_' = [loop_ EXCEPT ![i] = TRUE]
  /\ opc' = IF opc = "asleep" /\ cur = i THEN "wait" ELSE opc
  /\ UNCHANGED <<cur, pool, loopv, inits, given>>

Publish(i) ==
  /\ Goes(i, "init", "published")
  /\ loop_' = [loop_ EXCEPT ![i] = TRUE]
  /\ opc' = IF opc = "asleep" /\ cur = i THEN "wait" ELSE opc
  /\ UNCHANGED <<cur, pool, loopv, inits, given>>

(* EventLoop::Loop *)
EnterLoop(i) ==
  /\ Goes(i, "published", "test")
  /\ quit_' = [quit_ EXCEPT ![i] = FALSE]
  /\ UNCHANGED <<opc, cur, pool, loop_, woken, inits, given>>

TestQuit(i) ==
  /\ Goes(i, "test", IF quit_[i] THEN "left" ELSE "poll")
  /\ UNCHANGED <<opc, cur, pool, loop_, loopv, inits, given>>

PollWoken(i) ==
  /\ woken[i]
  /\ Goes(i, "poll", "test")
  /\ woken' = [woken EXCEPT ![i] = FALSE]
  /\ UNCHANGED <<opc, cur, pool, loop_, quit_, inits, given>>

(* The poll ends for another reason: an event or its deadline. *)
PollEnds(i) ==
  /\ ~woken[i]
  /\ Goes(i, "poll", "test")
  /\ UNCHANGED <<opc, cur, pool, loop_, loopv, inits, given>>

(* Under mutex_: loop_ = nullptr; then the loop is destroyed. *)
LeaveThread(i) ==
  /\ Goes(i, "left", "ended")
  /\ loop_' = [loop_ EXCEPT ![i] = FALSE]
  /\ UNCHANGED <<opc, cur, pool, loopv, inits, given>>

OwnerStep ==
  \/ ThreadStart \/ SemWait \/ WaitForLoop
  \/ TestLoop \/ SetQuit \/ WakeUp \/ Join
WorkerStep(i) ==
  \/ SemPost(i) \/ InitLoop(i) \/ Publish(i) \/ EnterLoop(i)
  \/ TestQuit(i) \/ PollWoken(i) \/ LeaveThread(i)

Next ==
  \/ OwnerStep \/ Start \/ SpuriousWakeup \/ GetNextLoop \/ Destroy
  \/ \E i \in Workers : WorkerStep(i) \/ PollEnds(i)

(* Every thread is scheduled.  A poll need not end by itself, nor a wait without *)
(* a notification.                                                               *)
Spec == /\ Init /\ [][Next]_vars
        /\ WF_vars(OwnerStep) /\ \A i \in Workers : WF_vars(WorkerStep(i))

-----------------------------------------------------------------------------
(* Properties *)

(* Every loop Start hands out is one that exists and has had its init callback,    *)
(* once, and they come in the order of the threads; the loops are alive until the  *)
(* pool is destroyed.  GetNextLoop gives them out strictly in turn.                *)
HandsOutInitializedLoops ==
  /\ \A k \in 1..Len(loops_) :
       /\ loops_[k] = k /\ inits[k] = 1
       /\ opc \notin {"dtor", "quit", "wakeup", "join", "gone"} => wpc[k] \notin {"left", "ended"}
  /\ \A k \in 1..Len(given) :
       given[k] = IF num_threads_ = 0 THEN Base ELSE ((k - 1) % num_threads_) + 1

(* A thread of the pool touches its EventLoopThread no more once that is destroyed: *)
(* it is joined first.                                                              *)
Destroyed == IF opc = "gone" THEN Workers
             ELSE IF opc \in {"dtor", "quit", "wakeup", "join"} THEN 1..(cur - 1) ELSE {}
NoUseAfterDestroy == \A i \in Destroyed : wpc[i] = "ended"

(* Start returns, with every thread running: the notification of a new loop is not  *)
(* lost however the threads interleave.                                             *)
StartReturns == (opc = "create") ~> (opc = "ready")

(* Join returns when Quit came after Loop() had cleared quit_.  A Quit before that    *)
(* is forgotten, and the destructor may wait for ever: a pool destroyed right after   *)
(* Start, as in test/test_eventloop_threadpool.cc:40-47, need not end.                *)
JoinReturns ==
  \A i \in Workers :
    (opc \in {"wakeup", "join"} /\ cur = i /\ wpc[i] # "published" /\ quit_[i])
      ~> ~(opc \in {"wakeup", "join"} /\ cur = i)
=============================================================================
