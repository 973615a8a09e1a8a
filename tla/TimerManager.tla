---------------------------- MODULE TimerManager -----------------------------
(***************************************************************************)
(* The timers of one EventLoop (src/src/timer_manager.cc) and how the loop *)
(* derives its poll deadline from them (event_loop.cc:67-78), against a    *)
(* clock that moves on while callbacks run and between any two reads.      *)
(*                                                                         *)
(* pc: "check" before CheckAndHandle, "pass" in its while loop, "callback" *)
(* in a timer's callback, "first" and "second" before the two calls of     *)
(* GetRecentTimeout, "poll" in epoll_wait, "io" in handlers and functors.  *)
(* Timers are used from the loop thread only, as timers_que_ has no lock.  *)
(* The heap is its set of timers and its root: a push displaces the root   *)
(* only by a timer that comes strictly before it, a pop takes the root.    *)
(***************************************************************************)
EXTENDS Integers, FiniteSets

CONSTANTS
  Timers,          \* Timer objects, each added once
  Reps,            \* repeated_times a caller may pass
  Intervals,       \* intervals a caller may pass, in ms
  ULongMod,        \* 2^64: arithmetic of unsigned long long
  IntMod,          \* 2^32: the int handed to epoll_wait
  kPollTimeMs,
  MaxTime,         \* bound: the clock stops here
  NoTimer

ASSUME RepsAssumption == Reps \subseteq Nat
ASSUME IntervalsAssumption == Intervals \subseteq Int
ASSUME WidthAssumption ==
  /\ ULongMod \in Nat /\ IntMod \in Nat \ {0} /\ IntMod < ULongMod
  /\ kPollTimeMs \in Nat /\ 2 * kPollTimeMs < IntMod    \* an int
  /\ MaxTime \in Nat
ASSUME NoTimerAssumption == NoTimer \notin Timers

VARIABLES
  pc, clock,
  timers_que_, top,              \* the heap: its elements and its root
  expired_time_, repeated_times_, interval_,   \* of each timer
  now,                           \* last clock reading of CheckAndHandle or
                                 \* GetRecentTimeout, in poll its start; 0 in io
  running,                       \* the timer whose callback is running
  timeout_ms,                    \* as handed to Polling; 0 outside it
  unused,                        \* timers not yet added
  initial, fired, fired_in_pass, \* history: repeated_times as passed; callbacks run
  removed                        \* history: timers given to RemoveTimer

heap    == <<timers_que_, top>>
fields  == <<expired_time_, repeated_times_, interval_>>
history == <<initial, fired, fired_in_pass, removed>>
vars == <<pc, clock, heap, fields, now, running, timeout_ms, unused, history>>

TypeOK ==
  /\ pc \in {"check", "pass", "callback", "first", "second", "poll", "io"}
  /\ clock \in 0..MaxTime /\ now \in 0..MaxTime
  /\ timers_que_ \subseteq Timers
  /\ top \in timers_que_ \cup {NoTimer} /\ (top = NoTimer <=> timers_que_ = {})
  /\ expired_time_ \in [Timers -> Nat]
  /\ repeated_times_ \in [Timers -> Nat]
  /\ interval_ \in [Timers -> Int]
  /\ running \in Timers \cup {NoTimer}
  /\ timeout_ms \in -IntMod..IntMod
  /\ unused \subseteq Timers \ timers_que_
  /\ initial \in [Timers -> Nat] /\ fired \in [Timers -> Nat] /\ fired_in_pass \in [Timers -> Nat]
  /\ removed \subseteq Timers

Init ==
  /\ pc = "check" /\ clock = 0 /\ now = 0 /\ timeout_ms = 0
  /\ timers_que_ = {} /\ top = NoTimer /\ running = NoTimer
  /\ expired_time_ = [t \in Timers |-> 0]
  /\ repeated_times_ = [t \in Timers |-> 0]
  /\ interval_ = [t \in Timers |-> 0]
  /\ unused = Timers
  /\ initial = [t \in Timers |-> 0] /\ fired = [t \in Timers |-> 0]
  /\ fired_in_pass = [t \in Timers |-> 0] /\ removed = {}

-----------------------------------------------------------------------------
(* The heap.  cmp: earlier expiry first, then fewer repetitions. *)

Before(e1, r1, e2, r2) == e1 < e2 \/ (e1 = e2 /\ r1 < r2)

(* The timers that may be the root of a heap over Q with these keys. *)
Roots(Q, exp, rep) ==
  IF Q = {} THEN {NoTimer}
  ELSE {t \in Q : \A u \in Q : ~Before(exp[u], rep[u], exp[t], rep[t])}

-----------------------------------------------------------------------------
(* Operations on the loop thread *)

InUserCode == pc \in {"callback", "io"}

Rejected_Never(interval) == FALSE
Rejected(interval) == interval <= 0

AddTimer(t, rep, interval) ==
  /\ InUserCode
  /\ t \in unused /\ ~Rejected(interval)
  /\ unused' = unused \ {t}
  /\ expired_time_' = [expired_time_ EXCEPT ![t] = clock + interval]
  /\ repeated_times_' = [repeated_times_ EXCEPT ![t] = rep]
  /\ interval_' = [interval_ EXCEPT ![t] = interval]
  /\ timers_que_' = timers_que_ \cup {t}
  /\ top' = IF \/ top = NoTimer
               \/ Before(clock + interval, rep, expired_time_[top], repeated_times_[top])
            THEN t ELSE top
  /\ initial' = [initial EXCEPT ![t] = rep]
  /\ UNCHANGED <<pc, clock, now, running, timeout_ms, fired, fired_in_pass, removed>>

(* Not called by the loop itself; a callback must not remove its own timer. *)
RemoveTimer(t) ==
  /\ InUserCode
  /\ t \in timers_que_ /\ t # running
  /\ timers_que_' = timers_que_ \ {t}
  /\ top' \in IF t = top THEN Roots(timers_que_', expired_time_, repeated_times_) ELSE {top}
  /\ removed' = removed \cup {t}
  /\ UNCHANGED <<pc, clock, fields, now, running, timeout_ms, unused,
                 initial, fired, fired_in_pass>>

-----------------------------------------------------------------------------
(* CheckAndHandle: now is read once. *)

StartCheck ==
  /\ pc = "check"
  /\ pc' = "pass"
  /\ now' = clock
  /\ fired_in_pass' = [t \in Timers |-> 0]
  /\ UNCHANGED <<clock, heap, fields, running, timeout_ms, unused, initial, fired, removed>>

RunTop ==
  /\ pc = "pass" /\ timers_que_ # {}
  /\ expired_time_[top] <= now
  /\ pc' = "callback"
  /\ running' = top
  /\ fired' = [fired EXCEPT ![top] = @ + 1]
  /\ fired_in_pass' = [fired_in_pass EXCEPT ![top] = @ + 1]
  /\ UNCHANGED <<clock, heap, fields, now, timeout_ms, unused, initial, removed>>

(* After the callback: pop and delete, or re-arm, pop and push.  pop takes the *)
(* root, whatever it is by now.                                                *)
Rearmed_FromExpiry(t) == expired_time_[t] + interval_[t]
Rearmed(t) == now + interval_[t]

LastRun_OneEarly(t) == repeated_times_[t] <= 1
LastRun(t) == repeated_times_[t] = 0

FinishTop ==
  /\ pc = "callback"
  /\ pc' = "pass"
  /\ running' = NoTimer
  /\ IF LastRun(running)
     THEN /\ timers_que_' = timers_que_ \ {top}
          /\ UNCHANGED fields
     ELSE /\ timers_que_' = (timers_que_ \ {top}) \cup {running}
          /\ expired_time_' = [expired_time_ EXCEPT ![running] = Rearmed(running)]
          /\ repeated_times_' = [repeated_times_ EXCEPT ![running] = @ - 1]
          /\ UNCHANGED interval_
  /\ top' \in Roots(timers_que_', expired_time_', repeated_times_')
  /\ UNCHANGED <<clock, now, timeout_ms, unused, history>>

EndCheck ==
  /\ pc = "pass"
  /\ timers_que_ # {} => expired_time_[top] > now
  /\ pc' = "first"
  /\ UNCHANGED <<clock, heap, fields, now, running, timeout_ms, unused, history>>

-----------------------------------------------------------------------------
(* PollAndHandleIoEvent's deadline.  GetRecentTimeout computes in unsigned long *)
(* long, so its own test for a negative value is never true; the caller compares *)
(* the result with -1 and, reading the clock again, converts it to int.          *)

GetRecentTimeout_Late == IF timers_que_ = {} THEN ULongMod - 1
                         ELSE (expired_time_[top] - clock + 1) % ULongMod
GetRecentTimeout == IF timers_que_ = {} THEN ULongMod - 1
                    ELSE (expired_time_[top] - clock) % ULongMod

ToInt(u) == LET low == u % IntMod IN IF 2 * low >= IntMod THEN low - IntMod ELSE low

FirstTimeout ==
  /\ pc = "first"
  /\ \/ /\ GetRecentTimeout = ULongMod - 1
        /\ pc' = "poll" /\ timeout_ms' = kPollTimeMs
        /\ now' = clock
     \/ /\ GetRecentTimeout # ULongMod - 1
        /\ pc' = "second"
        /\ UNCHANGED <<timeout_ms, now>>
  /\ UNCHANGED <<clock, heap, fields, running, unused, history>>

SecondTimeout ==
  /\ pc = "second"
  /\ pc' = "poll"
  /\ timeout_ms' = ToInt(GetRecentTimeout)
  /\ now' = clock
  /\ UNCHANGED <<clock, heap, fields, running, unused, history>>

(* An event, a wake-up or a signal ends the wait at any time. *)
PollReturns ==
  /\ pc = "poll"
  /\ pc' = "io"
  /\ now' = 0 /\ timeout_ms' = 0
  /\ UNCHANGED <<clock, heap, fields, running, unused, history>>

(* No event: the clock runs up to the deadline, which a negative timeout has not. *)
PollTimesOut ==
  /\ pc = "poll" /\ timeout_ms >= 0
  /\ now + timeout_ms <= MaxTime
  /\ pc' = "io"
  /\ clock' = IF clock < now + timeout_ms THEN now + timeout_ms ELSE clock
  /\ now' = 0 /\ timeout_ms' = 0
  /\ UNCHANGED <<heap, fields, running, unused, history>>

IoDone ==
  /\ pc = "io"
  /\ pc' = "check"
  /\ UNCHANGED <<clock, heap, fields, now, running, timeout_ms, unused, history>>

Tick ==
  /\ clock < MaxTime
  /\ clock' = clock + 1
  /\ UNCHANGED <<pc, heap, fields, now, running, timeout_ms, unused, history>>

Next ==
  \/ \E t \in Timers : \/ \E rep \in Reps, interval \in Intervals : AddTimer(t, rep, interval)
                       \/ RemoveTimer(t)
  \/ StartCheck \/ RunTop \/ FinishTop \/ EndCheck
  \/ FirstTimeout \/ SecondTimeout \/ PollReturns \/ PollTimesOut \/ IoDone
  \/ Tick

Spec == Init /\ [][Next]_vars

-----------------------------------------------------------------------------
(* Properties *)

(* When CheckAndHandle stops at a timer that has not expired, none behind it has    *)
(* either (the comment at timer_manager.cc:43), and it has run each timer at most   *)
(* once, however long its callbacks take and however short the interval: a pass     *)
(* ends, with all its work done.                                                    *)
PassIsComplete ==
  /\ pc = "first" => \A t \in timers_que_ : expired_time_[t] > now
  /\ \A t \in Timers : fired_in_pass[t] <= 1

(* CheckAndHandle pops the timer whose callback it ran: nothing the callback adds *)
(* or removes displaces the root under it.                                        *)
PopsWhatItRan == pc = "callback" => top = running

(* timer.h:36 and test_timer_manager.cc:25: a timer with repeated_times n fires     *)
(* n + 1 times in all, unless it is removed; what is left and what has run add up   *)
(* while it is queued, and a timer that is gone without RemoveTimer has had them    *)
(* all.                                                                             *)
RepeatsAddUp ==
  /\ \A t \in timers_que_ :
       fired[t] + repeated_times_[t] = initial[t] + (IF t = running THEN 1 ELSE 0)
  /\ \A t \in Timers \ (unused \cup timers_que_ \cup removed) : fired[t] = initial[t] + 1

(* The deadline handed to epoll_wait is exact when the next timer had not expired   *)
(* at the second reading of the clock and is less than 2^31 ms away.                *)
DeadlineExact ==
  (/\ pc = "poll" /\ timers_que_ # {}
   /\ expired_time_[top] >= now /\ 2 * (expired_time_[top] - now) < IntMod)
    => timeout_ms = expired_time_[top] - now

(* event_loop.cc:71: when there are timers the deadline of the poll is the time to  *)
(* the next one; a wait with a timer queued never outlasts it.                      *)
PollEndsByNextTimer ==
  (pc = "poll" /\ timers_que_ # {}) =>
    timeout_ms \in 0..(IF expired_time_[top] > now THEN expired_time_[top] - now ELSE 0)
=============================================================================
