------------------------- MODULE TimerManagerProofs -------------------------
(***************************************************************************)
(* Proofs about TimerManager.tla, for any timers, intervals, repetitions,  *)
(* clock bound and integer widths: the pass over the heap is complete and  *)
(* pops what it ran, repetitions add up, and the deadline is exact.  They   *)
(* rest on one inductive invariant, TimerInv.                              *)
(***************************************************************************)
EXTENDS TimerManager, TLAPS

(* The root of the heap is a timer no other comes before. *)
RootIsFirst ==
  \A u \in timers_que_ :
    ~Before(expired_time_[u], repeated_times_[u], expired_time_[top], repeated_times_[top])

(* AddTimer has rejected every interval that would not move a timer on. *)
IntervalsPositive == \A t \in timers_que_ : interval_[t] > 0

(* A callback runs on the root, which has expired: a timer it adds expires    *)
(* after now and so never takes the root's place.                             *)
RunningIsRoot ==
  IF pc = "callback"
  THEN running = top /\ top \in timers_que_ /\ expired_time_[top] <= now
  ELSE running = NoTimer

(* What this pass has run and re-armed is behind the pass. *)
RearmedIsLater ==
  pc \in {"pass", "callback"} =>
    \A t \in timers_que_ : fired_in_pass[t] > 0 /\ t # running => expired_time_[t] > now

UnusedNotFired == \A t \in unused : fired[t] = 0

HeapInv ==
  RootIsFirst /\ IntervalsPositive /\ RunningIsRoot /\ RearmedIsLater /\ UnusedNotFired
    /\ now <= clock

TimerInv == TypeOK /\ HeapInv /\ PassIsComplete /\ RepeatsAddUp /\ DeadlineExact

-----------------------------------------------------------------------------
(* Arithmetic of the deadline *)

LEMMA ModSmall ==
  ASSUME NEW v \in Nat, NEW u \in Nat \ {0}, v < u
  PROVE  v % u = v
  OBVIOUS

LEMMA ModType ==
  ASSUME NEW v \in Int, NEW u \in Nat \ {0}
  PROVE  v % u \in 0..(u - 1)
  OBVIOUS

(* The conversion to int keeps a value of less than half its width, and stays *)
(* in its range whatever it is given.                                         *)
LEMMA ToIntType ==
  ASSUME NEW v \in Nat
  PROVE  /\ ToInt(v) \in -IntMod..IntMod
         /\ 2 * v < IntMod => ToInt(v) = v
  <1> DEFINE low == v % IntMod
  <1>1. IntMod \in Nat \ {0}
    BY WidthAssumption
  <1>2. low \in 0..(IntMod - 1)
    BY <1>1, ModType
  <1>3. 2 * v < IntMod => low = v
    BY <1>1, ModSmall
  <1>4. ToInt(v) = IF 2 * low >= IntMod THEN low - IntMod ELSE low
    BY DEF ToInt
  <1> HIDE DEF low
  <1> QED BY <1>1, <1>2, <1>3, <1>4

(* GetRecentTimeout is exact when the root has not expired and is less than half *)
(* an int away.                                                                  *)
LEMMA TimeoutType ==
  ASSUME TypeOK
  PROVE  /\ GetRecentTimeout \in Nat
         /\ (/\ timers_que_ # {} /\ expired_time_[top] >= clock
             /\ 2 * (expired_time_[top] - clock) < IntMod)
              => GetRecentTimeout = expired_time_[top] - clock /\ GetRecentTimeout # ULongMod - 1
  <1>1. IntMod \in Nat \ {0} /\ ULongMod \in Nat \ {0} /\ IntMod < ULongMod
    BY WidthAssumption
  <1>2. CASE timers_que_ = {}
    BY <1>1, <1>2 DEF GetRecentTimeout
  <1>3. CASE timers_que_ # {}
    <2> DEFINE d == expired_time_[top] - clock
    <2>1. expired_time_[top] \in Nat /\ clock \in Nat
      BY <1>3 DEF TypeOK
    <2>2. d \in Int /\ (expired_time_[top] >= clock => d \in Nat)
      BY <2>1
    <2>3. GetRecentTimeout = d % ULongMod
      BY <1>3 DEF GetRecentTimeout
    <2> HIDE DEF d
    <2>4. GetRecentTimeout \in Nat
      BY <1>1, <2>2, <2>3, ModType
    <2>5. d \in Nat /\ 2 * d < IntMod => d % ULongMod = d /\ d # ULongMod - 1
      BY <1>1, ModSmall
    <2> QED BY <2>2, <2>3, <2>4, <2>5 DEF d
  <1> QED BY <1>2, <1>3

-----------------------------------------------------------------------------
(* Facts about a state of TimerInv. *)
LEMMA TimerTypes ==
  ASSUME TimerInv
  PROVE  /\ clock \in Nat /\ now \in Nat /\ now <= clock /\ NoTimer \notin timers_que_
         /\ \A t \in Timers : /\ expired_time_[t] \in Nat /\ repeated_times_[t] \in Nat
                              /\ interval_[t] \in Int /\ initial[t] \in Nat
                              /\ fired[t] \in Nat /\ fired_in_pass[t] \in Nat
         /\ timers_que_ # {} => top \in timers_que_ /\ top \in Timers
  BY NoTimerAssumption DEF TimerInv, TypeOK, HeapInv

LEMMA TimerInitially == Init => TimerInv
  BY WidthAssumption, NoTimerAssumption
     DEF Init, TimerInv, TypeOK, HeapInv, RootIsFirst, IntervalsPositive, RunningIsRoot,
         RearmedIsLater, UnusedNotFired, PassIsComplete, RepeatsAddUp, DeadlineExact

LEMMA AddTimerStep ==
  ASSUME TimerInv, NEW t \in Timers, NEW rep \in Reps, NEW interval \in Intervals,
         AddTimer(t, rep, interval)
  PROVE  TimerInv'
  <1>0. TypeOK /\ HeapInv /\ PassIsComplete /\ RepeatsAddUp /\ DeadlineExact
    BY DEF TimerInv
  <1>1. rep \in Nat /\ interval \in Nat \ {0} /\ clock + interval \in Nat /\ clock + interval > now
    BY TimerTypes, RepsAssumption, IntervalsAssumption DEF AddTimer, Rejected
  <1>2. /\ t \in unused /\ t \notin timers_que_ /\ t # NoTimer /\ t # running /\ fired[t] = 0
        /\ pc \in {"callback", "io"}
    BY <1>0, NoTimerAssumption
       DEF AddTimer, InUserCode, TypeOK, HeapInv, RunningIsRoot, UnusedNotFired
  <1>3. TypeOK'
    BY <1>0, <1>1, <1>2, NoTimerAssumption DEF AddTimer, TypeOK
  <1>4. RootIsFirst'
    <2> SUFFICES ASSUME NEW u \in timers_que_'
                 PROVE  ~Before(expired_time_'[u], repeated_times_'[u],
                                expired_time_'[top'], repeated_times_'[top'])
      BY DEF RootIsFirst
    <2> QED BY <1>0, <1>1, <1>2, TimerTypes DEF AddTimer, TypeOK, HeapInv, RootIsFirst, Before
  <1>5. pc = "callback" => top' = top
    BY <1>0, <1>1, <1>2, TimerTypes, NoTimerAssumption
       DEF AddTimer, HeapInv, RunningIsRoot, Before
  <1>6. IntervalsPositive'
    BY <1>0, <1>1, <1>2, TimerTypes DEF AddTimer, TypeOK, HeapInv, IntervalsPositive
  <1>7. RunningIsRoot'
    BY <1>0, <1>2, <1>5, TimerTypes DEF AddTimer, TypeOK, HeapInv, RunningIsRoot
  <1>8. RearmedIsLater'
    BY <1>0, <1>1, <1>2, TimerTypes DEF AddTimer, TypeOK, HeapInv, RearmedIsLater
  <1>9. UnusedNotFired' /\ now' <= clock'
    BY <1>0 DEF AddTimer, HeapInv, UnusedNotFired
  <1>10. PassIsComplete'
    BY <1>0, <1>2 DEF AddTimer, PassIsComplete
  <1>11. RepeatsAddUp'
    BY <1>0, <1>1, <1>2, TimerTypes DEF AddTimer, TypeOK, RepeatsAddUp
  <1>12. DeadlineExact'
    BY <1>2 DEF AddTimer, DeadlineExact
  <1> QED BY <1>3, <1>4, <1>6, <1>7, <1>8, <1>9, <1>10, <1>11, <1>12 DEF TimerInv, HeapInv

(* Roots returns a timer of Q no other comes before. *)
LEMMA RootsAreFirst ==
  ASSUME NEW Q, NEW exp, NEW rep, NEW r \in Roots(Q, exp, rep)
  PROVE  /\ Q = {} => r = NoTimer
         /\ Q # {} => r \in Q
         /\ \A u \in Q : ~Before(exp[u], rep[u], exp[r], rep[r])
  BY DEF Roots

LEMMA RemoveTimerStep ==
  ASSUME TimerInv, NEW t \in Timers, RemoveTimer(t)
  PROVE  TimerInv'
  <1>0. TypeOK /\ HeapInv /\ PassIsComplete /\ RepeatsAddUp /\ DeadlineExact
    BY DEF TimerInv
  <1>1. /\ t \in timers_que_ /\ t # running /\ timers_que_' = timers_que_ \ {t}
        /\ UNCHANGED <<pc, clock, expired_time_, repeated_times_, interval_, now, running,
                       timeout_ms, unused, initial, fired, fired_in_pass>>
        /\ removed' = removed \cup {t} /\ pc \in {"callback", "io"}
        /\ IF t = top THEN top' \in Roots(timers_que_', expired_time_, repeated_times_)
                      ELSE top' = top
    BY DEF RemoveTimer, fields, InUserCode
  <1>2. /\ timers_que_' = {} => top' = NoTimer
        /\ timers_que_' # {} => top' \in timers_que_'
        /\ RootIsFirst'
    <2>1. CASE t = top
      BY <1>1, <2>1, RootsAreFirst DEF RootIsFirst
    <2>2. CASE t # top
      BY <1>0, <1>1, <2>2, TimerTypes DEF RootIsFirst, HeapInv
    <2> QED BY <2>1, <2>2
  <1>3. pc = "callback" => top' = top
    BY <1>0, <1>1 DEF HeapInv, RunningIsRoot
  <1>4. TypeOK'
    BY <1>0, <1>1, <1>2, NoTimerAssumption DEF TypeOK
  <1>5. RunningIsRoot'
    BY <1>0, <1>1, <1>3 DEF HeapInv, RunningIsRoot
  <1>6. IntervalsPositive' /\ RearmedIsLater' /\ UnusedNotFired' /\ now' <= clock'
    BY <1>0, <1>1 DEF HeapInv, IntervalsPositive, RearmedIsLater, UnusedNotFired
  <1>7. PassIsComplete' /\ DeadlineExact'
    BY <1>0, <1>1 DEF PassIsComplete, DeadlineExact
  <1>8. RepeatsAddUp'
    BY <1>0, <1>1 DEF RepeatsAddUp
  <1> QED BY <1>2, <1>4, <1>5, <1>6, <1>7, <1>8 DEF TimerInv, HeapInv

LEMMA RunTopStep ==
  ASSUME TimerInv, RunTop
  PROVE  TimerInv'
  <1>0. TypeOK /\ HeapInv /\ PassIsComplete /\ RepeatsAddUp /\ DeadlineExact
    BY DEF TimerInv
  <1>1. /\ top \in timers_que_ /\ top \in Timers /\ expired_time_[top] <= now /\ pc = "pass"
        /\ running = NoTimer /\ top # NoTimer /\ fired_in_pass[top] = 0 /\ top \notin unused
    BY <1>0, TimerTypes, NoTimerAssumption
       DEF RunTop, HeapInv, RunningIsRoot, RearmedIsLater, TypeOK
  <1>2. TypeOK'
    BY <1>0, <1>1 DEF RunTop, TypeOK, heap, fields
  <1>3. HeapInv'
    BY <1>0, <1>1, TimerTypes
       DEF RunTop, heap, fields, TypeOK, HeapInv, RootIsFirst, IntervalsPositive,
           RunningIsRoot, RearmedIsLater, UnusedNotFired
  <1>4. PassIsComplete' /\ DeadlineExact'
    BY <1>0, <1>1, TimerTypes DEF RunTop, TypeOK, PassIsComplete, DeadlineExact
  <1>5. RepeatsAddUp'
    BY <1>0, <1>1, TimerTypes, NoTimerAssumption
       DEF RunTop, heap, fields, TypeOK, RepeatsAddUp
  <1> QED BY <1>2, <1>3, <1>4, <1>5 DEF TimerInv

LEMMA FinishTopStep ==
  ASSUME TimerInv, FinishTop
  PROVE  TimerInv'
  <1>0. TypeOK /\ HeapInv /\ PassIsComplete /\ RepeatsAddUp /\ DeadlineExact
    BY DEF TimerInv
  <1>1. /\ pc = "callback" /\ running = top /\ top \in timers_que_ /\ top \in Timers
        /\ top # NoTimer /\ top \notin unused
        /\ interval_[top] \in Nat \ {0} /\ now + interval_[top] \in Nat
        /\ now + interval_[top] > now
    BY <1>0, TimerTypes, NoTimerAssumption
       DEF FinishTop, HeapInv, RunningIsRoot, TypeOK, IntervalsPositive
  <1>2. /\ pc' = "pass" /\ running' = NoTimer
        /\ UNCHANGED <<clock, now, timeout_ms, unused, initial, fired, fired_in_pass, removed,
                       interval_>>
        /\ top' \in Roots(timers_que_', expired_time_', repeated_times_')
    BY DEF FinishTop, history, fields
  <1>3. /\ timers_que_' = {} => top' = NoTimer
        /\ timers_que_' # {} => top' \in timers_que_'
        /\ RootIsFirst'
    BY <1>2, RootsAreFirst DEF RootIsFirst
  <1>4. CASE repeated_times_[top] = 0
    <2>1. timers_que_' = timers_que_ \ {top} /\ UNCHANGED <<expired_time_, repeated_times_>>
      BY <1>1, <1>4 DEF FinishTop, LastRun, fields
    <2>2. TypeOK'
      BY <1>0, <1>1, <1>2, <1>3, <2>1, NoTimerAssumption DEF TypeOK
    <2>3. HeapInv'
      BY <1>0, <1>1, <1>2, <1>3, <2>1
         DEF HeapInv, IntervalsPositive, RunningIsRoot, RearmedIsLater, UnusedNotFired
    <2>4. PassIsComplete' /\ DeadlineExact'
      BY <1>0, <1>2 DEF PassIsComplete, DeadlineExact
    <2>5. RepeatsAddUp'
      BY <1>0, <1>1, <1>2, <1>4, <2>1, TimerTypes, NoTimerAssumption DEF RepeatsAddUp, TypeOK
    <2> QED BY <2>2, <2>3, <2>4, <2>5 DEF TimerInv
  <1>5. CASE repeated_times_[top] # 0
    <2>1. /\ timers_que_' = timers_que_
          /\ expired_time_' = [expired_time_ EXCEPT ![top] = now + interval_[top]]
          /\ repeated_times_' = [repeated_times_ EXCEPT ![top] = repeated_times_[top] - 1]
      BY <1>1, <1>5 DEF FinishTop, LastRun, Rearmed
    <2>2. TypeOK'
      BY <1>0, <1>1, <1>2, <1>3, <1>5, <2>1, TimerTypes, NoTimerAssumption DEF TypeOK
    <2>3. HeapInv'
      BY <1>0, <1>1, <1>2, <1>3, <2>1, TimerTypes
         DEF TypeOK, HeapInv, IntervalsPositive, RunningIsRoot, RearmedIsLater, UnusedNotFired
    <2>4. PassIsComplete' /\ DeadlineExact'
      BY <1>0, <1>2 DEF PassIsComplete, DeadlineExact
    <2>5. RepeatsAddUp'
      BY <1>0, <1>1, <1>2, <1>5, <2>1, TimerTypes, NoTimerAssumption DEF RepeatsAddUp, TypeOK
    <2> QED BY <2>2, <2>3, <2>4, <2>5 DEF TimerInv
  <1> QED BY <1>4, <1>5

(* The steps of the loop that leave the heap alone. *)
LEMMA LoopStep ==
  ASSUME TimerInv,
         \/ StartCheck \/ EndCheck \/ FirstTimeout \/ SecondTimeout
         \/ PollReturns \/ PollTimesOut \/ IoDone \/ Tick
  PROVE  TimerInv'
  <1>0. TypeOK /\ HeapInv /\ PassIsComplete /\ RepeatsAddUp /\ DeadlineExact
    BY DEF TimerInv
  <1>1. UNCHANGED <<timers_que_, top, expired_time_, repeated_times_, interval_, running,
                    unused, initial, fired, removed>>
    BY DEF StartCheck, EndCheck, FirstTimeout, SecondTimeout, PollReturns, PollTimesOut,
           IoDone, Tick, heap, fields, history
  <1>2. RepeatsAddUp' /\ RootIsFirst' /\ IntervalsPositive' /\ UnusedNotFired'
    BY <1>0, <1>1 DEF RepeatsAddUp, HeapInv, RootIsFirst, IntervalsPositive, UnusedNotFired
  <1>3. CASE StartCheck
    BY <1>0, <1>1, <1>2, <1>3, TimerTypes
       DEF StartCheck, TimerInv, TypeOK, HeapInv, RunningIsRoot, RearmedIsLater,
           PassIsComplete, DeadlineExact
  <1>4. CASE EndCheck
    <2>1. \A t \in timers_que_ : expired_time_[t] > now
      BY <1>0, <1>4, TimerTypes DEF EndCheck, HeapInv, RootIsFirst, Before, TypeOK
    <2> QED BY <1>0, <1>1, <1>2, <1>4, <2>1
            DEF EndCheck, history, TimerInv, TypeOK, HeapInv, RunningIsRoot, RearmedIsLater,
                PassIsComplete, DeadlineExact
  <1>5. CASE FirstTimeout
    <2>1. kPollTimeMs \in -IntMod..IntMod
      BY WidthAssumption
    <2>2. now' <= clock' /\ now' \in 0..MaxTime /\ clock' = clock /\ pc' \in {"poll", "second"}
          /\ UNCHANGED fired_in_pass
      BY <1>0, <1>5, TimerTypes DEF FirstTimeout, TypeOK, history
    <2>3. timeout_ms' \in -IntMod..IntMod
      BY <1>0, <1>5, <2>1 DEF FirstTimeout, TypeOK
    <2>4. TypeOK'
      BY <1>0, <1>1, <2>2, <2>3 DEF TypeOK
    <2>5. DeadlineExact'
      BY <1>0, <1>1, <1>5, TimeoutType DEF FirstTimeout, DeadlineExact
    <2>6. HeapInv' /\ PassIsComplete'
      BY <1>0, <1>1, <1>2, <1>5, <2>2
         DEF FirstTimeout, HeapInv, RunningIsRoot, RearmedIsLater, PassIsComplete
    <2> QED BY <1>2, <2>4, <2>5, <2>6 DEF TimerInv
  <1>6. CASE SecondTimeout
    <2>1. now' = clock /\ clock' = clock /\ pc' = "poll" /\ pc = "second"
          /\ timeout_ms' = ToInt(GetRecentTimeout) /\ UNCHANGED fired_in_pass
      BY <1>6 DEF SecondTimeout, history
    <2>2. TypeOK'
      BY <1>0, <1>1, <2>1, TimeoutType, ToIntType DEF TypeOK
    <2>3. DeadlineExact'
      BY <1>0, <1>1, <2>1, TimeoutType, ToIntType DEF DeadlineExact
    <2>4. HeapInv' /\ PassIsComplete'
      BY <1>0, <1>1, <1>2, <2>1, TimerTypes
         DEF HeapInv, RunningIsRoot, RearmedIsLater, PassIsComplete
    <2> QED BY <1>2, <2>2, <2>3, <2>4 DEF TimerInv
  <1>7. CASE PollReturns \/ PollTimesOut
    <2>1. /\ now' = 0 /\ clock' \in 0..MaxTime /\ pc' = "io" /\ pc = "poll"
          /\ timeout_ms' = 0 /\ UNCHANGED fired_in_pass
      BY <1>0, <1>7, WidthAssumption, TimerTypes DEF PollReturns, PollTimesOut, history, TypeOK
    <2>2. TypeOK' /\ now' <= clock'
      BY <1>0, <1>1, <2>1, WidthAssumption DEF TypeOK
    <2> QED BY <1>0, <1>1, <1>2, <2>1, <2>2
            DEF TimerInv, HeapInv, RunningIsRoot, RearmedIsLater, PassIsComplete, DeadlineExact
  <1>8. CASE IoDone
    BY <1>0, <1>1, <1>2, <1>8
       DEF IoDone, history, TimerInv, TypeOK, HeapInv, RunningIsRoot, RearmedIsLater,
           PassIsComplete, DeadlineExact
  <1>9. CASE Tick
    <2>1. clock' \in 0..MaxTime /\ now' = now /\ now' <= clock'
          /\ UNCHANGED <<pc, timeout_ms, fired_in_pass>>
      BY <1>0, <1>9, WidthAssumption, TimerTypes DEF Tick, TypeOK, history
    <2> QED BY <1>0, <1>1, <1>2, <2>1
            DEF TimerInv, TypeOK, HeapInv, RunningIsRoot, RearmedIsLater, PassIsComplete,
                DeadlineExact
  <1> QED BY <1>3, <1>4, <1>5, <1>6, <1>7, <1>8, <1>9

LEMMA TimerStep == TimerInv /\ [Next]_vars => TimerInv'
  <1> SUFFICES ASSUME TimerInv, [Next]_vars
               PROVE  TimerInv'
    OBVIOUS
  <1>1. CASE UNCHANGED vars
    BY <1>1 DEF vars, heap, fields, history, TimerInv, TypeOK, HeapInv, RootIsFirst,
                IntervalsPositive, RunningIsRoot, RearmedIsLater, UnusedNotFired,
                PassIsComplete, RepeatsAddUp, DeadlineExact
  <1>2. CASE \E t \in Timers, rep \in Reps, interval \in Intervals : AddTimer(t, rep, interval)
    BY <1>2, AddTimerStep
  <1>3. CASE \E t \in Timers : RemoveTimer(t)
    BY <1>3, RemoveTimerStep
  <1>4. CASE RunTop
    BY <1>4, RunTopStep
  <1>5. CASE FinishTop
    BY <1>5, FinishTopStep
  <1>6. CASE \/ StartCheck \/ EndCheck \/ FirstTimeout \/ SecondTimeout
             \/ PollReturns \/ PollTimesOut \/ IoDone \/ Tick
    BY <1>6, LoopStep
  <1> QED BY <1>1, <1>2, <1>3, <1>4, <1>5, <1>6 DEF Next

LEMMA TimerAlways == Spec => []TimerInv
  BY TimerInitially, TimerStep, PTL DEF Spec

(* TimerManager.tla's types: the root is a timer of timers_que_ unless that is empty, no   *)
(* timer of the heap may be added again, and GetRecentTimeout's result fits an int.       *)
THEOREM TimerTypeCorrect == Spec => []TypeOK
  <1>1. TimerInv => TypeOK
    BY DEF TimerInv
  <1> QED BY <1>1, TimerAlways, PTL

-----------------------------------------------------------------------------
(* A pass of CheckAndHandle runs every timer that had expired when it started, *)
(* each at most once, and stops.                                               *)
THEOREM PassesComplete == Spec => []PassIsComplete
  <1>1. TimerInv => PassIsComplete
    BY DEF TimerInv
  <1> QED BY <1>1, TimerAlways, PTL

(* The timer CheckAndHandle pops after a callback is the one it ran, whatever *)
(* the callback added or removed.                                             *)
THEOREM PopsTheRunning == Spec => []PopsWhatItRan
  <1>1. TimerInv => PopsWhatItRan
    BY DEF TimerInv, HeapInv, RunningIsRoot, PopsWhatItRan
  <1> QED BY <1>1, TimerAlways, PTL

(* A timer that repeats n times fires n + 1 times unless it is removed. *)
THEOREM FiresRepeatedly == Spec => []RepeatsAddUp
  <1>1. TimerInv => RepeatsAddUp
    BY DEF TimerInv
  <1> QED BY <1>1, TimerAlways, PTL

(* The deadline given to epoll_wait is exact for a timer that had not expired and *)
(* is less than half an int's range away, whatever the widths of the integers.    *)
THEOREM DeadlineIsExact == Spec => []DeadlineExact
  <1>1. TimerInv => DeadlineExact
    BY DEF TimerInv
  <1> QED BY <1>1, TimerAlways, PTL
=============================================================================
