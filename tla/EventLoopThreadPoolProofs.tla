---------------------- MODULE EventLoopThreadPoolProofs ----------------------
(***************************************************************************)
(* Proofs about EventLoopThreadPool.tla, for any number of threads and      *)
(* calls of GetNextLoop: the loops handed out exist and are initialized,    *)
(* they are handed out in turn, and no EventLoopThread is destroyed under   *)
(* its thread.  PoolInv says, for each position of the owner, how far each  *)
(* thread has come.                                                        *)
(***************************************************************************)
EXTENDS EventLoopThreadPool, SequenceTheorems, TLAPS

Starting   == opc \in {"create", "sem", "wait", "asleep"}
Destroying == opc \in {"dtor", "quit", "wakeup", "join"}
Running    == {"published", "test", "poll", "left", "ended"}

(* Where the owner is, and the loops it has collected. *)
OwnerInv ==
  /\ opc = "new" => loops_ = <<>> /\ cur = 0
  /\ Starting => cur \in Workers /\ Len(loops_) = cur - 1
  /\ Destroying => cur \in Workers
  /\ opc \notin {"new", "create", "sem", "wait", "asleep"} => Len(loops_) = num_threads_
  /\ \A k \in 1..Len(loops_) : loops_[k] = k

(* How far each thread has come. *)
ThreadsInv ==
  /\ \A i \in 1..Len(loops_) : wpc[i] \in Running
  /\ \A i \in Workers : i > Len(loops_) /\ (opc = "create" \/ i # cur) => wpc[i] = "none"
  /\ \A i \in Workers : inits[i] = IF wpc[i] \in {"none", "spawned", "func"} THEN 0 ELSE 1
  /\ \A i \in Workers : loop_[i] <=> wpc[i] \in {"published", "test", "poll", "left"}

(* The destructor has called Quit on the loop of thread i. *)
ToldToQuit(i) ==
  \/ opc = "gone"
  \/ opc \in {"dtor", "quit"} /\ i < cur
  \/ opc \in {"wakeup", "join"} /\ i <= cur

(* Only a thread told to quit leaves its loop. *)
QuitInv ==
  \A i \in Workers : quit_[i] \/ wpc[i] \in {"left", "ended"} => ToldToQuit(i)

(* The loops given out so far, and the one that is next. *)
TurnInv ==
  /\ opc = "new" \/ Starting => given = <<>> /\ next_ = 0
  /\ num_threads_ # 0 => next_ = Len(given) % num_threads_
  /\ \A k \in 1..Len(given) :
       given[k] = IF num_threads_ = 0 THEN Base ELSE ((k - 1) % num_threads_) + 1

PoolInv == TypeOK /\ OwnerInv /\ ThreadsInv /\ QuitInv /\ TurnInv /\ NoUseAfterDestroy

-----------------------------------------------------------------------------
(* The remainder is unique. *)
LEMMA ModUnique ==
  ASSUME NEW n \in Nat \ {0}, NEW q \in Int, NEW r \in 0..(n - 1), NEW g \in Int, g = n * q + r
  PROVE  g % n = r
  <1> DEFINE p == g \div n
             s == g % n
  <1>1. p \in Int /\ s \in 0..(n - 1) /\ g = n * p + s
    OBVIOUS
  <1> HIDE DEF p, s
  <1>2. n * (q - p) = s - r /\ -n < s - r /\ s - r < n
    BY <1>1
  <1>3. ASSUME NEW d \in Int, d >= 1
        PROVE  n * d >= n
    BY <1>3
  <1>4. ASSUME NEW d \in Int, d <= -1
        PROVE  n * d <= -n
    BY <1>4
  <1>5. ~(q - p >= 1) /\ ~(q - p <= -1)
    BY <1>1, <1>2, <1>3, <1>4
  <1>6. q - p = 0
    BY <1>1, <1>5
  <1> QED BY <1>1, <1>2, <1>6 DEF s

(* next_ goes round like the number of calls modulo the number of loops. *)
LEMMA ModNext ==
  ASSUME NEW g \in Nat, NEW n \in Nat \ {0}
  PROVE  /\ g % n \in 0..(n - 1)
         /\ (g + 1) % n = IF (g % n) + 1 >= n THEN 0 ELSE (g % n) + 1
  <1> DEFINE q == g \div n
             r == g % n
  <1>1. q \in Int /\ r \in 0..(n - 1) /\ g = n * q + r
    OBVIOUS
  <1> HIDE DEF q, r
  <1>2. CASE r + 1 >= n
    <2>1. g + 1 = n * (q + 1) + 0 /\ 0 \in 0..(n - 1)
      BY <1>1, <1>2
    <2>2. (g + 1) % n = 0
      BY <1>1, <2>1, ModUnique
    <2> QED BY <1>1, <1>2, <2>2 DEF r
  <1>3. CASE ~(r + 1 >= n)
    <2>1. g + 1 = n * q + (r + 1) /\ r + 1 \in 0..(n - 1)
      BY <1>1, <1>3
    <2>2. (g + 1) % n = r + 1
      BY <1>1, <2>1, ModUnique
    <2> QED BY <1>1, <1>3, <2>2 DEF r
  <1> QED BY <1>2, <1>3

LEMMA PoolInitially == Init => PoolInv
  <1> SUFFICES ASSUME Init
               PROVE  PoolInv
    OBVIOUS
  <1>1. TypeOK
    <2>1. loops_ \in Seq(Workers) /\ given \in Seq(Workers \cup {Base})
      BY EmptySeq DEF Init
    <2>2. cur \in 0..num_threads_ /\ next_ \in Nat
      BY NumThreadsAssumption DEF Init
    <2> QED BY <2>1, <2>2 DEF Init, TypeOK, OwnerPCs, WorkerPCs
  <1>2. OwnerInv /\ ThreadsInv /\ QuitInv
    BY <1>1, NumThreadsAssumption
       DEF Init, OwnerInv, ThreadsInv, QuitInv, Starting, Destroying, Workers
  <1>3. TurnInv /\ NoUseAfterDestroy
    BY NumThreadsAssumption, ModNext DEF Init, TurnInv, NoUseAfterDestroy, Destroyed
  <1> QED BY <1>1, <1>2, <1>3 DEF PoolInv

(* Start returns or goes on to the next thread. *)
LEMMA StartNextStep ==
  ASSUME PoolInv, NEW i \in 0..num_threads_, i = cur, StartNext(i),
         OwnerInv, Len(loops_') = i, loops_' \in Seq(Workers),
         \A k \in 1..i : loops_'[k] = k /\ wpc[k] \in Running,
         opc = "new" \/ Starting,
         UNCHANGED <<next_, wpc, loop_, quit_, woken, given>>, started_' \in BOOLEAN
  PROVE  PoolInv'
  <1>0. TypeOK /\ ThreadsInv /\ QuitInv /\ TurnInv
    BY DEF PoolInv
  <1>1. /\ i < num_threads_ => opc' = "create" /\ cur' = i + 1
        /\ i = num_threads_ => opc' = "ready" /\ cur' = 0
        /\ inits' \in [Workers \cup {Base} -> Nat]
        /\ \A k \in Workers : inits'[k] = inits[k]
        /\ i < num_threads_ \/ i = num_threads_
    <2>1. Base \notin Workers /\ Workers = 1..num_threads_
      BY NumThreadsAssumption DEF Base, Workers
    <2>2. inits' = inits \/ inits' = [inits EXCEPT ![Base] = @ + 1]
      BY DEF StartNext, RunsOnBase
    <2>3. inits \in [Workers \cup {Base} -> Nat]
      BY <1>0 DEF TypeOK
    <2>4. /\ inits' \in [Workers \cup {Base} -> Nat]
          /\ \A k \in Workers : inits'[k] = inits[k]
      BY <2>1, <2>2, <2>3
    <2> QED BY <2>4, NumThreadsAssumption DEF StartNext
  <1>2. OwnerInv'
    BY <1>1, NumThreadsAssumption DEF OwnerInv, Starting, Destroying, Workers
  <1>3. ThreadsInv'
    <2>1. \A k \in Workers : k > i => k > Len(loops_) /\ (opc = "create" \/ k # cur)
      <3>1. Len(loops_) <= cur /\ cur \in Nat
        BY NumThreadsAssumption DEF OwnerInv, Starting, Workers
      <3> QED BY <3>1, NumThreadsAssumption DEF Workers, OwnerInv, Starting
    <2> QED BY <1>0, <1>1, <2>1, NumThreadsAssumption DEF ThreadsInv, Workers
  <1>4. QuitInv'
    <2>1. \A k \in Workers : ~quit_[k] /\ wpc[k] \notin {"left", "ended"}
      BY <1>0 DEF QuitInv, ToldToQuit, Starting
    <2> QED BY <2>1 DEF QuitInv
  <1>5. TypeOK'
    <2>1. opc' \in OwnerPCs /\ cur' \in 0..num_threads_
      BY <1>1, NumThreadsAssumption DEF OwnerPCs
    <2>2. next_' = 0
      BY <1>0 DEF TurnInv
    <2>3. loops_' # <<>> => next_' < Len(loops_')
      BY <2>2, EmptySeq, LenProperties
    <2> QED BY <1>0, <1>1, <2>1, <2>2, <2>3 DEF TypeOK
  <1>6. TurnInv'
    BY <1>0 DEF TurnInv
  <1>7. NoUseAfterDestroy'
    BY <1>1 DEF NoUseAfterDestroy, Destroyed
  <1> QED BY <1>2, <1>3, <1>4, <1>5, <1>6, <1>7 DEF PoolInv

LEMMA StartStep ==
  ASSUME PoolInv, Start
  PROVE  PoolInv'
  <1>1. OwnerInv /\ loops_' = loops_ /\ loops_ = <<>> /\ cur = 0 /\ loops_ \in Seq(Workers)
    BY DEF PoolInv, OwnerInv, Start, TypeOK
  <1>2. Len(loops_') = 0
    BY <1>1
  <1> QED BY <1>1, <1>2, StartNextStep, NumThreadsAssumption DEF Start, loopv

LEMMA WaitForLoopStep ==
  ASSUME PoolInv, WaitForLoop
  PROVE  PoolInv'
  <1>0. TypeOK /\ OwnerInv /\ ThreadsInv /\ QuitInv /\ TurnInv /\ NoUseAfterDestroy
    BY DEF PoolInv
  <1>1. /\ opc = "wait" /\ Starting /\ cur \in Workers /\ Len(loops_) = cur - 1
        /\ cur \in 0..num_threads_ /\ cur \in Nat
        /\ UNCHANGED <<started_, next_, wpc, loop_, quit_, woken, given>>
    BY <1>0, NumThreadsAssumption DEF WaitForLoop, OwnerInv, Starting, loopv, Workers
  <1>2. CASE loop_[cur]
    <2>1. loops_' = Append(loops_, cur) /\ StartNext(cur)
      BY <1>2 DEF WaitForLoop
    <2>2. /\ loops_' \in Seq(Workers) /\ Len(loops_') = cur
          /\ \A k \in 1..(cur - 1) : loops_'[k] = loops_[k]
          /\ loops_'[cur] = cur
      <3>1. loops_ \in Seq(Workers)
        BY <1>0 DEF TypeOK
      <3> QED BY <1>1, <2>1, <3>1, AppendProperties
    <2>3. \A k \in 1..cur : loops_'[k] = k /\ wpc[k] \in Running
      BY <1>0, <1>1, <1>2, <2>2 DEF OwnerInv, ThreadsInv, Running
    <2>4. started_' \in BOOLEAN
      BY <1>0, <1>1 DEF TypeOK
    <2> QED BY <1>0, <1>1, <2>1, <2>2, <2>3, <2>4, StartNextStep
  <1>3. CASE ~loop_[cur]
    <2>1. opc' = "asleep" /\ UNCHANGED <<cur, loops_, inits>>
      BY <1>3 DEF WaitForLoop
    <2> QED BY <1>0, <1>1, <2>1
            DEF PoolInv, TypeOK, OwnerPCs, OwnerInv, ThreadsInv, QuitInv, TurnInv,
                NoUseAfterDestroy, Destroyed, ToldToQuit, Starting, Destroying
  <1> QED BY <1>2, <1>3

(* The other steps of Start. *)
LEMMA StartingStep ==
  ASSUME PoolInv, ThreadStart \/ SemWait \/ SpuriousWakeup
  PROVE  PoolInv'
  <1>0. TypeOK /\ OwnerInv /\ ThreadsInv /\ QuitInv /\ TurnInv /\ NoUseAfterDestroy
    BY DEF PoolInv
  <1>1. CASE ThreadStart
    <2>1. /\ opc = "create" /\ opc' = "sem" /\ wpc' = [wpc EXCEPT ![cur] = "spawned"]
          /\ cur \in Workers /\ Len(loops_) = cur - 1 /\ Starting
          /\ UNCHANGED <<cur, started_, loops_, next_, loop_, quit_, woken, inits, given>>
      BY <1>0, <1>1 DEF ThreadStart, OwnerInv, Starting, pool, loopv
    <2>2. wpc[cur] = "none"
      BY <1>0, <2>1, NumThreadsAssumption DEF ThreadsInv, Workers
    <2>3. wpc' \in [Workers -> WorkerPCs] /\ \A i \in Workers : i # cur => wpc'[i] = wpc[i]
      BY <1>0, <2>1 DEF TypeOK, WorkerPCs
    <2>4. wpc'[cur] = "spawned"
      BY <1>0, <2>1 DEF TypeOK
    <2>5. TypeOK' /\ OwnerInv'
      BY <1>0, <2>1, <2>3 DEF TypeOK, OwnerPCs, OwnerInv, Starting, Destroying
    <2>6. ThreadsInv'
      BY <1>0, <2>1, <2>2, <2>3, <2>4, NumThreadsAssumption DEF ThreadsInv, Workers
    <2>7. QuitInv' /\ TurnInv' /\ NoUseAfterDestroy'
      BY <1>0, <2>1, <2>3, <2>4
         DEF QuitInv, ToldToQuit, TurnInv, Starting, NoUseAfterDestroy, Destroyed
    <2> QED BY <2>5, <2>6, <2>7 DEF PoolInv
  <1>2. CASE SemWait \/ SpuriousWakeup
    <2>1. /\ opc \in {"sem", "asleep"} /\ opc' = "wait"
          /\ UNCHANGED <<cur, started_, loops_, next_, wpc, loop_, quit_, woken, inits, given>>
      BY <1>2 DEF SemWait, SpuriousWakeup, pool, loopv
    <2> QED BY <1>0, <2>1
            DEF PoolInv, TypeOK, OwnerPCs, OwnerInv, ThreadsInv, QuitInv, TurnInv,
                NoUseAfterDestroy, Destroyed, ToldToQuit, Starting, Destroying
  <1> QED BY <1>1, <1>2

LEMMA GetNextLoopStep ==
  ASSUME PoolInv, GetNextLoop
  PROVE  PoolInv'
  <1>0. TypeOK /\ OwnerInv /\ ThreadsInv /\ QuitInv /\ TurnInv /\ NoUseAfterDestroy
    BY DEF PoolInv
  <1>1. /\ opc = "ready" /\ Len(loops_) = num_threads_
        /\ UNCHANGED <<opc, cur, started_, loops_, wpc, loop_, quit_, woken, inits>>
        /\ given \in Seq(Workers \cup {Base}) /\ Len(given) \in Nat
    BY <1>0, LenProperties DEF GetNextLoop, OwnerInv, loopv, TypeOK
  <1>2. ThreadsInv' /\ QuitInv' /\ NoUseAfterDestroy' /\ OwnerInv'
    BY <1>0, <1>1 DEF OwnerInv, ThreadsInv, QuitInv, ToldToQuit, NoUseAfterDestroy, Destroyed,
                      Starting, Destroying
  <1>3. CASE loops_ = <<>>
    <2>1. num_threads_ = 0
      BY <1>1, <1>3
    <2>2. given' = Append(given, Base) /\ next_' = next_
      BY <1>3 DEF GetNextLoop
    <2>3. /\ given' \in Seq(Workers \cup {Base}) /\ Len(given') = Len(given) + 1
          /\ \A k \in 1..Len(given) : given'[k] = given[k]
          /\ given'[Len(given) + 1] = Base
      BY <1>1, <2>2, AppendProperties
    <2>4. \A k \in 1..Len(given') : given'[k] = Base
      BY <1>0, <1>1, <2>1, <2>3 DEF TurnInv
    <2>5. TypeOK'
      BY <1>0, <1>1, <2>2, <2>3 DEF TypeOK
    <2>6. TurnInv'
      BY <1>1, <2>1, <2>4 DEF TurnInv, Starting
    <2> QED BY <1>2, <2>5, <2>6 DEF PoolInv
  <1>4. CASE loops_ # <<>>
    <2> DEFINE g == Len(given)
               n == num_threads_
    <2>1. loops_ \in Seq(Workers) /\ n \in Nat \ {0}
      BY <1>0, <1>1, <1>4, EmptySeq, NumThreadsAssumption DEF TypeOK
    <2>2. given' = Append(given, loops_[next_ + 1]) /\ next_' = Following(next_)
      BY <1>4 DEF GetNextLoop
    <2>3. g \in Nat /\ next_ = g % n /\ next_ \in 0..(n - 1)
      BY <1>0, <1>1, <2>1, ModNext DEF TurnInv
    <2>4. next_' = (g + 1) % n /\ next_' \in Nat /\ next_' < n
      <3>1. next_' = IF next_ + 1 >= n THEN 0 ELSE next_ + 1
        BY <1>1, <2>2 DEF Following
      <3> HIDE DEF g, n
      <3>2. (g + 1) % n = IF (g % n) + 1 >= n THEN 0 ELSE (g % n) + 1
        BY <2>1, <2>3, ModNext
      <3>3. next_' = (g + 1) % n
        BY <2>3, <3>1, <3>2, Zenon
      <3> QED BY <2>1, <2>3, <3>1, <3>3
    <2>5. loops_[next_ + 1] = next_ + 1 /\ next_ + 1 \in Workers
      BY <1>0, <1>1, <2>1, <2>3 DEF OwnerInv, Workers
    <2>6. /\ given' \in Seq(Workers \cup {Base}) /\ Len(given') = g + 1
          /\ \A k \in 1..g : given'[k] = given[k]
          /\ given'[g + 1] = next_ + 1
      BY <1>1, <2>2, <2>5, AppendProperties
    <2>7. TypeOK'
      BY <1>0, <1>1, <2>4, <2>6 DEF TypeOK
    <2>8. \A k \in 1..Len(given') : given'[k] = ((k - 1) % n) + 1
      <3> SUFFICES ASSUME NEW k \in 1..(g + 1)
                   PROVE  given'[k] = ((k - 1) % n) + 1
        BY <2>6
      <3>1. CASE k \in 1..g
        BY <1>0, <2>1, <2>6, <3>1 DEF TurnInv
      <3>2. CASE k = g + 1
        <4>1. k - 1 = g
          BY <2>3, <3>2
        <4>2. given'[k] = (g % n) + 1
          BY <2>3, <2>6, <3>2, Zenon
        <4> QED BY <4>1, <4>2
      <3> QED BY <2>3, <3>1, <3>2
    <2>9. TurnInv'
      BY <1>1, <2>1, <2>4, <2>6, <2>8 DEF TurnInv, Starting
    <2> QED BY <1>2, <2>7, <2>9 DEF PoolInv
  <1> QED BY <1>3, <1>4

(* The destructor.  TestLoop never finds loop_ null: the loops are running until *)
(* they are told to quit, and each is told in its turn.                          *)
LEMMA DestroyStep ==
  ASSUME PoolInv, Destroy \/ TestLoop \/ SetQuit \/ WakeUp \/ Join
  PROVE  PoolInv'
  <1>0. TypeOK /\ OwnerInv /\ ThreadsInv /\ QuitInv /\ TurnInv /\ NoUseAfterDestroy
    BY DEF PoolInv
  <1>1. /\ UNCHANGED <<started_, loops_, next_, wpc, loop_, inits, given>>
        /\ opc \in {"ready", "dtor", "quit", "wakeup", "join"} /\ Len(loops_) = num_threads_
        /\ cur \in 0..num_threads_ /\ (opc # "ready" => cur \in Workers)
    BY <1>0 DEF Destroy, TestLoop, SetQuit, WakeUp, Join, pool, loopv, OwnerInv, Destroying,
                TypeOK
  <1>2. opc = "dtor" => loop_[cur]
    <2> SUFFICES ASSUME opc = "dtor"
                 PROVE  wpc[cur] \in {"published", "test", "poll", "left"}
      BY <1>0, <1>1 DEF ThreadsInv
    <2>1. wpc[cur] \in Running
      BY <1>0, <1>1 DEF ThreadsInv, Workers
    <2>2. wpc[cur] # "ended"
      BY <1>0, <1>1, NumThreadsAssumption DEF QuitInv, ToldToQuit, Workers
    <2> QED BY <2>1, <2>2 DEF Running
  <1>3. CASE Destroy \/ Join
    <2>1. /\ \E i \in 0..num_threads_ :
               /\ opc' = IF i < num_threads_ THEN "dtor" ELSE "gone"
               /\ cur' = IF i < num_threads_ THEN i + 1 ELSE 0
               /\ \A k \in Workers : ToldToQuit(k) => k <= i
               /\ \A k \in 1..i : wpc[k] = "ended"
          /\ UNCHANGED <<quit_, woken>>
      <3>1. CASE Destroy
        <4>1. \A k \in Workers : ToldToQuit(k) => k <= 0
          BY <3>1 DEF Destroy, ToldToQuit
        <4> QED BY <3>1, <4>1, NumThreadsAssumption DEF Destroy, DestroyNext, loopv
      <3>2. CASE Join
        <4>1. \A k \in Workers : ToldToQuit(k) => k <= cur
          BY <3>2 DEF Join, ToldToQuit
        <4>2. \A k \in 1..cur : wpc[k] = "ended"
          <5>1. opc = "join" /\ wpc[cur] = "ended" /\ \A k \in 1..(cur - 1) : wpc[k] = "ended"
            BY <1>0, <3>2 DEF Join, NoUseAfterDestroy, Destroyed
          <5> QED BY <1>1, <5>1, NumThreadsAssumption
        <4> QED BY <1>1, <3>2, <4>1, <4>2 DEF Join, DestroyNext, loopv
      <3> QED BY <1>3, <3>1, <3>2
    <2>2. PICK i \in 0..num_threads_ :
               /\ opc' = IF i < num_threads_ THEN "dtor" ELSE "gone"
               /\ cur' = IF i < num_threads_ THEN i + 1 ELSE 0
               /\ \A k \in Workers : ToldToQuit(k) => k <= i
               /\ \A k \in 1..i : wpc[k] = "ended"
      BY <2>1
    <2>3. /\ opc' \in {"dtor", "gone"} /\ cur' \in 0..num_threads_
          /\ (opc' = "dtor" => cur' = i + 1 /\ cur' \in Workers)
          /\ (opc' = "gone" => i = num_threads_)
      BY <2>2, NumThreadsAssumption DEF Workers
    <2>4. \A k \in Workers : ToldToQuit(k) => ToldToQuit(k)'
      BY <2>2, <2>3, NumThreadsAssumption DEF ToldToQuit, Workers
    <2>5. TypeOK' /\ OwnerInv'
      BY <1>0, <1>1, <2>1, <2>3 DEF TypeOK, OwnerPCs, OwnerInv, Starting, Destroying
    <2>6. ThreadsInv'
      BY <1>0, <1>1, NumThreadsAssumption DEF ThreadsInv, Workers
    <2>7. QuitInv' /\ TurnInv'
      BY <1>0, <1>1, <2>1, <2>3, <2>4 DEF QuitInv, TurnInv, Starting
    <2>8. NoUseAfterDestroy'
      <3>1. Destroyed' = 1..i
        BY <2>3, NumThreadsAssumption DEF Destroyed, Workers
      <3> QED BY <1>1, <2>2, <3>1 DEF NoUseAfterDestroy
    <2> QED BY <2>5, <2>6, <2>7, <2>8 DEF PoolInv
  <1>4. CASE TestLoop \/ SetQuit \/ WakeUp
    <2>1. /\ \/ opc = "dtor" /\ opc' = "quit" /\ quit_' = quit_ /\ woken' = woken
             \/ opc = "quit" /\ opc' = "wakeup" /\ quit_' = [quit_ EXCEPT ![cur] = TRUE] /\ woken' = woken
             \/ opc = "wakeup" /\ opc' = "join" /\ quit_' = quit_ /\ woken' = [woken EXCEPT ![cur] = TRUE]
          /\ cur' = cur
      BY <1>2, <1>4 DEF TestLoop, SetQuit, WakeUp, loopv
    <2>2. cur \in Workers
      BY <1>1, <2>1
    <2>3. TypeOK' /\ OwnerInv'
      BY <1>0, <1>1, <2>1, <2>2 DEF TypeOK, OwnerPCs, OwnerInv, Starting, Destroying
    <2>4. ThreadsInv'
      BY <1>0, <1>1, NumThreadsAssumption DEF ThreadsInv, Workers
    <2>5. QuitInv'
      <3>1. /\ \A k \in Workers : ToldToQuit(k) => ToldToQuit(k)'
            /\ opc' = "wakeup" => ToldToQuit(cur)'
        BY <2>1, <2>2, NumThreadsAssumption DEF ToldToQuit, Workers
      <3>2. \A k \in Workers : quit_'[k] => quit_[k] \/ (k = cur /\ opc' = "wakeup")
        BY <1>0, <2>1 DEF TypeOK
      <3> SUFFICES ASSUME NEW k \in Workers, quit_'[k] \/ wpc'[k] \in {"left", "ended"}
                   PROVE  ToldToQuit(k)'
        BY DEF QuitInv
      <3>3. CASE k = cur /\ opc' = "wakeup"
        BY <2>1, <2>2, <3>3, NumThreadsAssumption DEF ToldToQuit, Workers
      <3>4. CASE ~(k = cur /\ opc' = "wakeup")
        BY <1>0, <1>1, <3>1, <3>2, <3>4 DEF QuitInv
      <3> QED BY <3>3, <3>4
    <2>6. TurnInv' /\ NoUseAfterDestroy'
      BY <1>0, <1>1, <2>1 DEF TurnInv, Starting, NoUseAfterDestroy, Destroyed
    <2> QED BY <2>3, <2>4, <2>5, <2>6 DEF PoolInv
  <1> QED BY <1>3, <1>4

(* A thread of the pool, whatever the owner is doing. *)
LEMMA WorkerInvStep ==
  ASSUME PoolInv, NEW i \in Workers, WorkerStep(i) \/ PollEnds(i)
  PROVE  PoolInv'
  <1>0. TypeOK /\ OwnerInv /\ ThreadsInv /\ QuitInv /\ TurnInv /\ NoUseAfterDestroy
    BY DEF PoolInv
  <1> DEFINE From == wpc[i]
             To == wpc'[i]
  <1>1. /\ UNCHANGED <<cur, started_, loops_, next_, given>>
        /\ opc' = opc \/ (opc = "asleep" /\ opc' = "wait")
        /\ \E to \in WorkerPCs : wpc' = [wpc EXCEPT ![i] = to]
    BY DEF WorkerStep, SemPost, InitLoop, Publish, EnterLoop, TestQuit, PollWoken, PollEnds,
           LeaveThread, Goes, pool, loopv, WorkerPCs
  <1>2. /\ \/ From = "spawned" /\ To = "func" /\ UNCHANGED <<inits, loop_>>
           \/ From = "func" /\ To = "init" /\ inits' = [inits EXCEPT ![i] = @ + 1] /\ loop_' = loop_
           \/ From = "init" /\ To = "published" /\ inits' = inits /\ loop_' = [loop_ EXCEPT ![i] = TRUE]
           \/ From = "published" /\ To = "test" /\ UNCHANGED <<inits, loop_>>
           \/ From = "test" /\ To = "poll" /\ UNCHANGED <<inits, loop_>>
           \/ From = "test" /\ To = "left" /\ quit_[i] /\ UNCHANGED <<inits, loop_>>
           \/ From = "poll" /\ To = "test" /\ UNCHANGED <<inits, loop_>>
           \/ From = "left" /\ To = "ended" /\ inits' = inits /\ loop_' = [loop_ EXCEPT ![i] = FALSE]
        /\ quit_' = quit_ \/ quit_' = [quit_ EXCEPT ![i] = FALSE]
        /\ woken' = woken \/ woken' = [woken EXCEPT ![i] = FALSE]
    BY <1>0 DEF WorkerStep, SemPost, InitLoop, Publish, EnterLoop, TestQuit, PollWoken, PollEnds,
           LeaveThread, Goes, loopv, TypeOK
  <1>3. wpc' \in [Workers -> WorkerPCs] /\ \A k \in Workers : k # i => wpc'[k] = wpc[k]
    BY <1>0, <1>1 DEF TypeOK
  <1>4. TypeOK'
    <2>1. inits' \in [Workers \cup {Base} -> Nat]
      BY <1>0, <1>2 DEF TypeOK
    <2>2. loop_' \in [Workers -> BOOLEAN] /\ quit_' \in [Workers -> BOOLEAN]
          /\ woken' \in [Workers -> BOOLEAN]
      BY <1>0, <1>2 DEF TypeOK
    <2> QED BY <1>0, <1>1, <1>3, <2>1, <2>2 DEF TypeOK, OwnerPCs
  <1>5. OwnerInv' /\ TurnInv'
    BY <1>0, <1>1 DEF OwnerInv, TurnInv, Starting, Destroying
  <1>6. ThreadsInv'
    <2>1. \A k \in 1..Len(loops_) : k \in Workers
      BY <1>0, NumThreadsAssumption DEF OwnerInv, Starting, Workers, TypeOK, OwnerPCs
    <2>2. \A k \in 1..Len(loops_) : wpc'[k] \in Running
      BY <1>0, <1>2, <1>3, <2>1 DEF ThreadsInv, Running
    <2>3. \A k \in Workers : k > Len(loops_) /\ (opc' = "create" \/ k # cur) => wpc'[k] = "none"
      BY <1>0, <1>1, <1>2, <1>3 DEF ThreadsInv
    <2>4. \A k \in Workers : inits'[k] = IF wpc'[k] \in {"none", "spawned", "func"} THEN 0 ELSE 1
      BY <1>0, <1>2, <1>3 DEF ThreadsInv, TypeOK
    <2>5. \A k \in Workers : loop_'[k] <=> wpc'[k] \in {"published", "test", "poll", "left"}
      BY <1>0, <1>2, <1>3 DEF ThreadsInv, TypeOK
    <2> QED BY <1>1, <2>2, <2>3, <2>4, <2>5 DEF ThreadsInv
  <1>7. QuitInv'
    <2>1. \A k \in Workers : ToldToQuit(k) => ToldToQuit(k)'
      BY <1>1 DEF ToldToQuit
    <2>2. \A k \in Workers : quit_'[k] => quit_[k]
      BY <1>0, <1>2 DEF TypeOK
    <2>3. \A k \in Workers : wpc'[k] \in {"left", "ended"} =>
                              wpc[k] \in {"left", "ended"} \/ quit_[k]
      BY <1>2, <1>3
    <2> QED BY <1>0, <2>1, <2>2, <2>3 DEF QuitInv
  <1>8. NoUseAfterDestroy'
    <2>1. Destroyed' = Destroyed
      BY <1>1 DEF Destroyed
    <2>2. i \notin Destroyed
      BY <1>0, <1>2 DEF NoUseAfterDestroy
    <2>3. Destroyed \subseteq Workers
      BY <1>0, NumThreadsAssumption DEF Destroyed, Workers, TypeOK
    <2> QED BY <1>0, <1>3, <2>1, <2>2, <2>3 DEF NoUseAfterDestroy
  <1> QED BY <1>4, <1>5, <1>6, <1>7, <1>8 DEF PoolInv

LEMMA PoolStep == PoolInv /\ [Next]_vars => PoolInv'
  <1> SUFFICES ASSUME PoolInv, [Next]_vars
               PROVE  PoolInv'
    OBVIOUS
  <1>1. CASE UNCHANGED vars
    BY <1>1 DEF vars, pool, loopv, PoolInv, TypeOK, OwnerInv, ThreadsInv, QuitInv, ToldToQuit,
                TurnInv, NoUseAfterDestroy, Destroyed, Starting, Destroying
  <1>2. CASE Start
    BY <1>2, StartStep
  <1>3. CASE WaitForLoop
    BY <1>3, WaitForLoopStep
  <1>4. CASE ThreadStart \/ SemWait \/ SpuriousWakeup
    BY <1>4, StartingStep
  <1>5. CASE GetNextLoop
    BY <1>5, GetNextLoopStep
  <1>6. CASE Destroy \/ TestLoop \/ SetQuit \/ WakeUp \/ Join
    BY <1>6, DestroyStep
  <1>7. CASE \E i \in Workers : WorkerStep(i) \/ PollEnds(i)
    BY <1>7, WorkerInvStep
  <1> QED BY <1>1, <1>2, <1>3, <1>4, <1>5, <1>6, <1>7 DEF Next, OwnerStep

LEMMA PoolAlways == Spec => []PoolInv
  BY PoolInitially, PoolStep, PTL DEF Spec

(* EventLoopThreadPool.tla's types: next_ stays an index of loops_ (GetNextLoop), and the *)
(* owner never counts past its threads.                                                  *)
THEOREM PoolTypeCorrect == Spec => []TypeOK
  <1>1. PoolInv => TypeOK
    BY DEF PoolInv
  <1> QED BY <1>1, PoolAlways, PTL

-----------------------------------------------------------------------------
(* Start hands out loops that exist and have had their init callback once, in the *)
(* order of the threads; they run until the destructor tells them to quit, and    *)
(* GetNextLoop gives them out in turn, for any number of threads.                 *)
THEOREM LoopsInitialized == Spec => []HandsOutInitializedLoops
  <1>1. PoolInv => HandsOutInitializedLoops
    <2> SUFFICES ASSUME PoolInv
                 PROVE  HandsOutInitializedLoops
      OBVIOUS
    <2>0. TypeOK /\ OwnerInv /\ ThreadsInv /\ QuitInv /\ TurnInv
      BY DEF PoolInv
    <2>1. \A k \in 1..Len(loops_) : k \in Workers
      BY <2>0, NumThreadsAssumption DEF OwnerInv, Starting, Workers, TypeOK, OwnerPCs
    <2>2. \A k \in 1..Len(loops_) : inits[k] = 1
      BY <2>0, <2>1 DEF ThreadsInv, Running
    <2>3. \A k \in 1..Len(loops_) :
            opc \notin {"dtor", "quit", "wakeup", "join", "gone"} => wpc[k] \notin {"left", "ended"}
      BY <2>0, <2>1 DEF QuitInv, ToldToQuit
    <2> QED BY <2>0, <2>2, <2>3 DEF HandsOutInitializedLoops, OwnerInv, TurnInv
  <1> QED BY <1>1, PoolAlways, PTL

(* ~EventLoopThread joins its thread before it returns, so the thread never uses it *)
(* afterwards.                                                                      *)
THEOREM JoinedBeforeDestroyed == Spec => []NoUseAfterDestroy
  <1>1. PoolInv => NoUseAfterDestroy
    BY DEF PoolInv
  <1> QED BY <1>1, PoolAlways, PTL

-----------------------------------------------------------------------------
(* The notification that StartLoop waits for is not lost: while the owner sleeps, the *)
(* thread it waits for has not published its loop yet, and will notify when it does.  *)
(* The semaphore of Thread::Start comes before, and mutex_ makes the test of loop_ and *)
(* the wait one step.                                                                 *)
SleepsUntilPublished ==
  /\ opc \in {"sem", "wait", "asleep"} => wpc[cur] # "none"
  /\ opc \in {"wait", "asleep"} => wpc[cur] # "spawned"
  /\ opc = "asleep" => wpc[cur] \in {"func", "init"}

LEMMA SleepsStep ==
  ASSUME PoolInv, SleepsUntilPublished, [Next]_vars
  PROVE  SleepsUntilPublished'
  <1>t. /\ wpc \in [Workers -> WorkerPCs] /\ ThreadsInv /\ QuitInv
        /\ opc \in {"create", "sem", "wait", "asleep"} => cur \in Workers
    BY DEF PoolInv, OwnerInv, Starting, TypeOK
  <1>1. CASE UNCHANGED vars
    BY <1>1 DEF vars, SleepsUntilPublished
  <1>2. CASE ThreadStart
    BY <1>t, <1>2 DEF ThreadStart, SleepsUntilPublished
  <1>3. CASE SemWait \/ SpuriousWakeup
    BY <1>3 DEF SemWait, SpuriousWakeup, SleepsUntilPublished
  <1>4. CASE WaitForLoop
    <2>1. CASE loop_[cur]
      BY <1>4, <2>1 DEF WaitForLoop, StartNext, SleepsUntilPublished
    <2>2. CASE ~loop_[cur]
      <3>1. opc = "wait" /\ opc' = "asleep" /\ UNCHANGED <<cur, wpc>>
        BY <1>4, <2>2 DEF WaitForLoop
      <3>2. wpc[cur] \notin {"none", "spawned", "published", "test", "poll", "left"}
        BY <1>t, <2>2, <3>1 DEF SleepsUntilPublished, ThreadsInv
      <3>3. wpc[cur] # "ended"
        BY <1>t, <3>1 DEF QuitInv, ToldToQuit
      <3>4. wpc[cur] \in {"func", "init"}
        BY <1>t, <3>1, <3>2, <3>3 DEF WorkerPCs
      <3> QED BY <3>1, <3>4 DEF SleepsUntilPublished
    <2> QED BY <2>1, <2>2
  <1>5. CASE Start \/ GetNextLoop
    BY <1>5 DEF Start, StartNext, GetNextLoop, SleepsUntilPublished
  <1>6. CASE Destroy \/ TestLoop \/ SetQuit \/ WakeUp \/ Join
    BY <1>6 DEF Destroy, TestLoop, SetQuit, WakeUp, Join, DestroyNext, SleepsUntilPublished
  <1>7. ASSUME NEW i \in Workers, WorkerStep(i) \/ PollEnds(i)
        PROVE  SleepsUntilPublished'
    <2>1. PICK from, to \in WorkerPCs :
            /\ Goes(i, from, to) /\ to \notin {"none", "spawned"}
            /\ from \in {"func", "init"} => to = "init" \/ (to = "published" /\ Publish(i))
      BY <1>7 DEF WorkerStep, SemPost, InitLoop, EnterLoop, TestQuit, PollWoken, PollEnds,
                  LeaveThread, Publish, Goes, WorkerPCs
    <2>2. /\ cur' = cur /\ (opc' = opc \/ (opc = "asleep" /\ opc' = "wait"))
          /\ Publish(i) /\ opc = "asleep" /\ cur = i => opc' = "wait"
      BY <1>7 DEF WorkerStep, SemPost, InitLoop, EnterLoop, TestQuit, PollWoken, PollEnds,
                  LeaveThread, Publish
    <2>3. \A k \in Workers : wpc'[k] = IF k = i THEN to ELSE wpc[k]
      BY <1>t, <2>1 DEF Goes
    <2> QED BY <1>t, <2>1, <2>2, <2>3 DEF SleepsUntilPublished, Goes
  <1> QED BY <1>1, <1>2, <1>3, <1>4, <1>5, <1>6, <1>7 DEF Next, OwnerStep

(* StartLoop's wait: the safety part of StartReturns, for any number of threads. *)
THEOREM NoLostNotification == Spec => []SleepsUntilPublished
  <1>1. Init => SleepsUntilPublished
    BY DEF Init, SleepsUntilPublished
  <1> QED BY <1>1, SleepsStep, PoolAlways, PTL DEF Spec
=============================================================================
