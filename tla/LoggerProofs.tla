---------------------------- MODULE LoggerProofs ----------------------------
(***************************************************************************)
(* Proofs about Logger.tla and AsyncLogging.tla, for any threads, buffer    *)
(* sizes and limits, number of lines and lengths of their pieces: a line    *)
(* fits its buffer and keeps its end, the logging thread always has the     *)
(* buffers it needs, and lines reach the file in order.                     *)
(***************************************************************************)
EXTENDS Logger, WellFoundedInduction, TLAPS

-----------------------------------------------------------------------------
(* FixedBuffer *)

(* A length a line may have: one byte stays free. *)
Used == 0..(kSmallBufferSize - 1)

LEMMA AppendedStays ==
  ASSUME NEW used \in Used, NEW n \in Nat
  PROVE  used ++ n \in Used
  BY SmallBufferAssumption DEF Used, Appended, Stream, ++

(* A line's beginning, and what Finish adds, stay within the buffer. *)
LEMMA BeginStays ==
  ASSUME NEW tid \in Lengths, NEW text \in Lengths
  PROVE  Begin(tid, text) \in Used
  <1>1. 0 \in Used /\ tid \in Nat /\ text \in Nat /\ 1 \in Nat
    BY LengthsAssumption, SmallBufferAssumption DEF Used
  <1>2. 0 ++ tid ++ 1 ++ 1 \in Used
    BY <1>1, AppendedStays
  <1>3. 0 ++ tid ++ 1 ++ 1 ++ 1 ++ 1 ++ 1 \in Used
    BY <1>1, <1>2, AppendedStays
  <1> QED BY <1>1, <1>3, AppendedStays DEF Begin

LEMMA BeforeEndStays ==
  ASSUME NEW used \in Used, NEW name \in Lengths, NEW colon \in Lengths
  PROVE  BeforeEnd(used, name, colon) \in Used
  <1>1. name \in Nat /\ colon \in Nat /\ 1 \in Nat
    BY LengthsAssumption
  <1>2. used ++ 1 ++ name \in Used
    BY <1>1, AppendedStays
  <1> QED BY <1>1, <1>2, AppendedStays DEF BeforeEnd

(* The end of line is left out only of a full buffer. *)
LEMMA EndFits ==
  ASSUME NEW used \in Used
  PROVE  /\ used ++ 1 < kSmallBufferSize
         /\ ~(used ++ 1 > used) => used ++ 1 = kSmallBufferSize - 1
  BY SmallBufferAssumption DEF Used, Appended, Stream, ++

-----------------------------------------------------------------------------
(* The Logger objects *)

Objects ==
  {None} \cup [at : {"build"}, level : Levels, used : Used]
         \cup [at : {"flush", "abort", "aborted"}]

LoggerType == logger \in [Threads -> Objects]

LEMMA LoggerStep == LoggerType /\ [LogNext]_allvars => LoggerType'
  <1> SUFFICES ASSUME LoggerType, [LogNext]_allvars
               PROVE  LoggerType'
    OBVIOUS
  <1> USE DEF LoggerType
  <1>1. ASSUME NEW t \in Threads, NEW level \in Levels, Log(t, level)
        PROVE  LoggerType'
    <2>1. PICK tid \in Lengths, text \in Lengths :
            logger' = [logger EXCEPT ![t] = [at |-> "build", level |-> level,
                                             used |-> Begin(tid, text)]]
      BY <1>1 DEF Log
    <2>2. Begin(tid, text) \in Used
      BY BeginStays
    <2>3. [at |-> "build", level |-> level, used |-> Begin(tid, text)] \in Objects
      BY <2>2 DEF Objects
    <2> QED BY <2>1, <2>3
  <1>2. ASSUME NEW t \in Threads, Output(t)
        PROVE  LoggerType'
    <2>1. logger' = [logger EXCEPT ![t] = [at |-> "flush"]] \/ logger' = [logger EXCEPT ![t] = None]
      BY <1>2 DEF Output
    <2>2. [at |-> "flush"] \in Objects /\ None \in Objects
      BY DEF Objects
    <2> QED BY <2>1, <2>2
  <1>3. ASSUME NEW t \in Threads, Flush(t) \/ Abort(t)
        PROVE  LoggerType'
    <2>1. PICK at \in {"abort", "aborted"} :
            /\ logger' = [logger EXCEPT ![t] = [logger[t] EXCEPT !.at = at]]
            /\ logger[t].at \in {"flush", "abort"}
      BY <1>3 DEF Flush, Abort
    <2>2. logger[t] \in [at : {"flush", "abort", "aborted"}]
      BY <2>1 DEF Objects, None
    <2>3. [logger[t] EXCEPT !.at = at] \in Objects
      BY <2>2 DEF Objects
    <2> QED BY <2>1, <2>3
  <1>4. CASE \/ UNCHANGED allvars \/ SetOutputFunc \/ StopLogging \/ Backend
             \/ \E level \in Levels : SetLogLevel(level)
    BY <1>4 DEF allvars, SetOutputFunc, StopLogging, Backend, SetLogLevel
  <1> QED BY <1>1, <1>2, <1>3, <1>4 DEF LogNext

(* A finished line is shorter than its buffer, and lacks its end of line only when the *)
(* buffer is full: for all lengths of the pieces that logger.cc and log_stream.cc do   *)
(* not control.                                                                        *)
THEOREM LinesFit == LogSpec => []LineFits
  <1>1. LogInit => LoggerType
    BY DEF LogInit, LoggerType, Objects
  <1>2. LoggerType => LineFits
    <2> SUFFICES ASSUME LoggerType, NEW t \in Threads, logger[t].at = "build",
                        NEW name \in Lengths, NEW colon \in Lengths
                 PROVE  LET used == Finish(logger[t].used, name, colon) IN
                        /\ used < kSmallBufferSize
                        /\ ~Ended(logger[t].used, name, colon) => used = kSmallBufferSize - 1
      BY DEF LineFits
    <2>1. logger[t].used \in Used
      BY DEF LoggerType, Objects, None
    <2>2. BeforeEnd(logger[t].used, name, colon) \in Used
      BY <2>1, BeforeEndStays
    <2> QED BY <2>2, EndFits DEF Finish, Ended
  <1> QED BY <1>1, <1>2, LoggerStep, PTL DEF LogSpec

-----------------------------------------------------------------------------
(* The logging thread's buffers *)

BufferTypes ==
  /\ cur_buffer_ \in Seq(Line) /\ lines \in 0..MaxLines
  /\ next_buffer_ \in {<<>>, Null} /\ new_buffer1 \in {<<>>, Null} /\ new_buffer2 \in {<<>>, Null}
  /\ buffer_to_write_ \in Seq(Seq(Line)) /\ temp_buffer_vec \in Seq(Seq(Line))

(* The spare buffer goes only when a full one is queued, so that a round that has to *)
(* give one up has taken two; at the top of a round both are there.                  *)
BuffersInv ==
  /\ next_buffer_ = Null => Len(buffer_to_write_) > 0
  /\ pc \in {"while", "lock", "wait"} =>
       new_buffer1 = <<>> /\ new_buffer2 = <<>> /\ temp_buffer_vec = <<>>
  /\ pc \in {"trim", "write", "recycle"} =>
       Len(temp_buffer_vec) >= IF new_buffer2 = Null THEN 2 ELSE 1

LogInv == BufferTypes /\ BuffersInv

LEMMA NullIsNoBuffer == \A b \in Seq(Line) : b # Null
  BY NullAssumption

LEMMA LogInitInv == LogInit => LogInv
  <1> SUFFICES ASSUME LogInit PROVE LogInv
    OBVIOUS
  <1>1. <<>> \in Seq(Line) /\ <<>> \in Seq(Seq(Line)) /\ <<>> # Null
    <2>1. <<>> \in Seq(Line) /\ <<>> \in Seq(Seq(Line))
      OBVIOUS
    <2> QED BY <2>1, NullIsNoBuffer
  <1> QED BY <1>1, MaxLinesAssumption DEF LogInit, Init, LogInv, BufferTypes, BuffersInv

(* Append. *)
LEMMA AppendLineStep ==
  ASSUME LogInv, AppendLine
  PROVE  LogInv'
  <1>1. /\ lines' \in 0..MaxLines /\ lines' \in Line
        /\ UNCHANGED <<pc, new_buffer1, new_buffer2, temp_buffer_vec>>
    BY MaxLinesAssumption DEF AppendLine, LogInv, BufferTypes, Line, back
  <1>2. CASE Fits
    <2>1. cur_buffer_' = Append(cur_buffer_, lines') /\ UNCHANGED <<next_buffer_, buffer_to_write_>>
      BY <1>2 DEF AppendLine
    <2>2. cur_buffer_' \in Seq(Line)
      BY <1>1, <2>1 DEF LogInv, BufferTypes
    <2> QED BY <1>1, <2>1, <2>2 DEF LogInv, BufferTypes, BuffersInv
  <1>3. CASE ~Fits
    <2>1. /\ buffer_to_write_' = Append(buffer_to_write_, cur_buffer_)
          /\ cur_buffer_' = Append(IF next_buffer_ # Null THEN next_buffer_ ELSE <<>>, lines')
          /\ next_buffer_' = Null
      BY <1>3 DEF AppendLine
    <2>2. /\ buffer_to_write_' \in Seq(Seq(Line))
          /\ Len(buffer_to_write_') > 0
      <3> DEFINE S == Seq(Line)
      <3>1. buffer_to_write_ \in Seq(S) /\ cur_buffer_ \in S
        BY DEF LogInv, BufferTypes
      <3> HIDE DEF S
      <3>2. Append(buffer_to_write_, cur_buffer_) \in Seq(S) /\ Len(Append(buffer_to_write_, cur_buffer_)) > 0
        BY <3>1
      <3> QED BY <2>1, <3>2 DEF S
    <2>3. cur_buffer_' \in Seq(Line)
      <3>1. cur_buffer_' = Append(<<>>, lines')
        BY <2>1 DEF LogInv, BufferTypes
      <3> QED BY <1>1, <3>1
    <2> QED BY <1>1, <2>1, <2>2, <2>3 DEF LogInv, BufferTypes, BuffersInv
  <1> QED BY <1>2, <1>3

(* The hand-over under the lock. *)
LEMMA TakeAllStep ==
  ASSUME LogInv, pc \in {"lock", "wait"}, TakeAll
  PROVE  LogInv'
  <1>1. /\ temp_buffer_vec' = Append(buffer_to_write_, cur_buffer_)
        /\ buffer_to_write_' = temp_buffer_vec
        /\ cur_buffer_' = new_buffer1 /\ new_buffer1' = Null
        /\ \/ next_buffer_ = Null /\ next_buffer_' = new_buffer2 /\ new_buffer2' = Null
           \/ next_buffer_ # Null /\ UNCHANGED <<next_buffer_, new_buffer2>>
        /\ pc' = "trim" /\ lines' = lines
    BY DEF TakeAll
  <1>2. new_buffer1 = <<>> /\ new_buffer2 = <<>> /\ temp_buffer_vec = <<>> /\ <<>> # Null
    <2>1. <<>> \in Seq(Line)
      OBVIOUS
    <2> QED BY <2>1, NullIsNoBuffer DEF LogInv, BuffersInv
  <1>3. /\ temp_buffer_vec' \in Seq(Seq(Line))
        /\ Len(temp_buffer_vec') = Len(buffer_to_write_) + 1 /\ Len(buffer_to_write_) \in Nat
    <2> DEFINE S == Seq(Line)
    <2>1. buffer_to_write_ \in Seq(S) /\ cur_buffer_ \in S
      BY DEF LogInv, BufferTypes
    <2> HIDE DEF S
    <2>2. /\ Append(buffer_to_write_, cur_buffer_) \in Seq(S) /\ Len(buffer_to_write_) \in Nat
          /\ Len(Append(buffer_to_write_, cur_buffer_)) = Len(buffer_to_write_) + 1
      BY <2>1
    <2> QED BY <1>1, <2>2 DEF S
  <1>4. BufferTypes'
    BY <1>1, <1>2, <1>3 DEF LogInv, BufferTypes
  <1>5. next_buffer_' # Null
    BY <1>1, <1>2
  <1>6. Len(temp_buffer_vec') >= IF new_buffer2' = Null THEN 2 ELSE 1
    BY <1>1, <1>2, <1>3 DEF LogInv, BuffersInv
  <1>7. BuffersInv'
    BY <1>1, <1>5, <1>6 DEF BuffersInv
  <1> QED BY <1>4, <1>7 DEF LogInv

(* The rest of the round. *)
LEMMA RoundStep ==
  ASSUME LogInv, TestRunning \/ LockAndWait \/ Trim \/ WriteBuffer \/ WriteDone \/ Recycle
  PROVE  LogInv'
  <1>1. CASE TestRunning \/ LockAndWait \/ Trim \/ WriteBuffer \/ WriteDone
    <2>1. /\ UNCHANGED <<cur_buffer_, lines, next_buffer_, new_buffer1, new_buffer2,
                         buffer_to_write_, temp_buffer_vec>>
          /\ pc' \in {"while", "lock", "wait"} => pc \in {"while", "lock", "wait"}
          /\ pc' \in {"trim", "write", "recycle"} => pc \in {"trim", "write", "recycle"}
      BY <1>1 DEF TestRunning, LockAndWait, Trim, WriteBuffer, WriteDone, front, back
    <2> QED BY <2>1 DEF LogInv, BufferTypes, BuffersInv
  <1>2. CASE Recycle
    <2>1. /\ UNCHANGED <<cur_buffer_, lines, next_buffer_, buffer_to_write_>>
          /\ temp_buffer_vec' = <<>>
          /\ \/ /\ pc' = "while"
                /\ new_buffer1' = (IF new_buffer1 = Null THEN <<>> ELSE new_buffer1)
                /\ new_buffer2' = (IF new_buffer2 = Null THEN <<>> ELSE new_buffer2)
             \/ pc' = "ubNull" /\ UNCHANGED <<new_buffer1, new_buffer2>>
      BY <1>2 DEF Recycle, Reset, front
    <2>2. BufferTypes' /\ (pc' = "while" => new_buffer1' = <<>> /\ new_buffer2' = <<>>)
      BY <2>1 DEF LogInv, BufferTypes
    <2> QED BY <2>1, <2>2 DEF LogInv, BuffersInv
  <1> QED BY <1>1, <1>2

LEMMA LogStep == LogInv /\ [LogNext]_allvars => LogInv'
  <1> SUFFICES ASSUME LogInv, [LogNext]_allvars
               PROVE  LogInv'
    OBVIOUS
  <1>1. CASE UNCHANGED vars
    BY <1>1 DEF vars, front, back, LogInv, BufferTypes, BuffersInv
  <1>2. CASE AppendLine
    BY <1>2, AppendLineStep
  <1>3. CASE Stop
    BY <1>3 DEF Stop, front, back, LogInv, BufferTypes, BuffersInv
  <1>4. CASE LoggingThread
    <2>1. CASE LockAndTake \/ WakeAndTake
      BY <2>1, TakeAllStep DEF LockAndTake, WakeAndTake
    <2> QED BY <1>4, <2>1, RoundStep DEF LoggingThread
  <1>5. UNCHANGED vars \/ AppendLine \/ Stop \/ LoggingThread
    BY DEF LogNext, allvars, Log, Output, Flush, Abort, SetLogLevel, SetOutputFunc, StopLogging,
           Backend
  <1> QED BY <1>1, <1>2, <1>3, <1>4, <1>5

(* Both spare buffers are there at the top of every round (the asserts at             *)
(* async_logging.cc:63-65), and a round that is not overtaken finds as many buffers    *)
(* to recycle as it needs.                                                             *)
THEOREM RecyclesSafely == LogSpec => []RecycleIsSafe
  <1>1. LogInv => RecycleIsSafe
    <2> SUFFICES ASSUME LogInv, pc = "recycle"
                 PROVE  CanRecycle(temp_buffer_vec, IF new_buffer2 = Null THEN 2 ELSE 1)
      BY DEF RecycleIsSafe, LogInv, BuffersInv
    <2> DEFINE n == IF new_buffer2 = Null THEN 2 ELSE 1
    <2>1. temp_buffer_vec \in Seq(Seq(Line)) /\ Len(temp_buffer_vec) \in Nat
          /\ n <= Len(temp_buffer_vec) /\ n \in {1, 2}
      BY DEF LogInv, BufferTypes, BuffersInv
    <2> HIDE DEF n
    <2>2. \A i \in (Len(temp_buffer_vec) - n + 1)..Len(temp_buffer_vec) : i \in 1..Len(temp_buffer_vec)
      BY <2>1
    <2>3. \A i \in 1..Len(temp_buffer_vec) : temp_buffer_vec[i] \in Seq(Line)
      BY <2>1
    <2>4. CanRecycle(temp_buffer_vec, n)
      BY <2>1, <2>2, <2>3, NullIsNoBuffer DEF CanRecycle
    <2> QED BY <2>4 DEF n
  <1> QED BY <1>1, LogInitInv, LogStep, PTL DEF LogSpec

-----------------------------------------------------------------------------
(* The order of the lines *)

(* The lines a + 1 to b, and numbers of lines that do not fall. *)
Run(a, b) == [i \in 1..(b - a) |-> a + i]
Marks == 0..MaxLines
Rises(off) == \A j, k \in DOMAIN off : j <= k => off[j] <= off[k]

LEMMA RunIsSeq ==
  ASSUME NEW a \in Nat, NEW b \in Nat, a <= b
  PROVE  Run(a, b) \in Seq(Nat) /\ Len(Run(a, b)) = b - a
  <1>1. b - a \in Nat /\ \A i \in 1..(b - a) : a + i \in Nat
    OBVIOUS
  <1> QED BY <1>1 DEF Run

LEMMA RunConcat ==
  ASSUME NEW a \in Nat, NEW b \in Nat, NEW c \in Nat, a <= b, b <= c
  PROVE  Run(a, b) \o Run(b, c) = Run(a, c)
  <1>1. /\ Run(a, b) \in Seq(Nat) /\ Len(Run(a, b)) = b - a
        /\ Run(b, c) \in Seq(Nat) /\ Len(Run(b, c)) = c - b
        /\ Run(a, c) \in Seq(Nat) /\ Len(Run(a, c)) = c - a
    <2>1. a <= c
      OBVIOUS
    <2> QED BY <2>1, RunIsSeq
  <1>2. (b - a) + (c - b) = c - a /\ b - a \in Nat /\ c - b \in Nat /\ c - a \in Nat
    OBVIOUS
  <1> DEFINE r == Run(a, b)  q == Run(b, c)  s == r \o q
  <1> HIDE DEF r, q
  <1>3. r \in Seq(Nat) /\ q \in Seq(Nat) /\ Len(r) = b - a /\ Len(q) = c - b
    BY <1>1 DEF r, q
  <1>4. s \in Seq(Nat) /\ Len(s) = c - a
    <2>1. s \in Seq(Nat) /\ Len(s) = Len(r) + Len(q)
      <3>1. r \in Seq(Nat) /\ q \in Seq(Nat)
        BY <1>3
      <3> QED BY ONLY <3>1
    <2> HIDE DEF s
    <2> QED BY <1>2, <1>3, <2>1
  <1>5. ASSUME NEW i \in 1..(c - a)
        PROVE  s[i] = Run(a, c)[i]
    <2>1. CASE i <= b - a
      <3>1. s[i] = r[i]
        BY <1>2, <1>3, <2>1
      <3>2. i \in 1..(b - a)
        BY <1>2, <2>1
      <3> QED BY <3>1, <3>2 DEF Run, r
    <2>2. CASE ~(i <= b - a)
      <3>1. i - (b - a) \in 1..(c - b) /\ b + (i - (b - a)) = a + i
        BY <1>2, <2>2
      <3>2. s[i] = q[i - (b - a)]
        BY <1>2, <1>3, <2>2
      <3> QED BY <3>1, <3>2 DEF Run, q
    <2> QED BY <2>1, <2>2
  <1>6. s = Run(a, c)
    <2> HIDE DEF s
    <2> QED BY <1>1, <1>4, <1>5
  <1> QED BY <1>6 DEF r, q

LEMMA RunGrows ==
  ASSUME NEW a \in Nat, NEW b \in Nat, a <= b
  PROVE  Append(Run(a, b), b + 1) = Run(a, b + 1)
  <1>1. (b + 1) - b = 1 /\ b + 1 \in Nat /\ b <= b + 1
    OBVIOUS
  <1>2. /\ Run(a, b) \in Seq(Nat) /\ Len(Run(a, b)) = b - a
        /\ Run(b, b + 1) \in Seq(Nat) /\ Len(Run(b, b + 1)) = (b + 1) - b
    BY <1>1, RunIsSeq
  <1>3. Run(b, b + 1)[1] = b + 1
    BY <1>1 DEF Run
  <1>4. Run(b, b + 1) = <<b + 1>>
    <2> DEFINE r == Run(b, b + 1)
    <2>1. r \in Seq(Nat) /\ Len(r) = 1 /\ r[1] = b + 1
      BY <1>2, <1>1, <1>3
    <2> HIDE DEF r
    <2>2. r = <<b + 1>>
      BY <2>1
    <2> QED BY <2>2 DEF r
  <1>5. Append(Run(a, b), b + 1) = Run(a, b) \o <<b + 1>>
    <2> DEFINE r == Run(a, b)
    <2>1. r \in Seq(Nat)
      BY <1>2
    <2> HIDE DEF r
    <2>2. Append(r, b + 1) = r \o <<b + 1>>
      BY <2>1
    <2> QED BY <2>2 DEF r
  <1>6. Run(a, b) \o Run(b, b + 1) = Run(a, b + 1)
    BY <1>1, RunConcat
  <1> QED BY <1>4, <1>5, <1>6, Zenon

LEMMA RunOfNone ==
  ASSUME NEW a \in Nat
  PROVE  Run(a, a) = <<>>
  BY DEF Run

(* What FlattenSeq computes for buffers that follow on from one another at the marks *)
(* off: its recursive function is the one that ends each run at the next mark, since *)
(* a least place where the two differ does not exist.                                *)
LEMMA FlattenRuns ==
  ASSUME NEW s \in Seq(Seq(Line)), NEW off \in [0..Len(s) -> Marks], Rises(off),
         \A k \in 1..Len(s) : s[k] = Run(off[k - 1], off[k])
  PROVE  FlattenSeq(s) = Run(off[0], off[Len(s)])
  <1>0. Len(s) \in Nat
    OBVIOUS
  <1>1. CASE Len(s) = 0
    <2>1. off[0] \in Nat
      BY <1>0, MaxLinesAssumption DEF Marks
    <2>2. s = <<>> /\ Run(off[0], off[0]) = <<>>
      BY <1>1, <2>1 DEF Run
    <2> QED BY <1>1, <2>2 DEF FlattenSeq
  <1>2. CASE Len(s) # 0
    <2> DEFINE n == Len(s)
               flatten[i \in 1..Len(s)] == IF i = 1 THEN s[i] ELSE flatten[i-1] \o s[i]
               g == [i \in 1..Len(s) |-> Run(off[0], off[i])]
               Def(f) == f = [i \in 1..Len(s) |-> IF i = 1 THEN s[i] ELSE f[i-1] \o s[i]]
    <2>1. FlattenSeq(s) = flatten[Len(s)]
      BY <1>2, Zenon DEF FlattenSeq
    <2>2. flatten = CHOOSE f : Def(f)
      OBVIOUS
    <2> HIDE DEF flatten
    <2>3. Def(g)
      <3>1. ASSUME NEW i \in 1..Len(s), i # 1
            PROVE  Run(off[0], off[i]) = Run(off[0], off[i - 1]) \o s[i]
        <4>1. /\ 0 \in 0..Len(s) /\ i - 1 \in 0..Len(s) /\ i \in 0..Len(s) /\ 0 <= i - 1 /\ i - 1 <= i
          BY <1>0
        <4>2. /\ off[0] \in Nat /\ off[i - 1] \in Nat /\ off[i] \in Nat
              /\ off[0] <= off[i - 1] /\ off[i - 1] <= off[i]
          <5>1. DOMAIN off = 0..Len(s)
            OBVIOUS
          <5>2. off[0] \in Marks /\ off[i - 1] \in Marks /\ off[i] \in Marks
            BY <4>1
          <5>3. off[0] <= off[i - 1] /\ off[i - 1] <= off[i]
            BY <4>1, <5>1, Zenon DEF Rises
          <5> QED BY <5>2, <5>3, MaxLinesAssumption DEF Marks
        <4>3. s[i] = Run(off[i - 1], off[i])
          OBVIOUS
        <4>4. Run(off[0], off[i - 1]) \o Run(off[i - 1], off[i]) = Run(off[0], off[i])
          BY <4>2, RunConcat, Zenon
        <4> QED BY <4>3, <4>4, Zenon
      <3>2. \A i \in 1..Len(s) : i # 1 => i - 1 \in 1..Len(s)
        BY <1>0
      <3>3. 1 \in 1..Len(s) /\ 1 - 1 = 0
        BY <1>0, <1>2
      <3>4. \A i \in 1..Len(s) : g[i] = IF i = 1 THEN s[i] ELSE g[i-1] \o s[i]
        BY <3>1, <3>2, <3>3
      <3> QED BY <3>4, Zenon
    <2>4. Def(flatten)
      <3> HIDE DEF Def
      <3> QED BY <2>2, <2>3, Zenon
    <2>5. \A i \in 1..Len(s) : flatten[i] = IF i = 1 THEN s[i] ELSE flatten[i-1] \o s[i]
      BY <2>4, Zenon
    <2>6. \A i \in 1..Len(s) : g[i] = IF i = 1 THEN s[i] ELSE g[i-1] \o s[i]
      BY <2>3, Zenon
    <2>7. \A i \in 1..Len(s) : flatten[i] = g[i]
      <3> DEFINE T == {i \in 1..Len(s) : flatten[i] # g[i]}
      <3> SUFFICES ASSUME T # {} PROVE FALSE
        OBVIOUS
      <3>1. T \subseteq Nat
        OBVIOUS
      <3>2. PICK i \in T : \A j \in T : ~(j < i)
        <4>1. \E i \in T : \A j \in T : <<j, i>> \notin OpToRel(<, Nat)
          BY <3>1, NatLessThanWellFounded, WFMin, Zenon
        <4> QED BY <3>1, <4>1 DEF OpToRel
      <3>3. i # 1
        BY <2>5, <2>6
      <3>4. i - 1 \in 1..Len(s) /\ i - 1 \notin T
        <4>1. i \in 1..Len(s) /\ i - 1 \in 1..Len(s) /\ i - 1 < i
          BY <1>0, <3>3
        <4> HIDE DEF T
        <4> QED BY <3>2, <4>1, Zenon
      <3>5. flatten[i-1] = g[i-1]
        BY <3>4
      <3> HIDE DEF g
      <3> QED BY <2>5, <2>6, <3>3, <3>5
    <2> QED BY <1>0, <1>2, <2>1, <2>7
  <1> QED BY <1>1, <1>2
(* Behind the first w of them, the buffers of v hold the lines a + 1 to b. *)
Holds(v, w, a, b) ==
  \E off \in [w..Len(v) -> Marks] :
    /\ off[w] = a /\ off[Len(v)] = b /\ Rises(off)
    /\ \A k \in (w + 1)..Len(v) : v[k] = Run(off[k - 1], off[k])

(* Where the logging thread is in what it has taken. *)
WrittenInv ==
  /\ written \in 0..Len(temp_buffer_vec)
  /\ pc \in {"while", "lock", "wait", "trim", "done"} => written = 0
  /\ pc = "recycle" => written = Len(temp_buffer_vec)

(* File, taken buffers, queue and current buffer follow on from one another: they meet *)
(* behind the lines a, b and c.                                                        *)
Ordered(a, b, c) ==
  /\ a <= b /\ b <= c /\ c <= lines
  /\ file = Run(0, a) /\ cur_buffer_ = Run(c, lines)
  /\ Holds(temp_buffer_vec, written, a, b) /\ Holds(buffer_to_write_, 0, b, c)

OrderInv == ~Undefined => \E a, b, c \in Marks : Ordered(a, b, c)

-----------------------------------------------------------------------------
(* Holds: for no buffer, one buffer, concatenation, one buffer less, and the rest *)

LEMMA HoldsNothing ==
  ASSUME NEW a \in Marks
  PROVE  Holds(<<>>, 0, a, a)
  <1> DEFINE off == [k \in 0..0 |-> a]
  <1>1. /\ off \in [0..Len(<<>>) -> Marks] /\ off[0] = a /\ Len(<<>>) = 0
    OBVIOUS
  <1>2. Rises(off)
    BY MaxLinesAssumption DEF Rises, Marks
  <1>3. \A k \in (0 + 1)..Len(<<>>) : <<>>[k] = Run(off[k - 1], off[k])
    OBVIOUS
  <1> HIDE DEF off
  <1> QED BY <1>1, <1>2, <1>3 DEF Holds

LEMMA HoldsOne ==
  ASSUME NEW a \in Marks, NEW b \in Marks, a <= b
  PROVE  Holds(<<Run(a, b)>>, 0, a, b)
  <1> DEFINE off == [k \in 0..1 |-> IF k = 0 THEN a ELSE b]
             v == <<Run(a, b)>>
  <1>1. /\ off \in [0..Len(v) -> Marks] /\ off[0] = a /\ off[1] = b /\ Len(v) = 1
    OBVIOUS
  <1>2. Rises(off)
    BY MaxLinesAssumption DEF Rises, Marks
  <1>3. \A k \in (0 + 1)..Len(v) : v[k] = Run(off[k - 1], off[k])
    OBVIOUS
  <1> HIDE DEF off
  <1> QED BY <1>1, <1>2, <1>3 DEF Holds

LEMMA HoldsConcat ==
  ASSUME NEW S, NEW u \in Seq(S), NEW v \in Seq(S), NEW a, NEW b, NEW c,
         Holds(u, 0, a, b), Holds(v, 0, b, c)
  PROVE  Holds(u \o v, 0, a, c)
  <1>1. PICK f \in [0..Len(u) -> Marks] :
          /\ f[0] = a /\ f[Len(u)] = b /\ Rises(f)
          /\ \A k \in (0 + 1)..Len(u) : u[k] = Run(f[k - 1], f[k])
    BY DEF Holds
  <1>2. PICK g \in [0..Len(v) -> Marks] :
          /\ g[0] = b /\ g[Len(v)] = c /\ Rises(g)
          /\ \A k \in (0 + 1)..Len(v) : v[k] = Run(g[k - 1], g[k])
    BY DEF Holds
  <1> DEFINE m == Len(u)  n == Len(v)  s == u \o v
             off == [k \in 0..(m + n) |-> IF k <= m THEN f[k] ELSE g[k - m]]
  <1>3. m \in Nat /\ n \in Nat /\ Len(s) = m + n
    OBVIOUS
  <1>4. /\ \A k \in 1..m : s[k] = u[k]
        /\ \A k \in (m + 1)..(m + n) : s[k] = v[k - m] /\ k - m \in 1..n
    OBVIOUS
  <1> HIDE DEF m, n, s
  <1>5. /\ \A k \in 0..m : k \in 0..(m + n) /\ off[k] = f[k]
        /\ \A k \in m..(m + n) : k \in 0..(m + n) /\ k - m \in 0..n /\ off[k] = g[k - m]
    <2>1. f[m] = g[0]
      BY <1>1, <1>2 DEF m
    <2> QED BY <1>3, <2>1
  <1>6. off \in [0..(m + n) -> Marks]
    <2>1. \A k \in 0..(m + n) : k \in 0..m \/ k \in m..(m + n)
      BY <1>3
    <2>2. f \in [0..m -> Marks] /\ g \in [0..n -> Marks]
      BY DEF m, n
    <2>3. \A k \in 0..(m + n) : off[k] \in Marks
      <3> HIDE DEF off
      <3> QED BY <1>5, <2>1, <2>2
    <2> QED BY <2>3
  <1>7. off[0] = a /\ off[m + n] = c
    <2>1. 0 \in 0..m /\ m + n \in m..(m + n) /\ (m + n) - m = n
      BY <1>3
    <2> HIDE DEF off
    <2>2. off[0] = f[0] /\ off[m + n] = g[(m + n) - m]
      BY <1>5, <2>1, Zenon
    <2> QED BY <1>1, <1>2, <2>1, <2>2 DEF n
  <1>8. Rises(off)
    <2> SUFFICES ASSUME NEW j \in 0..(m + n), NEW k \in 0..(m + n), j <= k
                 PROVE  off[j] <= off[k]
      BY DEF Rises
    <2>1. DOMAIN f = 0..m /\ DOMAIN g = 0..n
      BY DEF m, n
    <2> HIDE DEF off
    <2>2. CASE j \in 0..m /\ k \in 0..m
      BY <1>1, <1>5, <2>1, <2>2 DEF Rises
    <2>3. CASE j \in m..(m + n) /\ k \in m..(m + n)
      <3>1. j - m \in 0..n /\ k - m \in 0..n /\ j - m <= k - m
        BY <1>3, <2>3
      <3>2. g[j - m] <= g[k - m]
        BY <1>2, <2>1, <3>1, Zenon DEF Rises
      <3> QED BY <1>5, <2>3, <3>2
    <2>4. CASE j \in 0..m /\ k \in m..(m + n)
      <3>1. m \in 0..m /\ m \in m..(m + n) /\ j <= m /\ m - m = 0 /\ 0 \in 0..n /\ k - m \in 0..n /\ 0 <= k - m
        BY <1>3, <2>4
      <3>2. f[j] <= f[m] /\ g[0] <= g[k - m]
        <4>1. f[j] <= f[m]
          BY <1>1, <2>1, <2>4, <3>1, Zenon DEF Rises
        <4>2. g[0] <= g[k - m]
          BY <1>2, <2>1, <3>1, Zenon DEF Rises
        <4> QED BY <4>1, <4>2
      <3>3. off[j] = f[j] /\ off[k] = g[k - m] /\ f[m] = g[0]
        BY <1>1, <1>2, <1>5, <2>4 DEF m
      <3>4. f[j] \in Nat /\ f[m] \in Nat /\ g[k - m] \in Nat
        <4>1. f \in [0..m -> Marks] /\ g \in [0..n -> Marks]
          BY DEF m, n
        <4>2. f[j] \in Marks /\ f[m] \in Marks /\ g[k - m] \in Marks
          BY <2>4, <3>1, <4>1
        <4> QED BY <4>2, MaxLinesAssumption DEF Marks
      <3> QED BY <3>2, <3>3, <3>4
    <2> QED BY <1>3, <2>2, <2>3, <2>4
  <1>9. ASSUME NEW k \in 1..(m + n)
        PROVE  s[k] = Run(off[k - 1], off[k])
    <2> HIDE DEF off
    <2>1. CASE k <= m
      <3>1. k \in 1..m /\ k \in 0..m /\ k - 1 \in 0..m /\ 0 + 1 = 1
        BY <1>3, <2>1
      <3> QED BY <1>1, <1>4, <1>5, <3>1 DEF m
    <2>2. CASE ~(k <= m)
      <3>1. /\ k \in (m + 1)..(m + n) /\ k \in m..(m + n) /\ k - 1 \in m..(m + n) /\ 0 + 1 = 1
            /\ (k - 1) - m = (k - m) - 1 /\ k - m \in 1..n
        BY <1>3, <2>2
      <3>2. s[k] = v[k - m] /\ off[k - 1] = g[(k - m) - 1] /\ off[k] = g[k - m]
        BY <1>4, <1>5, <3>1
      <3>3. v[k - m] = Run(g[(k - m) - 1], g[k - m])
        BY <1>2, <3>1 DEF n
      <3> QED BY <3>2, <3>3
    <2> QED BY <2>1, <2>2
  <1> HIDE DEF off
  <1>10. Holds(s, 0, a, c)
    <2>1. 0 + 1 = 1
      OBVIOUS
    <2> QED BY <1>3, <1>6, <1>7, <1>8, <1>9, <2>1 DEF Holds
  <1> QED BY <1>10 DEF s

(* Writing a buffer. *)
LEMMA HoldsNext ==
  ASSUME NEW v, Len(v) \in Nat, NEW w \in Nat, w < Len(v), NEW a, NEW b, Holds(v, w, a, b)
  PROVE  \E m \in Marks : a <= m /\ m <= b /\ v[w + 1] = Run(a, m) /\ Holds(v, w + 1, m, b)
  <1>1. PICK f \in [w..Len(v) -> Marks] :
          /\ f[w] = a /\ f[Len(v)] = b /\ Rises(f)
          /\ \A k \in (w + 1)..Len(v) : v[k] = Run(f[k - 1], f[k])
    BY DEF Holds
  <1> DEFINE g == [k \in (w + 1)..Len(v) |-> f[k]]
  <1>2. /\ w \in w..Len(v) /\ w + 1 \in w..Len(v) /\ Len(v) \in w..Len(v)
        /\ w + 1 \in (w + 1)..Len(v) /\ Len(v) \in (w + 1)..Len(v) /\ (w + 1) - 1 = w
        /\ w <= w + 1 /\ w + 1 <= Len(v)
        /\ \A k \in (w + 1)..Len(v) : k \in w..Len(v)
        /\ \A k \in ((w + 1) + 1)..Len(v) : k - 1 \in (w + 1)..Len(v) /\ k \in (w + 1)..Len(v)
    OBVIOUS
  <1>3. a <= f[w + 1] /\ f[w + 1] <= b /\ f[w + 1] \in Marks
    BY <1>1, <1>2 DEF Rises
  <1>4. v[w + 1] = Run(a, f[w + 1])
    BY <1>1, <1>2
  <1>5. Holds(v, w + 1, f[w + 1], b)
    <2>1. g \in [(w + 1)..Len(v) -> Marks] /\ g[w + 1] = f[w + 1] /\ g[Len(v)] = b
      BY <1>1, <1>2
    <2>2. Rises(g)
      <3>1. \A j, k \in (w + 1)..Len(v) : j <= k => f[j] <= f[k]
        BY <1>1, <1>2 DEF Rises
      <3> QED BY <3>1 DEF Rises
    <2>3. \A k \in ((w + 1) + 1)..Len(v) : v[k] = Run(g[k - 1], g[k])
      BY <1>1, <1>2
    <2> HIDE DEF g
    <2> QED BY <2>1, <2>2, <2>3 DEF Holds
  <1> QED BY <1>3, <1>4, <1>5

LEMMA HoldsRest ==
  ASSUME NEW S, NEW v \in Seq(S), NEW w \in 0..Len(v), NEW a, NEW b, Holds(v, w, a, b)
  PROVE  Holds(SubSeq(v, w + 1, Len(v)), 0, a, b)
  <1>1. PICK f \in [w..Len(v) -> Marks] :
          /\ f[w] = a /\ f[Len(v)] = b /\ Rises(f)
          /\ \A k \in (w + 1)..Len(v) : v[k] = Run(f[k - 1], f[k])
    BY DEF Holds
  <1> DEFINE n == Len(v) - w
             s == SubSeq(v, w + 1, Len(v))
             g == [k \in 0..n |-> f[w + k]]
  <1>2. /\ Len(v) \in Nat /\ w \in Nat /\ n \in Nat /\ w + n = Len(v) /\ w + 0 = w
        /\ 0 \in 0..n /\ n \in 0..n
        /\ \A k \in 0..n : w + k \in w..Len(v)
        /\ \A k \in 1..n : w + k \in (w + 1)..Len(v) /\ (w + k) - 1 = w + (k - 1)
                           /\ k - 1 \in 0..n /\ k \in 0..n
    OBVIOUS
  <1>3. Len(s) = n /\ \A k \in 1..n : s[k] = v[w + k]
    OBVIOUS
  <1> HIDE DEF s, n
  <1>4. g \in [0..n -> Marks] /\ g[0] = a /\ g[n] = b
    BY <1>1, <1>2
  <1>5. Rises(g)
    <2> SUFFICES ASSUME NEW j \in 0..n, NEW k \in 0..n, j <= k
                 PROVE  f[w + j] <= f[w + k]
      BY DEF Rises
    <2>1. w + j <= w + k /\ w + j \in w..Len(v) /\ w + k \in w..Len(v)
      BY <1>2
    <2> QED BY <1>1, <2>1, Zenon DEF Rises
  <1>6. \A k \in 1..n : s[k] = Run(g[k - 1], g[k])
    BY <1>1, <1>2, <1>3
  <1> HIDE DEF g
  <1>7. Holds(s, 0, a, b)
    <2>1. 0 + 1 = 1
      OBVIOUS
    <2> QED BY <1>3, <1>4, <1>5, <1>6, <2>1 DEF Holds
  <1> QED BY <1>7 DEF s

LEMMA HoldsEnd ==
  ASSUME NEW v, NEW a, NEW b, Holds(v, Len(v), a, b)
  PROVE  a = b
  BY DEF Holds

(* The buffers of v hold the lines a + 1 to b, concatenated in order. *)
LEMMA FlattenHolds ==
  ASSUME NEW v \in Seq(Seq(Line)), NEW a, NEW b, Holds(v, 0, a, b)
  PROVE  FlattenSeq(v) = Run(a, b)
  <1>1. PICK off \in [0..Len(v) -> Marks] :
          /\ off[0] = a /\ off[Len(v)] = b /\ Rises(off)
          /\ \A k \in (0 + 1)..Len(v) : v[k] = Run(off[k - 1], off[k])
    BY DEF Holds
  <1>2. 0 + 1 = 1
    OBVIOUS
  <1>3. FlattenSeq(v) = Run(off[0], off[Len(v)])
    BY <1>1, <1>2, FlattenRuns
  <1> QED BY <1>1, <1>3

LEMMA MarksAreNat == \A a \in Marks : a \in Nat
  BY MaxLinesAssumption DEF Marks

-----------------------------------------------------------------------------
(* Append: the current buffer grows, or joins the queue and a new one begins. *)
LEMMA AppendLineOrder ==
  ASSUME LogInv, WrittenInv, OrderInv, AppendLine
  PROVE  WrittenInv' /\ OrderInv'
  <1>1. /\ ~Undefined /\ UNCHANGED <<pc, written, file, temp_buffer_vec>>
        /\ lines \in Nat /\ lines < MaxLines /\ lines' = lines + 1
        /\ lines \in Marks /\ lines' \in Marks /\ lines <= lines'
    BY MaxLinesAssumption DEF AppendLine, back, LogInv, BufferTypes, Marks
  <1>2. WrittenInv'
    BY <1>1 DEF WrittenInv
  <1>3. PICK a \in Marks, b \in Marks, c \in Marks : Ordered(a, b, c)
    BY <1>1 DEF OrderInv
  <1>4. a \in Nat /\ b \in Nat /\ c \in Nat
    BY MarksAreNat
  <1>5. Holds(temp_buffer_vec, written, a, b)'
    BY <1>1, <1>3 DEF Ordered, Holds
  <1>6. CASE Fits
    <2>1. cur_buffer_' = Append(cur_buffer_, lines + 1) /\ UNCHANGED buffer_to_write_
      BY <1>1, <1>6 DEF AppendLine
    <2>2. cur_buffer_' = Run(c, lines')
      BY <1>1, <1>3, <1>4, <2>1, RunGrows DEF Ordered
    <2>3. Holds(buffer_to_write_, 0, b, c)'
      BY <1>3, <2>1 DEF Ordered, Holds
    <2>4. c <= lines'
      BY <1>1, <1>3, <1>4 DEF Ordered
    <2>5. Ordered(a, b, c)'
      BY <1>1, <1>3, <1>5, <2>2, <2>3, <2>4 DEF Ordered
    <2> QED BY <1>2, <2>5 DEF OrderInv
  <1>7. CASE ~Fits
    <2>1. /\ buffer_to_write_' = Append(buffer_to_write_, cur_buffer_)
          /\ cur_buffer_' = Append(<<>>, lines + 1)
      BY <1>1, <1>7 DEF AppendLine, LogInv, BufferTypes
    <2>2. cur_buffer_' = Run(lines, lines')
      <3>1. Run(lines, lines) = <<>> /\ lines <= lines
        BY <1>1, RunOfNone
      <3> QED BY <1>1, <2>1, <3>1, RunGrows
    <2>3. Holds(buffer_to_write_', 0, b, lines)
      <3> DEFINE S == Seq(Line)
      <3>1. buffer_to_write_ \in Seq(S) /\ cur_buffer_ \in S
        BY DEF LogInv, BufferTypes
      <3> HIDE DEF S
      <3>2. Append(buffer_to_write_, cur_buffer_) = buffer_to_write_ \o <<cur_buffer_>>
            /\ <<cur_buffer_>> \in Seq(S)
        BY <3>1
      <3>3. Holds(<<cur_buffer_>>, 0, c, lines)
        BY <1>1, <1>3, HoldsOne DEF Ordered
      <3>4. Holds(buffer_to_write_, 0, b, c)
        BY <1>3 DEF Ordered
      <3> QED BY <2>1, <3>1, <3>2, <3>3, <3>4, HoldsConcat
    <2>4. b <= lines
      BY <1>1, <1>3, <1>4 DEF Ordered
    <2>5. PICK d \in Marks : d = lines
      BY <1>1
    <2>6. Ordered(a, b, d)'
      BY <1>1, <1>3, <1>5, <2>2, <2>3, <2>4, <2>5 DEF Ordered
    <2> QED BY <1>2, <2>6 DEF OrderInv
  <1> QED BY <1>6, <1>7

(* The queue and the current buffer become what is taken; nothing taken was left. *)
LEMMA TakeAllOrder ==
  ASSUME LogInv, WrittenInv, OrderInv, pc \in {"lock", "wait"}, TakeAll
  PROVE  WrittenInv' /\ OrderInv'
  <1>1. /\ temp_buffer_vec' = Append(buffer_to_write_, cur_buffer_)
        /\ buffer_to_write_' = <<>> /\ cur_buffer_' = <<>>
        /\ written = 0 /\ written' = 0 /\ pc' = "trim"
        /\ temp_buffer_vec = <<>> /\ UNCHANGED <<file, lines>>
        /\ lines \in Marks
    BY DEF TakeAll, LogInv, BuffersInv, BufferTypes, WrittenInv, Marks
  <1>2. PICK a \in Marks, b \in Marks, c \in Marks : Ordered(a, b, c)
    BY DEF OrderInv, Undefined
  <1>3. PICK d \in Marks : d = lines
    BY <1>1
  <1>4. a \in Nat /\ b \in Nat /\ c \in Nat /\ d \in Nat
    BY MarksAreNat
  <1>5. a = b
    <2>1. Len(temp_buffer_vec) = written
      BY <1>1
    <2> QED BY <1>2, <2>1, HoldsEnd DEF Ordered
  <1>6. Holds(temp_buffer_vec', 0, a, d) /\ Len(temp_buffer_vec') \in Nat
    <2> DEFINE S == Seq(Line)
    <2>1. buffer_to_write_ \in Seq(S) /\ cur_buffer_ \in S
      BY DEF LogInv, BufferTypes
    <2> HIDE DEF S
    <2>2. Append(buffer_to_write_, cur_buffer_) = buffer_to_write_ \o <<cur_buffer_>>
          /\ <<cur_buffer_>> \in Seq(S) /\ Len(Append(buffer_to_write_, cur_buffer_)) \in Nat
      BY <2>1
    <2>3. Holds(<<cur_buffer_>>, 0, c, d)
      BY <1>2, <1>3, HoldsOne DEF Ordered
    <2>4. Holds(buffer_to_write_, 0, a, c)
      BY <1>2, <1>5 DEF Ordered
    <2> QED BY <1>1, <2>1, <2>2, <2>3, <2>4, HoldsConcat
  <1>7. Holds(buffer_to_write_', 0, d, d) /\ cur_buffer_' = Run(d, d)
    BY <1>1, <1>4, HoldsNothing, RunOfNone
  <1>8. a <= d /\ d <= d
    BY <1>2, <1>3, <1>4 DEF Ordered
  <1>9. Ordered(a, d, d)'
    BY <1>1, <1>2, <1>3, <1>6, <1>7, <1>8 DEF Ordered
  <1>10. WrittenInv'
    BY <1>1, <1>6 DEF WrittenInv
  <1> QED BY <1>9, <1>10 DEF OrderInv

(* A buffer moves from what was taken to the file. *)
LEMMA WriteBufferOrder ==
  ASSUME LogInv, WrittenInv, OrderInv, WriteBuffer
  PROVE  WrittenInv' /\ OrderInv'
  <1>1. /\ file' = file \o temp_buffer_vec[written + 1] /\ written' = written + 1
        /\ UNCHANGED <<pc, lines, cur_buffer_, buffer_to_write_, temp_buffer_vec>>
        /\ pc = "write" /\ written < Len(temp_buffer_vec)
    BY DEF WriteBuffer, front
  <1>2. Len(temp_buffer_vec) \in Nat /\ written \in Nat
    <2>1. Len(temp_buffer_vec) \in Nat
      BY DEF LogInv, BufferTypes
    <2> QED BY <2>1 DEF WrittenInv
  <1>3. WrittenInv'
    BY <1>1, <1>2 DEF WrittenInv
  <1>4. PICK a \in Marks, b \in Marks, c \in Marks : Ordered(a, b, c)
    BY <1>1 DEF OrderInv, Undefined
  <1>5. PICK m \in Marks : /\ a <= m /\ m <= b /\ temp_buffer_vec[written + 1] = Run(a, m)
                           /\ Holds(temp_buffer_vec, written + 1, m, b)
    BY <1>1, <1>2, <1>4, HoldsNext DEF Ordered
  <1>6. file' = Run(0, m)
    <2>1. 0 \in Nat /\ a \in Nat /\ m \in Nat /\ 0 <= a
      BY MarksAreNat
    <2>2. Run(0, a) \o Run(a, m) = Run(0, m)
      BY <1>5, <2>1, RunConcat, Zenon
    <2>3. file = Run(0, a)
      BY <1>4 DEF Ordered
    <2> QED BY <1>1, <1>5, <2>2, <2>3, Zenon
  <1>7. Ordered(m, b, c)'
    BY <1>1, <1>4, <1>5, <1>6 DEF Ordered
  <1> QED BY <1>3, <1>7 DEF OrderInv

(* Everything taken has been written when it is recycled. *)
LEMMA RecycleOrder ==
  ASSUME LogInv, WrittenInv, OrderInv, Recycle
  PROVE  WrittenInv' /\ OrderInv'
  <1>1. /\ temp_buffer_vec' = <<>> /\ written' = 0 /\ pc = "recycle" /\ pc' \in {"while", "ubNull"}
        /\ UNCHANGED <<file, lines, cur_buffer_, buffer_to_write_>>
    BY DEF Recycle, front
  <1>2. WrittenInv'
    BY <1>1 DEF WrittenInv
  <1>3. PICK a \in Marks, b \in Marks, c \in Marks : Ordered(a, b, c)
    BY <1>1 DEF OrderInv, Undefined
  <1>4. a = b
    BY <1>1, <1>3, HoldsEnd DEF Ordered, WrittenInv
  <1>5. Holds(temp_buffer_vec', written', a, b)
    BY <1>1, <1>4, HoldsNothing
  <1>6. Ordered(a, b, c)'
    BY <1>1, <1>3, <1>5 DEF Ordered
  <1> QED BY <1>2, <1>6 DEF OrderInv

LEMMA OrderStep == LogInv /\ WrittenInv /\ OrderInv /\ [LogNext]_allvars => WrittenInv' /\ OrderInv'
  <1> SUFFICES ASSUME LogInv, WrittenInv, OrderInv, [LogNext]_allvars
               PROVE  WrittenInv' /\ OrderInv'
    OBVIOUS
  <1>1. CASE UNCHANGED vars \/ Stop \/ TestRunning \/ LockAndWait \/ Trim \/ WriteDone
    <2>1. /\ UNCHANGED <<file, lines, cur_buffer_, buffer_to_write_, temp_buffer_vec, written>>
          /\ pc' # pc => \/ pc' \in {"lock", "done", "wait"} /\ pc \in {"while", "lock"}
                         \/ pc' \in {"write", "ubErase"} /\ pc = "trim"
                         \/ pc' = "recycle" /\ written = Len(temp_buffer_vec) /\ pc = "write"
      BY <1>1 DEF vars, front, back, Stop, TestRunning, LockAndWait, Trim, WriteDone
    <2>2. WrittenInv'
      BY <2>1 DEF WrittenInv
    <2>3. Undefined => Undefined'
      BY <2>1 DEF Undefined
    <2>4. \A a, b, c \in Marks : Ordered(a, b, c) => Ordered(a, b, c)'
      <3> SUFFICES ASSUME NEW a \in Marks, NEW b \in Marks, NEW c \in Marks, Ordered(a, b, c)
                   PROVE  Ordered(a, b, c)'
        OBVIOUS
      <3>1. Holds(temp_buffer_vec, written, a, b)'
        BY <2>1, Zenon DEF Ordered, Holds
      <3>2. Holds(buffer_to_write_, 0, b, c)'
        BY <2>1, Zenon DEF Ordered, Holds
      <3> QED BY <2>1, <3>1, <3>2 DEF Ordered
    <2>5. OrderInv'
      BY <2>3, <2>4 DEF OrderInv
    <2> QED BY <2>2, <2>5
  <1>2. CASE AppendLine
    BY <1>2, AppendLineOrder
  <1>3. CASE LockAndTake \/ WakeAndTake
    BY <1>3, TakeAllOrder DEF LockAndTake, WakeAndTake
  <1>4. CASE WriteBuffer
    BY <1>4, WriteBufferOrder
  <1>5. CASE Recycle
    BY <1>5, RecycleOrder
  <1>6. UNCHANGED vars \/ AppendLine \/ Stop \/ LoggingThread
    BY DEF LogNext, allvars, Log, Output, Flush, Abort, SetLogLevel, SetOutputFunc, StopLogging,
           Backend
  <1> QED BY <1>1, <1>2, <1>3, <1>4, <1>5, <1>6 DEF LoggingThread

(* No line is lost, doubled or overtaken between Append and the file, for any number of *)
(* threads, lines, buffers and buffer sizes, as long as behaviour is defined.           *)
THEOREM LinesStayInOrder == LogSpec => []LinesInOrder
  <1>1. LogInit => WrittenInv /\ OrderInv
    <2> SUFFICES ASSUME LogInit PROVE WrittenInv /\ OrderInv
      OBVIOUS
    <2>1. /\ written = 0 /\ temp_buffer_vec = <<>> /\ file = <<>> /\ cur_buffer_ = <<>>
          /\ buffer_to_write_ = <<>> /\ lines = 0
      BY DEF LogInit, Init
    <2>2. 0 \in Marks /\ Run(0, 0) = <<>> /\ Holds(<<>>, 0, 0, 0)
      <3>1. 0 \in Marks
        BY MaxLinesAssumption DEF Marks
      <3> QED BY <3>1, HoldsNothing, RunOfNone
    <2>3. Ordered(0, 0, 0)
      BY <2>1, <2>2 DEF Ordered
    <2>4. WrittenInv
      BY <2>1 DEF WrittenInv
    <2> QED BY <2>2, <2>3, <2>4 DEF OrderInv
  <1>2. LogInv /\ WrittenInv /\ OrderInv => LinesInOrder
    <2> SUFFICES ASSUME LogInv, WrittenInv, OrderInv, ~Undefined
                 PROVE  file \o InMemory = [i \in 1..lines |-> i]
      BY DEF LinesInOrder
    <2>1. PICK a \in Marks, b \in Marks, c \in Marks : Ordered(a, b, c)
      BY DEF OrderInv
    <2> DEFINE rest == SubSeq(temp_buffer_vec, written + 1, Len(temp_buffer_vec))
    <2>2. Holds(rest \o buffer_to_write_, 0, a, c) /\ rest \o buffer_to_write_ \in Seq(Seq(Line))
      <3> DEFINE S == Seq(Line)
      <3>1. /\ temp_buffer_vec \in Seq(S) /\ buffer_to_write_ \in Seq(S)
            /\ written \in 0..Len(temp_buffer_vec)
        BY DEF LogInv, BufferTypes, WrittenInv
      <3> HIDE DEF S
      <3>2. Holds(rest, 0, a, b)
        BY <2>1, <3>1, HoldsRest DEF Ordered
      <3>3. rest \in Seq(S)
        <4>1. Len(temp_buffer_vec) \in Nat /\ written + 1 \in 1..(Len(temp_buffer_vec) + 1)
          BY <3>1
        <4> QED BY <3>1, <4>1
      <3> HIDE DEF rest
      <3>4. Holds(rest \o buffer_to_write_, 0, a, c)
        BY <2>1, <3>1, <3>2, <3>3, HoldsConcat DEF Ordered
      <3>5. rest \o buffer_to_write_ \in Seq(S)
        BY <3>1, <3>3
      <3> QED BY <3>4, <3>5 DEF S
    <2>3. FlattenSeq(rest \o buffer_to_write_) = Run(a, c)
      BY <2>2, FlattenHolds
    <2>4. InMemory = Run(a, c) \o Run(c, lines) /\ file = Run(0, a)
      BY <2>1, <2>3 DEF InMemory, Ordered
    <2>5. /\ 0 \in Nat /\ a \in Nat /\ b \in Nat /\ c \in Nat /\ lines \in Nat
          /\ 0 <= a /\ a <= c /\ c <= lines /\ a <= lines
      <3>1. 0 \in Nat /\ a \in Nat /\ b \in Nat /\ c \in Nat /\ lines \in Nat
        BY MarksAreNat, MaxLinesAssumption DEF LogInv, BufferTypes
      <3> QED BY <2>1, <3>1 DEF Ordered
    <2>6. Run(a, c) \o Run(c, lines) = Run(a, lines)
      BY <2>5, RunConcat
    <2>7. Run(0, a) \o Run(a, lines) = Run(0, lines)
      BY <2>5, RunConcat
    <2>8. Run(0, lines) = [i \in 1..lines |-> i]
      <3>1. lines - 0 = lines /\ \A i \in 1..lines : 0 + i = i
        BY <2>5
      <3> QED BY <3>1 DEF Run
    <2> QED BY <2>4, <2>6, <2>7, <2>8
  <1> QED BY <1>1, <1>2, LogInitInv, LogStep, OrderStep, PTL DEF LogSpec
=============================================================================
