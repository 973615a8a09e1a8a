------------------------------- MODULE LogFile --------------------------------
(***************************************************************************)
(* LogFile and AppendFile (src/src/log_file.cc): when the log is split     *)
(* into a new file and when it is flushed.  Append and Flush are atomic:   *)
(* under mutex_ when thread_safe_, else called by one thread only.  Time   *)
(* is in seconds, may move on between the two readings an Append makes,    *)
(* and may be set back between calls (it is the wall clock).               *)
(* A line is its length.                                                   *)
(***************************************************************************)
EXTENDS Integers

CONSTANTS
  roll_size_, flush_interval_, check_every_n_,
  kRollPerSeconds_,   \* the length of a day
  Lens,               \* lengths of lines
  MaxTime,            \* bound: the clock stops here
  MaxBytes            \* bound: bytes of one file

VARIABLES
  clock,
  written_bytes_, unflushed,    \* of the current file; bytes in the stdio buffer
  count_, start_of_period_, last_roll_, last_flush_

file  == <<written_bytes_, unflushed>>
times == <<start_of_period_, last_roll_, last_flush_>>
vars  == <<clock, file, count_, times>>

PeriodOf(now) == (now \div kRollPerSeconds_) * kRollPerSeconds_

(* The constructor opens the first file. *)
Init ==
  /\ clock \in 1..kRollPerSeconds_
  /\ written_bytes_ = 0 /\ unflushed = 0 /\ count_ = 0
  /\ start_of_period_ = PeriodOf(clock) /\ last_roll_ = clock /\ last_flush_ = clock

-----------------------------------------------------------------------------
(* AppendFile::Append: fwrite takes the line, in one call or in several, or a call   *)
(* fails.  What stdio took of the failing call is in the file all the same, and is   *)
(* not counted: the loop is left before written += n.                                *)
Taken(len) ==
  {[counted |-> len, taken |-> len]}
    \cup {a \in [counted : 0..(len - 1), taken : 0..(len - 1)] : a.counted <= a.taken}

(* file_->WrittenBytes() > roll_size_, with written the bytes just counted. *)
TooBig(written) == written_bytes_ + written > roll_size_

CheckDue(n) == n >= check_every_n_

NewPeriod(now) == PeriodOf(now) # start_of_period_

(* The line, or what was taken of it, stays in the current file. *)
Keep(a) == written_bytes_' = written_bytes_ + a.counted
Buffered(a) == unflushed' = unflushed + a.taken

(* RollFile at time now: the old file is closed, which flushes it, and a new one *)
(* is opened; at most one per second, as the second is its name.                 *)
CanRoll(now) == now > last_roll_
Roll(now) ==
  /\ last_roll_' = now /\ last_flush_' = now /\ start_of_period_' = PeriodOf(now)
  /\ written_bytes_' = 0 /\ unflushed' = 0

(* Lines 82-87: the else belongs to if (RollFile()), so that nothing is flushed   *)
(* unless the day changed and RollFile refused.  now1 is read by AppendUnlocked,  *)
(* now2 by RollFile.                                                              *)
FlushDue(now) == now - last_flush_ > flush_interval_

Check(a, now1, now2) ==
  IF NewPeriod(now1) /\ CanRoll(now2) THEN Roll(now2)
  ELSE /\ Keep(a)
       /\ IF NewPeriod(now1) /\ FlushDue(now1)
          THEN unflushed' = 0 /\ last_flush_' = now1
          ELSE Buffered(a) /\ UNCHANGED last_flush_
       /\ UNCHANGED <<start_of_period_, last_roll_>>

AppendUnlocked(len, now) ==
  \E a \in Taken(len) :
    /\ written_bytes_ + a.counted <= MaxBytes
    /\ clock' = now
    /\ \/ /\ TooBig(a.counted)
          /\ IF CanRoll(now) THEN Roll(now)
             ELSE Keep(a) /\ Buffered(a) /\ UNCHANGED times
          /\ UNCHANGED count_
       \/ /\ ~TooBig(a.counted) /\ CheckDue(count_ + 1)
          /\ Check(a, clock, now)
          /\ count_' = 0
       \/ /\ ~TooBig(a.counted) /\ ~CheckDue(count_ + 1)
          /\ Keep(a) /\ Buffered(a)
          /\ count_' = count_ + 1
          /\ UNCHANGED times

Flush ==
  /\ unflushed' = 0
  /\ UNCHANGED <<clock, written_bytes_, count_, times>>

Tick ==
  /\ clock < MaxTime
  /\ clock' = clock + 1
  /\ UNCHANGED <<file, count_, times>>

SetBack(now) ==
  /\ now < clock
  /\ clock' = now
  /\ UNCHANGED <<file, count_, times>>

Next ==
  \/ \E len \in Lens, now \in {clock, clock + 1} : now <= MaxTime /\ AppendUnlocked(len, now)
  \/ Flush \/ Tick
  \/ \E now \in 1..MaxTime : SetBack(now)

Spec == Init /\ [][Next]_vars

-----------------------------------------------------------------------------
(* Properties *)

(* log_file.cc:68: the file is flushed when the time since the last flush has       *)
(* reached flush_interval_.  At least when the time is looked at, after every        *)
(* check_every_n_ lines, no longer interval is left.                                *)
FlushesWhenDue ==
  [][count_ # 0 /\ count_' = 0 => clock <= last_flush_' + flush_interval_]_vars
=============================================================================
