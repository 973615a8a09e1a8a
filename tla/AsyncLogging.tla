---------------------------- MODULE AsyncLogging -----------------------------
(***************************************************************************)
(* AsyncLogging (src/src/async_logging.cc): business threads append log     *)
(* lines to cur_buffer_ under mutex_, full buffers queue in                *)
(* buffer_to_write_, and one logging thread takes them all, writes them to *)
(* the file without the lock and recycles two of them.  Who calls Append   *)
(* and Stop is in Logger.tla, with the specification.                      *)
(*                                                                         *)
(* Lines are numbered in the order in which Append takes the lock, so it   *)
(* does not matter which thread calls it.  A buffer is the sequence of its *)
(* lines, and Null a moved-from unique_ptr.  pc is the logging thread's:   *)
(*   "while"    at while (running_)      "trim"     at line 87             *)
(*   "lock"     at the lock, line 67     "write"    in the for loop        *)
(*   "wait"     in wait_for              "recycle"  at line 97             *)
(*   "done"     ThreadFunc has returned                                    *)
(*   "ubErase", "ubNull"  behaviour is undefined from here on: line 90     *)
(*              erased across two vectors, line 103 or 108 used a null     *)
(***************************************************************************)
EXTENDS Naturals, Sequences, SequencesExt

CONSTANTS
  Capacity,      \* lines that fit a buffer
  MaxBuffers,    \* the 25 of line 87
  MaxLines,      \* bound: lines appended in a behaviour
  Null

ASSUME CapacityAssumption == Capacity \in Nat \ {0}
ASSUME MaxBuffersAssumption == MaxBuffers \in Nat \ {0, 1}
ASSUME MaxLinesAssumption == MaxLines \in Nat

VARIABLES
  running_, cur_buffer_, next_buffer_, buffer_to_write_,   \* shared
  pc, new_buffer1, new_buffer2, temp_buffer_vec,           \* the logging thread's
  written,        \* buffers of temp_buffer_vec the for loop has written
  file,           \* lines handed to the log file
  lines,          \* history: lines appended so far
  resized         \* history: line 98 has run

front == <<cur_buffer_, next_buffer_, buffer_to_write_, lines>>
back  == <<new_buffer1, new_buffer2, temp_buffer_vec, written, file, resized>>
vars  == <<running_, front, pc, back>>

Line == 1..MaxLines
BufferOrNull == Seq(Line) \cup {Null}

ASSUME NullAssumption == Null \notin Seq(Line)

TypeOK ==
  /\ running_ \in BOOLEAN
  /\ cur_buffer_ \in Seq(Line) /\ Len(cur_buffer_) <= Capacity
  /\ next_buffer_ \in BufferOrNull
  /\ buffer_to_write_ \in Seq(Seq(Line))
  /\ pc \in {"while", "lock", "wait", "trim", "write", "recycle", "done",
            "ubErase", "ubNull"}
  /\ new_buffer1 \in BufferOrNull /\ new_buffer2 \in BufferOrNull
  /\ temp_buffer_vec \in Seq(Seq(Line))
  /\ written \in 0..Len(temp_buffer_vec)
  /\ file \in Seq(Line)
  /\ lines \in 0..MaxLines
  /\ resized \in BOOLEAN

(* Start() has set running_ and started the thread. *)
Init ==
  /\ running_ = TRUE
  /\ cur_buffer_ = <<>> /\ next_buffer_ = <<>> /\ buffer_to_write_ = <<>>
  /\ pc = "while"
  /\ new_buffer1 = <<>> /\ new_buffer2 = <<>> /\ temp_buffer_vec = <<>>
  /\ written = 0 /\ file = <<>> /\ lines = 0 /\ resized = FALSE

Undefined == pc \in {"ubErase", "ubNull"}

-----------------------------------------------------------------------------
(* Business threads *)

Fits == Len(cur_buffer_) < Capacity

AppendLine ==
  /\ lines < MaxLines /\ ~Undefined
  /\ lines' = lines + 1
  /\ IF Fits
     THEN /\ cur_buffer_' = Append(cur_buffer_, lines')
          /\ UNCHANGED <<next_buffer_, buffer_to_write_>>
     ELSE /\ buffer_to_write_' = Append(buffer_to_write_, cur_buffer_)
          /\ cur_buffer_' = Append(IF next_buffer_ # Null THEN next_buffer_ ELSE <<>>, lines')
          /\ next_buffer_' = Null
  /\ UNCHANGED <<running_, pc, back>>

(* Stop(), up to the join. *)
Stop ==
  /\ running_ /\ ~Undefined
  /\ running_' = FALSE
  /\ UNCHANGED <<front, pc, back>>

-----------------------------------------------------------------------------
(* The logging thread *)

TestRunning ==
  /\ pc = "while"
  /\ pc' = IF running_ THEN "lock" ELSE "done"
  /\ UNCHANGED <<running_, front, back>>

(* The rest of the critical section: queue the current buffer too, install the *)
(* spare ones, take the queue.                                                 *)
TakeAll_SpareAlways ==
  /\ temp_buffer_vec' = Append(buffer_to_write_, cur_buffer_)
  /\ buffer_to_write_' = temp_buffer_vec
  /\ cur_buffer_' = new_buffer1
  /\ new_buffer1' = Null
  /\ next_buffer_' = new_buffer2 /\ new_buffer2' = Null
  /\ pc' = "trim"
  /\ UNCHANGED <<running_, written, file, lines, resized>>

TakeAll ==
  /\ temp_buffer_vec' = Append(buffer_to_write_, cur_buffer_)
  /\ buffer_to_write_' = temp_buffer_vec
  /\ cur_buffer_' = new_buffer1
  /\ new_buffer1' = Null
  /\ IF next_buffer_ = Null
     THEN next_buffer_' = new_buffer2 /\ new_buffer2' = Null
     ELSE UNCHANGED <<next_buffer_, new_buffer2>>
  /\ pc' = "trim"
  /\ UNCHANGED <<running_, written, file, lines, resized>>

LockAndTake ==
  /\ pc = "lock" /\ buffer_to_write_ # <<>>
  /\ TakeAll

LockAndWait ==
  /\ pc = "lock" /\ buffer_to_write_ = <<>>
  /\ pc' = "wait"
  /\ UNCHANGED <<running_, front, back>>

(* Notified, timed out or woken for no reason. *)
WakeAndTake_OnlyIfQueued ==
  /\ pc = "wait" /\ buffer_to_write_ # <<>>
  /\ TakeAll

WakeAndTake ==
  /\ pc = "wait"
  /\ TakeAll

(* The range given to erase starts in temp_buffer_vec and ends in *)
(* buffer_to_write_: undefined.                                    *)
Trim ==
  /\ pc = "trim"
  /\ pc' = IF Len(temp_buffer_vec) > MaxBuffers THEN "ubErase" ELSE "write"
  /\ UNCHANGED <<running_, front, back>>

WriteBuffer_FirstAgain ==
  /\ pc = "write"
  /\ written < Len(temp_buffer_vec)
  /\ file' = file \o temp_buffer_vec[1]
  /\ written' = written + 1
  /\ UNCHANGED <<running_, front, pc, new_buffer1, new_buffer2, temp_buffer_vec, resized>>

WriteBuffer ==
  /\ pc = "write"
  /\ written < Len(temp_buffer_vec)
  /\ file' = file \o temp_buffer_vec[written + 1]
  /\ written' = written + 1
  /\ UNCHANGED <<running_, front, pc, new_buffer1, new_buffer2, temp_buffer_vec, resized>>

WriteDone ==
  /\ pc = "write"
  /\ written = Len(temp_buffer_vec)
  /\ pc' = "recycle"
  /\ UNCHANGED <<running_, front, back>>

(* resize(2) of what was taken, when the queue (not what was taken) has grown  *)
(* past two; a shorter vector is filled up with null pointers.                 *)
Resize(v) == IF Len(v) >= 2 THEN SubSeq(v, 1, 2) ELSE v \o [i \in 1..(2 - Len(v)) |-> Null]

(* The last n elements of v can be taken and Reset(). *)
CanRecycle(v, n) == n <= Len(v) /\ \A i \in (Len(v) - n + 1)..Len(v) : v[i] # Null

Reset(b) == <<>>

Recycle ==
  LET grown == Len(buffer_to_write_) > 2
      v     == IF grown THEN Resize(temp_buffer_vec) ELSE temp_buffer_vec
      need  == Len(SelectSeq(<<new_buffer1, new_buffer2>>, LAMBDA b : b = Null))
  IN  /\ pc = "recycle"
      /\ resized' = (resized \/ grown)
      /\ IF CanRecycle(v, need)
         THEN /\ pc' = "while"
              /\ new_buffer1' = IF new_buffer1 = Null THEN Reset(v[Len(v)]) ELSE new_buffer1
              /\ new_buffer2' = IF new_buffer2 = Null THEN Reset(v[Len(v) - need + 1])
                                                      ELSE new_buffer2
         ELSE pc' = "ubNull" /\ UNCHANGED <<new_buffer1, new_buffer2>>
      /\ temp_buffer_vec' = <<>>
      /\ written' = 0
      /\ UNCHANGED <<running_, front, file>>

LoggingThread ==
  \/ TestRunning \/ LockAndTake \/ LockAndWait \/ WakeAndTake
  \/ Trim \/ WriteBuffer \/ WriteDone \/ Recycle

-----------------------------------------------------------------------------
(* Properties *)

(* The lines still in memory, oldest first. *)
InMemory ==
  FlattenSeq(SubSeq(temp_buffer_vec, written + 1, Len(temp_buffer_vec)) \o buffer_to_write_)
    \o cur_buffer_

(* Every line appended is in the file or in memory, once, and in the order of the *)
(* Append calls: through the hand-over of the queue, the recycling of buffers and *)
(* appends made while the file is written.                                        *)
LinesInOrder == ~Undefined => file \o InMemory = [i \in 1..lines |-> i]

(* The logging thread's buffers, as long as line 98 has not run.  The asserts at    *)
(* async_logging.cc:63-65 hold at the top of every round, and a round that takes no *)
(* more buffers than the limit and is not overtaken by three more ends without      *)
(* undefined behaviour: whenever two buffers are needed, two were taken.            *)
RecycleIsSafe ==
  /\ pc = "while" /\ ~resized =>
       new_buffer1 = <<>> /\ new_buffer2 = <<>> /\ temp_buffer_vec = <<>>
  /\ pc = "recycle" /\ Len(buffer_to_write_) <= 2 =>
       CanRecycle(temp_buffer_vec, IF new_buffer2 = Null THEN 2 ELSE 1)

(* async_logging.cc:63: new_buffer1 and new_buffer2 are there after every round.    *)
BuffersComeBack == pc # "ubNull"
=============================================================================
