-------------------------------- MODULE Logger --------------------------------
(***************************************************************************)
(* Logger and LogStream (src/src/logger.cc, src/src/log_stream.cc) in front *)
(* of AsyncLogging: threads build a line each in a buffer of their own, the *)
(* destructor hands it to g_output, and a FATAL line flushes and aborts.    *)
(*                                                                         *)
(* A line under construction is the number of bytes in its FixedBuffer.     *)
(* Three of its pieces have a length nobody controls, and Lengths stands    *)
(* for all of them: the thread id, read through a pointer to a string that  *)
(* is gone (logger.cc:75), the user's text, and what operator<<(char)       *)
(* copies behind its one character, which is not terminated                 *)
(* (log_stream.cc:30).  The other pieces are of length one.                 *)
(*                                                                         *)
(* g_output is "stdio" (stdout, or the LogFile of test_log_sync.cc), of     *)
(* which nothing is kept here, until main sets AsyncLogging's Append, as    *)
(* the examples do first of all.  g_flush flushes stdio, or does nothing    *)
(* (test_log_async.cc), and touches nothing of AsyncLogging either way.     *)
(* logger[t].at is                                                          *)
(*   "none"     no Logger object        "flush"    at g_flush()            *)
(*   "build"    between constructor     "abort"    at abort()              *)
(*              and destructor          "aborted"  the process has ended   *)
(***************************************************************************)
EXTENDS AsyncLogging

CONSTANTS
  Threads,
  Lengths,            \* lengths of the pieces nobody controls
  Levels,             \* the levels in use, TRACE = 0 to FATAL = 5
  kSmallBufferSize

ASSUME LengthsAssumption == Lengths \subseteq Nat \ {0}
ASSUME LevelsAssumption == Levels \subseteq 0..5
ASSUME SmallBufferAssumption == kSmallBufferSize \in Nat \ {0}

WARN  == 3
FATAL == 5

VARIABLES
  g_logLevel, g_output,
  logger               \* the Logger object of each thread

funcs   == <<g_logLevel, g_output>>
allvars == <<vars, funcs, logger>>

None == [at |-> "none"]

LogInit ==
  /\ Init
  /\ g_logLevel \in Levels      \* InitLogLevel: a macro of the build
  /\ g_output = "stdio"
  /\ logger = [t \in Threads |-> None]

Aborted == \E t \in Threads : logger[t].at = "aborted"

-----------------------------------------------------------------------------
(* Building a line *)

(* FixedBuffer::append: a piece that does not fit is left out, and one byte of *)
(* the buffer always stays free.                                               *)
Appended_Unchecked(used, n) == used + n
Appended(used, n) == IF kSmallBufferSize - used > n THEN used + n ELSE used

(* LogStream::operator<<: every piece, formatted or not, is one append. *)
Stream(used, n) == Appended(used, n)
used ++ n == Stream(used, n)

(* The constructor: thread id, time and level; then the user's text, to which the *)
(* function name that TRACE and DEBUG put first is counted.                       *)
Begin(tid, text) == 0 ++ tid ++ 1 ++ 1 ++ 1 ++ 1 ++ 1 ++ text

(* Impl::Finish: dash, file name, colon, the number 22, and the end of line. *)
BeforeEnd(used, name, colon) == used ++ 1 ++ name ++ colon ++ 1
Finish(used, name, colon) == BeforeEnd(used, name, colon) ++ 1
Ended(used, name, colon) == Finish(used, name, colon) > BeforeEnd(used, name, colon)

(* The macros: from WARN up the level is not tested. *)
Enabled(level) == level >= WARN \/ g_logLevel <= level

Log(t, level) ==
  /\ ~Aborted
  /\ logger[t] = None /\ Enabled(level)
  /\ \E tid, text \in Lengths :
       logger' = [logger EXCEPT ![t] = [at |-> "build", level |-> level,
                                        used |-> Begin(tid, text)]]
  /\ UNCHANGED <<vars, funcs>>

-----------------------------------------------------------------------------
(* Logger::~Logger *)

Output(t) ==
  /\ ~Aborted
  /\ logger[t].at = "build"
  /\ \/ g_output = "async" /\ AppendLine
     \/ g_output = "stdio" /\ UNCHANGED vars
  /\ logger' = [logger EXCEPT ![t] =
       IF @.level = FATAL THEN [at |-> "flush"] ELSE None]
  /\ UNCHANGED funcs

(* g_flush. *)
Flush(t) ==
  /\ ~Aborted
  /\ logger[t].at = "flush"
  /\ logger' = [logger EXCEPT ![t].at = "abort"]
  /\ UNCHANGED <<vars, funcs>>

Abort(t) ==
  /\ ~Aborted
  /\ logger[t].at = "abort"
  /\ logger' = [logger EXCEPT ![t].at = "aborted"]
  /\ UNCHANGED <<vars, funcs>>

-----------------------------------------------------------------------------
(* The rest of the process *)

SetLogLevel(level) ==
  /\ ~Aborted
  /\ g_logLevel' = level
  /\ UNCHANGED <<vars, g_output, logger>>

SetOutputFunc ==
  /\ g_output = "stdio" /\ \A t \in Threads : logger[t] = None
  /\ g_output' = "async"
  /\ UNCHANGED <<vars, g_logLevel, logger>>

StopLogging ==
  /\ ~Aborted /\ Stop
  /\ UNCHANGED <<funcs, logger>>

Backend ==
  /\ ~Aborted /\ LoggingThread
  /\ UNCHANGED <<funcs, logger>>

LogNext ==
  \/ \E t \in Threads :
       (\E level \in Levels : Log(t, level)) \/ Output(t) \/ Flush(t) \/ Abort(t)
  \/ \E level \in Levels : SetLogLevel(level)
  \/ SetOutputFunc \/ StopLogging \/ Backend

(* The logging thread is scheduled, and wait_for returns after five seconds at *)
(* the latest.                                                                 *)
LogSpec == LogInit /\ [][LogNext]_allvars /\ WF_allvars(Backend)

-----------------------------------------------------------------------------
(* Properties *)

(* A line never outgrows its buffer, whatever is read behind an unterminated     *)
(* character or through the dangling thread id.  What does not fit is left out     *)
(* piece by piece, so that one long piece does not cost the line its end: that is   *)
(* missing only when the buffer is full to its last but one byte.                   *)
LineFits ==
  \A t \in Threads : logger[t].at = "build" =>
    \A name, colon \in Lengths :
      LET used == Finish(logger[t].used, name, colon) IN
      /\ used < kSmallBufferSize
      /\ ~Ended(logger[t].used, name, colon) => used = kSmallBufferSize - 1

(* While the logger runs, every line handed to AsyncLogging reaches the file,     *)
(* however few lines there are.                                                   *)
LinesAreWritten ==
  \A n \in Line : (lines >= n) ~> (Len(file) >= n \/ ~running_ \/ Undefined \/ Aborted)

(* Stop() returns: the logging thread ends, wherever Stop finds it, and although   *)
(* running_ is set without the mutex that its wait releases.                      *)
StopReturns == (~running_) ~> (pc = "done" \/ Undefined \/ Aborted)
=============================================================================
