SPECIFICATION Spec
CONSTANTS
  Threads = {th1, th2}
  ShutdownThreads = {th1}
  Messages = {m1, m2}
  BufferMessages = {m1}
  Junk = junk
  MsgLen = 2
INVARIANTS
  WireInOrder
  WritingWhilePending
  FinAfterData
  NotifiedWhenDrained
PROPERTIES
  DownIsFinal
  ShutdownCompletes
