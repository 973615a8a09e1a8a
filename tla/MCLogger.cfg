SPECIFICATION LogSpec
CONSTANTS
  Capacity = 1
  MaxBuffers = 3
  MaxLines = 5
  Null = null
  Threads = {t1, t2}
  Lengths = {1, 3}
  Levels = {2, 5}
  kSmallBufferSize = 14
INVARIANTS
  LinesInOrder
  RecycleIsSafe
  LineFits
PROPERTIES
  LinesAreWritten
  StopReturns
CHECK_DEADLOCK FALSE
