SPECIFICATION LogSpec
CONSTANTS
  Capacity = 1
  MaxBuffers = 4
  MaxLines = 5
  Null = null
  Threads = {t1}
  Lengths = {3}
  Levels = {2}
  kSmallBufferSize = 14
INVARIANTS
  BuffersComeBack
CHECK_DEADLOCK FALSE
