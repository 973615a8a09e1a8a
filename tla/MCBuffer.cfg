SPECIFICATION BufferSpec
CONSTANTS
  kCheapPrepend = 2
  kInitialSize = 3
  ExtraLen = 2
  MaxBytes = 10
INVARIANTS
  HoldsQueue
  SizeBounded
CHECK_DEADLOCK FALSE
