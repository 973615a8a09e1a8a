SPECIFICATION Spec
CONSTANTS
  Sessions = {s1, s2}
  Hanging = {s1}
  MaxThreads = 2
  BlockSize = 2
  RoomIn = 2
  RoomOut = 1
INVARIANTS
  OneBlockCirculates
PROPERTIES
  HangsItsLoopOnly
  ClientQuits
  TotalsAreFinal
CHECK_DEADLOCK FALSE
