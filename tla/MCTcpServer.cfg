SPECIFICATION Spec
CONSTANTS
  MaxThreads = 2
  MaxConns = 2
INVARIANTS
  NoZombieChannel
  DestroyedOnce
  ServerOutlivesCallbacks
PROPERTIES
  ClosedIsFreed
CHECK_DEADLOCK FALSE
