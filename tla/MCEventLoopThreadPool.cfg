SPECIFICATION Spec
CONSTANTS
  num_threads_ = 3
  MaxGets = 5
INVARIANTS
  HandsOutInitializedLoops
  NoUseAfterDestroy
PROPERTIES
  StartReturns
  JoinReturns
CHECK_DEADLOCK FALSE
