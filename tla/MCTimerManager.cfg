SPECIFICATION Spec
CONSTANTS
  Timers = {tm1, tm2}
  Reps = {0, 1}
  Intervals <- MCIntervals
  ULongMod = 32
  IntMod = 8
  kPollTimeMs = 2
  MaxTime = 6
  NoTimer = none
SYMMETRY Symmetry
INVARIANTS
  PassIsComplete
  PopsWhatItRan
  RepeatsAddUp
  DeadlineExact
