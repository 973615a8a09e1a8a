SPECIFICATION Spec
CONSTANTS
  roll_size_ = 3
  flush_interval_ = 1
  check_every_n_ = 2
  kRollPerSeconds_ = 3
  Lens = {1, 2}
  MaxTime = 7
  MaxBytes = 6
PROPERTIES
  FlushesWhenDue
