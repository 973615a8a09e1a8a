SPECIFICATION BothSpec
CONSTANTS
  Channels = {ch1, ch2, ch3}
  Fds = {fd1, fd2, fd3}
  NoFd = nofd
  NoChannel = null
  kInitEventSize = 2
  MaxCloses = 2
SYMMETRY Symmetry
INVARIANTS
  IndexMeaning
  KernelMask
  CtlNeverFails
  NoDanglingDispatch
  EventListBounded
  IndexIsPosition
  PollKeepsDisabled
CHECK_DEADLOCK FALSE
