SPECIFICATION Spec
CONSTANTS
  Threads = {th1, th2}
  Tasks = {t1, t2, t3, q1}
  QuietTasks = {q1}
  Channels = {c1}
  WakeChannel = wake
  EventfdMax = 2
INVARIANTS
  NoLostWakeup
PROPERTIES
  ServesFunctorsInOrder
  QueuedIsRun
  QuitStopsLoop
