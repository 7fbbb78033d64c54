CONSTANTS
  w1 = w1
  w2 = w2
  a = a
  b = b
  k1 = k1
  k2 = k2
  k3 = k3
  k4 = k4
  Workers = {w1, w2}
  Clients = {a, b}
  Tasks = {k1, k2, k3, k4}
  Submitter <- MCSubmitter
  MaxStops = 2
  MaxSpurious = 1
  Free = Free
  NoTask = NoTask
SPECIFICATION FairSpec
INVARIANTS
  TypeOK
  NoLostWakeup
  JoinedWorkersAwake
PROPERTIES
  ImplementsTaskBoard
  NothingRunsAfterStop
  TaskIsExecuted
  StopReturns
CHECK_DEADLOCK FALSE
