CONSTANTS
  p1 = p1
  p2 = p2
  c1 = c1
  t1 = t1
  Producers = {p1, p2}
  PopConsumers = {c1}
  PopForConsumers = {t1}
  Capacity = 1
  Budget <- MCBudget
  StopAfter = {}
  MaxSpurious = 1
  Free = Free
  Thrown = Thrown
  NoValue = NoValue
SPECIFICATION FairSpec
INVARIANTS
  TypeOK
  LockProtocol
  NoLostWakeup
  AtMostOneStranded
PROPERTIES
  ImplementsFifo
  RunningCallsFinish
CHECK_DEADLOCK FALSE
