CONSTANTS
  p1 = p1
  p2 = p2
  c1 = c1
  c2 = c2
  n1 = n1
  n2 = n2
  n3 = n3
  n4 = n4
  Producers = {p1, p2}
  Consumers = {c1, c2}
  Nodes = {n1, n2, n3, n4}
  Null = Null
  NoValue = NoValue
  Setups <- MCSetups
SPECIFICATION FairSpec
INVARIANT NoUseAfterFree
CHECK_DEADLOCK FALSE
