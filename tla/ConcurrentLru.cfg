CONSTANTS
  k1 = k1
  k2 = k2
  k3 = k3
  k4 = k4
  n1 = n1
  n2 = n2
  n3 = n3
  n4 = n4
  t1 = t1
  t2 = t2
  Threads = {t1, t2}
  Keys = {k1, k2, k3, k4}
  Values = {1, 2}
  N = 2
  StripeOf <- MCStripeOf
  capacity = 2
  Nodes = {n1, n2, n3, n4}
  NoNode = NoNode
SPECIFICATION Spec
INVARIANTS
  IndexMatchesLists
  EvictsLeastRecentlyUsed
  HitIsLatest
  ScansWereTrue
SYMMETRY Symmetry
