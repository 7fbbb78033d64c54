CONSTANTS
  ann = ann
  bob = bob
  cyd = cyd
  Peers = {ann, bob, cyd}
  Messages <- MCMessages
  Buffer = 1
  MaxSplits = 1
  Closers = {cyd}
  Free = Free
  Garbled = Garbled
SPECIFICATION FairSpec
INVARIANT NoFrameLost
CHECK_DEADLOCK FALSE
