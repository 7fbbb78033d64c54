CONSTANTS
  Dummy = Dummy
  Nothing = Nothing
  Total = 2
  MaxAttempts = 5
  MaxNoMessage = 1
  MaxErrors = 1
  MaxDuplicates = 1
  MaxTimeouts = 1
SPECIFICATION FairSpec
INVARIANTS
  NothingLostInConsumer
  FlushedByStop
  HonestWithoutDuplicates
PROPERTY Terminates
CHECK_DEADLOCK FALSE
