CONSTANTS
  a1 = a1
  a2 = a2
  a3 = a3
  Processes = {a1, a2}
  None = None
  MaxAge = 39
  Setups <- MCSetups
  Clients = {a1, a2, a3}
  Threads = {a1, a2}
  Idlers = {a2}
  Script <- MCScript
  MaxSplits = 1
  MaxAcceptErrors = 1
  EchoPeers = {a1, a2}
  Deaf = {a2}
  Length = 3
  DataSize = 2
  SocketSize = 1
  MayStarve = TRUE
  Offers <- MCOffers
  Silent = {a2}
  MaxLost = 1
  MaxRefused = 1
  MaxRestarts = 1
  N = 2
  NUM_THREADS = 2
  NUM_KEYS = 2
  Nobody = Nobody
SPECIFICATION MCSpec
INVARIANTS
  MainAlone
  AnswersMatch
  AnswersAreTrue
  StressOutcome
PROPERTIES
  ImplementsDirectory
  CallsSettle
  EveryConnectionServed
  EchoReturns
  SessionsEnd
CHECK_DEADLOCK FALSE
