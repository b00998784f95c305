\* Up to three requests at a time; each way to give parameters and keys alone.
CONSTANTS
  Threads = {"t1", "t2", "t3"}
  KeyLength <- MCKeyLength
  Table <- MCTable
  Scenarios <- MCScenarios
  MaxKeys = 2
  Clients = 1
  CacheAge = 1
  MaxClock = 4
SPECIFICATION DispatchSpec
INVARIANTS
  DispatchTypeOK
  NobodyIsPushedTwice
  LimitHolds
  AnswersAreTrue
  PoolIsWhole
  PushesAreWellFormed
PROPERTIES
  ReturnedTokensAreValid
  RequestsEnd
CHECK_DEADLOCK FALSE
