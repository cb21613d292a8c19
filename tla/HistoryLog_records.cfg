SPECIFICATION HistoryFairSpec
CONSTANTS
  Threads = {"engine", "inputs"}
  MaxQueue = 2
  MaxCalls = 3
  None = none
INVARIANTS
  HistoryTypeOK
  SoleCallLogged
  SentInOrder
PROPERTIES
  QueueDrained
  LogReturns
CHECK_DEADLOCK FALSE
