SPECIFICATION FairSpec
CONSTANTS
  app = app
  rx = rx
  Tasks <- MCTasks
  Spawn = spawn
  Mixes <- MCMixes
  MaxCalls = 3
  MaxEvents = 1
  MAX_CONCURRENT_ACTIONS = 2
  FLOW_CONT_MIN = 1
  TxBuffers = 3
  slQUEUE_SIZE = 1
  None = None
CHECK_DEADLOCK FALSE
INVARIANTS
  UnreadHasReader
  ResponseToItsTask
  PoolIsWhole
PROPERTIES
  CallsReturn
