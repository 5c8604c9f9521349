SPECIFICATION Spec
CONSTANTS
  MaxCalls = 2
  MAX_MQP = 2
  Modes = {TRUE}
  Faults = {"reset"}
  None = None
CHECK_DEADLOCK FALSE
INVARIANTS
  NoPacketLost
