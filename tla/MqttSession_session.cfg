SPECIFICATION FairSpec
CONSTANTS
  MaxCalls = 3
  MAX_MQP = 2
  Modes = {TRUE, FALSE}
  Faults = {"unreachable", "refused", "send", "reset", "silence", "stray"}
  None = None
CHECK_DEADLOCK FALSE
INVARIANTS
  SuccessMeansReleased
  NoStaleSignal
  PubrecFindsPacket
PROPERTIES
  CallsReturn
