SPECIFICATION FairSpec
CONSTANTS
  measure = measure
  water = water
  wifi = wifi
  x = x
  y = y
  None = None
  Tasks = {measure, water, wifi}
  Items = {x, y}
  Priority <- MCPriority
  Lengths = {1, 2}
  Waits = {"finite", "forever"}
  MaxCalls = 3
  MaxIsrs = 1
CHECK_DEADLOCK FALSE
INVARIANTS
  NoLostWakeUp
PROPERTIES
  QueueIsFifo
  FiniteCallsReturn
