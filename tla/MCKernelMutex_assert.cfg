SPECIFICATION MutexSpec
CONSTANTS
  Users = {1, 2, 3}
  NoUser = 0
  Mutexes = {1}
  BasePriority <- LowAndTwoHigh
  Uses <- AWhile
  MaxTakes = 3
CHECK_DEADLOCK FALSE
INVARIANTS
  TimeLeftAfterInheritance
