SPECIFICATION QosSpec
CONSTANTS
  MAX_PUBREL_INFLT = 2
  MaxMessages = 3
  MaxBreaks = 2
  CleanSession = {FALSE}
CHECK_DEADLOCK FALSE
INVARIANTS
  OnlyOnce
