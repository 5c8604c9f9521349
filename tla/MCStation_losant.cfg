SPECIFICATION Spec
CONSTANTS
  None = None
  PBQueueLen = 1
  Word = 16777216
  PcMessages <- PcSwitches
  LosantMessages <- LosantCommands
  Temperatures <- MCTemperatures
  Moistures <- MCMoistures
  StackTemps <- MCStackTemps
  StackChars <- OneChar
CHECK_DEADLOCK FALSE
INVARIANTS
  SwitchOffStops
PROPERTIES
  DecisionsWhole
