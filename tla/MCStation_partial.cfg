SPECIFICATION Spec
CONSTANTS
  None = None
  PBQueueLen = 2
  Word = 16777216
  PcMessages <- PartialCommands
  LosantMessages <- NoMessages
  Temperatures <- MCTemperatures
  Moistures <- MCMoistures
  StackTemps <- MCStackTemps
  StackChars <- MCStackChars
CHECK_DEADLOCK FALSE
INVARIANTS
  MoistureThresholdAsked
