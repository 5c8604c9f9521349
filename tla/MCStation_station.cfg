SPECIFICATION FairSpec
CONSTANTS
  None = None
  PBQueueLen = 1
  Word = 16777216
  PcMessages <- PcCommands
  LosantMessages <- LiveLosant
  Temperatures <- MCTemperatures
  Moistures <- MCMoistures
  StackTemps <- MCStackTemps
  StackChars <- OneChar
CHECK_DEADLOCK FALSE
INVARIANTS
  TypeOK
  PumpOnDemand
  NoAutoWateringByDefault
  DurationAsked
PROPERTIES
  IrrigationSafe
  IrrigationLive
  ReportsAreTaken
