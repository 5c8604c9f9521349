SPECIFICATION FairOutsideSpec
CONSTANTS
  MaxPolls = 3
  MaxCalls = 3
  MaxLosses = 2
  MAX_PUBREL_INFLT = 2
  MaxMessages = 3
  MaxBreaks = 1
  CleanSession = {TRUE, FALSE}
  Letters = {"C"}
  LineLen = 3
  HISTORY_DEPTH = 3
  HISTORY_SIZE = 5
  MaxKeys = 9
  MaxArrivals = 4
  Payloads <- Reports
  Printers = {report}
  Reader = console
  Groups <- OneOrTwo
  TxLen = 2
  RxLen = 2
  FifoLen = 2
  FifoLevel = 1
CHECK_DEADLOCK FALSE
INVARIANTS
  InOrderAlone
  StoresFollowTheWire
  PassedOnOnce
  HistoryServes
  OneReport
  BackOnlyForPing
PROPERTIES
  QueueMoves
  KeysAreTaken
  PollsSeeThisCall
  CallsEnd
  ExchangesEnd
