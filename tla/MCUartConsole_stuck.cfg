SPECIFICATION FairConsoleSpec
CONSTANTS
  Printers = {report}
  Reader = console
  Groups <- OnlyBoth
  TxLen = 2
  RxLen = 2
  FifoLen = 2
  FifoLevel = 1
CHECK_DEADLOCK FALSE
INVARIANTS
  PrintNeedsNobody
