SPECIFICATION FairBoardSpec
CONSTANTS
  a = a
  b = b
  nobody = nobody
  TimerQueueLen = 20
  Widths <- MCWidths
  BusTasks = {a, b}
  Requests <- MCRequests
  LengthWord = 3
  MaxRequests = 3
  Sleepers = {a, b}
  NoSleeper = nobody
  TickWord = 4
  MaxTicks = 5
  MaxAsks = 3
  HeapSize = 16
  HeapAsks = {1, 9, 24, 40, 200}
  Users = {1, 2, 3}
  NoUser = 0
  Mutexes = {1, 2}
  BasePriority <- OneTwoThree
  Uses <- AloneOrForever
  MaxTakes = 5
CHECK_DEADLOCK FALSE
INVARIANTS
  ReadingIsFresh
  NotLate
  HeapIsTiled
  InheritanceHolds
PROPERTIES
  ReadingReturns
  ResultIsOwn
  BytesCarried
  BusCallsReturn
  NotEarly
