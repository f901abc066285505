\* MCDevices: the terminal and the disk.  The input and the requests are bounded,
\* and when they are used up all wait: hence CHECK_DEADLOCK FALSE.
SPECIFICATION DevicesSpec
CONSTANTS
  keyboard = keyboard
  network = network
  t1 = t1
  t2 = t2
  Devices = {keyboard, network}
  Keyboard = keyboard
  Threads = {t1, t2}
  NULL = NULL
  MaxSends = 3
  DiskSize = 2
  MaxRequests = 3
  MaxPending = 3
INVARIANTS
  TypeOK
  EachInterruptOnce
  LinesReadInOrder
  LineForEachReader
  NoRequestStranded
  CrashedUntilReset
  ReadReturnsLatestWrite
PROPERTIES
  SendReturns
  LineIsRead
  RequestIsAnswered
CHECK_DEADLOCK FALSE
