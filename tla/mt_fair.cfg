SPECIFICATION FairSpec
CONSTANTS
  main = main
  t1 = t1
  t2 = t2
  c1 = c1
  c2 = c2
  lock = lock
  net = net
  Threads = {main, t1, t2}
  Main = main
  Cleaners = {}
  Idle = Idle
  NULL = NULL
  Yielders = {}
  Exiters = {}
  Sems = {net}
  InterruptSems = {net}
  InitCount <- AllZero
  MaxCount = 1
  MaxLevel = 1
  quantaAssignments <- DoublingQuanta
  CleanupLength = 10
PROPERTIES
  WokenThreadReturns
  ReadyThreadRuns
