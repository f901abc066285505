SPECIFICATION Spec
CONSTANTS
  main = main
  t1 = t1
  t2 = t2
  c1 = c1
  c2 = c2
  lock = lock
  net = net
  Threads = {main, t1, t2, c1, c2}
  Main = main
  Cleaners = {c1, c2}
  Idle = Idle
  NULL = NULL
  Yielders = {}
  Exiters = {main, t1, t2}
  Sems = {net}
  InterruptSems = {net}
  InitCount <- AllZero
  MaxCount = 1
  MaxLevel = 0
  quantaAssignments <- OneTickPerLevel
  CleanupLength = 1
SYMMETRY Workers
INVARIANTS
  NoThreadLost
  SelfIsCaller
