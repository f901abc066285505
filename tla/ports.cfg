SPECIFICATION Spec
CONSTANTS
  t1 = t1
  t2 = t2
  t3 = t3
  r1 = r1
  r2 = r2
  r3 = r3
  Threads = {t1, t2, t3}
  Refs = {r1, r2, r3}
  UnboundPorts = {0}
  MinBound = 2
  MaxBound = 3
  Hosts = {h1}
  NULL = NULL
  MaxQueue = 2
SYMMETRY Symmetry
INVARIANTS
  TableShowsPorts
  AvailableCountsData
  MutexesBalance
