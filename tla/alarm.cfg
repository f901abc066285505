SPECIFICATION Spec
CONSTANTS
  c1 = c1
  c2 = c2
  c3 = c3
  n1 = n1
  n2 = n2
  n3 = n3
  n4 = n4
  Clients = {c1, c2, c3}
  Chunks = {n1, n2, n3, n4}
  NULL = NULL
  Delays = {0, 1, 2}
  MaxTime = 3
SYMMETRY Symmetry
INVARIANTS
  ListWellFormed
  LengthCoversList
  PendingOnce
