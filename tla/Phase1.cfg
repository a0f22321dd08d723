SPECIFICATION Phase1Spec
CONSTANTS
  MAXPROC = 4
  Queue = {ready, blocked}
  TreePcb = {t1, t2, t3, t4}
  AslPcb = {a1, a2, a3}
  MaxAdd = 3
SYMMETRY Symmetry
INVARIANTS
  RingsClosed
  PoolComplete
  SiblingsLinked
  AslSorted
PROPERTIES
  ImplementsPool
  ImplementsForest
  ImplementsBlockedQ
