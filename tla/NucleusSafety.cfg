SPECIFICATION Spec
CONSTANTS
  Pcb = {p1, p2, p3}
  UserSem = {mutex}
  Device = {}
  Receiver = {}
  Transmitter = {}
  Clock = Clock
  NULL = NULL
  Support = {TRUE, FALSE}
  MaxSem = 1
  MaxDrift = 2
SYMMETRY Symmetry
INVARIANTS
  TypeOK
  NoHiding
  ProcessCountExact
  TreeConsistent
  SemaphoreCountsWaiters
  SemAddReliable
  IdleRules
PROPERTIES
  KillsOnlyProgeny
  CountDrifts
