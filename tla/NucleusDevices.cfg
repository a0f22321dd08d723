SPECIFICATION Spec
CONSTANTS
  Pcb = {p1, p2, p3}
  UserSem = {m1, m2}
  Device = {screen}
  Receiver = {}
  Transmitter = {screen}
  Clock = Clock
  NULL = NULL
  Support = {FALSE}
  MaxSem = 1
  MaxDrift = 0
SYMMETRY Symmetry
INVARIANTS
  NoHiding
  IdleRules
  SemAddReliable
  DescriptorAvailable
PROPERTIES
  CountDrifts
