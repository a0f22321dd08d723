SPECIFICATION Spec
CONSTANTS
  Pcb = {p1, p2, p3}
  UserSem = {}
  Device = {}
  Receiver = {}
  Transmitter = {}
  Clock = Clock
  NULL = NULL
  Support = {FALSE}
  MaxSem = 1
  MaxDrift = 1
SYMMETRY Symmetry
INVARIANTS
  NoOrphan
