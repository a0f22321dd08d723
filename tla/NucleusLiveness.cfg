SPECIFICATION FairSpec
CONSTANTS
  Pcb = {p1, p2, p3}
  UserSem = {}
  Device = {}
  Receiver = {}
  Transmitter = {}
  Clock = Clock
  NULL = NULL
  Support = {TRUE, FALSE}
  MaxSem = 1
  MaxDrift = 0
PROPERTIES
  KillEnds
  ReadyRuns
  ClockWakes
