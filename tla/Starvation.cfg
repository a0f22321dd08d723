SPECIFICATION RelaySpec
CONSTANTS
  Pcb = {1, 2, 3, 4, 5, 6}
  UserSem = {baton}
  Device = {}
  Receiver = {}
  Transmitter = {}
  Clock = Clock
  NULL = NULL
  Support = {FALSE}
  MaxSem = 1
  MaxDrift = 0
PROPERTIES
  FiniteProgress
