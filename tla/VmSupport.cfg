SPECIFICATION FairVm
CONSTANTS
  Pcb = {1, 2, 3, 4, 5, 6}
  UserSem = {"swapPoolSem", "mainSem"}
  Device = {}
  Receiver = {}
  Transmitter = {}
  Clock = "clock"
  NULL = NULL
  Support = {TRUE}
  MaxSem = 1
  MaxDrift = 10
  UPROCMAX = 4
  MAXPAGES = 32
  TlbSize = 16
INVARIANTS
  RefillRight
  StacksDisjoint
  OneInPager
PROPERTIES
  EndsStuck
