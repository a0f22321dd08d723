SPECIFICATION FairTest
CONSTANTS
  Pcb = {1, 2, 3, 4, 5, 6, 7, 8, 9, 10, 11, 12, 13, 14, 15, 16, 17, 18, 19, 20}
  UserSem = {"term_mut", "testsem", "s", "startp2", "endp2", "endp3", "blkp4", "synp4", "endp4", "endp5", "endp8", "endcreate", "blkp8"}
  Device = {"terminal"}
  Receiver = {}
  Transmitter = {"terminal"}
  Clock = "clock"
  NULL = NULL
  Support = {TRUE, FALSE}
  MaxSem = 4
  MaxDrift = 40
  MsgLen = 1
  CLOCKLOOP = 10
  Incarnations = 4
  MaxSlices = 3
  EarlyInterrupt = TRUE
  Handlers = {"test", "exceptions"}
INVARIANTS
  PrintExclusive
  PrintReturned
  P4Dead
PROPERTIES
  TestEnds
