SPECIFICATION Spec
CONSTANTS
  TimePcb = {}
  LinePcb = {p1}
  SlicePcb = {}
  Support = {TRUE}
  Clock = "clock"
  NULL = NULL
  MaxSem = 1
  MaxDrift = 0
  UserSem = {}
  W = 3
  Device = {"scr0"}
  Receiver = {}
  Transmitter = {"scr0"}
  Line <- MCLine
  Number <- MCNumber
PROPERTIES
  Acknowledged
