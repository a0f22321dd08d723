SPECIFICATION Spec
CONSTANTS
  TimePcb = {p1, p2}
  LinePcb = {p1}
  SlicePcb = {p1, p2, p3}
  Support = {TRUE}
  Clock = "clock"
  NULL = NULL
  MaxSem = 1
  MaxDrift = 0
  UserSem = {mutex}
  W = 3
  Device = {"disk", "kbd", "scr0", "scr1"}
  Receiver = {"kbd"}
  Transmitter = {"scr0", "scr1"}
  Line <- MCLine
  Number <- MCNumber
INVARIANTS
  TimeCharged
  TimerFindsProcess
PROPERTIES
  Served
