SPECIFICATION Spec
CONSTANTS
  a = a
  b = b
  c = c
  d = d
  Tasks = {a, b, c, d}
  RelDeadline <- RelFour
  Prio <- PrioFour
  DispatcherVector <- VectorsFour
  TimestamperVector <- VectorsFourRev
  LevelTriggered = {}
  MaxTimestamp = 15
  CheckMissed = TRUE
  MaxUptime = 2
  MaxEvents = 4
INVARIANTS
  IInv
PROPERTIES
  OvertakenOnlyInExit
  CheckIsExact
