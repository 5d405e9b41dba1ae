SPECIFICATION FairSpec
CONSTANTS
  a = a
  b = b
  c = c
  d = d
  None = None
  TopLevel = TopLevel
  Tasks = {a, b, c, d}
  RelDeadline <- RelFour
  Prio <- PrioFour
  DispatcherVector <- VectorsFour
  TimestamperVector <- VectorsFourRev
  LevelTriggered = {d}
  MaxTimestamp = 15
  CheckMissed = FALSE
  MaxUptime = 0
  MaxEvents = 4
PROPERTIES
  ImplementsScheduler
  EveryJobCompletes
  Drains
  LineServed
