SPECIFICATION Spec
CONSTANTS
  a = a
  b = b
  c = c
  d = d
  Tasks = {a, b, c}
  RelDeadline <- RelPair
  Prio <- PrioPair
  DispatcherVector <- Vectors
  TimestamperVector <- VectorsRev
  LevelTriggered = {a}
  MaxTimestamp = 15
  CheckMissed = FALSE
  MaxUptime = 4
  MaxEvents = 4
INVARIANTS
  SystemDeadlineIsMinimum
