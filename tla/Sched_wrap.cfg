SPECIFICATION Spec
CONSTANTS
  a = a
  b = b
  c = c
  d = d
  Tasks = {a, b, c}
  RelDeadline <- RelPair
  Prio <- PrioPair
  DispatcherVector <- Vectors
  TimestamperVector <- VectorsRev
  LevelTriggered = {b}
  MaxTimestamp = 5
  CheckMissed = FALSE
  MaxUptime = 7
  MaxEvents = 4
INVARIANTS
  TypeOK
  OneJobPerTask
  WaitingNotUrgent
