SPECIFICATION BenchSpec
CONSTANTS
  None = None
  A = A
  B = B
  C = C
  D = D
  E = E
  F = F
  G = G
  H = H
  I = I
  J = J
  K = K
  Qualified = Qualified
  U16Max = 3
  Deadlines = {1, 2, 3}
  Interrupts = {A, B}
  MinPriority = 1
  MaxPriority = 3
  MaxTasks = 3
  Devices <- Sources
  TasksPerPriority = {0, 1, 2, 5}
INVARIANTS
  ShorterIsHigher
  RunQueueIndexed
  DispatchersOwned
  AcceptsWhatFits
  EquallyDistributed
  BenchmarkCompiles
