SPECIFICATION FairSpec
CONSTANTS
  w = w
  x = x
  y = y
  z = z
  None = None
  Callers = {c1, c2}
  Items = {w, x, y, z}
  Key <- KeysTied
  Capacity = 3
INVARIANTS
  TypeOK
  NodesAccounted
  CachedMinIsStored
  TraversalSound
PROPERTIES
  ImplementsWaitQueue
  TraversalEnds
