SPECIFICATION Spec
CONSTANTS
  w = w
  x = x
  y = y
  z = z
  None = None
  Callers = {c1, c2}
  Items = {x, y, z}
  Key <- KeysDistinct
  Capacity = 3
INVARIANTS
  MinRefIsMinimum
