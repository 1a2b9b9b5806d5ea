CONSTANTS
  b1 = b1
  b2 = b2
  b3 = b3
  b4 = b4
  b5 = b5
  b6 = b6
  x = x
  y = y
  NULL = NULL
  None = None
  Blocks = {b1, b2, b3, b4, b5, b6}
  Elems = {x, y}
SPECIFICATION Spec
INVARIANTS TypeOK NoLeak
PROPERTY ImplementsFifo
