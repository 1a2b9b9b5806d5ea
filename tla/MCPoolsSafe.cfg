CONSTANTS
  c1 = c1
  c2 = c2
  w1 = w1
  w2 = w2
  x = x
  y = y
  z = z
  k1 = k1
  k2 = k2
  k3 = k3
  NoConn = NoConn
  NoTask = NoTask
  ClientThreads = {c1, c2}
  WorkerThreads = {w1, w2}
  Conns = {x, y, z}
  Tasks = {k1, k2, k3}
  MaxCmds = 2
  MaxRefused = 1
  Sigint = TRUE
  OutOfMemory = TRUE
SYMMETRY MCSymmetry
SPECIFICATION Spec
INVARIANTS TypeOK NoUseAfterFree HandedOnce WorkConserving OneHolder NothingLeftBehind
PROPERTY ImplementsCommandService
CHECK_DEADLOCK FALSE
