CONSTANTS
  c1 = c1
  c2 = c2
  w1 = w1
  x = x
  y = y
  z = z
  k1 = k1
  k2 = k2
  NoConn = NoConn
  NoTask = NoTask
  ClientThreads = {c1, c2}
  WorkerThreads = {w1}
  Conns = {x, y, z}
  Tasks = {k1, k2}
  MaxCmds = 1
  MaxRefused = 0
  Sigint = TRUE
  OutOfMemory = FALSE
SPECIFICATION FairSpec
INVARIANTS NoLostTask OneHolder
PROPERTIES CommandsAnswered ConnectionsServed
CHECK_DEADLOCK FALSE
