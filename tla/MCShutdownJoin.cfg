CONSTANTS
  c1 = c1
  w1 = w1
  x = x
  k1 = k1
  NoConn = NoConn
  NoTask = NoTask
  ClientThreads = {c1}
  WorkerThreads = {w1}
  Conns = {x}
  Tasks = {k1}
  MaxCmds = 1
  MaxRefused = 1
  Sigint = TRUE
  OutOfMemory = FALSE
SPECIFICATION FairSpec
PROPERTY WorkersStop
CHECK_DEADLOCK FALSE
