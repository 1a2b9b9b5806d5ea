CONSTANTS
  t1 = t1
  t2 = t2
  t3 = t3
  pa = pa
  NoPath = NoPath
  NoThread = NoThread
  Prefix = Prefix
  Threads = {t1, t2, t3}
  Stored <- MCStored
  MAX_FILE_LOCKS = 2
  plong = plong
  ShortPath = pa
  CutToPath = {}
  LongPaths = {plong}
  Paths = {pa, plong}
SPECIFICATION Spec
INVARIANT SerializedPerPath
