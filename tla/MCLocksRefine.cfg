CONSTANTS
  t1 = t1
  t2 = t2
  t3 = t3
  pa = pa
  pb = pb
  NoPath = NoPath
  NoThread = NoThread
  Prefix = Prefix
  Threads = {t1, t2, t3}
  Stored <- MCStored
  MAX_FILE_LOCKS = 2
  pd = pd
  ShortPath = pd
  CutToPath = {}
  LongPaths = {}
  Paths = {pa, pb, pd}
SPECIFICATION FairSpec
PROPERTIES ImplementsPathLocks CallsReturn
