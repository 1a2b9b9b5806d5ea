CONSTANTS
  t1 = t1
  t2 = t2
  t3 = t3
  pa = pa
  pb = pb
  NoPath = NoPath
  NoThread = NoThread
  Prefix = Prefix
  Threads = {t1, t2, t3}
  Stored <- MCStored
  MAX_FILE_LOCKS = 2
  p511 = p511
  p512 = p512
  plong = plong
  ShortPath = p511
  CutToPath = {p512}
  LongPaths = {p512, plong}
  Paths = {pa, pb, p511, p512, plong}
SYMMETRY MCSymmetry
SPECIFICATION Spec
INVARIANTS TypeOK MutualExclusion SlotNotRecycled CountsExact OneSlotPerPath
CHECK_DEADLOCK FALSE
