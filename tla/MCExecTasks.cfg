CONSTANTS
  w1 = w1
  w2 = w2
  f1 = f1
  f2 = f2
  f3 = f3
  g = g
  u = u
  v = v
  NoPath = NoPath
  NoTask = NoTask
  Workers = {w1, w2}
  Users = {u}
  Files = {f1, f2, f3}
  owner <- MCOwner
  MaxLength = 2
  QuotaBytes = 2
  MAX_FILE_LOCKS = 1
  MaxTasks = 3
SPECIFICATION FairSpec
INVARIANTS TypeOK FileStable Accounted OvershootBounded
PROPERTY ExecutionEnds
