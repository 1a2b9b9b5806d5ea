CONSTANTS
  w1 = w1
  w2 = w2
  f1 = f1
  f2 = f2
  g = g
  u = u
  v = v
  NoPath = NoPath
  NoTask = NoTask
  Workers = {w1, w2}
  Users = {u, v}
  Files = {f1, f2, g}
  owner <- MCOwner
  MaxLength = 2
  QuotaBytes = 2
  MAX_FILE_LOCKS = 1
  MaxTasks = 3
SYMMETRY MCSymmetry
SPECIFICATION Spec
INVARIANTS QuotaRespected
