CONSTANTS
  t1 = t1
  t2 = t2
  a = a
  a1 = a1
  p1 = p1
  p2 = p2
  NoCall = NoCall
  Nowhere = Nowhere
  Threads = {t1, t2}
  Names = {a, a1}
  Passwords = {p1, p2}
  MaxId = 3
  folderOf <- MCFolder
  MaxCalls = 4
  MayRefuse = TRUE
  MayCrash = TRUE
SYMMETRY MCSymmetry
SPECIFICATION Spec
INVARIANTS TypeOK OneUserPerName AuthSound QuotaPromised FolderPromised CreatorWelcomed
