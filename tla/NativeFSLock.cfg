CONSTANTS
  t1 = t1  t2 = t2  t3 = t3
  p1 = p1  p2 = p2
  Threads = {t1, t2, t3}
  Procs = {p1, p2}
  Proc <- MCProc
  FDs = {f1, f2}
  Locks = {l1, l2}
  MaxFiles = 2
  MayDelete = TRUE
  NoDescr = NoDescr
  NoLock = NoLock
  NoThread = NoThread
SPECIFICATION FairSpec
INVARIANTS SingleOwner OwnerHoldsFlock NothingLeaks
PROPERTY ImplementsFileLocks CallsReturn
