\* Two processes, both may end at any point.
CONSTANTS
  p1 = p1
  p2 = p2
  NoProc = NoProc
  Procs = {p1, p2}
  Mortal = {p1, p2}
  MaxRetry = 2
  MaxNest = 2
SPECIFICATION Spec
INVARIANTS MutualExclusion NoOrphanLock
PROPERTIES NoTheft LockSpec StaleLockBroken LockReturns
\* Both processes may have ended.
CHECK_DEADLOCK FALSE
