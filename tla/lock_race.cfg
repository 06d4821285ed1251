\* Three processes, one of which may end: the lock is broken twice.
CONSTANTS
  p1 = p1
  p2 = p2
  p3 = p3
  NoProc = NoProc
  Procs = {p1, p2, p3}
  Mortal = {p1}
  MaxRetry = 1
  MaxNest = 1
SPECIFICATION Spec
INVARIANT MutualExclusion
SYMMETRY Symmetry
