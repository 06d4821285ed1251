\* One manager and one worker; helpers answer and zeekctl is not killed.
CONSTANTS
  m = m
  w = w
  Nodes = {m, w}
  Rank <- ManagerAndWorker
  MaxPid = 2
  StartTries = 2
  StopTries = 1
  FinalTries = 0
  Faults = {}
  CtlDies = FALSE
  SlowBoot = FALSE
SPECIFICATION Spec
INVARIANTS NoOrphan NoLostDirectory StoppedIsDown
PROPERTIES NodeOrder
