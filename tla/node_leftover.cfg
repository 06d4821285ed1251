\* One manager and one worker, of which stop may leave the first running.
CONSTANTS
  m = m
  w = w
  Nodes = {m, w}
  Rank <- ManagerAndWorker
  MaxPid = 1
  StartTries = 1
  StopTries = 1
  FinalTries = 0
  Faults = {}
  CtlDies = FALSE
  SlowBoot = FALSE
SPECIFICATION FairSpec
PROPERTIES WatchStops
