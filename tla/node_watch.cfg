\* One worker that may crash; cron restarts it.
CONSTANTS
  m = m
  w = w
  Nodes = {w}
  Rank <- Worker
  MaxPid = 2
  StartTries = 1
  StopTries = 1
  FinalTries = 0
  Faults = {}
  CtlDies = FALSE
  SlowBoot = FALSE
SPECIFICATION FairSpec
PROPERTIES WatchStarts
