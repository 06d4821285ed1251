\* One worker; every helper may fail, zeekctl may be killed, Zeek may be slow.
CONSTANTS
  m = m
  w = w
  Nodes = {w}
  Rank <- Worker
  MaxPid = 2
  StartTries = 2
  StopTries = 2
  FinalTries = 1
  Faults <- AllHelpers
  CtlDies = TRUE
  SlowBoot = TRUE
SPECIFICATION Spec
INVARIANTS CrashedHasNoPid RecordsNewest
PROPERTIES LifecycleSpec
