SPECIFICATION FairSpec
CONSTANTS
  NHosts = 1
  MaxCall = 2
  MaxCmd = 2
  Slow <- First
  Drops <- First
  Late <- First
  IdlePings = TRUE
INVARIANTS OwnResults CleanLine
PROPERTIES CallsSpec CallsAndThreadsEnd
CHECK_DEADLOCK FALSE
