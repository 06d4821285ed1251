CONSTANTS
  n1 = n1
  conn = conn
  p1 = p1
  p2 = p2
  p3 = p3
  h1 = h1
  Starts = {p1, p2, p3}
  Nodes = {n1}
  Logs = {conn}
  Compress = TRUE
  MaxTime = 2
  MaxStarts = 2
  MaxFaults = 1
  RemoteHosts = {h1}
  Unknown = Unknown
  MaxChanges = 3
  MaxRecords = 2
  CronFaults = 1
SPECIFICATION Spec
INVARIANTS  NamesInOrder 
           ReportedOnce StatsKept
  
CHECK_DEADLOCK FALSE
