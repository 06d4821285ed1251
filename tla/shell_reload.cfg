\* A shell that deploys, and cron that starts in between.
CONSTANTS
  w = w
  h1 = h1
  h2 = h2
  v1 = v1
  v2 = v2
  v3 = v3
  None = None
  p1 = p1
  p2 = p2
  Procs = {p1, p2}
  Nodes = {w}
  Hosts = {h1, h2}
  Versions = {v1, v2, v3}
  First = v1
  HostOf <- Moved
  Invalid = {v3}
  Jobs <- AdminAndCron
  Edits <- OneEach
  MaxEdits = 1
  MaxFaults = 0
SPECIFICATION Spec
PROPERTIES NoticedUntilReload
