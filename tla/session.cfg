CONSTANTS
  p1 = p1
  p2 = p2
  None = None
  NodeCfgs <- MCFiles
  Nodes <- MCNodes
  Host <- MCHost
  Lower <- MCLower
  Addr <- MCAddr
  LocalAddrs = {"127.0.0.1", "192.0.2.1"}
  LocalHost = {"127.0.0.1"}
  Loaded <- MCLoaded
  Vetoes <- MCVetoes
  Drops <- MCDrops
  First <- MCFirst
  Edited <- MCEdited
  Calls <- MCCalls
  MaxCommands = 3
  MaxEdits = 1
  MaxFaults = 1
SPECIFICATION Spec
INVARIANTS NodesDiffer EvenShares  ReplyIsOwn AnswersEachOnce 
PROPERTIES  DeployAgrees CommandEnds
CHECK_DEADLOCK FALSE
