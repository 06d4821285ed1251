---------------------------- MODULE MCNodeControl ---------------------------
(* NodeControl on small instances.                                         *)
EXTENDS NodeControl, TLC

CONSTANTS m, w          \* a manager and a worker

ManagerAndWorker == m :> 2 @@ w :> 4
Worker == w :> 4
AllHelpers == Helpers
=============================================================================
