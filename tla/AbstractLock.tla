---------------------------- MODULE AbstractLock ----------------------------
(***************************************************************************)
(* What ZeekControl's lock file promises ("Lock file preventing concurrent *)
(* shell operations"): at most one process is inside a command at a time.  *)
(* How the lock is represented is left to LockFile.                        *)
(***************************************************************************)
CONSTANT Procs

VARIABLE holders        \* the processes inside a locked command

Init == holders = {}

Acquire(p) == holders = {} /\ holders' = {p}

(* The holder unlocks, or dies inside its command. *)
Release(p) == p \in holders /\ holders' = holders \ {p}

Next == \E p \in Procs : Acquire(p) \/ Release(p)

Spec == Init /\ [][Next]_holders
=============================================================================
