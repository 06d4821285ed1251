------------------------------ MODULE LockFile ------------------------------
(***************************************************************************)
(* The lock of ZeekControl/lock.py, and its use by the @lock_required      *)
(* commands of ZeekControl/zeekctl.py.                                     *)
(*                                                                         *)
(* Several zeekctl processes (an operator's shell, a cron job, ...) share  *)
(* one lock file holding the PID of its owner.  A process writes its PID   *)
(* to a private file and hard-links that to the lock file; when the link   *)
(* fails it reads the owner's PID, and removes the file if no such process *)
(* runs any more.  Every system call is a step of its own.                 *)
(*                                                                         *)
(* A process is "new" until it is started, and "gone" once it has exited   *)
(* or was killed; a PID is not used twice.                                 *)
(***************************************************************************)
EXTENDS Integers, FiniteSets

CONSTANTS
  Procs,      \* the zeekctl processes (their PIDs)
  NoProc,     \* "there is no lock file"
  Mortal,     \* the processes that may exit or be killed
  MaxRetry,   \* tries of a waiting process before it gives up (30)
  MaxNest     \* bound: nested lock() calls of one process (2: restart > stop)

ASSUME LockAssumption ==
  /\ NoProc \notin Procs
  /\ Mortal \subseteq Procs
  /\ MaxRetry \in Nat
  /\ MaxNest \in Nat \ {0}

VARIABLES
  life,       \* "new", "up" or "gone"
  lockfile,   \* PID the lock file names, or NoProc
  pc,         \* where a process is inside lock(); "out" when not in it
  owner,      \* the PID _break_lock() has read
  waiting,    \* inside the retry loop of lock()?
  count,      \* its loop counter
  lockCount   \* the module-level lockCount: depth of nested lock() calls

vars == <<life, lockfile, pc, owner, waiting, count, lockCount>>

Holds(p) == lockCount[p] > 0

TypeOK ==
  /\ life \in [Procs -> {"new", "up", "gone"}]
  /\ lockfile \in Procs \cup {NoProc}
  /\ pc \in [Procs -> {"out", "link", "stat", "read", "check", "unlink", "sleep"}]
  /\ owner \in [Procs -> Procs \cup {NoProc}]
  /\ waiting \in [Procs -> BOOLEAN]
  /\ count \in [Procs -> 0 .. MaxRetry]
  /\ lockCount \in [Procs -> 0 .. MaxNest]

Init ==
  /\ life = [p \in Procs |-> "new"]
  /\ lockfile = NoProc
  /\ pc = [p \in Procs |-> "out"]
  /\ owner = [p \in Procs |-> NoProc]
  /\ waiting = [p \in Procs |-> FALSE]
  /\ count = [p \in Procs |-> 0]
  /\ lockCount = [p \in Procs |-> 0]

-----------------------------------------------------------------------------
(* How _acquire_lock() and lock() end.                                     *)

Goto(p, label) == pc' = [pc EXCEPT ![p] = label]

(* lock() returns: what it kept on its stack is gone. *)
Leave(p) ==
  /\ Goto(p, "out")
  /\ owner' = [owner EXCEPT ![p] = NoProc]
  /\ waiting' = [waiting EXCEPT ![p] = FALSE]
  /\ count' = [count EXCEPT ![p] = 0]

(* _acquire_lock() returned 0: lock() sets lockCount and returns True. *)
Acquired(p) ==
  /\ Leave(p)
  /\ lockCount' = [lockCount EXCEPT ![p] = 1]

(* _acquire_lock() returned -1: the first call makes lock() return False,
   a call of the retry loop is followed by a sleep. *)
Errored(p) ==
  IF waiting[p]
  THEN Goto(p, "sleep") /\ UNCHANGED <<owner, waiting, count>>
  ELSE Leave(p)

(* _acquire_lock() returned the PID of the owner: the first call enters the
   retry loop, which calls again at once. *)
Busy(p) ==
  IF waiting[p]
  THEN Goto(p, "sleep") /\ UNCHANGED <<owner, waiting, count>>
  ELSE /\ Goto(p, "link")
       /\ waiting' = [waiting EXCEPT ![p] = TRUE]
       /\ UNCHANGED <<owner, count>>

-----------------------------------------------------------------------------
(* The steps of lock() and unlock().                                       *)

(* A command calls lock(); a nested call only counts. *)
Lock(p) ==
  /\ life[p] = "up" /\ pc[p] = "out"
  /\ \/ /\ Holds(p) /\ lockCount[p] < MaxNest
        /\ lockCount' = [lockCount EXCEPT ![p] = @ + 1]
        /\ UNCHANGED pc
     \/ /\ ~Holds(p)
        /\ Goto(p, "link")
        /\ UNCHANGED lockCount
  /\ UNCHANGED <<life, lockfile, owner, waiting, count>>

(* Fault: rename() instead of link(), which replaces an existing lock file. *)
LinkByRename(p) ==
  /\ pc[p] = "link"
  /\ lockfile' = p
  /\ Goto(p, "stat")
  /\ UNCHANGED <<life, owner, waiting, count, lockCount>>

(* os.link(tmpfile, lockfile): fails if the lock file exists. *)
Link(p) ==
  /\ pc[p] = "link"
  /\ \/ /\ lockfile = NoProc
        /\ lockfile' = p
        /\ Goto(p, "stat")
     \/ /\ lockfile # NoProc
        /\ Goto(p, "read")
        /\ UNCHANGED lockfile
  /\ UNCHANGED <<life, owner, waiting, count, lockCount>>

(* The second os.stat(tmpfile): the link count tells whether the lock file
   is still the one this process made. *)
Stat(p) ==
  /\ pc[p] = "stat"
  /\ \/ lockfile = p /\ Acquired(p)
     \/ /\ lockfile # p
        /\ Goto(p, "read")
        /\ UNCHANGED <<owner, waiting, count, lockCount>>
  /\ UNCHANGED <<life, lockfile>>

(* _break_lock() opens and reads the lock file, if it is still there. *)
ReadOwner(p) ==
  /\ pc[p] = "read"
  /\ \/ /\ lockfile # NoProc
        /\ owner' = [owner EXCEPT ![p] = lockfile]
        /\ Goto(p, "check")
        /\ UNCHANGED <<waiting, count>>
     \/ lockfile = NoProc /\ Errored(p)
  /\ UNCHANGED <<life, lockfile, lockCount>>

(* Fault: a lock file that exists is taken for stale without asking. *)
CheckPidSkipped(p) ==
  /\ pc[p] = "check"
  /\ Goto(p, "unlink")
  /\ UNCHANGED <<life, lockfile, owner, waiting, count, lockCount>>

(* Fault: every owner is taken for a live one. *)
CheckPidTrusting(p) ==
  /\ pc[p] = "check"
  /\ Busy(p)
  /\ UNCHANGED <<life, lockfile, lockCount>>

(* The check-pid helper: does the process that was read still run? *)
CheckPid(p) ==
  /\ pc[p] = "check"
  /\ \/ life[owner[p]] = "up" /\ Busy(p)
     \/ /\ life[owner[p]] # "up"
        /\ Goto(p, "unlink")
        /\ UNCHANGED <<owner, waiting, count>>
  /\ UNCHANGED <<life, lockfile, lockCount>>

(* os.unlink(lockfile) in _break_lock(): removes whatever file is there now,
   then _acquire_lock() starts over. *)
BreakLock(p) ==
  /\ pc[p] = "unlink"
  /\ \/ /\ lockfile # NoProc
        /\ lockfile' = NoProc
        /\ Goto(p, "link")
        /\ UNCHANGED <<owner, waiting, count>>
     \/ /\ lockfile = NoProc
        /\ Errored(p)
        /\ UNCHANGED lockfile
  /\ UNCHANGED <<life, lockCount>>

(* Fault: the retry loop does not count. *)
SleepForever(p) ==
  /\ pc[p] = "sleep"
  /\ Goto(p, "link")
  /\ UNCHANGED <<life, lockfile, owner, waiting, count, lockCount>>

(* The body of the retry loop: sleep, count, give up after MaxRetry. *)
Sleep(p) ==
  /\ pc[p] = "sleep"
  /\ \/ /\ count[p] < MaxRetry
        /\ count' = [count EXCEPT ![p] = @ + 1]
        /\ Goto(p, "link")
        /\ UNCHANGED <<owner, waiting>>
     \/ count[p] = MaxRetry /\ Leave(p)
  /\ UNCHANGED <<life, lockfile, lockCount>>

(* Fault: a nested unlock() removes the lock file as well. *)
UnlockEveryLevel(p) ==
  /\ life[p] = "up" /\ pc[p] = "out" /\ Holds(p)
  /\ lockCount' = [lockCount EXCEPT ![p] = @ - 1]
  /\ lockfile' = NoProc
  /\ UNCHANGED <<life, pc, owner, waiting, count>>

(* Fault: lockCount is decremented before it is compared with 1. *)
UnlockMiscounted(p) ==
  /\ life[p] = "up" /\ pc[p] = "out" /\ Holds(p)
  /\ lockCount' = [lockCount EXCEPT ![p] = @ - 1]
  /\ lockfile' = IF lockCount'[p] = 1 THEN NoProc ELSE lockfile
  /\ UNCHANGED <<life, pc, owner, waiting, count>>

(* The command ends: unlock().  The outermost call removes the lock file,
   whoever made it. *)
Unlock(p) ==
  /\ life[p] = "up" /\ pc[p] = "out" /\ Holds(p)
  /\ lockCount' = [lockCount EXCEPT ![p] = @ - 1]
  /\ lockfile' = IF lockCount[p] = 1 THEN NoProc ELSE lockfile
  /\ UNCHANGED <<life, pc, owner, waiting, count>>

-----------------------------------------------------------------------------
(* A zeekctl process starts, and ends: by itself when it is in no command, *)
(* or killed at any point, leaving the lock file behind.                   *)

Start(p) ==
  /\ life[p] = "new"
  /\ life' = [life EXCEPT ![p] = "up"]
  /\ UNCHANGED <<lockfile, pc, owner, waiting, count, lockCount>>

End(p) ==
  /\ p \in Mortal /\ life[p] = "up"
  /\ life' = [life EXCEPT ![p] = "gone"]
  /\ Leave(p)
  /\ lockCount' = [lockCount EXCEPT ![p] = 0]
  /\ UNCHANGED lockfile

InLock(p) ==
  \/ Link(p) \/ Stat(p) \/ ReadOwner(p) \/ CheckPid(p)
  \/ BreakLock(p) \/ Sleep(p)

Next == \E p \in Procs : Lock(p) \/ InLock(p) \/ Unlock(p) \/ Start(p) \/ End(p)

(* A process inside lock() keeps running (its sleeps are bounded); whether a
   command starts, ends or is killed is up to its user. *)
Fairness == \A p \in Procs : WF_vars(InLock(p))

Spec == Init /\ [][Next]_vars /\ Fairness

-----------------------------------------------------------------------------
(* Properties.                                                             *)

(* At most one process is inside a locked command: the purpose of the lock
   file (options.py: "preventing concurrent shell operations"). *)
MutualExclusion == \A p, q \in Procs : Holds(p) /\ Holds(q) => p = q

(* As long as no process has ended, locked commands exclude each other, for
   any number of processes. *)
ExclusionWhileAllLive == (\A p \in Procs : life[p] # "gone") => MutualExclusion

(* A lock file never outlives its command inside a process that goes on
   running: nobody could ever break it, since check-pid finds its owner. *)
NoOrphanLock ==
  \A p \in Procs :
    lockfile = p /\ life[p] = "up" /\ pc[p] = "out" => Holds(p)

(* The lock file of a process inside a command is not removed or replaced
   before that process unlocks or is killed. *)
NoTheft ==
  [][\A p \in Procs : Holds(p) /\ lockfile = p /\ lockfile' # p => ~Holds(p)']_vars

(* The lock file implements the abstract lock. *)
Abstract == INSTANCE AbstractLock WITH holders <- {p \in Procs : Holds(p)}
LockSpec == Abstract!Spec

(* A call of lock() returns, with the lock or without: the retry loop and
   the recursion of _acquire_lock() end. *)
LockReturns == \A p \in Procs : pc[p] # "out" ~> pc[p] = "out"

(* A process that finds the lock of a dead process gets rid of it (unless it
   is killed itself). *)
StaleLockBroken ==
  \A p, q \in Procs :
    (lockfile = q /\ life[q] = "gone" /\ pc[p] = "link")
      ~> (lockfile # q \/ life[p] = "gone")
=============================================================================
