--------------------------- MODULE LockFile_proofs --------------------------
(***************************************************************************)
(* What LockFile guarantees for any set of processes.                      *)
(***************************************************************************)
EXTENDS LockFile, TLAPS

(* Who may be in which step of lock(), whatever processes have ended.      *)
Waiter(p) == pc[p] # "out" => life[p] = "up" /\ ~Holds(p)
Holder(p) == Holds(p) => life[p] = "up"
Breaker(p) ==
  /\ pc[p] \in {"check", "unlink"} => owner[p] \in Procs /\ life[owner[p]] # "new"
  /\ pc[p] = "unlink" => life[owner[p]] = "gone"
Linked(p) ==
  lockfile = p => /\ life[p] # "new"
                  /\ life[p] = "up" => Holds(p) \/ pc[p] = "stat"

LockInv ==
  /\ TypeOK
  /\ \A p \in Procs : Waiter(p) /\ Holder(p) /\ Breaker(p) /\ Linked(p)

(* The lock file names whoever has it, or is about to find out. *)
Owned == \A p \in Procs : Holds(p) \/ pc[p] = "stat" => lockfile = p

AllLive == \A p \in Procs : life[p] # "gone"

AtMostTwo == \A p, q, r \in Procs : p = q \/ q = r \/ p = r

(* The state of lock() itself. *)
StackOK ==
  /\ pc \in [Procs -> {"out", "link", "stat", "read", "check", "unlink", "sleep"}]
  /\ owner \in [Procs -> Procs \cup {NoProc}]
  /\ waiting \in [Procs -> BOOLEAN]
  /\ count \in [Procs -> 0 .. MaxRetry]

(* However lock() goes on after _acquire_lock(), its own state keeps its type. *)
LEMMA StackType ==
  ASSUME StackOK, NEW p \in Procs, Leave(p) \/ Errored(p) \/ Busy(p)
  PROVE  StackOK'
<1> USE LockAssumption DEF StackOK
<1>1. CASE Leave(p)
  BY <1>1 DEF Leave, Goto
<1>2. CASE Errored(p)
  <2>1. CASE waiting[p]
    BY <1>2, <2>1 DEF Errored, Goto
  <2>2. CASE ~waiting[p]
    BY <1>1, <1>2, <2>2 DEF Errored
  <2> QED BY <2>1, <2>2
<1>3. CASE Busy(p)
  BY <1>3 DEF Busy, Goto
<1> QED BY <1>1, <1>2, <1>3

(* Every variable keeps its type, for any number of processes and retries. *)
THEOREM TypeCorrect == Spec => []TypeOK
<1> USE LockAssumption DEF TypeOK
<1>1. Init => TypeOK
  BY DEF Init
<1>2. TypeOK /\ [Next]_vars => TypeOK'
  <2> SUFFICES ASSUME TypeOK, [Next]_vars PROVE TypeOK'
    OBVIOUS
  <2>1. CASE UNCHANGED vars
    BY <2>1 DEF vars
  <2>2. ASSUME NEW p \in Procs, Lock(p) PROVE TypeOK'
    BY <2>2 DEF Lock, Goto, Holds
  <2>3. ASSUME NEW p \in Procs, Link(p) PROVE TypeOK'
    BY <2>3 DEF Link, Goto
  <2>4. ASSUME NEW p \in Procs, Stat(p) PROVE TypeOK'
    <3>1. CASE lockfile = p
      BY <2>4, <3>1, StackType DEF StackOK, Stat, Acquired
    <3>2. CASE lockfile # p
      BY <2>4, <3>2 DEF Stat, Goto
    <3> QED BY <3>1, <3>2
  <2>5. ASSUME NEW p \in Procs, ReadOwner(p) PROVE TypeOK'
    <3>1. CASE lockfile # NoProc
      BY <2>5, <3>1 DEF ReadOwner, Goto
    <3>2. CASE ~(lockfile # NoProc)
      BY <2>5, <3>2, StackType DEF StackOK, ReadOwner
    <3> QED BY <3>1, <3>2
  <2>6. ASSUME NEW p \in Procs, CheckPid(p) PROVE TypeOK'
    <3>1. CASE life[owner[p]] # "up"
      BY <2>6, <3>1 DEF CheckPid, Goto
    <3>2. CASE ~(life[owner[p]] # "up")
      BY <2>6, <3>2, StackType DEF StackOK, CheckPid
    <3> QED BY <3>1, <3>2
  <2>7. ASSUME NEW p \in Procs, BreakLock(p) PROVE TypeOK'
    <3>1. CASE lockfile # NoProc
      BY <2>7, <3>1 DEF BreakLock, Goto
    <3>2. CASE ~(lockfile # NoProc)
      BY <2>7, <3>2, StackType DEF StackOK, BreakLock
    <3> QED BY <3>1, <3>2
  <2>8. ASSUME NEW p \in Procs, Sleep(p) PROVE TypeOK'
    <3>1. CASE count[p] < MaxRetry
      BY <2>8, <3>1 DEF Sleep, Goto
    <3>2. CASE ~(count[p] < MaxRetry)
      BY <2>8, <3>2, StackType DEF StackOK, Sleep
    <3> QED BY <3>1, <3>2
  <2>9. ASSUME NEW p \in Procs, Unlock(p) PROVE TypeOK'
    BY <2>9 DEF Unlock, Holds
  <2>10. ASSUME NEW p \in Procs, Start(p) PROVE TypeOK'
    BY <2>10 DEF Start
  <2>11. ASSUME NEW p \in Procs, End(p) PROVE TypeOK'
    BY <2>11, StackType DEF StackOK, End
  <2> QED
    BY <2>1, <2>2, <2>3, <2>4, <2>5, <2>6, <2>7, <2>8, <2>9, <2>10, <2>11
       DEF Next, InLock
<1> QED
  BY <1>1, <1>2, PTL DEF Spec

-----------------------------------------------------------------------------
(* The inductive invariant.                                                *)

(* LockInv holds whatever processes end, and when. *)
THEOREM LockInvariant == Spec => []LockInv
<1> USE LockAssumption DEF Waiter, Holder, Breaker, Linked, Holds
<1>1. Init => LockInv
  BY DEF Init, LockInv, TypeOK
<1>2. TypeOK' /\ LockInv /\ [Next]_vars => LockInv'
  <2> SUFFICES ASSUME TypeOK', LockInv, [Next]_vars,
                      NEW q \in Procs
               PROVE  (Waiter(q) /\ Holder(q) /\ Breaker(q) /\ Linked(q))'
    BY DEF LockInv
  <2> USE DEF LockInv, TypeOK
  <2>1. CASE UNCHANGED vars
    BY <2>1 DEF vars
  <2>2. ASSUME NEW p \in Procs, Lock(p)
        PROVE  (Waiter(q) /\ Holder(q) /\ Breaker(q) /\ Linked(q))'
    BY <2>2 DEF Lock, Goto
  <2>3. ASSUME NEW p \in Procs, Link(p)
        PROVE  (Waiter(q) /\ Holder(q) /\ Breaker(q) /\ Linked(q))'
    BY <2>3 DEF Link, Goto
  <2>4. ASSUME NEW p \in Procs, Stat(p)
        PROVE  (Waiter(q) /\ Holder(q) /\ Breaker(q) /\ Linked(q))'
    BY <2>4 DEF Stat, Acquired, Leave, Goto
  <2>5. ASSUME NEW p \in Procs, ReadOwner(p)
        PROVE  (Waiter(q) /\ Holder(q) /\ Breaker(q) /\ Linked(q))'
    BY <2>5 DEF ReadOwner, Errored, Leave, Goto
  <2>6. ASSUME NEW p \in Procs, CheckPid(p)
        PROVE  (Waiter(q) /\ Holder(q) /\ Breaker(q) /\ Linked(q))'
    BY <2>6 DEF CheckPid, Busy, Goto
  <2>7. ASSUME NEW p \in Procs, BreakLock(p)
        PROVE  (Waiter(q) /\ Holder(q) /\ Breaker(q) /\ Linked(q))'
    BY <2>7 DEF BreakLock, Errored, Leave, Goto
  <2>8. ASSUME NEW p \in Procs, Sleep(p)
        PROVE  (Waiter(q) /\ Holder(q) /\ Breaker(q) /\ Linked(q))'
    BY <2>8 DEF Sleep, Leave, Goto
  <2>9. ASSUME NEW p \in Procs, Unlock(p)
        PROVE  (Waiter(q) /\ Holder(q) /\ Breaker(q) /\ Linked(q))'
    BY <2>9 DEF Unlock
  <2>10. ASSUME NEW p \in Procs, Start(p)
         PROVE  (Waiter(q) /\ Holder(q) /\ Breaker(q) /\ Linked(q))'
    BY <2>10 DEF Start
  <2>11. ASSUME NEW p \in Procs, End(p)
         PROVE  (Waiter(q) /\ Holder(q) /\ Breaker(q) /\ Linked(q))'
    BY <2>11 DEF End, Leave, Goto
  <2> QED
    BY <2>1, <2>2, <2>3, <2>4, <2>5, <2>6, <2>7, <2>8, <2>9, <2>10, <2>11
       DEF Next, InLock
<1> QED
  BY <1>1, <1>2, TypeCorrect, PTL DEF Spec

-----------------------------------------------------------------------------
(* Mutual exclusion.  The one step that can take the lock file away from   *)
(* its holder is BreakLock: a process p removes the file although the dead *)
(* owner it read, t, is not the process q that holds it now.  That takes a *)
(* dead process, and three of them.                                        *)

LEMMA OwnedStep ==
  ASSUME LockInv, LockInv', [Next]_vars, Owned, AllLive \/ AtMostTwo
  PROVE  Owned'
<1> SUFFICES ASSUME NEW q \in Procs, (Holds(q) \/ pc[q] = "stat")'
             PROVE  (lockfile = q)'
  BY DEF Owned
<1> USE LockAssumption DEF LockInv, TypeOK, Owned, Holds
<1>1. CASE UNCHANGED vars
  BY <1>1 DEF vars
<1>2. ASSUME NEW p \in Procs, Lock(p) PROVE (lockfile = q)'
  BY <1>2 DEF Lock, Goto
<1>3. ASSUME NEW p \in Procs, Link(p) PROVE (lockfile = q)'
  BY <1>3 DEF Link, Goto
<1>4. ASSUME NEW p \in Procs, Stat(p) PROVE (lockfile = q)'
  BY <1>4 DEF Stat, Acquired, Leave, Goto
<1>5. ASSUME NEW p \in Procs, ReadOwner(p) PROVE (lockfile = q)'
  BY <1>5 DEF ReadOwner, Errored, Leave, Goto
<1>6. ASSUME NEW p \in Procs, CheckPid(p) PROVE (lockfile = q)'
  BY <1>6 DEF CheckPid, Busy, Goto
<1>7. ASSUME NEW p \in Procs, BreakLock(p) PROVE (lockfile = q)'
  <2>1. owner[p] \in Procs /\ life[owner[p]] = "gone" /\ ~Holds(p)
    BY <1>7 DEF BreakLock, Breaker, Waiter
  <2>2. AtMostTwo
    BY <2>1 DEF AllLive
  <2>3. (Holds(q) \/ pc[q] = "stat") /\ q # p
    BY <1>7, <2>1 DEF BreakLock, Errored, Leave, Goto
  <2>4. life[q] = "up"
    BY <2>3 DEF Waiter, Holder
  <2>5. owner[p] # p
    BY <1>7, <2>1 DEF Waiter, BreakLock
  <2> QED
    BY <2>1, <2>2, <2>3, <2>4, <2>5 DEF AtMostTwo
<1>8. ASSUME NEW p \in Procs, Sleep(p) PROVE (lockfile = q)'
  BY <1>8 DEF Sleep, Leave, Goto
<1>9. ASSUME NEW p \in Procs, Unlock(p) PROVE (lockfile = q)'
  BY <1>9 DEF Unlock
<1>10. ASSUME NEW p \in Procs, Start(p) PROVE (lockfile = q)'
  BY <1>10 DEF Start
<1>11. ASSUME NEW p \in Procs, End(p) PROVE (lockfile = q)'
  BY <1>11 DEF End, Leave, Goto
<1> QED
  BY <1>1, <1>2, <1>3, <1>4, <1>5, <1>6, <1>7, <1>8, <1>9, <1>10, <1>11
     DEF Next, InLock

LEMMA OwnedExcludes ==
  ASSUME TypeOK, Owned PROVE MutualExclusion
BY LockAssumption DEF MutualExclusion, Owned, TypeOK

LEMMA OwnedInit == Init => Owned
BY DEF Init, Owned, Holds

(* A process that has ended stays so. *)
LEMMA GoneForever ==
  ASSUME LockInv, [Next]_vars, AllLive' PROVE AllLive
<1> SUFFICES ASSUME NEW q \in Procs, life[q] = "gone" PROVE life'[q] = "gone"
  BY DEF AllLive
<1> QED
  BY DEF LockInv, TypeOK, Next, InLock, vars, Lock, Link, Stat, Acquired, Leave,
         ReadOwner, CheckPid, BreakLock, Sleep, Unlock, Start, End

(* As long as no process has ended, locked commands exclude each other, for
   any number of processes. *)
THEOREM Exclusion == Spec => []ExclusionWhileAllLive
<1> DEFINE Inv == AllLive => Owned
<1>1. Init => Inv
  BY OwnedInit
<1>2. LockInv /\ LockInv' /\ Inv /\ [Next]_vars => Inv'
  BY OwnedStep, GoneForever
<1>3. LockInv /\ Inv => ExclusionWhileAllLive
  BY OwnedExcludes DEF LockInv, ExclusionWhileAllLive, AllLive
<1> QED
  BY <1>1, <1>2, <1>3, LockInvariant, PTL DEF Spec

(* The systems in which the lock is safe: two processes, or none that ends. *)
Safe == AtMostTwo \/ Mortal = {}

LEMMA SafeInvariant == Safe /\ Spec => []Owned
<1> DEFINE Inv == Owned /\ (Mortal = {} => AllLive)
<1> SUFFICES ASSUME Safe PROVE Spec => []Owned
  OBVIOUS
<1>1. Init => Inv
  BY OwnedInit DEF Init, AllLive
<1>2. LockInv /\ LockInv' /\ Inv /\ [Next]_vars => Inv'
  <2> SUFFICES ASSUME LockInv, LockInv', Inv, [Next]_vars PROVE Inv'
    OBVIOUS
  <2>1. Owned'
    BY OwnedStep DEF Safe
  <2>2. ASSUME Mortal = {}, NEW q \in Procs PROVE life'[q] # "gone"
    <3>1. life[q] # "gone"
      BY <2>2 DEF AllLive
    <3> QED
      BY <2>2, <3>1 DEF LockInv, TypeOK, Next, InLock, vars, Lock, Link, Stat,
           ReadOwner, CheckPid, BreakLock, Sleep, Unlock, Start, End
  <2> QED
    BY <2>1, <2>2 DEF AllLive
<1> QED
  BY <1>1, <1>2, LockInvariant, PTL DEF Spec

(* Two processes exclude each other even if they end at any point. *)
THEOREM SafeExclusion == Safe /\ Spec => []MutualExclusion
<1>1. LockInv /\ Owned => MutualExclusion
  BY OwnedExcludes DEF LockInv
<1> QED
  BY <1>1, SafeInvariant, LockInvariant, PTL

(* Nobody takes the lock file from a process inside a command. *)
THEOREM SafeNoTheft == Safe /\ Spec => NoTheft
<1>1. Owned' => [\A p \in Procs :
                   Holds(p) /\ lockfile = p /\ lockfile' # p => ~Holds(p)']_vars
  BY DEF Owned
<1> QED
  BY <1>1, SafeInvariant, PTL DEF NoTheft

(* No lock file outlives its command inside a process that goes on running. *)
THEOREM OrphanFree == Spec => []NoOrphanLock
<1>1. LockInv => NoOrphanLock
  BY DEF LockInv, NoOrphanLock, Linked
<1> QED
  BY <1>1, LockInvariant, PTL

-----------------------------------------------------------------------------
(* Refinement: who holds the lock changes when lock() returns (Stat), when *)
(* the outermost command unlocks and when a holder is killed.              *)

Holders == {p \in Procs : Holds(p)}

LEMMA StepRefines ==
  ASSUME LockInv, LockInv', Owned, [Next]_vars
  PROVE  \/ UNCHANGED Holders
         \/ \E p \in Procs : Holders = {} /\ Holders' = {p}
         \/ \E p \in Procs : p \in Holders /\ Holders' = Holders \ {p}
<1> USE LockAssumption DEF LockInv, TypeOK, Holds, Holders
<1>1. CASE UNCHANGED lockCount
  BY <1>1
<1>2. ASSUME NEW p \in Procs, Lock(p), ~UNCHANGED lockCount
      PROVE  UNCHANGED Holders
  BY <1>2 DEF Lock
<1>3. ASSUME NEW p \in Procs, Stat(p), ~UNCHANGED lockCount
      PROVE  Holders = {} /\ Holders' = {p}
  <2>1. lockfile = p /\ pc[p] = "stat" /\ lockCount' = [lockCount EXCEPT ![p] = 1]
    BY <1>3 DEF Stat, Acquired
  <2>2. \A q \in Procs : ~Holds(q)
    BY <2>1 DEF Owned, Waiter
  <2> QED
    BY <2>1, <2>2
<1>4. ASSUME NEW p \in Procs, Unlock(p)
      PROVE  UNCHANGED Holders \/ (p \in Holders /\ Holders' = Holders \ {p})
  <2>1. CASE lockCount[p] = 1
    BY <1>4, <2>1 DEF Unlock
  <2>2. CASE lockCount[p] # 1
    BY <1>4, <2>2 DEF Unlock
  <2> QED
    BY <2>1, <2>2
<1>5. ASSUME NEW p \in Procs, End(p)
      PROVE  UNCHANGED Holders \/ (p \in Holders /\ Holders' = Holders \ {p})
  BY <1>5 DEF End
<1>6. ASSUME NEW p \in Procs,
             Link(p) \/ ReadOwner(p) \/ CheckPid(p) \/ BreakLock(p) \/ Sleep(p) \/ Start(p)
      PROVE  UNCHANGED lockCount
  BY <1>6 DEF Link, ReadOwner, CheckPid, BreakLock, Sleep, Start
<1> QED
  BY <1>1, <1>2, <1>3, <1>4, <1>5, <1>6 DEF Next, InLock, vars

(* Two processes implement the abstract lock even if they end at any point,
   and so does any number of processes that do not end. *)
THEOREM ImplementsLock == Safe /\ Spec => LockSpec
<1>1. Init => Abstract!Init
  BY DEF Init, Abstract!Init, Holds
<1>2. LockInv /\ LockInv' /\ Owned /\ [Next]_vars => [Abstract!Next]_(Holders)
  BY StepRefines DEF Abstract!Next, Abstract!Acquire, Abstract!Release, Holders
<1> QED
  BY <1>1, <1>2, SafeInvariant, LockInvariant, PTL
     DEF Spec, LockSpec, Abstract!Spec, Holders
=============================================================================
