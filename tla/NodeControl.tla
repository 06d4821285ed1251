----------------------------- MODULE NodeControl ----------------------------
(***************************************************************************)
(* ZeekControl's Controller (control.py): start, stop, cleanup, status and *)
(* the watch part of cron, with the restart of zeekctl.py, over the node   *)
(* state of node.py.  One zeekctl process runs at a time (see LockFile).   *)
(*                                                                         *)
(* A command handles its nodes group by group, and a group in phases; each *)
(* phase runs one helper on every node it concerns, in parallel.  Between  *)
(* any two steps Zeek processes go on, and zeekctl itself may be killed:   *)
(* its lists are lost then, and what it has written to the state database  *)
(* (expect, pid, crashed) remains.                                         *)
(***************************************************************************)
EXTENDS ZeekProcess, Sequences

CONSTANTS
  Rank,       \* position of a node's type: logger, manager, proxy, worker
  StartTries, \* polls of .status after starting (3)
  StopTries,  \* polls of .status after SIGTERM (option stoptimeout, 60)
  FinalTries, \* further checks that a stopped node has disappeared (10)
  Faults,     \* the helpers whose failure or lost answer is considered
  CtlDies,    \* may zeekctl be killed during a command?
  SlowBoot    \* may Zeek take longer to write .status than the polls last?

Helpers == {"check-pid", "start", "first-line", "stop", "kill", "post-terminate",
            "cleanup"}

ASSUME ControlAssumption ==
  /\ Rank \in [Nodes -> 1 .. 4]
  /\ StartTries \in Nat \ {0} /\ StopTries \in Nat \ {0} /\ FinalTries \in Nat
  /\ Faults \subseteq Helpers
  /\ CtlDies \in BOOLEAN /\ SlowBoot \in BOOLEAN

VARIABLES
  expect, pid, crashed,   \* state database: expect-running, pid (0: None), crashed
  op,         \* the command being executed, or "idle"
  agenda,     \* what follows it: restart and cron are sequences of commands
  targets,    \* its nodes
  togo,       \* those in groups not yet handled
  phase,      \* the phase of the current group
  mark,       \* the list of the current group a node is in
  result,     \* the CmdResult entry of a node, if any
  tries       \* rounds done of the polling loop

db == <<expect, pid, crashed>>
ctl == <<op, agenda, targets, togo, tries>>     \* what a step on one node keeps
vars == <<world, db, ctl, phase, mark, result>>

NoPid == 0

Marks == {"out", "in", "skip", "live", "down", "up", "recorded", "todo", "alive",
          "dead", "unknown", "reached", "missed", "kill", "again", "gone"}
Phases == {"idle", "expect", "group", "isrunning", "report", "launch", "record",
           "ensure", "poll", "read", "hang", "sigterm", "postwait", "kill",
           "gone", "post", "clean", "done"}
Ops == {"start", "stop", "cleanup", "status", "cron"}

TypeOK ==
  /\ WorldTypeOK
  /\ expect \in [Nodes -> BOOLEAN] /\ crashed \in [Nodes -> BOOLEAN]
  /\ pid \in [Nodes -> Pids \cup {NoPid}]
  /\ op \in Ops \cup {"idle"} /\ phase \in Phases
  /\ agenda \in Seq([op : Ops, nodes : SUBSET Nodes, ifok : BOOLEAN])
  /\ targets \in SUBSET Nodes /\ togo \in SUBSET Nodes
  /\ mark \in [Nodes -> Marks] /\ result \in [Nodes -> {"none", "ok", "fail"}]
  /\ tries \in Nat

Init ==
  /\ WorldInit
  /\ expect = [n \in Nodes |-> FALSE]
  /\ pid = [n \in Nodes |-> NoPid]
  /\ crashed = [n \in Nodes |-> FALSE]
  /\ op = "idle" /\ agenda = <<>> /\ targets = {} /\ togo = {} /\ phase = "idle"
  /\ mark = [n \in Nodes |-> "out"]
  /\ result = [n \in Nodes |-> "none"]
  /\ tries = 0

-----------------------------------------------------------------------------
(* Node state and results.                                                 *)

setPID(n, p) == pid' = [pid EXCEPT ![n] = p]
clearPID(n) == pid' = [pid EXCEPT ![n] = NoPid]
setCrashed(n) == crashed' = [crashed EXCEPT ![n] = TRUE]
clearCrashed(n) == crashed' = [crashed EXCEPT ![n] = FALSE]

Moves(n, m) == mark' = [mark EXCEPT ![n] = m]
Results(n, r) == result' = [result EXCEPT ![n] = r]

ResultsOk == \A n \in Nodes : result[n] # "fail"

Fault(helper) == helper \in Faults

(* Mutant: cleanup takes the working directories of all nodes. *)
ListsCleanAll ==
  [expect |-> {"in"}, isrunning |-> {"in"}, launch |-> {"down"}, record |-> {"up"},
   ensure |-> {"recorded"}, poll |-> {"todo"}, read |-> {"alive", "dead", "unknown"},
   hang |-> {"missed", "reached"}, sigterm |-> {"live"}, postwait |-> {"missed"},
   kill |-> {"kill"}, gone |-> {"reached"}, clean |-> {"down", "live"},
   report |-> IF op = "start" THEN {"down"} ELSE Marks \ {"out"},
   post |-> {"gone"}]

(* The nodes a phase still has to handle, by the list they are in.         *)
Lists ==
  [expect |-> {"in"}, isrunning |-> {"in"}, launch |-> {"down"}, record |-> {"up"},
   ensure |-> {"recorded"}, poll |-> {"todo"}, read |-> {"alive", "dead", "unknown"},
   hang |-> {"missed", "reached"}, sigterm |-> {"live"}, postwait |-> {"missed"},
   kill |-> {"kill"}, gone |-> {"reached"}, clean |-> {"down"},
   report |-> IF op = "start" THEN {"down"} ELSE Marks \ {"out"},
   post |-> {"gone"}]

Pending ==
  {n \in Nodes :
    /\ phase \in DOMAIN Lists /\ mark[n] \in Lists[phase]
    /\ phase = "report" => crashed[n]
    /\ phase = "post" => ~crashed[n]}

In(ph, n) == phase = ph /\ n \in Pending

-----------------------------------------------------------------------------
(* Commands.                                                               *)

Begin(o, ns) ==
  /\ op' = o /\ targets' = ns
  /\ togo' = IF o \in {"start", "stop"} THEN ns ELSE {}
  /\ phase' = IF o \in {"start", "stop"} THEN "expect" ELSE "isrunning"
  /\ mark' = [n \in Nodes |-> IF n \in ns THEN "in" ELSE "out"]
  /\ result' = [n \in Nodes |-> "none"]
  /\ tries' = 0

Rest == /\ op' = "idle" /\ agenda' = <<>> /\ targets' = {} /\ togo' = {}
        /\ phase' = "idle" /\ tries' = 0
        /\ mark' = [n \in Nodes |-> "out"]
        /\ result' = [n \in Nodes |-> "none"]

Then(o, ns) == [op |-> o, nodes |-> ns, ifok |-> TRUE]

Command(o, ns) ==
  op = "idle" /\ ns # {} /\ Begin(o, ns) /\ agenda' = <<>> /\ UNCHANGED <<world, db>>

(* restart, and deploy once its check and install went well: stop, then --
   only if that succeeded -- start; with --clean there is a cleanup between. *)
Restart(ns, clean) ==
  /\ op = "idle" /\ ns # {}
  /\ Begin("stop", ns)
  /\ agenda' = IF clean THEN <<Then("cleanup", ns), Then("start", ns)>>
                        ELSE <<Then("start", ns)>>
  /\ UNCHANGED <<world, db>>

(* cron: look at all nodes, then start and stop those that differ from what
   is expected. *)
Cron == Command("cron", Nodes)

Each(o, ns) == IF ns = {} THEN <<>> ELSE <<[op |-> o, nodes |-> ns, ifok |-> FALSE]>>

ToStart == {n \in Nodes : mark[n] = "down" /\ expect[n]}
ToStop == {n \in Nodes : mark[n] = "live" /\ ~expect[n]}

(* Mutants: cron restarts nodes marked as crashed only; it stops nothing. *)
EndCronCrashedOnly ==
  /\ op = "cron" /\ phase = "isrunning" /\ Pending = {}
  /\ agenda' = Each("start", {n \in ToStart : crashed[n]}) \o Each("stop", ToStop)
  /\ phase' = "done"
  /\ UNCHANGED <<world, db, op, targets, togo, tries, mark, result>>

EndCronNoStops ==
  /\ op = "cron" /\ phase = "isrunning" /\ Pending = {}
  /\ agenda' = Each("start", ToStart)
  /\ phase' = "done"
  /\ UNCHANGED <<world, db, op, targets, togo, tries, mark, result>>

EndCron ==
  /\ op = "cron" /\ phase = "isrunning" /\ Pending = {}
  /\ agenda' = Each("start", ToStart) \o Each("stop", ToStop)
  /\ phase' = "done"
  /\ UNCHANGED <<world, db, op, targets, togo, tries, mark, result>>

(* A command returns to its caller: the next one of a restart or cron, or
   the end.  After cleanup, check and install may fail as well. *)
Finish ==
  /\ phase = "done"
  /\ \/ /\ agenda # <<>> /\ (Head(agenda).ifok => ResultsOk)
        /\ Begin(Head(agenda).op, Head(agenda).nodes)
        /\ agenda' = Tail(agenda)
     \/ /\ \/ agenda = <<>>
           \/ agenda # <<>> /\ Head(agenda).ifok /\ ~ResultsOk
           \/ op = "cleanup"
        /\ Rest
  /\ UNCHANGED <<world, db>>

(* Killed by a signal, or stopped by an exception. *)
Die == CtlDies /\ op # "idle" /\ Rest /\ UNCHANGED <<world, db>>

-----------------------------------------------------------------------------
(* start() and stop(): the groups.                                         *)

SetExpect(n) ==
  /\ In("expect", n)
  /\ expect' = [expect EXCEPT ![n] = (op = "start")]
  /\ Moves(n, "out")
  /\ UNCHANGED <<world, pid, crashed, ctl, phase, result>>

(* Mutant: stopping in the order of starting. *)
NextGroupSameOrder == {n \in togo : \A k \in togo : Rank[n] <= Rank[k]}

(* The next group: loggers first when starting, workers first when stopping. *)
NextGroup ==
  {n \in togo : \A k \in togo : IF op = "start" THEN Rank[n] <= Rank[k]
                                                ELSE Rank[n] >= Rank[k]}

BeginGroup ==
  /\ phase = "group" /\ togo # {} /\ ResultsOk
  /\ mark' = [n \in Nodes |-> IF n \in NextGroup THEN "in" ELSE "out"]
  /\ togo' = togo \ NextGroup
  /\ phase' = "isrunning" /\ tries' = 0
  /\ UNCHANGED <<world, db, op, agenda, targets, result>>

(* No group is left, or the last one failed: then the rest fails as well. *)
EndGroups ==
  /\ phase = "group" /\ (togo = {} \/ ~ResultsOk)
  /\ result' = [n \in Nodes |-> IF n \in togo THEN "fail" ELSE result[n]]
  /\ togo' = {} /\ phase' = "done"
  /\ UNCHANGED <<world, db, op, agenda, targets, tries, mark>>

(* Mutant: start sends no crash reports. *)
FlowNoReport ==
  [start |-> [expect |-> "group", isrunning |-> "launch", launch |-> "record",
              record |-> "ensure", ensure |-> "poll", poll |-> "read", hang |-> "group"],
   stop |-> [expect |-> "group", isrunning |-> "report", report |-> "sigterm",
             sigterm |-> "poll", poll |-> "read", postwait |-> "kill", kill |-> "gone",
             post |-> "group"],
   cleanup |-> [isrunning |-> "clean", clean |-> "done"],
   status |-> [isrunning |-> "done"]]

(* The phases that follow each other whatever the outcome. *)
Flow ==
  [start |-> [expect |-> "group", isrunning |-> "report", report |-> "launch",
              launch |-> "record", record |-> "ensure", ensure |-> "poll",
              poll |-> "read", hang |-> "group"],
   stop |-> [expect |-> "group", isrunning |-> "report", report |-> "sigterm",
             sigterm |-> "poll", poll |-> "read", postwait |-> "kill", kill |-> "gone",
             post |-> "group"],
   cleanup |-> [isrunning |-> "clean", clean |-> "done"],
   status |-> [isrunning |-> "done"]]

NextPhase ==
  /\ Pending = {}
  /\ op \in DOMAIN Flow /\ phase \in DOMAIN Flow[op] /\ phase' = Flow[op][phase]
  /\ UNCHANGED <<world, db, ctl, mark, result>>

-----------------------------------------------------------------------------
(* _isrunning() on one node: no PID, or the answer of check-pid.  A process *)
(* that is not running any more is marked as crashed.                      *)

(* Mutants: the PID of a process that has gone stays on record; a node that
   check-pid did not answer for counts as not running. *)
IsRunningKeepsPid(n, yes, no, unknown) ==
  \/ pid[n] = NoPid /\ Moves(n, no) /\ UNCHANGED db
  \/ pid[n] # NoPid /\ Alive(n, pid[n]) /\ Moves(n, yes) /\ UNCHANGED db
  \/ /\ pid[n] # NoPid /\ ~Alive(n, pid[n]) /\ Moves(n, no)
     /\ setCrashed(n) /\ UNCHANGED <<expect, pid>>
  \/ pid[n] # NoPid /\ Fault("check-pid") /\ Moves(n, unknown) /\ UNCHANGED db

IsRunningGuesses(n, yes, no, unknown) ==
  \/ pid[n] = NoPid /\ Moves(n, no) /\ UNCHANGED db
  \/ pid[n] # NoPid /\ Alive(n, pid[n]) /\ Moves(n, yes) /\ UNCHANGED db
  \/ /\ pid[n] # NoPid /\ ~Alive(n, pid[n]) /\ Moves(n, no)
     /\ clearPID(n) /\ setCrashed(n) /\ UNCHANGED expect
  \/ pid[n] # NoPid /\ Fault("check-pid") /\ Moves(n, no) /\ UNCHANGED db

IsRunning(n, yes, no, unknown) ==
  \/ pid[n] = NoPid /\ Moves(n, no) /\ UNCHANGED db
  \/ pid[n] # NoPid /\ Alive(n, pid[n]) /\ Moves(n, yes) /\ UNCHANGED db
  \/ /\ pid[n] # NoPid /\ ~Alive(n, pid[n]) /\ Moves(n, no)
     /\ clearPID(n) /\ setCrashed(n) /\ UNCHANGED expect
  \/ pid[n] # NoPid /\ Fault("check-pid") /\ Moves(n, unknown) /\ UNCHANGED db

(* Mutant: a node found running is counted by stop() at once. *)
AnsweredTooEarly ==
  IF op = "stop" THEN {"down", "live"}
  ELSE IF op = "cleanup" THEN {"live", "skip"}
  ELSE IF op = "status" THEN {"live", "down"} ELSE {}

(* The first phase of a group.  stop() counts a node that is down as stopped,
   cleanup() one that it has to leave alone as done. *)
Answered ==
  IF op = "stop" THEN {"down"}
  ELSE IF op = "cleanup" THEN {"live", "skip"}
  ELSE IF op = "status" THEN {"live", "down"} ELSE {}

CheckRunning(n) ==
  /\ In("isrunning", n)
  /\ IsRunning(n, "live", "down", "skip")
  /\ IF mark'[n] \in Answered THEN Results(n, "ok") ELSE UNCHANGED result
  /\ UNCHANGED <<world, ctl, phase>>

(* _waitforzeeks(..., ensurerunning=True) after the start. *)
EnsureRunning(n) ==
  /\ In("ensure", n)
  /\ IsRunning(n, "todo", "missed", "skip")
  /\ UNCHANGED <<world, ctl, phase, result>>

(* stop(): a node that has not reported its termination. *)
CheckShutdown(n) ==
  /\ In("postwait", n)
  /\ IsRunning(n, "kill", "reached", "reached")
  /\ UNCHANGED <<world, ctl, phase, result>>

(* zeekctl is killed between clearPID() and setCrashed(). *)
DieMarking(n) ==
  /\ CtlDies /\ n \in Pending /\ phase \in {"isrunning", "ensure", "postwait"}
  /\ pid[n] # NoPid /\ ~Alive(n, pid[n])
  /\ clearPID(n) /\ Rest
  /\ UNCHANGED <<world, expect, crashed>>

(* _make_crash_reports(): post-terminate moves the directory away, or fails;
   the mark is cleared in any case. *)
CrashReport(n) ==
  /\ In("report", n)
  /\ \/ FreshDir(n)
     \/ Fault("post-terminate") /\ UNCHANGED world
  /\ clearCrashed(n)
  /\ UNCHANGED <<expect, pid, ctl, phase, mark, result>>

-----------------------------------------------------------------------------
(* Starting.                                                               *)

(* mkdirs and the start helper: a process is started; or nothing is, and an
   error reported; or the answer gets lost, and with it the PID. *)
Launched(n) ==
  /\ In("launch", n)
  /\ \E p \in Pids : Spawn(n, p)
  /\ Moves(n, "up")
  /\ UNCHANGED <<status, db, ctl, phase, result>>

LaunchFailed(n) ==
  /\ In("launch", n)
  /\ UNCHANGED procs \/ (Fault("start") /\ \E p \in Pids : Spawn(n, p))
  /\ Moves(n, "skip") /\ Results(n, "fail")
  /\ UNCHANGED <<status, db, ctl, phase>>

Launch(n) == Launched(n) \/ LaunchFailed(n)

(* setPID() for those that reported a PID. *)
Record(n) ==
  /\ In("record", n)
  /\ \E p \in Pids : IsNewest(n, p) /\ setPID(n, p)
  /\ Moves(n, "recorded")
  /\ UNCHANGED <<world, expect, crashed, ctl, phase, result>>

(* _waitforzeeks(), one round: first check-pid on all nodes, then their
   .status files. *)
Poll(n) ==
  /\ In("poll", n)
  /\ \/ Moves(n, IF Alive(n, pid[n]) THEN "alive" ELSE "dead")
     \/ pid[n] # NoPid /\ Fault("check-pid") /\ Moves(n, "unknown")
  /\ UNCHANGED <<world, db, ctl, phase, result>>

Wanted == IF op = "start" THEN "RUNNING" ELSE "TERMINATED"

Undecided(n) == IF mark[n] = "dead" THEN "missed" ELSE "todo"

(* Timing assumption, unless SlowBoot: a process has written .status by the
   time it is read. *)
Booted(n) == SlowBoot \/ \A p \in Pids : procs[n][p] # "boot"

ReadStatus(n) ==
  /\ In("read", n) /\ Booted(n)
  /\ \/ status[n] = Wanted /\ Moves(n, "reached")
     \/ status[n] = "blank" /\ Moves(n, "missed")
     \/ status[n] \notin {Wanted, "blank"} /\ Moves(n, Undecided(n))
     \/ Fault("first-line") /\ Moves(n, Undecided(n))
  /\ UNCHANGED <<world, db, ctl, phase, result>>

MaxTries == IF op = "start" THEN StartTries ELSE StopTries

EndRound ==
  /\ phase = "read" /\ Pending = {}
  /\ \/ /\ \E n \in Nodes : mark[n] = "todo"
        /\ tries + 1 < MaxTries
        /\ tries' = tries + 1 /\ phase' = "poll"
        /\ UNCHANGED mark
     \/ /\ (\A n \in Nodes : mark[n] # "todo") \/ tries + 1 = MaxTries
        /\ mark' = [n \in Nodes |-> IF mark[n] = "todo" THEN "missed" ELSE mark[n]]
        /\ phase' = IF op = "start" THEN "hang" ELSE "postwait"
        /\ tries' = 0
  /\ UNCHANGED <<world, db, op, agenda, targets, togo, result>>

(* Mutant: a node that has not reached RUNNING in time is given up. *)
CheckHangingGivesUp(n) ==
  /\ In("hang", n) /\ Booted(n)
  /\ Moves(n, "skip")
  /\ \/ mark[n] = "missed" /\ clearPID(n) /\ Results(n, "fail")
     \/ mark[n] = "reached" /\ Results(n, "ok") /\ UNCHANGED pid
  /\ UNCHANGED <<world, expect, crashed, ctl, phase>>

(* A node that has not reached RUNNING is given up only if .status says that
   it has TERMINATED; otherwise it counts as "still initializing". *)
CheckHanging(n) ==
  /\ In("hang", n) /\ Booted(n)
  /\ Moves(n, "skip")
  /\ \/ /\ mark[n] = "missed" /\ status[n] = "TERMINATED"
        /\ clearPID(n) /\ Results(n, "fail")
     \/ /\ mark[n] = "missed" => status[n] # "TERMINATED" \/ Fault("first-line")
        /\ Results(n, "ok") /\ UNCHANGED pid
  /\ UNCHANGED <<world, expect, crashed, ctl, phase>>

-----------------------------------------------------------------------------
(* Stopping and cleaning up.                                               *)

(* kill -15: fails if the process has gone, and without permission. *)
SigTerm(n) ==
  /\ In("sigterm", n)
  /\ \/ Alive(n, pid[n]) /\ Moves(n, "todo") /\ UNCHANGED result
     \/ /\ ~Alive(n, pid[n]) \/ Fault("stop")
        /\ Moves(n, "skip") /\ Results(n, "fail")
  /\ UNCHANGED <<world, db, ctl, phase>>

(* kill -9; nobody looks at the answer. *)
SigKill(n) ==
  /\ In("kill", n)
  /\ Killed(n, pid[n]) \/ (Fault("kill") /\ UNCHANGED procs)
  /\ Moves(n, "reached")
  /\ UNCHANGED <<status, db, ctl, phase, result>>

(* The last loop of stop(): has the process disappeared? *)
CheckGone(n) ==
  /\ In("gone", n)
  /\ \/ ~Alive(n, pid[n]) /\ Moves(n, "gone") /\ Results(n, "ok")
     \/ /\ Alive(n, pid[n]) \/ (pid[n] # NoPid /\ Fault("check-pid"))
        /\ Moves(n, "again") /\ UNCHANGED result
  /\ UNCHANGED <<world, db, ctl, phase>>

EndGone ==
  /\ phase = "gone" /\ Pending = {}
  /\ \/ /\ \E n \in Nodes : mark[n] = "again"
        /\ tries < FinalTries
        /\ mark' = [n \in Nodes |-> IF mark[n] = "again" THEN "reached" ELSE mark[n]]
        /\ tries' = tries + 1
        /\ UNCHANGED <<phase, result>>
     \/ /\ (\A n \in Nodes : mark[n] # "again") \/ tries = FinalTries
        /\ result' = [n \in Nodes |-> IF mark[n] = "again" THEN "fail" ELSE result[n]]
        /\ phase' = "post" /\ tries' = 0
        /\ UNCHANGED mark
  /\ UNCHANGED <<world, db, op, agenda, targets, togo>>

(* post-terminate for a node that ended without crashing. *)
PostTerminate(n) ==
  /\ In("post", n)
  /\ FreshDir(n) \/ (Fault("post-terminate") /\ UNCHANGED world)
  /\ clearPID(n) /\ clearCrashed(n) /\ Moves(n, "skip")
  /\ UNCHANGED <<expect, ctl, phase, result>>

(* cleanup() of a node that is not running. *)
CleanUp(n) ==
  /\ In("clean", n)
  /\ \/ FreshDir(n) /\ Results(n, "ok")
     \/ Fault("cleanup") /\ UNCHANGED world /\ Results(n, "fail")
  /\ clearCrashed(n) /\ Moves(n, "skip")
  /\ UNCHANGED <<expect, pid, ctl, phase>>

-----------------------------------------------------------------------------
OnNode(n) ==
  \/ SetExpect(n) \/ CheckRunning(n) \/ CrashReport(n) \/ Launch(n) \/ Record(n)
  \/ EnsureRunning(n) \/ Poll(n) \/ ReadStatus(n) \/ CheckHanging(n) \/ SigTerm(n)
  \/ CheckShutdown(n) \/ SigKill(n) \/ CheckGone(n) \/ PostTerminate(n) \/ CleanUp(n)

Go == \/ \E n \in Nodes : OnNode(n)
      \/ BeginGroup \/ EndGroups \/ NextPhase \/ EndRound \/ EndGone \/ EndCron \/ Finish

Killing == Die \/ \E n \in Nodes : DieMarking(n)

Operator ==
  \E ns \in SUBSET Nodes :
    \/ \E o \in {"start", "stop", "cleanup", "status"} : Command(o, ns)
    \/ \E clean \in BOOLEAN : Restart(ns, clean)

Zeek == ZeekStep /\ UNCHANGED <<db, ctl, phase, mark, result>>

Next == Operator \/ Cron \/ Go \/ Killing \/ Zeek

Spec == Init /\ [][Next]_vars

(* zeekctl goes on, cron comes back, the start helper does not fail for ever,
   and a Zeek process initializes and exits. *)
Fairness ==
  /\ WF_vars(Go) /\ SF_vars(Cron)
  /\ \A n \in Nodes : SF_vars(Launched(n))
  /\ \A n \in Nodes, p \in Pids :
       WF_vars(Progress(n, p) /\ UNCHANGED <<db, ctl, phase, mark, result>>)

FairSpec == Spec /\ Fairness

-----------------------------------------------------------------------------
(* Properties.                                                             *)

(* A node marked as crashed has no PID: what stop() and start() do to crashed
   nodes -- a crash report that moves the working directory away -- never
   hits a node that ZeekControl takes for running. *)
CrashedHasNoPid == \A n \in Nodes : crashed[n] => pid[n] = NoPid

(* Every Zeek process that is not about to exit is the one the database names,
   or has just been launched by the command that is going to record it. *)
NoOrphan ==
  \A n \in Nodes, p \in Pids :
    Serving(n, p) => pid[n] = p \/ (mark[n] = "up" /\ IsNewest(n, p))

(* The working directory of a live Zeek process is not moved away, removed
   or emptied by post-terminate and cleanup. *)
NoLostDirectory == \A n \in Nodes, p \in Pids : procs[n][p] # "lost"

(* A node that stop reports as stopped has no Zeek process. *)
StoppedIsDown == op = "stop" => \A n \in Nodes : result[n] = "ok" => ~Up(n)

(* Nodes that depend on others are started after them and stopped before them:
   when stop signals a node, every node of the command that it stops earlier
   (workers before proxies before the manager before loggers) is down; when
   start launches one, every node that it starts earlier has a PID, or is known
   to have crashed since; and restart starts its nodes only when all are down. *)
NodeOrder ==
  [][/\ \A n \in Nodes :
          /\ phase = "sigterm" /\ mark[n] = "live" /\ mark'[n] = "todo" =>
               \A k \in targets : Rank[k] > Rank[n] => ~Up(k)
          /\ procs'[n] # procs[n] /\ In("launch", n) /\ ~In("launch", n)' =>
               \A k \in targets : Rank[k] < Rank[n] => pid[k] # NoPid \/ crashed[k]
     /\ op = "stop" /\ op' = "start" => \A n \in targets' : ~Up(n)]_vars

(* The PID on record is that of the process started last: a Zeek process that
   ZeekControl knows of is never superseded by another one. *)
RecordsNewest == \A n \in Nodes : pid[n] # NoPid => IsNewest(n, pid[n])

(* cron (with its watch): a node that should run is started, and a node that
   should not -- a stop failed halfway -- is stopped. *)
WatchStarts ==
  \A n \in Nodes :
    expect[n] /\ ~Up(n) ~> Up(n) \/ ~expect[n] \/ \E k \in Nodes : Unborn(k) = {}

WatchStops ==
  \A n \in Nodes :
    ~expect[n] /\ pid[n] # NoPid ~> pid[n] = NoPid \/ expect[n]

(* What ZeekControl believes of a node changes as in NodeLifecycle. *)
View ==
  [n \in Nodes |-> IF pid[n] # NoPid THEN <<"running", pid[n]>>
                   ELSE IF crashed[n] THEN <<"crashed">> ELSE <<"stopped">>]
Lifecycle == INSTANCE NodeLifecycle WITH view <- View
LifecycleSpec == Lifecycle!Spec
=============================================================================
