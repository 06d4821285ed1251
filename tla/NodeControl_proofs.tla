-------------------------- MODULE NodeControl_proofs -------------------------
(***************************************************************************)
(* What the Controller guarantees for any nodes, with Zeek processes that  *)
(* crash: of its database, with any helper failing and zeekctl killed at   *)
(* any point; of the processes and the order of the nodes, as long as the  *)
(* start helper answers and zeekctl is not killed.                         *)
(***************************************************************************)
EXTENDS NodeControl, TLAPS

Step == [op : Ops, nodes : SUBSET Nodes, ifok : BOOLEAN]

LEMMA WorldType ==
  ASSUME WorldTypeOK, ZeekStep PROVE WorldTypeOK'
<1> USE DEF WorldTypeOK, Becomes, Writes, Live
<1> PICK n \in Nodes, p \in Pids : Progress(n, p) \/ Terminate(n, p) \/ Crash(n, p)
  BY DEF ZeekStep
<1>1. CASE Progress(n, p)
  <2>1. CASE Initialize(n, p)
    BY <2>1 DEF Initialize
  <2>2. CASE EnterNetRun(n, p)
    BY <2>2 DEF EnterNetRun
  <2>3. CASE Exit(n, p)
    BY <2>3 DEF Exit
  <2> QED BY <1>1, <2>1, <2>2, <2>3 DEF Progress
<1>2. CASE Terminate(n, p)
  BY <1>2 DEF Terminate
<1>3. CASE Crash(n, p)
  BY <1>3 DEF Crash
<1> QED BY <1>1, <1>2, <1>3

LEMMA ScriptType ==
  ASSUME WorldTypeOK, NEW n \in Nodes, NEW p
  PROVE  /\ p \in Pids /\ Spawn(n, p) /\ UNCHANGED status => WorldTypeOK'
         /\ Killed(n, p) /\ UNCHANGED status => WorldTypeOK'
         /\ FreshDir(n) => WorldTypeOK'
<1> USE DEF WorldTypeOK
<1>1. p \in Pids /\ Spawn(n, p) /\ UNCHANGED status => WorldTypeOK'
  BY DEF Spawn, Becomes, Live
<1>2. Killed(n, p) /\ UNCHANGED status => WorldTypeOK'
  <2> SUFFICES ASSUME Killed(n, p), UNCHANGED status PROVE WorldTypeOK'
    OBVIOUS
  <2>1. CASE Alive(n, p)
    BY <2>1 DEF Killed, Alive
  <2>2. CASE ~Alive(n, p)
    BY <2>2 DEF Killed
  <2> QED BY <2>1, <2>2
<1>3. FreshDir(n) => WorldTypeOK'
  BY DEF FreshDir, Writes, Live
<1> QED BY <1>1, <1>2, <1>3

(* The types of the state database and of the command's own variables. *)
DbOK ==
  /\ expect \in [Nodes -> BOOLEAN] /\ crashed \in [Nodes -> BOOLEAN]
  /\ pid \in [Nodes -> Pids \cup {NoPid}]
CtlOK ==
  /\ op \in Ops \cup {"idle"} /\ phase \in Phases /\ agenda \in Seq(Step)
  /\ targets \in SUBSET Nodes /\ togo \in SUBSET Nodes /\ tries \in Nat
ListOK ==
  mark \in [Nodes -> Marks] /\ result \in [Nodes -> {"none", "ok", "fail"}]

Types == WorldTypeOK /\ DbOK /\ CtlOK /\ ListOK

LEMMA BeginType ==
  ASSUME CtlOK, ListOK, NEW o \in Ops, NEW ns \in SUBSET Nodes, Begin(o, ns), agenda' \in Seq(Step)
  PROVE  CtlOK' /\ ListOK'
BY DEF CtlOK, ListOK, Begin, Ops, Phases, Marks

LEMMA RestType ==
  ASSUME CtlOK, ListOK, Rest PROVE CtlOK' /\ ListOK'
BY DEF CtlOK, ListOK, Rest, Ops, Phases, Marks

LEMMA IsRunningType ==
  ASSUME DbOK, ListOK, NEW n \in Nodes, NEW yes \in Marks, NEW no \in Marks,
         NEW unknown \in Marks, IsRunning(n, yes, no, unknown)
  PROVE  DbOK' /\ mark' \in [Nodes -> Marks]
BY DEF DbOK, ListOK, IsRunning, Moves, clearPID, setCrashed, db, NoPid

(* A step of the controller on one node keeps all types. *)
LEMMA NodeType ==
  ASSUME Types, NEW n \in Nodes, OnNode(n) PROVE Types'
<1> USE DEF Types
<1>1. CASE SetExpect(n)
  BY <1>1 DEF SetExpect, WorldTypeOK, DbOK, CtlOK, ListOK, world, ctl, Moves, Marks
<1>2. CASE CheckRunning(n)
  <2>1. DbOK' /\ mark' \in [Nodes -> Marks]
    BY <1>2, IsRunningType, ZenonT(40) DEF CheckRunning, Marks
  <2>2. result' \in [Nodes -> {"none", "ok", "fail"}]
    BY <1>2 DEF CheckRunning, ListOK, Results
  <2> QED BY <1>2, <2>1, <2>2 DEF CheckRunning, WorldTypeOK, CtlOK, ListOK, world, ctl
<1>3. CASE EnsureRunning(n)
  <2>1. DbOK' /\ mark' \in [Nodes -> Marks]
    BY <1>3, IsRunningType DEF EnsureRunning, Marks
  <2> QED BY <1>3, <2>1 DEF EnsureRunning, WorldTypeOK, CtlOK, ListOK, world, ctl
<1>4. CASE CheckShutdown(n)
  <2>1. DbOK' /\ mark' \in [Nodes -> Marks]
    BY <1>4, IsRunningType DEF CheckShutdown, Marks
  <2> QED BY <1>4, <2>1 DEF CheckShutdown, WorldTypeOK, CtlOK, ListOK, world, ctl
<1>5. CASE CrashReport(n)
  <2>1. WorldTypeOK'
    BY <1>5, ScriptType DEF CrashReport, world, WorldTypeOK
  <2> QED BY <1>5, <2>1 DEF CrashReport, DbOK, CtlOK, ListOK, ctl, clearCrashed
<1>6. CASE Launch(n)
  <2>1. WorldTypeOK'
    BY <1>6, ScriptType DEF Launch, Launched, LaunchFailed, WorldTypeOK
  <2> QED BY <1>6, <2>1
       DEF Launch, Launched, LaunchFailed, DbOK, CtlOK, ListOK, db, ctl, Moves, Results, Marks
<1>7. CASE Record(n)
  BY <1>7 DEF Record, WorldTypeOK, DbOK, CtlOK, ListOK, world, ctl, Moves, setPID, Marks
<1>8. CASE Poll(n)
  BY <1>8 DEF Poll, WorldTypeOK, DbOK, CtlOK, ListOK, world, db, ctl, Moves, Marks
<1>9. CASE ReadStatus(n)
  <2>1. Undecided(n) \in Marks
    BY DEF Undecided, Marks
  <2>2. mark' \in [Nodes -> Marks]
    BY <1>9, <2>1 DEF ReadStatus, ListOK, Moves, Marks
  <2> QED BY <1>9, <2>2 DEF ReadStatus, WorldTypeOK, DbOK, CtlOK, ListOK, world, db, ctl
<1>10. CASE CheckHanging(n)
  BY <1>10 DEF CheckHanging, WorldTypeOK, DbOK, CtlOK, ListOK, world, ctl, Moves, Results,
               clearPID, Marks
<1>11. CASE SigTerm(n)
  BY <1>11 DEF SigTerm, WorldTypeOK, DbOK, CtlOK, ListOK, world, db, ctl, Moves, Results, Marks
<1>12. CASE SigKill(n)
  <2>1. WorldTypeOK'
    BY <1>12, ScriptType DEF SigKill, WorldTypeOK
  <2> QED BY <1>12, <2>1 DEF SigKill, DbOK, CtlOK, ListOK, db, ctl, Moves, Marks
<1>13. CASE CheckGone(n)
  BY <1>13 DEF CheckGone, WorldTypeOK, DbOK, CtlOK, ListOK, world, db, ctl, Moves, Results, Marks
<1>14. CASE PostTerminate(n)
  <2>1. WorldTypeOK'
    BY <1>14, ScriptType DEF PostTerminate, world, WorldTypeOK
  <2> QED BY <1>14, <2>1 DEF PostTerminate, DbOK, CtlOK, ListOK, ctl, Moves, clearPID,
                             clearCrashed, Marks
<1>15. CASE CleanUp(n)
  <2>1. WorldTypeOK'
    BY <1>15, ScriptType DEF CleanUp, world, WorldTypeOK
  <2> QED BY <1>15, <2>1 DEF CleanUp, DbOK, CtlOK, ListOK, ctl, Moves, Results,
                             clearCrashed, Marks
<1> QED
  BY <1>1, <1>2, <1>3, <1>4, <1>5, <1>6, <1>7, <1>8, <1>9, <1>10, <1>11, <1>12, <1>13,
     <1>14, <1>15 DEF OnNode

(* Every step keeps all types. *)
LEMMA TypeStep ==
  ASSUME Types, [Next]_vars PROVE Types'
<1> USE DEF Types
<1>1. CASE UNCHANGED vars
  BY <1>1 DEF vars, world, db, ctl, WorldTypeOK, DbOK, CtlOK, ListOK
<1>2. ASSUME NEW n \in Nodes, OnNode(n) PROVE Types'
  BY <1>2, NodeType DEF Types
<1>3. CASE BeginGroup
  BY <1>3 DEF BeginGroup, NextGroup, world, db, WorldTypeOK, DbOK, CtlOK, ListOK, Marks, Phases
<1>4. CASE EndGroups
  BY <1>4 DEF EndGroups, world, db, WorldTypeOK, DbOK, CtlOK, ListOK, Phases
<1>5. CASE NextPhase
  <2>1. phase' \in Phases
    BY <1>5 DEF NextPhase, Flow, Phases
  <2> QED
    BY <1>5, <2>1 DEF NextPhase, world, db, ctl, WorldTypeOK, DbOK, CtlOK, ListOK
<1>6. CASE EndRound
  BY <1>6 DEF EndRound, world, db, WorldTypeOK, DbOK, CtlOK, ListOK, Marks, Phases
<1>7. CASE EndGone
  BY <1>7 DEF EndGone, world, db, WorldTypeOK, DbOK, CtlOK, ListOK, Marks, Phases
<1>8. CASE EndCron
  <2>1. agenda' \in Seq(Step)
    <3>1. ToStart \in SUBSET Nodes /\ ToStop \in SUBSET Nodes
      BY DEF ToStart, ToStop
    <3>2. ASSUME NEW o \in Ops, NEW ns \in SUBSET Nodes PROVE Each(o, ns) \in Seq(Step)
      <4> DEFINE s == [op |-> o, nodes |-> ns, ifok |-> FALSE]
      <4>1. s \in Step
        BY DEF Step
      <4> HIDE DEF s
      <4>2. <<s>> \in Seq(Step)
        BY <4>1
      <4> QED BY <4>2 DEF Each, s
    <3> QED BY <1>8, <3>1, <3>2 DEF EndCron, Ops
  <2> QED
    BY <1>8, <2>1 DEF EndCron, world, db, WorldTypeOK, DbOK, CtlOK, ListOK, Phases
<1>9. CASE Finish
  <2>1. WorldTypeOK' /\ DbOK'
    BY <1>9 DEF Finish, world, db, WorldTypeOK, DbOK
  <2>2. CASE Rest
    BY <2>1, <2>2, RestType
  <2>3. ASSUME agenda # <<>>, Begin(Head(agenda).op, Head(agenda).nodes), agenda' = Tail(agenda)
        PROVE  CtlOK' /\ ListOK'
    <3>1. Head(agenda) \in Step /\ Tail(agenda) \in Seq(Step)
      BY <2>3 DEF CtlOK
    <3>2. Head(agenda).op \in Ops /\ Head(agenda).nodes \in SUBSET Nodes
      BY <3>1 DEF Step
    <3> QED BY <2>3, <3>1, <3>2, BeginType
  <2> QED BY <1>9, <2>1, <2>2, <2>3 DEF Finish
<1>10. CASE Die
  BY <1>10, RestType DEF Die, world, db, WorldTypeOK, DbOK
<1>11. ASSUME NEW n \in Nodes, DieMarking(n) PROVE Types'
  <2>1. WorldTypeOK' /\ DbOK'
    BY <1>11 DEF DieMarking, world, clearPID, WorldTypeOK, DbOK
  <2> QED BY <1>11, <2>1, RestType DEF DieMarking
<1>12. ASSUME NEW ns \in SUBSET Nodes, NEW o \in Ops, Command(o, ns) PROVE Types'
  <2>1. agenda' \in Seq(Step)
    BY <1>12 DEF Command
  <2>2. CtlOK' /\ ListOK'
    BY <1>12, <2>1, BeginType DEF Command
  <2> QED BY <1>12, <2>2 DEF Command, world, db, WorldTypeOK, DbOK
<1>13. ASSUME NEW ns \in SUBSET Nodes, NEW clean \in BOOLEAN, Restart(ns, clean)
       PROVE  Types'
  <2>1. Then("cleanup", ns) \in Step /\ Then("start", ns) \in Step
    BY DEF Then, Step, Ops
  <2>2. agenda' \in Seq(Step)
    BY <1>13, <2>1 DEF Restart
  <2>3. CtlOK' /\ ListOK'
    BY <1>13, <2>2, BeginType DEF Restart, Ops
  <2> QED BY <1>13, <2>3 DEF Restart, world, db, WorldTypeOK, DbOK
<1>14. CASE Zeek
  BY <1>14, WorldType DEF Zeek, db, ctl, DbOK, CtlOK, ListOK
<1> QED
  BY <1>1, <1>2, <1>3, <1>4, <1>5, <1>6, <1>7, <1>8, <1>9, <1>10, <1>11, <1>12, <1>13, <1>14
     DEF Next, Go, Killing, Operator, Cron, Ops

(* Every variable keeps its type. *)
THEOREM TypeCorrect == Spec => []TypeOK
<1>1. Types => TypeOK
  BY DEF Types, TypeOK, DbOK, CtlOK, ListOK, Step
<1>2. Init => Types
  BY DEF Init, WorldInit, Types, WorldTypeOK, DbOK, CtlOK, ListOK, Phases, Marks, NoPid
<1> QED BY <1>1, <1>2, TypeStep, PTL DEF Spec

-----------------------------------------------------------------------------
(* A node to be launched has neither a PID nor the mark of a crash: it was   *)
(* found down, and the crash report is done before.                          *)
Launching ==
  /\ phase \in {"launch", "record"} => op = "start"
  /\ \A n \in Nodes :
       /\ phase \in {"isrunning", "report"} => mark[n] # "up"
       /\ phase \in {"isrunning", "report", "launch"} /\ mark[n] = "down" => pid[n] = NoPid
       /\ phase \in {"launch", "record"} /\ mark[n] \in {"down", "up"} =>
            pid[n] = NoPid /\ ~crashed[n]

ControlInv == Types /\ CrashedHasNoPid /\ RecordsNewest /\ Launching

(* What a step may do to the PID and the crash mark of a node. *)
Entry(n) ==
  \/ clearPID(n) /\ UNCHANGED crashed
  \/ pid[n] # NoPid /\ clearPID(n) /\ setCrashed(n)
  \/ clearCrashed(n) /\ UNCHANGED pid
  \/ ~crashed[n] /\ clearPID(n) /\ clearCrashed(n)
  \/ Record(n)

LEMMA IsRunningEntry ==
  ASSUME NEW n \in Nodes, NEW yes, NEW no, NEW unknown, IsRunning(n, yes, no, unknown)
  PROVE  UNCHANGED <<pid, crashed>> \/ Entry(n)
BY DEF IsRunning, Entry, db

LEMMA Entries ==
  ASSUME [Next]_vars PROVE UNCHANGED <<pid, crashed>> \/ \E n \in Nodes : Entry(n)
<1>1. ASSUME NEW n \in Nodes, OnNode(n) PROVE UNCHANGED <<pid, crashed>> \/ Entry(n)
  <2>1. CASE CheckRunning(n) \/ EnsureRunning(n) \/ CheckShutdown(n)
    BY <2>1, IsRunningEntry DEF CheckRunning, EnsureRunning, CheckShutdown
  <2>2. CASE CrashReport(n) \/ CheckHanging(n) \/ CleanUp(n) \/ Record(n)
    BY <2>2 DEF CrashReport, CheckHanging, CleanUp, Entry
  <2>3. CASE PostTerminate(n)
    BY <2>3 DEF PostTerminate, In, Pending, Entry
  <2>4. CASE SetExpect(n) \/ Launch(n) \/ Poll(n) \/ ReadStatus(n) \/ SigTerm(n) \/ SigKill(n)
             \/ CheckGone(n)
    BY <2>4 DEF SetExpect, Launch, Launched, LaunchFailed, Poll, ReadStatus, SigTerm, SigKill,
                CheckGone, db
  <2> QED BY <1>1, <2>1, <2>2, <2>3, <2>4 DEF OnNode
<1>2. ASSUME NEW n \in Nodes, DieMarking(n) PROVE Entry(n)
  BY <1>2 DEF DieMarking, Entry
<1>3. CASE UNCHANGED vars \/ Zeek \/ Die \/ Operator \/ Cron
  BY <1>3 DEF vars, Zeek, Die, Operator, Cron, Command, Restart, db
<1>4. CASE BeginGroup \/ EndGroups \/ NextPhase \/ EndRound \/ EndGone \/ EndCron \/ Finish
  BY <1>4 DEF BeginGroup, EndGroups, NextPhase, EndRound, EndGone, EndCron, Finish, db
<1> QED BY <1>1, <1>2, <1>3, <1>4 DEF Next, Go, Killing

LEMMA CrashedStep ==
  ASSUME ControlInv, [Next]_vars PROVE CrashedHasNoPid'
<1> USE DEF ControlInv, Types, DbOK, CrashedHasNoPid
<1>1. CASE UNCHANGED <<pid, crashed>>
  BY <1>1
<1>2. ASSUME NEW n \in Nodes, Entry(n) PROVE CrashedHasNoPid'
  <2>1. CASE Record(n)
    BY <2>1 DEF Record, In, Pending, Lists, Launching, setPID
  <2>2. CASE ~Record(n)
    BY <1>2, <2>2 DEF Entry, clearPID, setCrashed, clearCrashed
  <2> QED BY <2>1, <2>2
<1> QED BY <1>1, <1>2, Entries

(* Processes are only added for nodes to be launched.                        *)
LEMMA ZeekUnborn ==
  ASSUME WorldTypeOK, ZeekStep, NEW k \in Nodes PROVE Unborn(k)' = Unborn(k)
<1> PICK n \in Nodes, p \in Pids : Progress(n, p) \/ Terminate(n, p) \/ Crash(n, p)
  BY DEF ZeekStep
<1>1. PICK s \in {"init", "run", "term", "dead"} : Becomes(n, p, s) /\ procs[n][p] # "unborn"
  BY DEF Progress, Initialize, EnterNetRun, Exit, Terminate, Crash, Alive, Live
<1> QED BY <1>1 DEF Unborn, Becomes, WorldTypeOK

LEMMA ScriptUnborn ==
  ASSUME WorldTypeOK, NEW n \in Nodes, NEW p, Killed(n, p) \/ FreshDir(n), NEW k \in Nodes
  PROVE  Unborn(k)' = Unborn(k)
<1>1. \A q \in Pids : procs'[k][q] = "unborn" <=> procs[k][q] = "unborn"
  <2> SUFFICES ASSUME NEW q \in Pids
               PROVE  procs'[k][q] = "unborn" <=> procs[k][q] = "unborn"
    OBVIOUS
  <2>1. CASE Killed(n, p)
    BY <2>1 DEF Killed, WorldTypeOK, Alive, Live
  <2>2. CASE FreshDir(n)
    BY <2>2 DEF FreshDir, WorldTypeOK, Serving, Alive, Live
  <2> QED BY <2>1, <2>2
<1> QED BY <1>1 DEF Unborn

LEMMA Unborns ==
  ASSUME ControlInv, [Next]_vars, NEW k \in Nodes
  PROVE  Unborn(k)' = Unborn(k) \/ (pid[k] = NoPid /\ UNCHANGED pid)
<1> USE DEF ControlInv, Types
<1>1. ASSUME UNCHANGED procs PROVE Unborn(k)' = Unborn(k)
  BY <1>1 DEF Unborn
<1>2. ASSUME NEW n \in Nodes, Launch(n)
      PROVE  Unborn(k)' = Unborn(k) \/ (pid[k] = NoPid /\ UNCHANGED pid)
  <2>1. UNCHANGED procs \/ \E p \in Pids : Spawn(n, p)
    BY <1>2 DEF Launch, Launched, LaunchFailed
  <2>2. pid[n] = NoPid /\ UNCHANGED pid
    BY <1>2 DEF Launch, Launched, LaunchFailed, In, Pending, Lists, Launching, db
  <2>3. CASE k = n
    BY <2>2, <2>3
  <2>4. CASE k # n
    BY <2>1, <2>4 DEF Spawn, Becomes, Unborn, WorldTypeOK
  <2> QED BY <2>3, <2>4
<1>3. ASSUME NEW n \in Nodes, CrashReport(n) \/ PostTerminate(n) \/ CleanUp(n) \/ SigKill(n)
      PROVE  Unborn(k)' = Unborn(k)
  BY <1>1, <1>3, ScriptUnborn DEF CrashReport, PostTerminate, CleanUp, SigKill, world
<1>4. CASE Zeek
  BY <1>4, ZeekUnborn DEF Zeek
<1>5. ASSUME NEW n \in Nodes,
             \/ SetExpect(n) \/ CheckRunning(n) \/ Record(n) \/ EnsureRunning(n) \/ Poll(n)
             \/ ReadStatus(n) \/ CheckHanging(n) \/ SigTerm(n) \/ CheckShutdown(n)
             \/ CheckGone(n) \/ DieMarking(n)
      PROVE  UNCHANGED procs
  BY <1>5 DEF SetExpect, CheckRunning, Record, EnsureRunning, Poll, ReadStatus, CheckHanging,
              SigTerm, CheckShutdown, CheckGone, DieMarking, world
<1>6. CASE UNCHANGED vars \/ Die \/ Operator \/ Cron
  BY <1>1, <1>6 DEF vars, Die, Operator, Cron, Command, Restart, world
<1>7. CASE BeginGroup \/ EndGroups \/ NextPhase \/ EndRound \/ EndGone \/ EndCron \/ Finish
  BY <1>1, <1>7
     DEF BeginGroup, EndGroups, NextPhase, EndRound, EndGone, EndCron, Finish, world
<1> QED
  BY <1>1, <1>2, <1>3, <1>4, <1>5, <1>6, <1>7 DEF Next, Go, OnNode, Killing

LEMMA NewestStep ==
  ASSUME ControlInv, [Next]_vars PROVE RecordsNewest'
<1> USE DEF ControlInv, Types, DbOK
<1> SUFFICES ASSUME NEW k \in Nodes, pid'[k] # NoPid PROVE IsNewest(k, pid[k])'
  BY DEF RecordsNewest
<1>1. CASE \E n \in Nodes : Record(n)
  <2>1. UNCHANGED procs
    BY <1>1 DEF Record, world
  <2>2. IsNewest(k, pid'[k])
    BY <1>1 DEF Record, setPID, RecordsNewest
  <2> QED BY <2>1, <2>2 DEF IsNewest, Unborn
<1>2. CASE ~\E n \in Nodes : Record(n)
  <2>1. pid'[k] = pid[k]
    BY <1>2, Entries DEF Entry, clearPID
  <2>2. Unborn(k)' = Unborn(k)
    BY <2>1, Unborns
  <2> QED BY <2>1, <2>2 DEF RecordsNewest, IsNewest
<1> QED BY <1>1, <1>2

-----------------------------------------------------------------------------
LEMMA FlowFacts ==
  ASSUME op \in DOMAIN Flow, phase \in DOMAIN Flow[op]
  PROVE  /\ Flow[op][phase] = "report" => phase = "isrunning"
         /\ Flow[op][phase] = "launch" => phase = "report" /\ op = "start"
         /\ Flow[op][phase] = "record" => phase = "launch" /\ op = "start"
         /\ Flow[op][phase] # "isrunning"
<1>1. CASE op = "start"
  BY <1>1 DEF Flow
<1>2. CASE op = "stop"
  BY <1>2 DEF Flow
<1>3. CASE op = "cleanup"
  BY <1>3 DEF Flow
<1>4. CASE op = "status"
  BY <1>4 DEF Flow
<1> QED BY <1>1, <1>2, <1>3, <1>4 DEF Flow

LEMMA LaunchingStep ==
  ASSUME ControlInv, [Next]_vars PROVE Launching'
<1> USE DEF ControlInv, Types, DbOK, CtlOK, ListOK, Launching
<1>1. CASE UNCHANGED vars
  BY <1>1 DEF vars, db, ctl
<1>2. CASE Zeek
  BY <1>2 DEF Zeek, db, ctl
<1>3. ASSUME phase' \notin {"isrunning", "report", "launch", "record"} PROVE Launching'
  BY <1>3
<1>4. ASSUME NEW o, NEW ns, Begin(o, ns) PROVE Launching'
  BY <1>4 DEF Begin
<1>5. CASE Die \/ Operator \/ Cron \/ Finish
  BY <1>3, <1>4, <1>5 DEF Die, Rest, Operator, Cron, Command, Restart, Finish
<1>6. ASSUME NEW n \in Nodes, DieMarking(n) PROVE Launching'
  BY <1>3, <1>6 DEF DieMarking, Rest
<1>7. CASE BeginGroup
  BY <1>7 DEF BeginGroup
<1>8. CASE EndGroups \/ EndRound \/ EndGone \/ EndCron
  BY <1>3, <1>8 DEF EndGroups, EndRound, EndGone, EndCron
<1>9. CASE NextPhase
  <2>1. UNCHANGED <<op, mark, pid, crashed>> /\ Pending = {}
    BY <1>9 DEF NextPhase, db, ctl
  <2>2. op \in DOMAIN Flow /\ phase \in DOMAIN Flow[op] /\ phase' = Flow[op][phase]
    BY <1>9 DEF NextPhase
  <2>3. CASE phase' = "report"
    BY <2>1, <2>2, <2>3, FlowFacts
  <2>4. CASE phase' = "launch"
    <3>1. op = "start" /\ phase = "report"
      BY <2>2, <2>4, FlowFacts
    <3>2. \A n \in Nodes : mark[n] = "down" => ~crashed[n]
      BY <2>1, <3>1 DEF Pending, Lists
    <3> QED BY <2>1, <2>4, <3>1, <3>2
  <2>5. CASE phase' = "record"
    BY <2>1, <2>2, <2>5, FlowFacts
  <2>6. phase' # "isrunning"
    BY <2>2, FlowFacts
  <2> QED BY <1>3, <2>3, <2>4, <2>5, <2>6
<1>10. ASSUME NEW n \in Nodes, OnNode(n) PROVE Launching'
  <2>1. UNCHANGED <<phase, op>>
    BY <1>10 DEF OnNode, SetExpect, CheckRunning, CrashReport, Launch, Launched, LaunchFailed,
         Record, EnsureRunning, Poll, ReadStatus, CheckHanging, SigTerm, CheckShutdown, SigKill,
         CheckGone, PostTerminate, CleanUp, ctl
  <2>2. CASE CheckRunning(n)
    <3>1. phase = "isrunning"
      BY <2>2 DEF CheckRunning, In
    <3>2. mark' = [mark EXCEPT ![n] = mark'[n]] /\ mark'[n] # "up"
      BY <2>2 DEF CheckRunning, IsRunning, Moves
    <3>3. pid' = [pid EXCEPT ![n] = pid'[n]] /\ (mark'[n] = "down" => pid'[n] = NoPid)
      BY <2>2 DEF CheckRunning, IsRunning, Moves, clearPID, db, NoPid
    <3> QED BY <2>1, <3>1, <3>2, <3>3
  <2>3. CASE CrashReport(n)
    BY <2>1, <2>3 DEF CrashReport, In
  <2>4. CASE Launch(n)
    BY <2>1, <2>4 DEF Launch, Launched, LaunchFailed, In, Pending, Lists, Moves, db
  <2>5. CASE Record(n)
    BY <2>1, <2>5 DEF Record, In, Moves, setPID
  <2>6. CASE ~(CheckRunning(n) \/ CrashReport(n) \/ Launch(n) \/ Record(n))
    <3>1. phase \notin {"isrunning", "report", "launch", "record"}
      BY <1>10, <2>6 DEF OnNode, SetExpect, EnsureRunning, Poll, ReadStatus, CheckHanging,
           SigTerm, CheckShutdown, SigKill, CheckGone, PostTerminate, CleanUp, In
    <3> QED BY <1>3, <2>1, <3>1
  <2> QED BY <2>2, <2>3, <2>4, <2>5, <2>6
<1> QED
  BY <1>1, <1>2, <1>5, <1>6, <1>7, <1>8, <1>9, <1>10 DEF Next, Go, Killing

THEOREM ControlInvariant == Spec => []ControlInv
<1>1. Init => ControlInv
  BY DEF Init, WorldInit, ControlInv, Types, WorldTypeOK, DbOK, CtlOK, ListOK, CrashedHasNoPid,
         RecordsNewest, Launching, Phases, Marks, NoPid
<1>2. ControlInv /\ [Next]_vars => ControlInv'
  BY TypeStep, CrashedStep, NewestStep, LaunchingStep DEF ControlInv
<1> QED BY <1>1, <1>2, PTL DEF Spec

(* Whatever fails or is killed: a node marked as crashed has no PID, so that *)
(* its working directory may be moved away.                                  *)
THEOREM CrashedNodes == Spec => []CrashedHasNoPid
BY ControlInvariant, PTL DEF ControlInv

(* Whatever fails or is killed: no node has a process that was started after *)
(* the one ZeekControl knows, so that stop signals the newest one.           *)
THEOREM NewestRecorded == Spec => []RecordsNewest
BY ControlInvariant, PTL DEF ControlInv

(* Every step of ZeekControl is one of the life cycle of the node it         *)
(* concerns, or changes nothing that ZeekControl believes of a node.         *)
LEMMA ViewStep ==
  ASSUME ControlInv, [Next]_vars PROVE [Lifecycle!Next]_View
<1> USE DEF ControlInv, Types, DbOK
<1>1. CASE UNCHANGED <<pid, crashed>>
  BY <1>1 DEF View
<1>2. ASSUME NEW n \in Nodes, Entry(n) PROVE [Lifecycle!Next]_View
  <2> DEFINE to == View'[n]
  <2>1. View' = [View EXCEPT ![n] = to]
    BY <1>2 DEF View, Entry, Record, setPID, clearPID, setCrashed, clearCrashed
  <2>2. crashed[n] => pid[n] = NoPid
    BY DEF CrashedHasNoPid
  <2>3. CASE Record(n)
    <3>1. View[n] = <<"stopped">>
      BY <2>3 DEF Record, In, Pending, Lists, Launching, View
    <3>2. PICK p \in Pids : pid' = [pid EXCEPT ![n] = p]
      BY <2>3 DEF Record, setPID
    <3>3. to = <<"running", p>>
      BY <3>2 DEF View, NoPid, Pids
    <3> QED BY <2>1, <3>1, <3>3 DEF Lifecycle!Next, Lifecycle!Start, Lifecycle!Changes
  <2>4. CASE ~Record(n) /\ pid[n] # NoPid
    <3>1. View[n] \in Lifecycle!Running
      BY <2>4 DEF View, Lifecycle!Running
    <3>2. to \in {View[n], <<"stopped">>, <<"crashed">>}
      BY <1>2, <2>4 DEF Entry, View, clearPID, setCrashed, clearCrashed
    <3> QED BY <2>1, <3>1, <3>2
         DEF Lifecycle!Next, Lifecycle!Stop, Lifecycle!Crash, Lifecycle!Changes, View
  <2>5. CASE ~Record(n) /\ pid[n] = NoPid /\ crashed[n]
    <3>1. View[n] = <<"crashed">>
      BY <2>5 DEF View
    <3>2. to \in {<<"stopped">>, <<"crashed">>}
      BY <1>2, <2>5 DEF Entry, View, clearPID, clearCrashed
    <3> QED BY <2>1, <3>1, <3>2 DEF Lifecycle!Next, Lifecycle!Reset, Lifecycle!Changes, View
  <2>6. CASE ~Record(n) /\ pid[n] = NoPid /\ ~crashed[n]
    <3>1. to = View[n]
      BY <1>2, <2>6 DEF Entry, View, clearPID, clearCrashed
    <3> QED BY <2>1, <3>1 DEF View
  <2> QED BY <2>3, <2>4, <2>5, <2>6
<1> QED BY <1>1, <1>2, Entries

(* ZeekControl implements the life cycle of its nodes. *)
THEOREM ImplementsLifecycle == Spec => LifecycleSpec
<1>1. Init => Lifecycle!Init
  BY DEF Init, Lifecycle!Init, View
<1> QED BY <1>1, ControlInvariant, ViewStep, PTL DEF Spec, LifecycleSpec, Lifecycle!Spec

-----------------------------------------------------------------------------
(* What goes on between ZeekControl and the processes as long as the start   *)
(* helper does not fail, zeekctl is not killed and Zeek writes .status in    *)
(* time.  Any other helper may fail.                                         *)
Dependable == "start" \notin Faults /\ ~CtlDies /\ ~SlowBoot

(* .status says what the process that serves has written last. *)
StatusWritten ==
  \A n \in Nodes, p \in Pids :
    /\ procs[n][p] = "init" => status[n] = "INITIALIZING"
    /\ procs[n][p] = "run" => status[n] = "RUNNING"

(* The processes of a node are numbered in the order they were started. *)
BornInOrder ==
  \A n \in Nodes : \A p \in Unborn(n) : \A q \in Pids : p <= q => q \in Unborn(n)

(* A node is only in the list of those just launched while they are launched *)
(* and recorded, one whose process has gone has none, and one that cleanup   *)
(* takes for down has no PID.                                                *)
Listed ==
  /\ phase \in {"poll", "read"} => op \in {"start", "stop"}
  /\ phase = "hang" => op = "start"
  /\ phase \in {"sigterm", "postwait", "kill", "gone"} => op = "stop"
  /\ phase = "clean" => op = "cleanup"
  /\ \A n \in Nodes :
       /\ mark[n] = "up" => phase \in {"launch", "record"}
       /\ mark[n] = "gone" => op = "stop" /\ ~Up(n)
       /\ phase \in {"isrunning", "clean"} /\ mark[n] = "down" => pid[n] = NoPid

ProcessInv ==
  /\ ControlInv /\ NoOrphan /\ NoLostDirectory /\ StoppedIsDown
  /\ StatusWritten /\ BornInOrder /\ Listed

(* A node whose PID is gone, and that has not just been launched, is down. *)
LEMMA DownByPid ==
  ASSUME NoOrphan, NEW n \in Nodes, mark[n] # "up", ~Alive(n, pid[n]) PROVE ~Up(n)
BY DEF NoOrphan, Up, Serving

LEMMA NoPidDown ==
  ASSUME NoOrphan, NEW n \in Nodes, mark[n] # "up", pid[n] = NoPid PROVE ~Up(n)
BY DownByPid DEF Alive, Pids, NoPid

(* A node has one process that serves. *)
LEMMA OneServing ==
  ASSUME ProcessInv, NEW n \in Nodes, NEW p \in Pids, NEW q \in Pids, Serving(n, p), Serving(n, q)
  PROVE  p = q
<1>1. CASE mark[n] = "up"
  <2>1. pid[n] = NoPid
    BY <1>1 DEF ProcessInv, Listed, ControlInv, Launching
  <2>2. pid[n] # p /\ pid[n] # q
    BY <2>1 DEF NoPid, Pids
  <2>3. IsNewest(n, p) /\ IsNewest(n, q)
    BY <2>2 DEF ProcessInv, NoOrphan
  <2> QED BY <2>3 DEF IsNewest, Pids
<1>2. CASE mark[n] # "up"
  BY <1>2 DEF ProcessInv, NoOrphan
<1> QED BY <1>1, <1>2

(* Who touches the processes and .status: the start helper, for a node that  *)
(* is down; the scripts that take the working directory, of a node that is   *)
(* down; SIGKILL; and Zeek.                                                  *)
LEMMA WorldStep ==
  ASSUME Dependable, ProcessInv, [Next]_vars
  PROVE  \/ UNCHANGED world
         \/ \E n \in Nodes : Launched(n)
         \/ \E n \in Nodes : FreshDir(n) /\ ~Up(n)
         \/ \E n \in Nodes : Killed(n, pid[n]) /\ UNCHANGED status
         \/ ZeekStep
<1> USE DEF ProcessInv
<1>1. ASSUME NEW n \in Nodes, CrashReport(n) PROVE UNCHANGED world \/ (FreshDir(n) /\ ~Up(n))
  <2>1. crashed[n] /\ phase = "report"
    BY <1>1 DEF CrashReport, In, Pending
  <2>2. pid[n] = NoPid /\ mark[n] # "up"
    BY <2>1 DEF ControlInv, CrashedHasNoPid, Launching
  <2> QED BY <1>1, <2>2, NoPidDown DEF CrashReport
<1>2. ASSUME NEW n \in Nodes, PostTerminate(n) PROVE UNCHANGED world \/ (FreshDir(n) /\ ~Up(n))
  BY <1>2 DEF PostTerminate, In, Pending, Lists, Listed
<1>3. ASSUME NEW n \in Nodes, CleanUp(n) PROVE UNCHANGED world \/ (FreshDir(n) /\ ~Up(n))
  <2>1. phase = "clean" /\ mark[n] = "down"
    BY <1>3 DEF CleanUp, In, Pending, Lists
  <2>2. pid[n] = NoPid /\ mark[n] # "up"
    BY <2>1 DEF Listed
  <2> QED BY <1>3, <2>2, NoPidDown DEF CleanUp
<1>4. ASSUME NEW n \in Nodes, Launch(n) PROVE UNCHANGED world \/ Launched(n)
  BY <1>4 DEF Launch, LaunchFailed, Fault, Dependable, world
<1>5. ASSUME NEW n \in Nodes, SigKill(n)
      PROVE UNCHANGED world \/ (Killed(n, pid[n]) /\ UNCHANGED status)
  BY <1>5 DEF SigKill, world
<1>6. ASSUME NEW n \in Nodes,
             \/ SetExpect(n) \/ CheckRunning(n) \/ Record(n) \/ EnsureRunning(n) \/ Poll(n)
             \/ ReadStatus(n) \/ CheckHanging(n) \/ SigTerm(n) \/ CheckShutdown(n)
             \/ CheckGone(n) \/ DieMarking(n)
      PROVE  UNCHANGED world
  BY <1>6 DEF SetExpect, CheckRunning, Record, EnsureRunning, Poll, ReadStatus, CheckHanging,
              SigTerm, CheckShutdown, CheckGone, DieMarking
<1>7. CASE UNCHANGED vars \/ Die \/ Operator \/ Cron
  BY <1>7 DEF vars, Die, Operator, Cron, Command, Restart
<1>8. CASE BeginGroup \/ EndGroups \/ NextPhase \/ EndRound \/ EndGone \/ EndCron \/ Finish
  BY <1>8 DEF BeginGroup, EndGroups, NextPhase, EndRound, EndGone, EndCron, Finish
<1>9. CASE Zeek
  BY <1>9 DEF Zeek
<1> QED
  BY <1>1, <1>2, <1>3, <1>4, <1>5, <1>6, <1>7, <1>8, <1>9 DEF Next, Go, OnNode, Killing

(* No step makes a process serve except the launch of a new one. *)
LEMMA ServingStep ==
  ASSUME Dependable, ProcessInv, [Next]_vars, NEW k \in Nodes, NEW q \in Pids, Serving(k, q)'
  PROVE  Serving(k, q) \/ (Launched(k) /\ IsNewest(k, q)')
<1> USE DEF ProcessInv, ControlInv, Types, WorldTypeOK
<1>1. CASE UNCHANGED world
  BY <1>1 DEF world, Serving, Alive
<1>2. ASSUME NEW n \in Nodes, Launched(n)
      PROVE  Serving(k, q) \/ (Launched(k) /\ IsNewest(k, q)')
  <2>1. PICK p \in Pids : Spawn(n, p)
    BY <1>2 DEF Launched
  <2>2. CASE n = k /\ p = q
    <3>1. Unborn(k)' = Unborn(k) \ {q}
      BY <2>1, <2>2 DEF Spawn, Becomes, Unborn
    <3>2. \A r \in Pids \ Unborn(k)' : r <= q
      BY <2>1, <2>2, <3>1 DEF Spawn, BornInOrder, Pids
    <3> QED BY <1>2, <2>2, <3>1, <3>2 DEF IsNewest, Unborn
  <2>3. CASE ~(n = k /\ p = q)
    BY <2>1, <2>3 DEF Spawn, Becomes, Serving, Alive
  <2> QED BY <2>2, <2>3
<1>3. ASSUME NEW n \in Nodes, FreshDir(n), ~Up(n) PROVE Serving(k, q)
  BY <1>3 DEF FreshDir, Up, Serving, Alive
<1>4. ASSUME NEW n \in Nodes, Killed(n, pid[n]) PROVE Serving(k, q)
  <2>1. procs'[k][q] \in {procs[k][q], "dead"}
    <3>1. CASE pid[n] \in Pids
      BY <1>4, <3>1 DEF Killed
    <3>2. CASE pid[n] \notin Pids
      BY <1>4, <3>2 DEF Killed
    <3> QED BY <3>1, <3>2
  <2> QED BY <2>1 DEF Serving, Alive, Live
<1>5. CASE ZeekStep
  <2>1. PICK n \in Nodes, p \in Pids : Progress(n, p) \/ Terminate(n, p) \/ Crash(n, p)
    BY <1>5 DEF ZeekStep
  <2>2. PICK s : Becomes(n, p, s) /\ (s \in {"term", "dead"} \/ Serving(n, p))
    BY <2>1 DEF Progress, Initialize, EnterNetRun, Exit, Terminate, Crash, Serving, Alive, Live
  <2> QED BY <2>2 DEF Becomes, Serving, Alive, Live
<1> QED BY <1>1, <1>2, <1>3, <1>4, <1>5, WorldStep

LEMMA BornStep ==
  ASSUME Dependable, ProcessInv, [Next]_vars PROVE BornInOrder'
<1> USE DEF ProcessInv, ControlInv, Types
<1>1. ASSUME UNCHANGED procs PROVE BornInOrder'
  BY <1>1 DEF BornInOrder, Unborn
<1>2. ASSUME NEW n \in Nodes, Launched(n) PROVE BornInOrder'
  <2>1. PICK p \in Pids : Spawn(n, p)
    BY <1>2 DEF Launched
  <2>2. \A k \in Nodes : Unborn(k)' = IF k = n THEN Unborn(k) \ {p} ELSE Unborn(k)
    BY <2>1 DEF Spawn, Becomes, Unborn, WorldTypeOK
  <2> QED BY <2>1, <2>2 DEF BornInOrder, Spawn, Unborn, Pids
<1>3. ASSUME \A k \in Nodes : Unborn(k)' = Unborn(k) PROVE BornInOrder'
  BY <1>3 DEF BornInOrder
<1> QED BY <1>1, <1>2, <1>3, WorldStep, ScriptUnborn, ZeekUnborn DEF world

LEMMA LostStep ==
  ASSUME Dependable, ProcessInv, [Next]_vars PROVE NoLostDirectory'
<1> USE DEF ProcessInv, ControlInv, Types, WorldTypeOK, NoLostDirectory
<1>1. CASE UNCHANGED world
  BY <1>1 DEF world
<1>2. ASSUME NEW n \in Nodes, Launched(n) PROVE NoLostDirectory'
  BY <1>2 DEF Launched, Spawn, Becomes
<1>3. ASSUME NEW n \in Nodes, FreshDir(n), ~Up(n) PROVE NoLostDirectory'
  BY <1>3 DEF FreshDir, Up
<1>4. ASSUME NEW n \in Nodes, Killed(n, pid[n]) PROVE NoLostDirectory'
  <2>1. ASSUME NEW k \in Nodes, NEW q \in Pids PROVE procs'[k][q] \in {procs[k][q], "dead"}
    BY <1>4 DEF Killed
  <2> QED BY <2>1
<1>5. CASE ZeekStep
  <2>1. PICK n \in Nodes, p \in Pids : Progress(n, p) \/ Terminate(n, p) \/ Crash(n, p)
    BY <1>5 DEF ZeekStep
  <2>2. PICK s : Becomes(n, p, s) /\ s # "lost"
    BY <2>1 DEF Progress, Initialize, EnterNetRun, Exit, Terminate, Crash
  <2> QED BY <2>2 DEF Becomes
<1> QED BY <1>1, <1>2, <1>3, <1>4, <1>5, WorldStep

LEMMA StatusStep ==
  ASSUME Dependable, ProcessInv, [Next]_vars PROVE StatusWritten'
<1> USE DEF ProcessInv, ControlInv, Types, WorldTypeOK, StatusWritten
<1> SUFFICES ASSUME NEW k \in Nodes, NEW q \in Pids
             PROVE  /\ procs'[k][q] = "init" => status'[k] = "INITIALIZING"
                    /\ procs'[k][q] = "run" => status'[k] = "RUNNING"
  OBVIOUS
<1>1. CASE UNCHANGED world
  BY <1>1 DEF world
<1>2. CASE \E n \in Nodes : Launched(n)
  BY <1>2 DEF Launched, Spawn, Becomes
<1>3. CASE \E n \in Nodes : FreshDir(n) /\ ~Up(n)
  BY <1>3 DEF FreshDir, Writes, Up, Serving, Alive, Live
<1>4. CASE \E n \in Nodes : Killed(n, pid[n]) /\ UNCHANGED status
  BY <1>4 DEF Killed, Alive
<1>5. CASE ZeekStep
  <2>1. PICK n \in Nodes, p \in Pids : Progress(n, p) \/ Terminate(n, p) \/ Crash(n, p)
    BY <1>5 DEF ZeekStep
  <2>2. PICK s : Becomes(n, p, s)
    BY <2>1 DEF Progress, Initialize, EnterNetRun, Exit, Terminate, Crash
  <2>3. CASE n = k /\ p = q
    BY <2>1, <2>3 DEF Progress, Initialize, EnterNetRun, Exit, Terminate, Crash, Becomes, Writes
  <2>4. CASE n = k /\ p # q
    <3>1. procs'[k][q] = procs[k][q]
      BY <2>2, <2>4 DEF Becomes
    <3>2. CASE UNCHANGED status
      BY <3>1, <3>2
    <3>3. CASE ~UNCHANGED status
      <4>1. Serving(n, p)
        BY <2>1, <3>3 DEF Progress, Initialize, EnterNetRun, Exit, Terminate, Crash, Serving,
                          Alive, Live
      <4>2. ~Serving(k, q)
        BY <2>4, <4>1, OneServing
      <4> QED BY <3>1, <4>2 DEF Serving, Alive, Live
    <3> QED BY <3>2, <3>3
  <2>5. CASE n # k
    <3>1. procs'[k][q] = procs[k][q] /\ status'[k] = status[k]
      BY <2>1, <2>5 DEF Progress, Initialize, EnterNetRun, Exit, Terminate, Crash, Becomes, Writes
    <3> QED BY <3>1
  <2> QED BY <2>3, <2>4, <2>5
<1> QED BY <1>1, <1>2, <1>3, <1>4, <1>5, WorldStep

(* The PID of a node is only cleared when no process of it serves any more. *)
LEMMA PidStep ==
  ASSUME Dependable, ProcessInv, [Next]_vars, NEW k \in Nodes, pid'[k] # pid[k]
  PROVE  Record(k) \/ ~Up(k)
<1> USE DEF ProcessInv, ControlInv, Types, DbOK
<1>1. ASSUME NEW n \in Nodes, NEW yes, NEW no, NEW unknown, IsRunning(n, yes, no, unknown),
             mark[n] # "up"
      PROVE  k = n /\ ~Up(n)
  <2>1. k = n /\ ~Alive(n, pid[n])
    BY <1>1 DEF IsRunning, clearPID, db
  <2> QED BY <1>1, <2>1, DownByPid
<1>2. ASSUME NEW n \in Nodes, CheckRunning(n) \/ EnsureRunning(n) \/ CheckShutdown(n)
      PROVE  ~Up(k)
  <2>1. mark[n] # "up"
    BY <1>2 DEF CheckRunning, EnsureRunning, CheckShutdown, In, Pending, Lists
  <2> QED BY <1>1, <1>2, <2>1 DEF CheckRunning, EnsureRunning, CheckShutdown
<1>3. ASSUME NEW n \in Nodes, CheckHanging(n) PROVE ~Up(k)
  <2>1. k = n /\ status[n] = "TERMINATED" /\ mark[n] = "missed" /\ Booted(n)
    BY <1>3 DEF CheckHanging, clearPID
  <2>2. \A p \in Pids : ~Serving(n, p)
    BY <2>1 DEF Dependable, Booted, StatusWritten, NoLostDirectory, Serving, Alive, Live
  <2> QED BY <2>1, <2>2 DEF Up
<1>4. ASSUME NEW n \in Nodes, PostTerminate(n) PROVE ~Up(k)
  <2>1. k = n /\ mark[n] = "gone"
    BY <1>4 DEF PostTerminate, In, Pending, Lists, clearPID
  <2> QED BY <2>1 DEF Listed
<1>5. ASSUME NEW n \in Nodes, Record(n) PROVE Record(k)
  <2>1. k = n
    BY <1>5 DEF Record, setPID
  <2> QED BY <1>5, <2>1
<1>6. ASSUME NEW n \in Nodes,
             \/ SetExpect(n) \/ CrashReport(n) \/ Launch(n) \/ Poll(n) \/ ReadStatus(n)
             \/ SigTerm(n) \/ SigKill(n) \/ CheckGone(n) \/ CleanUp(n)
      PROVE  UNCHANGED pid
  BY <1>6 DEF SetExpect, CrashReport, Launch, Launched, LaunchFailed, Poll, ReadStatus, SigTerm,
              SigKill, CheckGone, CleanUp, db
<1>7. CASE UNCHANGED vars \/ Zeek \/ Killing \/ Operator \/ Cron
  BY <1>7 DEF Dependable, vars, Zeek, Killing, Die, DieMarking, Operator, Cron, Command, Restart, db
<1>8. CASE BeginGroup \/ EndGroups \/ NextPhase \/ EndRound \/ EndGone \/ EndCron \/ Finish
  BY <1>8 DEF BeginGroup, EndGroups, NextPhase, EndRound, EndGone, EndCron, Finish, db
<1> QED
  BY <1>2, <1>3, <1>4, <1>5, <1>6, <1>7, <1>8 DEF Next, Go, OnNode

LEMMA UpStep ==
  ASSUME Dependable, ProcessInv, [Next]_vars, NEW k \in Nodes, Up(k)'
  PROVE  Up(k) \/ Launched(k)
<1>1. PICK q \in Pids : Serving(k, q)'
  BY DEF Up
<1> QED BY <1>1, ServingStep DEF Up

(* A node stays in the list of those just launched until its PID is recorded. *)
LEMMA UpMark ==
  ASSUME Dependable, ProcessInv, [Next]_vars, NEW k \in Nodes, mark[k] = "up", mark'[k] # "up"
  PROVE  Record(k)
<1> USE DEF ProcessInv, ControlInv, Types, CtlOK, ListOK
<1>1. phase \in {"launch", "record"} /\ op = "start"
  BY DEF Listed, Launching
<1>2. ASSUME NEW n \in Nodes, OnNode(n) PROVE Record(k)
  <2>1. Launch(n) \/ Record(n)
    BY <1>1, <1>2 DEF OnNode, SetExpect, CheckRunning, CrashReport, EnsureRunning, Poll,
         ReadStatus, CheckHanging, SigTerm, CheckShutdown, SigKill, CheckGone, PostTerminate,
         CleanUp, In
  <2>2. mark[n] # "up" \/ Record(n)
    BY <2>1 DEF Launch, Launched, LaunchFailed, In, Pending, Lists
  <2>3. mark' = [mark EXCEPT ![n] = mark'[n]]
    BY <2>1 DEF Launch, Launched, LaunchFailed, Record, Moves
  <2> QED BY <2>2, <2>3
<1>3. CASE UNCHANGED vars \/ Zeek \/ Killing \/ Operator \/ Cron
  BY <1>1, <1>3 DEF Dependable, vars, Zeek, Killing, Die, DieMarking, Operator, Cron, Command,
                    Restart
<1>4. CASE BeginGroup \/ EndGroups \/ NextPhase \/ EndRound \/ EndGone \/ EndCron \/ Finish
  BY <1>1, <1>4 DEF BeginGroup, EndGroups, NextPhase, EndRound, EndGone, EndCron, Finish, ctl
<1> QED BY <1>2, <1>3, <1>4 DEF Next, Go

LEMMA OrphanStep ==
  ASSUME Dependable, ProcessInv, [Next]_vars PROVE NoOrphan'
<1> USE DEF ProcessInv, ControlInv, Types, DbOK, ListOK
<1> SUFFICES ASSUME NEW k \in Nodes, NEW q \in Pids, Serving(k, q)'
             PROVE  pid'[k] = q \/ (mark'[k] = "up" /\ IsNewest(k, q)')
  BY DEF NoOrphan
<1>1. CASE Launched(k) /\ IsNewest(k, q)'
  BY <1>1 DEF Launched, Moves
<1>2. CASE Serving(k, q)
  <2>1. Up(k)
    BY <1>2 DEF Up
  <2>2. CASE Record(k)
    <3>1. pid[k] = NoPid /\ UNCHANGED procs
      BY <2>2 DEF Record, In, Pending, Lists, Launching, world
    <3>2. IsNewest(k, q)
      BY <1>2, <3>1 DEF NoOrphan, NoPid, Pids
    <3>3. IsNewest(k, pid'[k])
      BY <2>2 DEF Record, setPID
    <3> QED BY <3>2, <3>3 DEF IsNewest, Pids
  <2>3. CASE ~Record(k)
    <3>1. pid'[k] = pid[k]
      BY <2>1, <2>3, PidStep
    <3>2. CASE pid[k] = q
      BY <3>1, <3>2
    <3>3. CASE mark[k] = "up" /\ IsNewest(k, q)
      <4>1. mark'[k] = "up"
        BY <2>3, <3>3, UpMark
      <4>2. ~Launched(k)
        BY <3>3 DEF Launched, In, Pending, Lists, Listed, Launching
      <4>3. \A n \in Nodes : Launched(n) => Unborn(k)' = Unborn(k)
        BY <4>2, ZenonT(40) DEF Launched, Spawn, Becomes, Unborn, WorldTypeOK
      <4>4. Unborn(k)' = Unborn(k)
        BY <4>3, WorldStep, ScriptUnborn, ZeekUnborn DEF world, Unborn
      <4> QED BY <3>3, <4>1, <4>4 DEF IsNewest
    <3> QED BY <1>2, <3>2, <3>3 DEF NoOrphan
  <2> QED BY <2>2, <2>3
<1> QED BY <1>1, <1>2, ServingStep

LEMMA StoppedStep ==
  ASSUME Dependable, ProcessInv, [Next]_vars PROVE StoppedIsDown'
<1> USE DEF ProcessInv, ControlInv, Types, DbOK, CtlOK, ListOK
<1> SUFFICES ASSUME op' = "stop", NEW k \in Nodes, result'[k] = "ok" PROVE ~Up(k)'
  BY DEF StoppedIsDown
<1>1. SUFFICES op = "stop" /\ ~Up(k)
  <2>1. ~Launched(k)
    BY <1>1 DEF Launched, In, Pending, Lists, Launching
  <2> QED BY <1>1, <2>1, UpStep
<1>2. ASSUME op = "stop", result[k] = "ok" PROVE op = "stop" /\ ~Up(k)
  BY <1>2 DEF StoppedIsDown
<1>3. ASSUME NEW n \in Nodes, OnNode(n) PROVE op = "stop" /\ ~Up(k)
  <2>1. op = "stop"
    BY <1>3 DEF OnNode, SetExpect, CheckRunning, CrashReport, Launch, Launched, LaunchFailed,
         Record, EnsureRunning, Poll, ReadStatus, CheckHanging, SigTerm, CheckShutdown, SigKill,
         CheckGone, PostTerminate, CleanUp, ctl
  <2>2. CASE CheckRunning(n) /\ k = n /\ mark'[n] = "down"
    <3>1. ~Alive(n, pid[n]) /\ mark[n] # "up"
      BY <2>2 DEF CheckRunning, IsRunning, Moves, Alive, Pids, NoPid, In, Pending, Lists
    <3> QED BY <2>1, <2>2, <3>1, DownByPid
  <2>3. CASE CheckGone(n) /\ k = n /\ mark'[n] = "gone"
    <3>1. ~Alive(n, pid[n]) /\ mark[n] # "up"
      BY <2>3 DEF CheckGone, Moves, In, Pending, Lists
    <3> QED BY <2>1, <2>3, <3>1, DownByPid
  <2>4. CASE CheckRunning(n) /\ ~(k = n /\ mark'[n] = "down")
    <3>1. result'[k] = result[k]
      BY <2>1, <2>4 DEF CheckRunning, Answered, Results
    <3> QED BY <1>2, <2>1, <3>1
  <2>5. CASE CheckGone(n) /\ ~(k = n /\ mark'[n] = "gone")
    <3>1. result'[k] = result[k]
      BY <2>5 DEF CheckGone, Moves, Results
    <3> QED BY <1>2, <2>1, <3>1
  <2>6. CASE ~CheckRunning(n) /\ ~CheckGone(n)
    <3>1. phase \notin {"hang", "clean"}
      BY <2>1 DEF Listed
    <3>2. result'[k] = result[k]
      BY <1>3, <2>6, <3>1 DEF OnNode, SetExpect, CrashReport, Launch, Launched, LaunchFailed,
           Record, EnsureRunning, Poll, ReadStatus, CheckHanging, SigTerm, CheckShutdown,
           SigKill, PostTerminate, CleanUp, Results, In
    <3> QED BY <1>2, <2>1, <3>2
  <2> QED BY <2>2, <2>3, <2>4, <2>5, <2>6
<1>4. CASE UNCHANGED vars \/ Zeek \/ Killing \/ Operator \/ Cron
  BY <1>2, <1>4 DEF Dependable, vars, ctl, Zeek, Killing, Die, DieMarking, Operator, Cron, Command,
                    Restart, Begin
<1>5. CASE BeginGroup \/ EndGroups \/ NextPhase \/ EndRound \/ EndGone \/ EndCron
  BY <1>2, <1>5 DEF BeginGroup, EndGroups, NextPhase, EndRound, EndGone, EndCron, ctl
<1>6. CASE Finish
  BY <1>6 DEF Finish, Rest, Begin
<1> QED BY <1>3, <1>4, <1>5, <1>6 DEF Next, Go

LEMMA FlowPhases ==
  ASSUME op \in DOMAIN Flow, phase \in DOMAIN Flow[op]
  PROVE  /\ Flow[op][phase] \in {"report", "launch", "record", "ensure", "poll", "read", "group",
                                 "sigterm", "kill", "gone", "clean", "done"}
         /\ Flow[op][phase] = "clean" => phase = "isrunning" /\ op = "cleanup"
         /\ Flow[op][phase] = "record" <=> phase = "launch"
         /\ Flow[op][phase] \in {"poll", "read"} => op \in {"start", "stop"}
         /\ Flow[op][phase] \in {"sigterm", "kill", "gone"} => op = "stop"
<1>1. CASE op = "start"
  BY <1>1 DEF Flow
<1>2. CASE op = "stop"
  BY <1>2 DEF Flow
<1>3. CASE op = "cleanup"
  BY <1>3 DEF Flow
<1>4. CASE op = "status"
  BY <1>4 DEF Flow
<1> QED BY <1>1, <1>2, <1>3, <1>4 DEF Flow

LEMMA ListedStep ==
  ASSUME Dependable, ProcessInv, [Next]_vars PROVE Listed'
<1> USE DEF ProcessInv, ControlInv, Types, DbOK, CtlOK, ListOK, Listed
<1>1. ASSUME NEW k \in Nodes, mark[k] = "gone" PROVE ~Up(k)'
  <2>1. ~Launched(k)
    BY <1>1 DEF Launched, In, Pending, Lists, Launching
  <2> QED BY <1>1, <2>1, UpStep
<1>2. CASE UNCHANGED <<op, phase, mark, pid>>
  BY <1>1, <1>2
<1>3. CASE UNCHANGED vars \/ Zeek \/ Killing
  BY <1>2, <1>3 DEF Dependable, vars, ctl, db, Zeek, Killing, Die, DieMarking
<1>4. ASSUME NEW o, NEW ns, Begin(o, ns) PROVE Listed'
  BY <1>4 DEF Begin
<1>5. CASE Operator \/ Cron \/ Finish
  BY <1>4, <1>5 DEF Operator, Cron, Command, Restart, Finish, Rest
<1>6. CASE BeginGroup
  BY <1>6 DEF BeginGroup
<1>7. CASE EndGroups \/ EndCron
  BY <1>1, <1>7 DEF EndGroups, EndCron, ctl
<1>8. CASE NextPhase
  <2>1. UNCHANGED <<op, mark, pid>> /\ phase' = Flow[op][phase]
    BY <1>8 DEF NextPhase, ctl, db
  <2>2. op \in DOMAIN Flow /\ phase \in DOMAIN Flow[op]
    BY <1>8 DEF NextPhase
  <2>3. \A n \in Nodes : mark[n] = "up" => phase = "launch"
    BY <1>8 DEF NextPhase, Pending, Lists
  <2> QED BY <1>1, <2>1, <2>2, <2>3, FlowPhases
<1>9. CASE EndRound
  <2>1. /\ phase' \in {"poll", "hang", "postwait"} /\ op' = op /\ op \in {"start", "stop"}
        /\ phase' # "poll" => (phase' = "hang" <=> op = "start")
    BY <1>9 DEF EndRound
  <2>2. \A n \in Nodes : mark'[n] # "up"
    BY <1>9 DEF EndRound
  <2>3. \A n \in Nodes : mark'[n] = "gone" => mark[n] = "gone"
    BY <1>9 DEF EndRound
  <2> QED BY <1>1, <2>1, <2>2, <2>3
<1>10. CASE EndGone
  BY <1>1, <1>10 DEF EndGone
<1>11. ASSUME NEW n \in Nodes, OnNode(n) PROVE Listed'
  <2>1. UNCHANGED <<phase, op>> /\ mark' = [mark EXCEPT ![n] = mark'[n]]
    <3>1. ASSUME NEW yes, NEW no, NEW unknown, IsRunning(n, yes, no, unknown)
          PROVE  mark' = [mark EXCEPT ![n] = mark'[n]]
      BY <3>1 DEF IsRunning, Moves
    <3>2. CASE CheckRunning(n) \/ EnsureRunning(n) \/ CheckShutdown(n)
      BY <3>1, <3>2 DEF CheckRunning, EnsureRunning, CheckShutdown, ctl
    <3>3. CASE CrashReport(n)
      BY <3>3 DEF CrashReport, ctl
    <3>4. CASE ~(CheckRunning(n) \/ EnsureRunning(n) \/ CheckShutdown(n) \/ CrashReport(n))
      BY <1>11, <3>4 DEF OnNode, SetExpect, Launch, Launched, LaunchFailed, Record, Poll,
           ReadStatus, CheckHanging, SigTerm, SigKill, CheckGone, PostTerminate, CleanUp, Moves, ctl
    <3> QED BY <3>2, <3>3, <3>4
  <2>2. mark'[n] = "up" => phase \in {"launch", "record"}
    BY <1>11 DEF OnNode, SetExpect, CheckRunning, CrashReport, EnsureRunning, CheckShutdown,
         IsRunning, Launch, Launched, LaunchFailed, Record, Poll, ReadStatus, Undecided,
         CheckHanging, SigTerm, SigKill, CheckGone, PostTerminate, CleanUp, Moves, In
  <2>3. mark'[n] = "gone" => op = "stop" /\ ~Up(n)'
    <3>1. CASE CheckGone(n) /\ mark'[n] = "gone"
      <4>1. ~Alive(n, pid[n]) /\ mark[n] # "up" /\ phase = "gone"
        BY <3>1 DEF CheckGone, Moves, In, Pending, Lists
      <4>2. ~Up(n) /\ ~Launched(n)
        BY <4>1, DownByPid DEF Launched, In
      <4> QED BY <4>1, <4>2, UpStep
    <3>2. CASE ~CheckGone(n)
      <4>1. mark'[n] = "gone" => mark[n] = "gone"
        BY <1>11, <3>2 DEF OnNode, SetExpect, CheckRunning, CrashReport, EnsureRunning,
             CheckShutdown, IsRunning, Launch, Launched, LaunchFailed, Record, Poll, ReadStatus,
             Undecided, CheckHanging, SigTerm, SigKill, PostTerminate, CleanUp, Moves
      <4> QED BY <1>1, <4>1
    <3> QED BY <3>1, <3>2
  <2>4. \A k \in Nodes : phase \in {"isrunning", "clean"} => k = n \/ pid'[k] = pid[k]
    BY <1>11 DEF OnNode, SetExpect, CheckRunning, CrashReport, EnsureRunning, CheckShutdown,
         IsRunning, Launch, Launched, LaunchFailed, Record, Poll, ReadStatus,
         CheckHanging, SigTerm, SigKill, CheckGone, PostTerminate, CleanUp, In, clearPID, setPID, db
  <2>5. phase \in {"isrunning", "clean"} /\ mark'[n] = "down" => pid'[n] = NoPid
    <3>1. CASE CheckRunning(n)
      BY <3>1 DEF CheckRunning, IsRunning, Moves, clearPID, db, NoPid
    <3>2. CASE ~CheckRunning(n) /\ phase \in {"isrunning", "clean"}
      BY <1>11, <3>2 DEF OnNode, SetExpect, CrashReport, EnsureRunning, CheckShutdown,
           Launch, Launched, LaunchFailed, Record, Poll, ReadStatus,
           CheckHanging, SigTerm, SigKill, CheckGone, PostTerminate, CleanUp, In, Moves
    <3> QED BY <3>1, <3>2
  <2> QED BY <1>1, <2>1, <2>2, <2>3, <2>4, <2>5
<1> QED
  BY <1>3, <1>5, <1>6, <1>7, <1>8, <1>9, <1>10, <1>11 DEF Next, Go

(* The invariant that relates the database and the lists of the command to   *)
(* the processes, for any other failure of helpers and any crash of Zeek.    *)
THEOREM ProcessInvariant == ASSUME Dependable PROVE Spec => []ProcessInv
<1>1. Init => ProcessInv
  <2> SUFFICES ASSUME Init PROVE ProcessInv
    OBVIOUS
  <2>1. ControlInv
    BY DEF Init, WorldInit, ControlInv, Types, WorldTypeOK, DbOK, CtlOK, ListOK, CrashedHasNoPid,
           RecordsNewest, Launching, Phases, Marks, NoPid
  <2>2. \A n \in Nodes, p \in Pids : procs[n][p] = "unborn"
    BY DEF Init, WorldInit
  <2>3. NoOrphan /\ NoLostDirectory
    BY <2>2 DEF NoOrphan, NoLostDirectory, Serving, Alive, Live
  <2>4. StoppedIsDown /\ Listed
    BY DEF Init, StoppedIsDown, Listed
  <2>5. StatusWritten /\ BornInOrder
    BY <2>2 DEF StatusWritten, BornInOrder, Unborn
  <2> QED BY <2>1, <2>3, <2>4, <2>5 DEF ProcessInv
<1>2. ProcessInv /\ [Next]_vars => ProcessInv'
  <2> SUFFICES ASSUME ProcessInv, [Next]_vars PROVE ProcessInv'
    OBVIOUS
  <2>1. ControlInv'
    BY TypeStep, CrashedStep, NewestStep, LaunchingStep DEF ProcessInv, ControlInv
  <2>2. NoOrphan' /\ NoLostDirectory' /\ StoppedIsDown'
    BY OrphanStep, LostStep, StoppedStep
  <2>3. StatusWritten' /\ BornInOrder' /\ Listed'
    BY StatusStep, BornStep, ListedStep
  <2> QED BY <2>1, <2>2, <2>3 DEF ProcessInv
<1> QED BY <1>1, <1>2, PTL DEF Spec

(* However Zeek crashes and whichever of check-pid, first-line, stop, kill,  *)
(* post-terminate and cleanup fail, ZeekControl loses sight of no process    *)
(* that serves: the database has its PID, or the command is about to write   *)
(* it.                                                                       *)
THEOREM NoOrphans == ASSUME Dependable PROVE Spec => []NoOrphan
BY ProcessInvariant, PTL DEF ProcessInv

(* Under the same conditions, crash reports, post-terminate and cleanup take *)
(* the working directory of no process that serves.                          *)
THEOREM DirectoriesKept == ASSUME Dependable PROVE Spec => []NoLostDirectory
BY ProcessInvariant, PTL DEF ProcessInv

(* Under the same conditions, a node that stop reports as stopped is down:   *)
(* found without a PID, or seen to have gone.                                *)
THEOREM StoppedNodes == ASSUME Dependable PROVE Spec => []StoppedIsDown
BY ProcessInvariant, PTL DEF ProcessInv

-----------------------------------------------------------------------------
(* The order of the groups, when check-pid answers as well: a node that it   *)
(* cannot be run for is left out of its group, and the next group does not   *)
(* wait for it.                                                              *)
Answering == Dependable /\ "check-pid" \notin Faults

(* The lists a node of a command may be in at each phase. *)
Underway ==
  \A n \in Nodes :
    /\ mark[n] = "in" => phase \in {"expect", "isrunning"}
    /\ op = "start" =>
         (mark[n] = "down" => phase \in {"isrunning", "report", "launch"})
    /\ op = "stop" =>
         /\ mark[n] \notin {"up", "recorded", "unknown"}
         /\ mark[n] = "live" => phase \in {"isrunning", "report", "sigterm"}
         /\ mark[n] = "todo" => phase \in {"sigterm", "poll", "read"}
         /\ mark[n] \in {"alive", "dead"} => phase \in {"poll", "read"}
         /\ mark[n] = "missed" => phase \in {"poll", "read", "postwait"}
         /\ mark[n] = "kill" => phase \in {"postwait", "kill"}
         /\ mark[n] = "reached" => phase \in {"poll", "read", "postwait", "kill", "gone"}

(* The nodes that are in a group handled already, or in the current one. *)
Handled == targets \ togo

(* The nodes to come are those that rank after the ones handled, and those   *)
(* of the current group rank alike.                                          *)
Grouped ==
  op \in {"start", "stop"} =>
    /\ togo \subseteq targets
    /\ phase = "expect" =>
         togo = targets /\ \A n \in Nodes : mark[n] \in {"in", "out"} /\ result[n] = "none"
    /\ phase # "expect" =>
         \A n, k \in Nodes : mark[n] # "out" /\ mark[k] # "out" =>
                               n \in Handled /\ Rank[n] = Rank[k]
    /\ phase = "done" => togo = {}
    /\ \A n \in Handled, k \in togo : IF op = "start" THEN Rank[n] < Rank[k]
                                                      ELSE Rank[n] > Rank[k]

(* A node that start has finished with has a PID, is known to have crashed,  *)
(* or failed; one that stop has finished with has a result; and a group is   *)
(* only begun when none of the groups before has failed.                     *)
Outcomes ==
  op \in {"start", "stop"} /\ phase # "expect" =>
    \A n \in Handled :
      /\ op = "start" /\ mark[n] \notin {"in", "down", "up"} =>
           \/ pid[n] # NoPid \/ crashed[n]
           \/ mark[n] \in {"out", "skip"} /\ result[n] = "fail"
      /\ op = "stop" /\ mark[n] \in {"out", "down", "skip", "gone"} => result[n] # "none"
      /\ op = "stop" /\ mark[n] = "again" /\ phase # "gone" => result[n] = "fail"
      /\ mark[n] = "out" /\ phase # "done" => result[n] # "fail"

(* A stop that other commands follow is that of a restart of its own nodes. *)
Planned ==
  \A i \in DOMAIN agenda :
    /\ agenda[i].op = "stop" => i = Len(agenda)
    /\ op = "stop" => agenda[i].nodes = targets /\ agenda[i].ifok

OrderInv == ProcessInv /\ Underway /\ Grouped /\ Outcomes /\ Planned

(* A step on one node changes the entries of this node, which is in a list.  *)
LEMMA NodeFrame ==
  ASSUME ProcessInv, NEW n \in Nodes, OnNode(n)
  PROVE  /\ UNCHANGED <<op, agenda, targets, togo, tries, phase>>
         /\ mark[n] # "out"
         /\ \A k \in Nodes \ {n} : mark'[k] = mark[k] /\ result'[k] = result[k]
                                    /\ pid'[k] = pid[k] /\ crashed'[k] = crashed[k]
<1> USE DEF ProcessInv, ControlInv, Types, DbOK, ListOK
<1>1. ASSUME NEW yes, NEW no, NEW unknown, IsRunning(n, yes, no, unknown)
      PROVE  \A k \in Nodes \ {n} : /\ mark'[k] = mark[k] /\ pid'[k] = pid[k]
                                    /\ crashed'[k] = crashed[k]
  BY <1>1 DEF IsRunning, Moves, clearPID, setCrashed, db
<1>2. CASE CheckRunning(n)
  <2>1. \A k \in Nodes \ {n} : result'[k] = result[k]
    BY <1>2 DEF CheckRunning, Results
  <2> QED BY <1>1, <1>2, <2>1 DEF CheckRunning, In, Pending, Lists, ctl
<1>3. CASE EnsureRunning(n) \/ CheckShutdown(n)
  BY <1>1, <1>3 DEF EnsureRunning, CheckShutdown, In, Pending, Lists, ctl
<1>4. CASE ~(CheckRunning(n) \/ EnsureRunning(n) \/ CheckShutdown(n))
  <2>1. mark[n] # "out"
    BY <1>4 DEF OnNode, SetExpect, CrashReport, Launch, Launched, LaunchFailed, Record, Poll,
         ReadStatus, CheckHanging, SigTerm, SigKill, CheckGone, PostTerminate, CleanUp, In, Pending,
         Lists
  <2>2. UNCHANGED <<op, agenda, targets, togo, tries, phase>>
    BY <1>4 DEF OnNode, SetExpect, CrashReport, Launch, Launched, LaunchFailed, Record, Poll,
         ReadStatus, CheckHanging, SigTerm, SigKill, CheckGone, PostTerminate, CleanUp, ctl
  <2>3. \A k \in Nodes \ {n} : mark'[k] = mark[k] /\ result'[k] = result[k]
    BY <1>4 DEF OnNode, SetExpect, CrashReport, Launch, Launched, LaunchFailed, Record, Poll,
         ReadStatus, CheckHanging, SigTerm, SigKill, CheckGone, PostTerminate, CleanUp, Moves,
         Results
  <2>4. \A k \in Nodes \ {n} : pid'[k] = pid[k] /\ crashed'[k] = crashed[k]
    BY <1>4 DEF OnNode, SetExpect, CrashReport, Launch, Launched, LaunchFailed, Record, Poll,
         ReadStatus, CheckHanging, SigTerm, SigKill, CheckGone, PostTerminate, CleanUp, db, setPID,
         clearPID, clearCrashed
  <2> QED BY <2>1, <2>2, <2>3, <2>4
<1> QED BY <1>2, <1>3, <1>4

LEMMA UnderwayNode ==
  ASSUME Answering, OrderInv, NEW n \in Nodes, OnNode(n) PROVE Underway'
<1> USE DEF OrderInv, ProcessInv, ControlInv, Types, ListOK, Underway
<1>1. UNCHANGED <<op, phase>> /\ \A k \in Nodes \ {n} : mark'[k] = mark[k]
  BY NodeFrame
<1> SUFFICES        /\ mark'[n] = "in" => phase \in {"expect", "isrunning"}
                    /\ op = "start" =>
                         (mark'[n] = "down" => phase \in {"isrunning", "report", "launch"})
                    /\ op = "stop" =>
                         /\ mark'[n] \notin {"up", "recorded", "unknown"}
                         /\ mark'[n] = "live" => phase \in {"isrunning", "report", "sigterm"}
                         /\ mark'[n] = "todo" => phase \in {"sigterm", "poll", "read"}
                         /\ mark'[n] \in {"alive", "dead"} => phase \in {"poll", "read"}
                         /\ mark'[n] = "missed" => phase \in {"poll", "read", "postwait"}
                         /\ mark'[n] = "kill" => phase \in {"postwait", "kill"}
                         /\ mark'[n] = "reached" =>
                              phase \in {"poll", "read", "postwait", "kill", "gone"}
  BY <1>1
<1>2. CASE CheckRunning(n)
  BY <1>2 DEF CheckRunning, IsRunning, Moves, In
<1>3. CASE EnsureRunning(n)
  BY <1>3 DEF EnsureRunning, IsRunning, Moves, In, Pending, Lists
<1>4. CASE CheckShutdown(n)
  BY <1>4 DEF CheckShutdown, IsRunning, Moves, In
<1>5. CASE SetExpect(n) \/ CrashReport(n) \/ Launch(n) \/ Record(n)
  BY <1>5 DEF SetExpect, CrashReport, Launch, Launched, LaunchFailed, Record, Moves, In, Launching
<1>6. CASE Poll(n) \/ ReadStatus(n)
  BY <1>6 DEF Poll, ReadStatus, Undecided, Moves, In, Fault, Answering
<1>7. CASE CheckHanging(n) \/ SigTerm(n) \/ SigKill(n) \/ CheckGone(n) \/ PostTerminate(n)
           \/ CleanUp(n)
  BY <1>7 DEF CheckHanging, SigTerm, SigKill, CheckGone, PostTerminate, CleanUp, Moves, In
<1> QED BY <1>2, <1>3, <1>4, <1>5, <1>6, <1>7 DEF OnNode

LEMMA GroupedNode ==
  ASSUME OrderInv, NEW n \in Nodes, OnNode(n) PROVE Grouped'
<1> USE DEF OrderInv, Grouped
<1>1. /\ UNCHANGED <<op, targets, togo, phase>> /\ mark[n] # "out"
      /\ \A k \in Nodes \ {n} : mark'[k] = mark[k] /\ result'[k] = result[k]
  BY NodeFrame
<1>2. phase = "expect" => mark'[n] \in {"in", "out"} /\ result'[n] = result[n]
  <2> SUFFICES ASSUME phase = "expect" PROVE SetExpect(n)
    BY DEF SetExpect, Moves, ProcessInv, ControlInv, Types, ListOK
  <2> QED BY DEF OnNode, CheckRunning, CrashReport, Launch, Launched, LaunchFailed, Record,
       EnsureRunning, Poll, ReadStatus, CheckHanging, SigTerm, CheckShutdown, SigKill, CheckGone,
       PostTerminate, CleanUp, In
<1> QED BY <1>1, <1>2 DEF Handled

LEMMA OutcomesNode ==
  ASSUME Answering, OrderInv, NEW n \in Nodes, OnNode(n) PROVE Outcomes'
<1> USE DEF OrderInv, ProcessInv, ControlInv, Types, DbOK, ListOK
<1>1. /\ UNCHANGED <<op, targets, togo, phase>> /\ mark[n] # "out"
      /\ \A k \in Nodes \ {n} : mark'[k] = mark[k] /\ result'[k] = result[k]
                                 /\ pid'[k] = pid[k] /\ crashed'[k] = crashed[k]
  BY NodeFrame
<1> SUFFICES ASSUME phase # "expect", n \in Handled, op \in {"start", "stop"}
             PROVE  /\ op = "start" /\ mark'[n] \notin {"in", "down", "up"} =>
                         \/ pid'[n] # NoPid \/ crashed'[n]
                         \/ mark'[n] \in {"out", "skip"} /\ result'[n] = "fail"
                    /\ op = "stop" /\ mark'[n] \in {"out", "down", "skip", "gone"} =>
                         result'[n] # "none"
                    /\ op = "stop" /\ mark'[n] = "again" /\ phase # "gone" => result'[n] = "fail"
                    /\ mark'[n] # "out"
  BY <1>1 DEF Outcomes, Handled, CtlOK
<1> USE <1>1 DEF Outcomes
<1>2. CASE CheckRunning(n)
  <2>1. mark'[n] \in {"live", "down"} /\ (mark'[n] = "live" => pid'[n] # NoPid)
    BY <1>2 DEF CheckRunning, IsRunning, Moves, Fault, Answering, db
  <2>2. op = "stop" /\ mark'[n] = "down" => result'[n] = "ok"
    BY <1>2 DEF CheckRunning, Answered, Results
  <2> QED BY <2>1, <2>2
<1>3. CASE EnsureRunning(n)
  <2>1. mark'[n] \in {"todo", "missed"} /\ mark[n] = "recorded" /\ UNCHANGED result
    BY <1>3 DEF EnsureRunning, IsRunning, Moves, In, Pending, Lists, Fault, Answering
  <2>2. pid'[n] # NoPid \/ crashed'[n] \/ (UNCHANGED <<pid, crashed>>)
    BY <1>3 DEF EnsureRunning, IsRunning, setCrashed, db
  <2> QED BY <2>1, <2>2
<1>4. CASE CheckShutdown(n)
  BY <1>4 DEF CheckShutdown, IsRunning, Moves, In, Listed
<1>5. CASE SetExpect(n)
  BY <1>5 DEF SetExpect, In
<1>6. CASE CrashReport(n)
  BY <1>6 DEF CrashReport, In, Pending, Lists
<1>7. CASE Launch(n)
  BY <1>7 DEF Launch, Launched, LaunchFailed, Moves, Results, In, Launching
<1>8. CASE Record(n)
  <2>1. pid'[n] # NoPid /\ op = "start" /\ mark'[n] = "recorded"
    BY <1>8 DEF Record, IsNewest, setPID, Moves, In, Launching, NoPid, Pids
  <2> QED BY <2>1
<1>9. CASE Poll(n) \/ ReadStatus(n)
  BY <1>9 DEF Poll, ReadStatus, Undecided, Moves, In, Pending, Lists, db
<1>10. CASE CheckHanging(n)
  BY <1>10 DEF CheckHanging, Moves, Results, In, Pending, Lists, Listed
<1>11. CASE SigTerm(n)
  BY <1>11 DEF SigTerm, Moves, Results, In, Pending, Lists, db
<1>12. CASE SigKill(n) \/ CheckGone(n)
  BY <1>12 DEF SigKill, CheckGone, Moves, Results, In, Listed
<1>13. CASE PostTerminate(n)
  BY <1>13 DEF PostTerminate, Moves, In, Pending, Lists, Listed
<1>14. CASE CleanUp(n)
  BY <1>14 DEF CleanUp, Moves, Results, In, Listed
<1> QED
  BY <1>2, <1>3, <1>4, <1>5, <1>6, <1>7, <1>8, <1>9, <1>10, <1>11, <1>12, <1>13, <1>14 DEF OnNode

(* A new command, the end of one, and steps that leave the command alone.    *)
LEMMA BeginOrder ==
  ASSUME OrderInv, NEW o \in Ops, NEW ns \in SUBSET Nodes, Begin(o, ns)
  PROVE  Underway' /\ Grouped' /\ Outcomes'
BY DEF Begin, Underway, Grouped, Outcomes, Handled, Ops

LEMMA RestOrder ==
  ASSUME OrderInv, Rest PROVE Underway' /\ Grouped' /\ Outcomes' /\ Planned'
BY DEF Rest, Underway, Grouped, Outcomes, Planned

LEMMA AsideOrder ==
  ASSUME OrderInv, UNCHANGED <<db, ctl, phase, mark, result>>
  PROVE  Underway' /\ Grouped' /\ Outcomes' /\ Planned'
BY DEF db, ctl, OrderInv, Underway, Grouped, Outcomes, Planned, Handled

LEMMA NextPhaseOrder ==
  ASSUME Answering, OrderInv, NextPhase PROVE Underway' /\ Grouped' /\ Outcomes'
<1> USE DEF OrderInv, ProcessInv, ControlInv, Types, DbOK, ListOK, CtlOK
<1>1. UNCHANGED <<op, targets, togo, mark, result, pid, crashed>> /\ Pending = {}
  BY DEF NextPhase, ctl, db
<1>2. op \in DOMAIN Flow /\ phase \in DOMAIN Flow[op] /\ phase' = Flow[op][phase]
  BY DEF NextPhase
<1>3. CASE op = "start"
  <2>1. phase \in {"expect", "isrunning", "report", "launch", "record", "ensure", "poll", "hang"}
        /\ phase' = CASE phase = "expect" -> "group" [] phase = "isrunning" -> "report"
                      [] phase = "report" -> "launch" [] phase = "launch" -> "record"
                      [] phase = "record" -> "ensure" [] phase = "ensure" -> "poll"
                      [] phase = "poll" -> "read" [] phase = "hang" -> "group"
    BY <1>2, <1>3 DEF Flow
  <2>2. \A n \in Nodes : /\ phase \in {"expect", "isrunning"} => mark[n] # "in"
                         /\ phase = "launch" => mark[n] # "down"
                         /\ phase = "record" => mark[n] # "up"
    BY <1>1 DEF Pending, Lists
  <2>3. Underway'
    BY <1>1, <1>3, <2>1, <2>2 DEF Underway
  <2>4. Grouped'
    BY <1>1, <1>3, <2>1, <2>2 DEF Grouped, Handled
  <2>5. Outcomes'
    BY <1>1, <1>3, <2>1, <2>2 DEF Grouped, Outcomes, Handled
  <2> QED BY <2>3, <2>4, <2>5
<1>4. CASE op = "stop"
  <2>1. phase \in {"expect", "isrunning", "report", "sigterm", "poll", "postwait", "kill", "post"}
        /\ phase' = CASE phase = "expect" -> "group" [] phase = "isrunning" -> "report"
                      [] phase = "report" -> "sigterm" [] phase = "sigterm" -> "poll"
                      [] phase = "poll" -> "read" [] phase = "postwait" -> "kill"
                      [] phase = "kill" -> "gone" [] phase = "post" -> "group"
    BY <1>2, <1>4 DEF Flow
  <2>2. \A n \in Nodes : /\ phase \in {"expect", "isrunning"} => mark[n] # "in"
                         /\ phase = "sigterm" => mark[n] # "live"
                         /\ phase = "postwait" => mark[n] # "missed"
                         /\ phase = "kill" => mark[n] # "kill"
    BY <1>1 DEF Pending, Lists
  <2>3. Underway'
    BY <1>1, <1>4, <2>1, <2>2 DEF Underway
  <2>4. Grouped'
    BY <1>1, <1>4, <2>1, <2>2 DEF Grouped, Handled
  <2>5. Outcomes'
    BY <1>1, <1>4, <2>1, <2>2 DEF Grouped, Outcomes, Handled
  <2> QED BY <2>3, <2>4, <2>5
<1>5. CASE op = "cleanup" \/ op = "status"
  <2>1. phase' \in {"clean", "done"} /\ \A n \in Nodes : phase = "isrunning" => mark[n] # "in"
    BY <1>1, <1>2, <1>5 DEF Flow, Pending, Lists
  <2>2. phase \in {"isrunning", "clean"}
    BY <1>2, <1>5 DEF Flow
  <2> QED BY <1>1, <1>5, <2>1, <2>2 DEF Underway, Grouped, Outcomes
<1> QED BY <1>2, <1>3, <1>4, <1>5 DEF Flow

LEMMA BeginGroupOrder ==
  ASSUME OrderInv, BeginGroup PROVE Underway' /\ Grouped' /\ Outcomes'
<1> USE DEF OrderInv, ProcessInv, ControlInv, Types, DbOK, ListOK, CtlOK
<1>1. /\ UNCHANGED <<op, targets, result, pid, crashed>> /\ phase = "group"
      /\ phase' = "isrunning" /\ ResultsOk /\ togo' = togo \ NextGroup /\ NextGroup \subseteq togo
      /\ \A n \in Nodes : mark'[n] = IF n \in NextGroup THEN "in" ELSE "out"
  BY DEF BeginGroup, NextGroup, db
<1>2. Underway'
  BY <1>1 DEF Underway
<1> SUFFICES ASSUME op \in {"start", "stop"} PROVE Grouped' /\ Outcomes'
  BY <1>1, <1>2 DEF Grouped, Outcomes
<1>3. togo \subseteq targets /\ Handled' = Handled \cup NextGroup
  BY <1>1 DEF Grouped, Handled
<1>4. ASSUME NEW n \in NextGroup, NEW k \in togo
      PROVE  /\ k \in NextGroup => Rank[n] = Rank[k]
             /\ k \notin NextGroup => IF op = "start" THEN Rank[n] < Rank[k]
                                                      ELSE Rank[n] > Rank[k]
  <2>1. n \in togo /\ Rank[n] \in 1 .. 4 /\ Rank[k] \in 1 .. 4
    BY <1>1, ControlAssumption
  <2>2. IF op = "start" THEN Rank[n] <= Rank[k] ELSE Rank[n] >= Rank[k]
    BY DEF NextGroup
  <2>3. CASE k \in NextGroup
    <3>1. IF op = "start" THEN Rank[k] <= Rank[n] ELSE Rank[k] >= Rank[n]
      BY <2>1, <2>3 DEF NextGroup
    <3> QED BY <2>1, <2>2, <2>3, <3>1
  <2>4. CASE k \notin NextGroup
    <3>1. PICK j \in togo : IF op = "start" THEN ~(Rank[k] <= Rank[j]) ELSE ~(Rank[k] >= Rank[j])
      BY <2>4 DEF NextGroup
    <3>2. IF op = "start" THEN Rank[n] <= Rank[j] ELSE Rank[n] >= Rank[j]
      BY DEF NextGroup
    <3>3. Rank[j] \in 1 .. 4
      BY ControlAssumption
    <3> QED BY <2>1, <2>4, <3>1, <3>2, <3>3
  <2> QED BY <2>3, <2>4
<1>5. Grouped'
  <2>1. ASSUME NEW n \in Handled', NEW k \in togo'
        PROVE  IF op = "start" THEN Rank[n] < Rank[k] ELSE Rank[n] > Rank[k]
    BY <1>1, <1>3, <1>4 DEF Grouped
  <2>2. \A n, k \in Nodes : mark'[n] # "out" /\ mark'[k] # "out" =>
                              n \in Handled' /\ Rank[n] = Rank[k]
    BY <1>1, <1>3, <1>4
  <2> QED BY <1>1, <1>3, <2>1, <2>2 DEF Grouped, Handled
<1>6. Outcomes'
  <2>1. \A n \in Nodes : result[n] # "fail"
    BY <1>1 DEF ResultsOk
  <2>2. \A n \in Handled' : mark'[n] = "out" =>
          /\ op = "start" => pid[n] # NoPid \/ crashed[n]
          /\ op = "stop" => result[n] # "none"
    <3> SUFFICES ASSUME NEW n \in Handled', mark'[n] = "out"
                 PROVE  /\ op = "start" => pid[n] # NoPid \/ crashed[n]
                        /\ op = "stop" => result[n] # "none"
      OBVIOUS
    <3>1. n \in Handled /\ n \in Nodes
      BY <1>1, <1>3 DEF Handled
    <3>2. op = "start" => mark[n] \notin {"in", "down", "up"}
      BY <1>1, <3>1 DEF Underway, Listed
    <3>3. op = "stop" => mark[n] \in {"out", "down", "skip", "gone", "again"}
      BY <1>1, <3>1 DEF Underway, Marks
    <3> QED BY <1>1, <2>1, <3>1, <3>2, <3>3 DEF Outcomes
  <2> QED BY <1>1, <2>1, <2>2 DEF Outcomes, Handled
<1> QED BY <1>2, <1>5, <1>6

LEMMA EndGroupsOrder ==
  ASSUME OrderInv, EndGroups PROVE Underway' /\ Grouped' /\ Outcomes'
<1> USE DEF OrderInv, ProcessInv, ControlInv, Types, DbOK, ListOK, CtlOK
<1>1. /\ UNCHANGED <<op, targets, mark, pid, crashed>> /\ phase = "group"
      /\ phase' = "done" /\ togo' = {}
      /\ \A n \in Nodes : result'[n] = IF n \in togo THEN "fail" ELSE result[n]
  BY DEF EndGroups, db
<1>2. Underway'
  BY <1>1 DEF Underway
<1>3. Grouped'
  BY <1>1 DEF Grouped, Handled
<1>4. Outcomes'
  <2> SUFFICES ASSUME op \in {"start", "stop"}, NEW n \in targets
               PROVE  /\ op = "start" /\ mark[n] \notin {"in", "down", "up"} =>
                           \/ pid[n] # NoPid \/ crashed[n]
                           \/ mark[n] \in {"out", "skip"} /\ result'[n] = "fail"
                      /\ op = "stop" /\ mark[n] \in {"out", "down", "skip", "gone"} =>
                           result'[n] # "none"
                      /\ op = "stop" /\ mark[n] = "again" => result'[n] = "fail"
    BY <1>1 DEF Outcomes, Handled
  <2>1. CASE n \in togo
    <3>1. mark[n] = "out"
      BY <1>1, <2>1 DEF Grouped, Handled
    <3> QED BY <1>1, <2>1, <3>1
  <2>2. CASE n \notin togo
    BY <1>1, <2>2 DEF Outcomes, Handled
  <2> QED BY <2>1, <2>2
<1> QED BY <1>2, <1>3, <1>4

LEMMA EndRoundOrder ==
  ASSUME OrderInv, EndRound PROVE Underway' /\ Grouped' /\ Outcomes'
<1> USE DEF OrderInv, ProcessInv, ControlInv, Types, DbOK, ListOK, CtlOK
<1>1. /\ UNCHANGED <<op, targets, togo, result, pid, crashed>> /\ phase = "read"
      /\ \/ phase' = "poll" /\ UNCHANGED mark
         \/ /\ phase' = IF op = "start" THEN "hang" ELSE "postwait"
            /\ \A n \in Nodes : mark'[n] = IF mark[n] = "todo" THEN "missed" ELSE mark[n]
  BY DEF EndRound, db
<1>2. \A n \in Nodes : mark[n] \notin {"alive", "dead", "unknown"}
  BY DEF EndRound, Pending, Lists
<1>3. Underway'
  BY <1>1, <1>2 DEF Underway
<1>4. Grouped'
  BY <1>1 DEF Grouped, Handled
<1>5. Outcomes'
  BY <1>1 DEF Outcomes, Handled
<1> QED BY <1>3, <1>4, <1>5

LEMMA EndGoneOrder ==
  ASSUME OrderInv, EndGone PROVE Underway' /\ Grouped' /\ Outcomes'
<1> USE DEF OrderInv, ProcessInv, ControlInv, Types, DbOK, ListOK, CtlOK
<1>1. /\ UNCHANGED <<op, targets, togo, pid, crashed>> /\ phase = "gone" /\ op = "stop"
      /\ \/ /\ UNCHANGED <<phase, result>>
            /\ \A n \in Nodes : mark'[n] = IF mark[n] = "again" THEN "reached" ELSE mark[n]
         \/ /\ phase' = "post" /\ UNCHANGED mark
            /\ \A n \in Nodes : result'[n] = IF mark[n] = "again" THEN "fail" ELSE result[n]
  BY DEF EndGone, db, Listed
<1>2. (phase' = "post") => \A n \in Nodes : mark[n] # "reached"
  BY <1>1 DEF EndGone, Pending, Lists
<1>3. Underway'
  BY <1>1, <1>2 DEF Underway
<1>4. Grouped'
  BY <1>1 DEF Grouped, Handled
<1>5. Outcomes'
  BY <1>1 DEF Outcomes, Handled
<1> QED BY <1>3, <1>4, <1>5

LEMMA PlannedStep ==
  ASSUME OrderInv, Next PROVE Planned'
<1> USE DEF OrderInv, ProcessInv, ControlInv, Types, CtlOK
<1>1. CASE UNCHANGED <<op, targets, agenda>>
  BY <1>1 DEF Planned
<1>2. ASSUME NEW n \in Nodes, OnNode(n) PROVE Planned'
  BY <1>1, <1>2, NodeFrame
<1>3. CASE Zeek \/ BeginGroup \/ EndGroups \/ NextPhase \/ EndRound \/ EndGone
  BY <1>1, <1>3 DEF Zeek, BeginGroup, EndGroups, NextPhase, EndRound, EndGone, ctl
<1>4. CASE Killing
  BY <1>4, RestOrder DEF Killing, Die, DieMarking
<1>5. ASSUME NEW o, NEW ns, Command(o, ns) PROVE Planned'
  BY <1>5 DEF Command, Planned
<1>6. ASSUME NEW ns, NEW clean, Restart(ns, clean) PROVE Planned'
  <2>1. targets' = ns
    BY <1>6 DEF Restart, Begin
  <2> QED BY <1>6, <2>1 DEF Restart, Then, Planned
<1>7. CASE EndCron
  <2>1. Len(agenda') \in {0, 1, 2} /\ op' = "cron"
    BY <1>7 DEF EndCron, Each
  <2>2. \A i \in DOMAIN agenda' : agenda'[i].op = "stop" => i = Len(agenda')
    <3>1. CASE ToStart = {}
      BY <1>7, <3>1 DEF EndCron, Each
    <3>2. CASE ToStart # {} /\ ToStop = {}
      BY <1>7, <3>2 DEF EndCron, Each
    <3>3. CASE ToStart # {} /\ ToStop # {}
      <4> DEFINE start == [op |-> "start", nodes |-> ToStart, ifok |-> FALSE]
                 stop == [op |-> "stop", nodes |-> ToStop, ifok |-> FALSE]
      <4>1. agenda' = <<start>> \o <<stop>>
        BY <1>7, <3>3 DEF EndCron, Each
      <4>2. start.op = "start"
        OBVIOUS
      <4> HIDE DEF start, stop
      <4>3. Len(agenda') = 2 /\ agenda'[1] = start
        BY <4>1
      <4> QED BY <4>2, <4>3
    <3> QED BY <3>1, <3>2, <3>3
  <2> QED BY <2>1, <2>2 DEF Planned
<1>8. CASE Finish
  <2>1. CASE Rest
    BY <2>1, RestOrder
  <2>2. CASE agenda # <<>> /\ Begin(Head(agenda).op, Head(agenda).nodes) /\ agenda' = Tail(agenda)
    <3>1. \A i \in DOMAIN agenda' : i + 1 \in DOMAIN agenda /\ agenda'[i] = agenda[i + 1]
      BY <2>2
    <3>2. Len(agenda') = Len(agenda) - 1 /\ 1 \in DOMAIN agenda /\ agenda[1] = Head(agenda)
      BY <2>2
    <3>3. op' = "stop" => agenda' = <<>>
      <4> SUFFICES ASSUME op' = "stop" PROVE agenda' = <<>>
        OBVIOUS
      <4>1. agenda[1].op = "stop"
        BY <2>2, <3>2 DEF Begin
      <4>2. Len(agenda) = 1
        BY <3>2, <4>1 DEF Planned
      <4> QED BY <2>2, <4>2
    <3>4. ASSUME NEW i \in DOMAIN agenda', agenda'[i].op = "stop" PROVE i = Len(agenda')
      <4>1. i + 1 = Len(agenda)
        BY <3>1, <3>4 DEF Planned
      <4> QED BY <2>2, <3>2, <4>1
    <3> QED BY <3>3, <3>4 DEF Planned
  <2> QED BY <1>8, <2>1, <2>2 DEF Finish
<1> QED
  BY <1>2, <1>3, <1>4, <1>5, <1>6, <1>7, <1>8 DEF Next, Go, Operator, Cron

LEMMA OrderStep ==
  ASSUME Answering, OrderInv, [Next]_vars PROVE Underway' /\ Grouped' /\ Outcomes' /\ Planned'
<1> USE DEF OrderInv, ProcessInv, ControlInv, Types, CtlOK
<1>1. CASE UNCHANGED vars
  BY <1>1, AsideOrder DEF vars
<1>2. ASSUME Next PROVE Underway' /\ Grouped' /\ Outcomes'
  <2>1. ASSUME NEW n \in Nodes, OnNode(n) PROVE Underway' /\ Grouped' /\ Outcomes'
    BY <2>1, UnderwayNode, GroupedNode, OutcomesNode
  <2>2. CASE Zeek
    BY <2>2, AsideOrder DEF Zeek
  <2>3. CASE Killing
    BY <2>3, RestOrder DEF Killing, Die, DieMarking
  <2>4. CASE Operator \/ Cron
    BY <2>4, BeginOrder DEF Operator, Cron, Command, Restart, Ops
  <2>5. CASE EndCron
    BY <2>5 DEF EndCron, Underway, Grouped, Outcomes, Pending, Lists
  <2>6. CASE Finish
    <3>1. ASSUME agenda # <<>> PROVE Head(agenda).op \in Ops /\ Head(agenda).nodes \in SUBSET Nodes
      <4>1. Head(agenda) \in Step
        BY <3>1
      <4> QED BY <4>1 DEF Step
    <3> QED BY <2>6, <3>1, BeginOrder, RestOrder DEF Finish
  <2>7. CASE NextPhase \/ BeginGroup \/ EndGroups \/ EndRound \/ EndGone
    BY <2>7, NextPhaseOrder, BeginGroupOrder, EndGroupsOrder, EndRoundOrder, EndGoneOrder
  <2> QED BY <1>2, <2>1, <2>2, <2>3, <2>4, <2>5, <2>6, <2>7 DEF Next, Go
<1> QED BY <1>1, <1>2, PlannedStep

(* The invariant that relates the groups of start and stop, the lists and    *)
(* results within a group, and what a restart has planned.                   *)
THEOREM OrderInvariant == ASSUME Answering PROVE Spec => []OrderInv
<1>1. Init /\ ProcessInv => OrderInv
  BY DEF Init, OrderInv, Underway, Grouped, Outcomes, Planned, Handled
<1>2. OrderInv /\ ProcessInv' /\ [Next]_vars => OrderInv'
  BY OrderStep DEF OrderInv
<1>3. Spec => []ProcessInv
  BY ProcessInvariant DEF Answering
<1> QED BY <1>1, <1>2, <1>3, PTL DEF Spec

(* The nodes of the command that come before a node of the current group.    *)
LEMMA EarlierDone ==
  ASSUME OrderInv, op \in {"start", "stop"}, phase \notin {"expect", "done"},
         NEW n \in Nodes, mark[n] # "out", NEW k \in targets,
         IF op = "start" THEN Rank[k] < Rank[n] ELSE Rank[k] > Rank[n]
  PROVE  k \in Handled /\ mark[k] = "out" /\ result[k] # "fail"
<1> USE DEF OrderInv, ProcessInv, ControlInv, Types, CtlOK
<1>1. n \in Handled /\ Rank[n] \in 1 .. 4 /\ Rank[k] \in 1 .. 4
  BY ControlAssumption DEF Grouped
<1>2. k \in Handled
  <2> SUFFICES ASSUME k \in togo PROVE FALSE
    BY DEF Handled
  <2> QED BY <1>1 DEF Grouped
<1>3. mark[k] = "out"
  <2> SUFFICES ASSUME mark[k] # "out" PROVE FALSE
    OBVIOUS
  <2>1. Rank[n] = Rank[k]
    BY DEF Grouped
  <2> QED BY <1>1, <2>1
<1> QED BY <1>2, <1>3 DEF Outcomes

LEMMA SigTermOrder ==
  ASSUME OrderInv, NEW n \in Nodes, phase = "sigterm", mark[n] = "live",
         NEW k \in targets, Rank[k] > Rank[n]
  PROVE  ~Up(k)
<1> USE DEF OrderInv, ProcessInv, ControlInv, Types, CtlOK, ListOK
<1>1. op = "stop"
  BY DEF Listed
<1>2. k \in Handled /\ mark[k] = "out" /\ result[k] # "fail"
  BY <1>1, EarlierDone
<1>3. result[k] = "ok"
  BY <1>1, <1>2 DEF Outcomes
<1> QED BY <1>1, <1>3 DEF StoppedIsDown

LEMMA LaunchOrder ==
  ASSUME OrderInv, NEW n \in Nodes, In("launch", n), NEW k \in targets, Rank[k] < Rank[n]
  PROVE  pid[k] # NoPid \/ crashed[k]
<1> USE DEF OrderInv, ProcessInv, ControlInv, Types, CtlOK, ListOK
<1>1. op = "start" /\ phase = "launch" /\ mark[n] = "down"
  BY DEF In, Pending, Lists, Launching
<1>2. k \in Handled /\ mark[k] = "out" /\ result[k] # "fail"
  BY <1>1, EarlierDone
<1> QED BY <1>1, <1>2 DEF Outcomes

LEMMA RestartOrder ==
  ASSUME Answering, OrderInv, [Next]_vars, op = "stop", op' = "start", NEW n \in targets'
  PROVE  ~Up(n)
<1> USE DEF OrderInv, ProcessInv, ControlInv, Types, CtlOK, ListOK
<1>1. Finish
  <2>1. ASSUME NEW k \in Nodes, OnNode(k) PROVE FALSE
    BY <2>1, NodeFrame
  <2>2. ~(Zeek \/ BeginGroup \/ EndGroups \/ NextPhase \/ EndRound \/ EndGone \/ EndCron
          \/ UNCHANGED vars)
    BY DEF Zeek, BeginGroup, EndGroups, NextPhase, EndRound, EndGone, EndCron, ctl, vars
  <2>3. ~(Killing \/ Operator \/ Cron)
    BY DEF Killing, Die, DieMarking, Rest, Operator, Cron, Command, Restart
  <2> QED BY <2>1, <2>2, <2>3 DEF Next, Go
<1>2. /\ phase = "done" /\ agenda # <<>> /\ (Head(agenda).ifok => ResultsOk)
      /\ targets' = Head(agenda).nodes
  BY <1>1 DEF Finish, Rest, Begin
<1>3. Head(agenda).ifok /\ Head(agenda).nodes = targets
  <2>1. 1 \in DOMAIN agenda /\ Head(agenda) = agenda[1]
    BY <1>2
  <2> QED BY <2>1 DEF Planned
<1>4. n \in Handled /\ n \in Nodes /\ result[n] # "fail"
  BY <1>2, <1>3 DEF Handled, Grouped, ResultsOk
<1>5. mark[n] \in {"out", "down", "skip", "gone", "again"}
  BY <1>2, <1>4 DEF Underway, Marks
<1>6. result[n] = "ok"
  BY <1>2, <1>4, <1>5 DEF Outcomes
<1> QED BY <1>4, <1>6 DEF StoppedIsDown

(* With check-pid answering as well, stop signals a node only when those     *)
(* that depend on it are down, start launches one only when those it depends *)
(* on have been started, and a restart starts its nodes when all are down:   *)
(* for any nodes and types, and with Zeek crashing at any point.             *)
THEOREM NodesInOrder == ASSUME Answering PROVE Spec => NodeOrder
<1> DEFINE Ordered ==
      /\ \A n \in Nodes :
           /\ phase = "sigterm" /\ mark[n] = "live" /\ mark'[n] = "todo" =>
                \A k \in targets : Rank[k] > Rank[n] => ~Up(k)
           /\ procs'[n] # procs[n] /\ In("launch", n) /\ ~In("launch", n)' =>
                \A k \in targets : Rank[k] < Rank[n] => pid[k] # NoPid \/ crashed[k]
      /\ op = "stop" /\ op' = "start" => \A n \in targets' : ~Up(n)
<1>1. OrderInv /\ [Next]_vars => Ordered
  BY SigTermOrder, LaunchOrder, RestartOrder
<1>2. OrderInv /\ [Next]_vars => [Ordered]_vars
  BY <1>1
<1>3. [][Ordered]_vars <=> NodeOrder
  BY PTL DEF NodeOrder
<1> QED BY <1>2, <1>3, OrderInvariant, PTL DEF Spec
=============================================================================
