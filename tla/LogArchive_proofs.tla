------------------------- MODULE LogArchive_proofs --------------------------
(***************************************************************************)
(* Proofs about LogArchive, for any nodes, logs, times, starts and         *)
(* failures.                                                               *)
(***************************************************************************)
EXTENDS LogArchive, WellFoundedInduction, TLAPS

Past(d) == post[d].pc # "none"

LEMMA Directories ==
  /\ \A d \in Dirs : d[1] \in Nodes /\ d[2] \in 1 .. MaxStarts + 1 /\ d = <<d[1], d[2]>>
  /\ \A n \in Nodes, k \in 1 .. MaxStarts + 1 : <<n, k>> \in Dirs /\ <<n, k>>[1] = n /\ <<n, k>>[2] = k
BY ArchiveAssumption DEF Dirs

-----------------------------------------------------------------------------
(* What the steps of archive-log and of post-terminate change.             *)

JobStep(j) == Job(j) \/ JobKilled(j)

(* The job has ended, or goes on with the same log and times. *)
LEMMA JobChanges ==
  ASSUME ArchiveTypeOK, NEW j \in jobs, JobStep(j)
  PROVE  /\ UNCHANGED <<now, run, name, startup, zeek, written, last, mailed>>
         /\ files' \subseteq files
         /\ post' = post \/ post' = [post EXCEPT ![j.id.dir].failed = TRUE]
         /\ \/ jobs' = jobs \ {j}
            \/ \E k \in Jobs : /\ jobs' = (jobs \ {j}) \cup {k}
                               /\ k.id = j.id /\ k.from = j.from /\ k.to = j.to /\ k.by = j.by
         /\ archive' \subseteq archive \cup {<<ArchiveName(j), j.id>>}
<1> USE DEF dirs, JobEnds, Becomes
<1>0. j \in Jobs /\ now \in Times
  BY DEF ArchiveTypeOK
<1>1. \A k \in Jobs : k = [id |-> k.id, from |-> k.from, to |-> k.to, stage |-> k.stage, at |-> k.at, by |-> k.by]
  BY DEF Jobs
<1>2. CASE JobStarts(j)
  <2> DEFINE k == [j EXCEPT !.stage = "running", !.at = now]
  <2>1. k \in Jobs /\ k.id = j.id /\ k.from = j.from /\ k.to = j.to /\ k.by = j.by
    BY <1>0 DEF Jobs, Stages
  <2>2. jobs' = (jobs \ {j}) \cup {k}
    BY <1>2 DEF JobStarts
  <2> HIDE DEF k
  <2> QED BY <1>2, <2>1, <2>2 DEF JobStarts
<1>3. CASE JobNames(j)
  <2> DEFINE k == [j EXCEPT !.stage = "named"]
  <2>1. k \in Jobs /\ k.id = j.id /\ k.from = j.from /\ k.to = j.to /\ k.by = j.by
    BY <1>0 DEF Jobs, Stages
  <2>2. jobs' = (jobs \ {j}) \cup {k} \/ jobs' = jobs \ {j}
    BY <1>3 DEF JobNames
  <2> HIDE DEF k
  <2>3. post' = post \/ post' = [post EXCEPT ![j.id.dir].failed = TRUE]
    BY <1>3 DEF JobNames
  <2>4. UNCHANGED <<now, run, name, startup, zeek, files, written, archive, last, mailed>>
    BY <1>3 DEF JobNames
  <2> QED BY <2>1, <2>2, <2>3, <2>4
<1>4. CASE JobTransfers(j)
  <2> DEFINE k == [j EXCEPT !.stage = "copied"]
  <2>1. k \in Jobs /\ k.id = j.id /\ k.from = j.from /\ k.to = j.to /\ k.by = j.by
    BY <1>0 DEF Jobs, Stages
  <2>2. jobs' = (jobs \ {j}) \cup {k} \/ jobs' = jobs \ {j}
    BY <1>4 DEF JobTransfers
  <2> HIDE DEF k
  <2>3. post' = post \/ post' = [post EXCEPT ![j.id.dir].failed = TRUE]
    BY <1>4 DEF JobTransfers
  <2>4. UNCHANGED <<now, run, name, startup, zeek, written, last, mailed>>
    BY <1>4 DEF JobTransfers
  <2>5. files' \subseteq files
    BY <1>4 DEF JobTransfers
  <2>6. archive' \subseteq archive \cup {<<ArchiveName(j), j.id>>}
    BY <1>4 DEF JobTransfers, Put
  <2> QED BY <2>1, <2>2, <2>3, <2>4, <2>5, <2>6
<1>5. CASE JobRemoves(j) \/ JobKilled(j)
  BY <1>5 DEF JobRemoves, JobKilled
<1> QED BY <1>2, <1>3, <1>4, <1>5 DEF JobStep, Job

PostStep(d) == InBackground(d) \/ PostKilled(d) \/ ExpireCrash(d)

(* A directory that post-terminate has to do with keeps its end; the log files
   that it takes are those in the directory. *)
LEMMA PostChanges ==
  ASSUME ArchiveTypeOK, NEW d \in Dirs, PostStep(d)
  PROVE  /\ UNCHANGED <<now, run, startup, rotated, zeek, written, archive, last>>
         /\ files' \subseteq files
         /\ post' \in [Dirs -> [pc : PostSteps, end : Times, failed : BOOLEAN, todo : SUBSET LogFiles]]
         /\ \A e \in Dirs : e # d => post'[e] = post[e]
         /\ Past(d) /\ Past(d)' /\ post'[d].end = post[d].end
         /\ post'[d].todo \subseteq post[d].todo \/ post'[d].todo = FilesIn(d)
         /\ ArchiveLog(d) \/ jobs' \subseteq jobs
<1> USE DEF dirs, Past
<1>0. post[d] \in [pc : PostSteps, end : Times, failed : BOOLEAN, todo : SUBSET LogFiles]
  BY DEF ArchiveTypeOK
<1>1. FilesIn(d) \in SUBSET LogFiles
  BY DEF ArchiveTypeOK, FilesIn
<1>2. CASE WaitForArchiveLog(d)
  <2>1. /\ post[d].pc = "wait" /\ post' = [post EXCEPT ![d].pc = "archive", ![d].todo = FilesIn(d)]
        /\ UNCHANGED <<now, run, name, startup, rotated, zeek, files, written, archive, last, jobs>>
    BY <1>2 DEF WaitForArchiveLog
  <2>2. post'[d] = [post[d] EXCEPT !.pc = "archive", !.todo = FilesIn(d)]
    BY <2>1 DEF ArchiveTypeOK
  <2>3. \A e \in Dirs : e # d => post'[e] = post[e]
    BY <2>1 DEF ArchiveTypeOK
  <2>4. /\ post'[d] \in [pc : PostSteps, end : Times, failed : BOOLEAN, todo : SUBSET LogFiles]
        /\ post'[d].pc = "archive" /\ post'[d].end = post[d].end /\ post'[d].todo = FilesIn(d)
    BY <1>0, <1>1, <2>2 DEF PostSteps
  <2>5. post' \in [Dirs -> [pc : PostSteps, end : Times, failed : BOOLEAN, todo : SUBSET LogFiles]]
    BY <2>1, <2>3, <2>4 DEF ArchiveTypeOK
  <2> QED BY <2>1, <2>3, <2>4, <2>5
<1>3. CASE ArchiveLog(d)
  <2>1. /\ post[d].pc = "archive" /\ UNCHANGED <<now, run, name, startup, rotated, zeek, files, written, archive, last>>
        /\ \E f : post' = [post EXCEPT ![d].todo = @ \ {f}]
    BY <1>3 DEF ArchiveLog
  <2>2. PICK f : post' = [post EXCEPT ![d].todo = @ \ {f}]
    BY <2>1
  <2> QED BY <1>0, <1>3, <2>1, <2>2 DEF ArchiveTypeOK, PostSteps
<1>4. CASE EndPostTerminate(d)
  BY <1>0, <1>4 DEF EndPostTerminate, Over, ArchiveTypeOK, PostSteps
<1>5. CASE PostKilled(d)
  BY <1>0, <1>5 DEF PostKilled, ArchiveTypeOK, PostSteps
<1>6. CASE ExpireCrash(d)
  BY <1>0, <1>6 DEF ExpireCrash, ArchiveTypeOK, PostSteps
<1> QED BY <1>2, <1>3, <1>4, <1>5, <1>6 DEF PostStep, InBackground

-----------------------------------------------------------------------------
(* Times.                                                                  *)

(* A directory has been started in before it is left, and is left before the
   node is started again. *)
TimesInv ==
  /\ \A d \in Dirs : Past(d) <=> d[2] < run[d[1]]
  /\ \A d \in Dirs : startup[d] # Never => d[2] <= run[d[1]] /\ d[2] <= MaxStarts /\ startup[d] <= now
  /\ \A d \in Dirs : Past(d) => startup[d] # Never /\ startup[d] <= post[d].end /\ post[d].end <= now
  /\ \A n \in zeek : startup[Dir(n)] # Never
  /\ \A n \in Nodes : last[n] # Never => last[n] <= now

LEMMA TimesFrame ==
  ASSUME ArchiveTypeOK, TimesInv, now' \in Times, now <= now', UNCHANGED <<run, startup>>, zeek' \subseteq zeek,
         \A d \in Dirs : (Past(d)' <=> Past(d)) /\ post'[d].end = post[d].end,
         \A n \in Nodes : last'[n] \in {last[n], now}
  PROVE  TimesInv'
<1>0. now \in Nat /\ Never \in Nat
  BY ArchiveAssumption DEF ArchiveTypeOK, Times, Never
<1>1. \A d \in Dirs : post[d].end \in Nat /\ (startup[d] # Never => startup[d] \in Nat)
  BY ArchiveAssumption DEF ArchiveTypeOK, Times
<1>2. \A n \in Nodes : last[n] # Never => last[n] \in Nat
  BY ArchiveAssumption DEF ArchiveTypeOK, Times
<1>3. now' \in Nat
  BY ArchiveAssumption DEF Times
<1>4. \A d \in Dirs : Past(d)' <=> d[2] < run'[d[1]]
  BY DEF TimesInv
<1>5. \A d \in Dirs : startup'[d] # Never => d[2] <= run'[d[1]] /\ d[2] <= MaxStarts /\ startup'[d] <= now'
  BY <1>0, <1>1, <1>3 DEF TimesInv
<1>6. \A d \in Dirs : Past(d)' => startup'[d] # Never /\ startup'[d] <= post'[d].end /\ post'[d].end <= now'
  BY <1>0, <1>1, <1>3 DEF TimesInv
<1>7. \A n \in zeek' : startup'[Dir(n)'] # Never
  BY DEF TimesInv, Dir
<1>8. \A n \in Nodes : last'[n] # Never => last'[n] <= now'
  BY <1>0, <1>2, <1>3 DEF TimesInv
<1>9. Never' = Never
  BY DEF Never
<1> QED BY <1>4, <1>5, <1>6, <1>7, <1>8, <1>9 DEF TimesInv

LEMMA TimesStep ==
  ASSUME ArchiveTypeOK, TimesInv, ArchiveNext
  PROVE  TimesInv'
<1>0. now \in Times /\ now \in Nat /\ Never = MaxTime + 1 /\ MaxTime \in Nat
  BY ArchiveAssumption DEF ArchiveTypeOK, Times, Never
<1>1. CASE Tick
  BY <1>0, <1>1, TimesFrame DEF Tick, dirs, Times, Past
<1>2. ASSUME NEW n \in Nodes, StartZeek(n) PROVE TimesInv'
  <2> DEFINE d == Dir(n)
  <2>1. d \in Dirs /\ d[1] = n /\ d[2] = run[n] /\ run[n] \in 1 .. MaxStarts + 1
    BY Directories DEF Dir, ArchiveTypeOK
  <2>2. /\ startup[d] = Never /\ run[n] <= MaxStarts /\ zeek' = zeek \cup {n}
        /\ startup' = [startup EXCEPT ![d] = now] /\ UNCHANGED <<now, run, last, post>>
    BY <1>2 DEF StartZeek
  <2>3. ~Past(d)
    BY <2>1 DEF TimesInv
  <2>4. startup'[d] = now /\ \A e \in Dirs : e # d => startup'[e] = startup[e]
    BY <2>1, <2>2 DEF ArchiveTypeOK
  <2>5. \A e \in Dirs : Past(e)' <=> Past(e)
    BY <2>2 DEF Past
  <2>6. \A m \in zeek' : m \in Nodes /\ Dir(m)' = Dir(m) /\ Dir(m) \in Dirs
    BY <2>2, Directories DEF Dir, ArchiveTypeOK
  <2>7. now # Never
    BY <1>0 DEF Times
  <2>8. \A e \in Dirs : startup'[e] # Never => e[2] <= run'[e[1]] /\ e[2] <= MaxStarts /\ startup'[e] <= now'
    BY <1>0, <2>1, <2>2, <2>4 DEF TimesInv
  <2>9. \A e \in Dirs : Past(e)' => startup'[e] # Never /\ startup'[e] <= post'[e].end /\ post'[e].end <= now'
    BY <2>2, <2>3, <2>4, <2>5 DEF TimesInv
  <2>10. \A m \in zeek' : startup'[Dir(m)'] # Never
    <3> SUFFICES ASSUME NEW m \in zeek' PROVE startup'[Dir(m)] # Never
      BY <2>6
    <3>1. CASE Dir(m) = d
      BY <2>4, <2>7, <3>1
    <3>2. CASE Dir(m) # d
      <4>1. m \in zeek
        BY <2>2, <3>2
      <4> QED BY <2>4, <2>6, <3>2, <4>1 DEF TimesInv
    <3> QED BY <3>1, <3>2
  <2>11. Never' = Never
    BY DEF Never
  <2>12. \A e \in Dirs : Past(e)' <=> e[2] < run'[e[1]]
    BY <2>2, <2>5 DEF TimesInv
  <2>13. \A m \in Nodes : last'[m] # Never => last'[m] <= now'
    BY <2>2 DEF TimesInv
  <2> HIDE DEF d
  <2> QED BY <2>8, <2>9, <2>10, <2>11, <2>12, <2>13 DEF TimesInv
<1>3. ASSUME NEW n \in Nodes, NEW b \in Logs, OpenLog(n, b) PROVE TimesInv'
  BY <1>0, <1>3, TimesFrame DEF OpenLog, dirs, Past
<1>4. ASSUME NEW n \in Nodes, Rotate(n) \/ Terminate(n) PROVE TimesInv'
  <2>1. UNCHANGED <<now, run, startup, post>> /\ zeek' \subseteq zeek
    BY <1>4 DEF Rotate, Terminate, dirs
  <2>2. \A m \in Nodes : last'[m] \in {last[m], now}
    BY <1>4 DEF Rotate, Terminate, Rotated, ArchiveTypeOK
  <2> QED BY <1>0, <2>1, <2>2, TimesFrame DEF Past
<1>5. ASSUME NEW n \in Nodes, NEW crash \in BOOLEAN, PostTerminate(n, crash) PROVE TimesInv'
  <2> DEFINE d == Dir(n)
  <2>1. d \in Dirs /\ d[1] = n /\ d[2] = run[n] /\ run[n] \in 1 .. MaxStarts + 1
    BY Directories DEF Dir, ArchiveTypeOK
  <2>2. /\ n \notin zeek /\ startup[d] # Never /\ run' = [run EXCEPT ![n] = @ + 1]
        /\ post' = [post EXCEPT ![d] = [Idle EXCEPT !.pc = "wait", !.end = now]]
        /\ UNCHANGED <<now, startup, zeek, last>>
    BY <1>5 DEF PostTerminate
  <2>3. post'[d].pc = "wait" /\ post'[d].end = now /\ \A e \in Dirs : e # d => post'[e] = post[e]
    BY <2>1, <2>2 DEF ArchiveTypeOK, Idle
  <2>4. run'[n] = run[n] + 1 /\ \A m \in Nodes : m # n => run'[m] = run[m]
    BY <2>1, <2>2 DEF ArchiveTypeOK
  <2>5. \A e \in Dirs : Past(e)' <=> e = d \/ Past(e)
    BY <2>1, <2>3 DEF Past
  <2>6. \A e \in Dirs : e[1] = n /\ e[2] = run[n] => e = d
    BY <2>1, Directories DEF Dir
  <2>7. \A e \in Dirs : e[1] \in Nodes /\ e[2] \in Nat /\ run[e[1]] \in Nat
    BY Directories, ArchiveAssumption DEF ArchiveTypeOK
  <2>8. \A e \in Dirs : Past(e)' <=> e[2] < run'[e[1]]
    BY <2>1, <2>4, <2>5, <2>6, <2>7 DEF TimesInv
  <2>9. \A e \in Dirs : startup'[e] # Never => e[2] <= run'[e[1]] /\ e[2] <= MaxStarts /\ startup'[e] <= now'
    BY <2>2, <2>4, <2>7 DEF TimesInv
  <2>10. \A e \in Dirs : Past(e)' => startup'[e] # Never /\ startup'[e] <= post'[e].end /\ post'[e].end <= now'
    BY <1>0, <2>1, <2>2, <2>3, <2>5 DEF TimesInv
  <2>11. \A m \in zeek' : startup'[Dir(m)'] # Never
    BY <2>2, <2>4 DEF TimesInv, Dir, ArchiveTypeOK
  <2>12. Never' = Never
    BY DEF Never
  <2>13. \A m \in Nodes : last'[m] # Never => last'[m] <= now'
    BY <2>2 DEF TimesInv
  <2> HIDE DEF d
  <2> QED BY <2>8, <2>9, <2>10, <2>11, <2>12, <2>13 DEF TimesInv
<1>6. ASSUME NEW j \in jobs, JobStep(j) PROVE TimesInv'
  <2>1. UNCHANGED <<now, run, startup, zeek, last>> /\ (post' = post \/ post' = [post EXCEPT ![j.id.dir].failed = TRUE])
    BY <1>6, JobChanges
  <2>2. \A d \in Dirs : post'[d].pc = post[d].pc /\ post'[d].end = post[d].end
    BY <2>1 DEF ArchiveTypeOK
  <2> QED BY <1>0, <2>1, <2>2, TimesFrame DEF Past
<1>7. ASSUME NEW d \in Dirs, PostStep(d) PROVE TimesInv'
  <2>1. /\ UNCHANGED <<now, run, startup, zeek, last>> /\ Past(d) /\ Past(d)' /\ post'[d].end = post[d].end
        /\ \A e \in Dirs : e # d => post'[e] = post[e]
    BY <1>7, PostChanges
  <2>2. \A e \in Dirs : (Past(e)' <=> Past(e)) /\ post'[e].end = post[e].end
    BY <2>1 DEF Past
  <2> QED BY <1>0, <2>1, <2>2, TimesFrame
<1> QED BY <1>1, <1>2, <1>3, <1>4, <1>5, <1>6, <1>7 DEF ArchiveNext, Work, JobStep, PostStep


-----------------------------------------------------------------------------
(* Logs.                                                                   *)

(* A log was opened before its directory was left.  Zeek has one log of each
   kind open. *)
FilesInv ==
  /\ \A f \in files : f.id.opened <= now /\ (Past(f.id.dir) => f.id.opened <= post[f.id.dir].end)
  /\ \A f, g \in files : f.id.dir = g.id.dir /\ f.id.log = g.id.log /\ ~f.stamped /\ ~g.stamped => f = g

TodoInv ==
  \A d \in Dirs :
    /\ \A f \in post[d].todo : f.id.dir = d /\ f.id.opened <= post[d].end
    /\ \A f, g \in post[d].todo : f.id.log = g.id.log /\ ~f.stamped /\ ~g.stamped => f = g

JobsInv == \A j \in jobs : j.from <= j.to

(* The logs of one kind in a directory have an order: there is a next one, and
   one that Zeek had open is the last. *)
LEMMA NextLogOnList ==
  ASSUME ArchiveTypeOK, TodoInv, NEW d \in Dirs, post[d].todo # {}
  PROVE  /\ NextLog(d) \in post[d].todo
         /\ ~NextLog(d).stamped => \A g \in post[d].todo : NextLog(d).id.log = g.id.log => NextLog(d) = g
<1> DEFINE T == post[d].todo
           Next(f) == \A g \in T : f.id.log = g.id.log =>
                        f = g \/ (f.stamped /\ (g.stamped => f.id.opened < g.id.opened))
<1>1. T \in SUBSET LogFiles /\ \A f \in T : f.id \in LogIds /\ f.id.opened \in Nat /\ f.stamped \in BOOLEAN
  BY ArchiveAssumption DEF ArchiveTypeOK, LogFiles, LogIds, Times
<1>2. PICK e \in T : TRUE
  OBVIOUS
<1> DEFINE S == {f \in T : f.id.log = e.id.log /\ f.stamped}
<1>3. CASE S = {}
  <2>1. Next(e)
    BY <1>1, <1>2, <1>3 DEF TodoInv
  <2> QED BY <1>2, <2>1 DEF NextLog
<1>4. CASE S # {}
  <2> DEFINE O == {f.id.opened : f \in S}
  <2>1. O \in SUBSET Nat /\ O # {}
    BY <1>1, <1>4
  <2>2. PICK t \in O : \A u \in O : t <= u
    <3> DEFINE Less == OpToRel(<, Nat)
    <3>1. PICK t \in O : \A u \in O : ~(<<u, t>> \in Less)
      <4> HIDE DEF O, Less
      <4> QED BY <2>1, NatLessThanWellFounded, WFMin DEF Less
    <3>2. \A u \in O : u \in Nat /\ ~(u < t) /\ t \in Nat
      BY <2>1, <3>1 DEF OpToRel
    <3> HIDE DEF O
    <3> QED BY <3>2
  <2>3. PICK f \in S : f.id.opened = t
    BY <2>2
  <2>4. ASSUME NEW g \in S, g.id.opened = f.id.opened PROVE f = g
    <3>1. f = [id |-> f.id, stamped |-> f.stamped] /\ g = [id |-> g.id, stamped |-> g.stamped]
      BY <1>1 DEF LogFiles
    <3>2. /\ f.id = [dir |-> f.id.dir, log |-> f.id.log, opened |-> f.id.opened]
          /\ g.id = [dir |-> g.id.dir, log |-> g.id.log, opened |-> g.id.opened]
      BY <1>1 DEF LogIds
    <3>3. f.id.dir = d /\ g.id.dir = d /\ f.id.log = g.id.log
      BY DEF TodoInv
    <3>4. f.stamped = TRUE /\ g.stamped = TRUE
      BY <1>1
    <3> QED BY <2>4, <3>1, <3>2, <3>3, <3>4
  <2>5. \A g \in S : f.id.opened <= g.id.opened
    BY <2>2, <2>3
  <2>6. Next(f)
    BY <1>1, <2>3, <2>4, <2>5
  <2> QED BY <2>3, <2>6 DEF NextLog
<1> QED BY <1>3, <1>4

LEMMA StartBeforeEnd ==
  ASSUME ArchiveTypeOK, TimesInv, TodoInv, NEW d \in Dirs, Past(d), NEW f \in post[d].todo
  PROVE  StartOf(d, f) \in Times /\ StartOf(d, f) <= post[d].end /\ post[d].end \in Times
<1>1. /\ post[d].end \in Times /\ f \in LogFiles /\ f.id \in LogIds
      /\ startup[d] # Never /\ startup[d] <= post[d].end /\ startup[d] \in Times \cup {Never}
  BY DEF ArchiveTypeOK, LogFiles, TimesInv
<1>2. f.id.opened \in Times /\ f.id.opened <= post[d].end /\ f.id.log \in Logs
  BY <1>1 DEF LogIds, TodoInv
<1>3. rotated[d][f.id.log] \in Times \cup {Never}
  BY <1>2 DEF ArchiveTypeOK
<1>4. Times \subseteq Nat
  BY ArchiveAssumption DEF Times
<1> DEFINE o == f.id.opened
           u == startup[d]
           r == rotated[d][f.id.log]
           e == post[d].end
           s == StartOf(d, f)
<1>5. s = o \/ s = u \/ s = e \/ (s = r /\ r # Never /\ ~(r > e))
  BY DEF StartOf
<1>6. /\ o \in Times /\ o <= e /\ u \in Times /\ u <= e /\ e \in Times /\ r \in Times \cup {Never}
      /\ o \in Nat /\ u \in Nat /\ e \in Nat
  BY <1>1, <1>2, <1>3, <1>4
<1> HIDE DEF o, u, r, e, s
<1>7. s \in Times /\ s <= e
  <2>1. CASE s = o \/ s = u \/ s = e
    BY <1>6, <2>1
  <2>2. CASE s = r /\ r # Never /\ ~(r > e)
    <3>1. r \in Times /\ r \in Nat
      BY <1>4, <1>6, <2>2
    <3> QED BY <1>6, <2>2, <3>1
  <2> QED BY <1>5, <2>1, <2>2
<1> QED BY <1>6, <1>7 DEF s, e


LEMMA ArchiveLogAddsJob ==
  ASSUME ArchiveTypeOK, TimesInv, TodoInv, NEW d \in Dirs, ArchiveLog(d)
  PROVE  \E k \in Jobs : k.from <= k.to /\ jobs' = jobs \cup {k}
<1> DEFINE f == NextLog(d)
           k == [id |-> f.id, from |-> StartOf(d, f), to |-> post[d].end,
                 stage |-> "spawned", at |-> Never, by |-> "post"]
<1>1. post[d].pc = "archive" /\ post[d].todo # {} /\ jobs' = jobs \cup {k}
  BY DEF ArchiveLog
<1>2. f \in post[d].todo
  BY <1>1, NextLogOnList
<1>3. f.id \in LogIds
  BY <1>2 DEF ArchiveTypeOK, LogFiles
<1>4. StartOf(d, f) \in Times /\ StartOf(d, f) <= post[d].end /\ post[d].end \in Times
  <2>1. Past(d)
    BY <1>1 DEF Past
  <2> HIDE DEF f
  <2> QED BY <1>2, <2>1, StartBeforeEnd
<1> HIDE DEF f
<1>5. k \in Jobs /\ k.from <= k.to
  BY <1>3, <1>4 DEF Jobs, Stages
<1> QED BY <1>1, <1>5

-----------------------------------------------------------------------------
(* Types.                                                                  *)

LEMMA TypeStep ==
  ASSUME ArchiveTypeOK, TimesInv, TodoInv, ArchiveNext
  PROVE  ArchiveTypeOK'
<1> USE DEF dirs
<1>0. /\ now \in Times /\ Never = MaxTime + 1 /\ MaxTime \in Nat /\ MaxStarts \in Nat /\ MaxFaults \in Nat
      /\ \A n \in Nodes : Dir(n) \in Dirs /\ Dir(n) = <<n, run[n]>> /\ run[n] \in 1 .. MaxStarts + 1
      /\ \A d \in Dirs : post[d] \in [pc : PostSteps, end : Times, failed : BOOLEAN, todo : SUBSET LogFiles]
  BY Directories, ArchiveAssumption DEF ArchiveTypeOK, Never, Dir
<1>1. CASE Tick
  BY <1>0, <1>1 DEF Tick, ArchiveTypeOK, Times
<1>2. ASSUME NEW n \in Nodes, StartZeek(n) PROVE ArchiveTypeOK'
  BY <1>0, <1>2 DEF StartZeek, ArchiveTypeOK
<1>3. ASSUME NEW n \in Nodes, NEW b \in Logs, OpenLog(n, b) PROVE ArchiveTypeOK'
  <2> DEFINE i == [dir |-> Dir(n), log |-> b, opened |-> now]
  <2>1. i \in LogIds /\ File(i, FALSE) \in LogFiles
    BY <1>0 DEF LogIds, LogFiles, File
  <2> HIDE DEF i
  <2>2. /\ files' = files \cup {File(i, FALSE)} /\ written' = written \cup {i}
        /\ UNCHANGED <<now, faults, dirs, zeek, archive, jobs, last, post, mailed>>
    BY <1>3 DEF OpenLog, i
  <2> QED BY <2>1, <2>2 DEF ArchiveTypeOK
<1>4. ASSUME NEW n \in Nodes, NEW fs \in SUBSET Current(n), Rotated(n, fs)
      PROVE  /\ last' \in [Nodes -> Times \cup {Never}] /\ files' \in SUBSET LogFiles
             /\ jobs' \in SUBSET Jobs
  <2>1. fs \in SUBSET LogFiles
    BY DEF ArchiveTypeOK, Current, FilesIn
  <2>2. last' \in [Nodes -> Times \cup {Never}]
    BY <1>0, <1>4 DEF Rotated, ArchiveTypeOK
  <2>3. \A f \in fs : File(f.id, TRUE) \in LogFiles
    BY <2>1 DEF File, LogFiles
  <2>4. \A f \in fs : [id |-> f.id, from |-> f.id.opened, to |-> now, stage |-> "spawned", at |-> Never, by |-> "zeek"] \in Jobs
    <3> TAKE f \in fs
    <3>1. f.id \in LogIds /\ f.id.opened \in Times
      BY <2>1 DEF LogFiles, LogIds
    <3> QED BY <1>0, <3>1 DEF Jobs, Stages
  <2> QED BY <1>4, <2>2, <2>3, <2>4 DEF Rotated, ArchiveTypeOK
<1>5. ASSUME NEW n \in Nodes, Rotate(n) PROVE ArchiveTypeOK'
  <2>1. PICK f \in Current(n) : Rotated(n, {f}) /\ UNCHANGED <<now, faults, dirs, zeek, written, archive, post, mailed>>
    BY <1>5 DEF Rotate
  <2>2. {f} \in SUBSET Current(n)
    OBVIOUS
  <2> QED BY <1>4, <2>1, <2>2 DEF ArchiveTypeOK
<1>6. ASSUME NEW n \in Nodes, Terminate(n) PROVE ArchiveTypeOK'
  <2>1. /\ zeek' = zeek \ {n} /\ UNCHANGED <<now, faults, dirs, written, archive, post, mailed>>
        /\ Rotated(n, Current(n)) \/ UNCHANGED <<files, jobs, last>>
    BY <1>6 DEF Terminate
  <2>2. CASE Rotated(n, Current(n))
    BY <1>4, <2>1, <2>2 DEF ArchiveTypeOK
  <2>3. CASE UNCHANGED <<files, jobs, last>>
    BY <2>1, <2>3 DEF ArchiveTypeOK
  <2> QED BY <2>1, <2>2, <2>3
<1>7. ASSUME NEW n \in Nodes, NEW crash \in BOOLEAN, PostTerminate(n, crash) PROVE ArchiveTypeOK'
  <2> DEFINE d == Dir(n)
  <2>1. startup[d] # Never /\ d \in Dirs /\ d[2] = run[n] /\ d[1] = n
    BY <1>0, <1>7 DEF PostTerminate
  <2>2. run[n] <= MaxStarts
    BY <2>1 DEF TimesInv
  <2>3. run' \in [Nodes -> 1 .. MaxStarts + 1]
    BY <1>0, <1>7, <2>2 DEF PostTerminate, ArchiveTypeOK
  <2>4. name' \in [Dirs -> {"work", "post", "crash", "none"}]
    BY <1>7 DEF PostTerminate, ArchiveTypeOK
  <2>5. [Idle EXCEPT !.pc = "wait", !.end = now] \in [pc : PostSteps, end : Times, failed : BOOLEAN, todo : SUBSET LogFiles]
    BY <1>0 DEF Idle, PostSteps
  <2>6. post' \in [Dirs -> [pc : PostSteps, end : Times, failed : BOOLEAN, todo : SUBSET LogFiles]]
    BY <1>7, <2>5 DEF PostTerminate, ArchiveTypeOK
  <2>7. UNCHANGED <<now, faults, startup, rotated, zeek, files, written, archive, jobs, last, mailed>>
    BY <1>7 DEF PostTerminate
  <2> QED BY <2>3, <2>4, <2>6, <2>7 DEF ArchiveTypeOK
<1>8. ASSUME NEW j \in jobs, JobStep(j) PROVE ArchiveTypeOK'
  <2>1. /\ j \in Jobs /\ j.id \in LogIds /\ j.id.dir \in Dirs /\ j.id.dir[1] \in Nodes /\ j.id.log \in Logs
        /\ j.from \in Times /\ j.to \in Times /\ j.at \in Times \cup {Never}
    BY Directories DEF ArchiveTypeOK, Jobs, LogIds
  <2>2. faults' \in 0 .. MaxFaults
    <3>1. faults' = faults \/ Fault
      BY <1>8 DEF JobStep, Job, JobStarts, JobNames, JobTransfers, JobRemoves, JobKilled
    <3> QED BY <1>0, <3>1 DEF Fault, ArchiveTypeOK
  <2>3. rotated' \in [Dirs -> [Logs -> Times \cup {Never}]]
    <3>1. rotated' = rotated \/ rotated' = [rotated EXCEPT ![j.id.dir][j.id.log] = j.at]
      BY <1>8 DEF JobStep, Job, JobStarts, JobNames, JobTransfers, JobRemoves, JobKilled
    <3>2. rotated[j.id.dir] \in [Logs -> Times \cup {Never}]
      BY <2>1 DEF ArchiveTypeOK
    <3>3. [rotated[j.id.dir] EXCEPT ![j.id.log] = j.at] \in [Logs -> Times \cup {Never}]
      BY <2>1, <3>2
    <3> QED BY <3>1, <3>3 DEF ArchiveTypeOK
  <2>4. archive' \in SUBSET (Names \X LogIds)
    <3>1. <<ArchiveName(j), j.id>> \in Names \X LogIds
      BY <2>1 DEF ArchiveName, Names
    <3> QED BY <1>8, <3>1, JobChanges DEF ArchiveTypeOK
  <2>5. post' \in [Dirs -> [pc : PostSteps, end : Times, failed : BOOLEAN, todo : SUBSET LogFiles]]
    <3>1. post' = post \/ post' = [post EXCEPT ![j.id.dir].failed = TRUE]
      BY <1>8, JobChanges
    <3>2. [post[j.id.dir] EXCEPT !.failed = TRUE] \in [pc : PostSteps, end : Times, failed : BOOLEAN, todo : SUBSET LogFiles]
      BY <1>0, <2>1
    <3> QED BY <3>1, <3>2 DEF ArchiveTypeOK
  <2>6. jobs' \in SUBSET Jobs /\ files' \in SUBSET LogFiles /\ UNCHANGED <<now, run, name, startup, zeek, written, last, mailed>>
    <3>1. \/ jobs' = jobs \ {j}
          \/ \E k \in Jobs : jobs' = (jobs \ {j}) \cup {k}
      BY <1>8, JobChanges
    <3>2. files' \subseteq files /\ UNCHANGED <<now, run, name, startup, zeek, written, last, mailed>>
      BY <1>8, JobChanges
    <3> QED BY <3>1, <3>2 DEF ArchiveTypeOK
  <2> QED BY <2>2, <2>3, <2>4, <2>5, <2>6 DEF ArchiveTypeOK
<1>9. ASSUME NEW d \in Dirs, PostStep(d) PROVE ArchiveTypeOK'
  <2>1. /\ UNCHANGED <<now, run, startup, rotated, zeek, written, archive, last>> /\ files' \subseteq files
        /\ post' \in [Dirs -> [pc : PostSteps, end : Times, failed : BOOLEAN, todo : SUBSET LogFiles]]
        /\ ArchiveLog(d) \/ jobs' \subseteq jobs
    BY <1>9, PostChanges
  <2>2. jobs' \in SUBSET Jobs
    BY <2>1, ArchiveLogAddsJob DEF ArchiveTypeOK
  <2>3. faults' \in 0 .. MaxFaults
    BY <1>0, <1>9 DEF PostStep, InBackground, WaitForArchiveLog, ArchiveLog, EndPostTerminate, PostKilled, ExpireCrash, Fault, ArchiveTypeOK
  <2>4. name' \in [Dirs -> {"work", "post", "crash", "none"}] /\ mailed' \in SUBSET Dirs
    BY <1>9 DEF PostStep, InBackground, WaitForArchiveLog, ArchiveLog, EndPostTerminate, PostKilled, ExpireCrash, ArchiveTypeOK
  <2> QED BY <2>1, <2>2, <2>3, <2>4 DEF ArchiveTypeOK
<1> QED BY <1>1, <1>2, <1>3, <1>5, <1>6, <1>7, <1>8, <1>9 DEF ArchiveNext, Work, JobStep, PostStep


-----------------------------------------------------------------------------
(* The invariant.                                                          *)

LogsInv == TimesInv /\ FilesInv /\ TodoInv /\ JobsInv /\ NamesInOrder

ArchiveInv == ArchiveTypeOK /\ LogsInv

(* Files that were there stay as they are, or are removed. *)
LEMMA FilesFrame ==
  ASSUME ArchiveTypeOK, ArchiveTypeOK', FilesInv, files' \subseteq files, now <= now',
         \A d \in Dirs : (Past(d)' <=> Past(d)) /\ post'[d].end = post[d].end
  PROVE  FilesInv'
<1>1. \A f \in files : f.id.dir \in Dirs /\ f.id.opened \in Nat
  BY ArchiveAssumption DEF ArchiveTypeOK, LogFiles, LogIds, Times
<1>2. now \in Nat /\ now' \in Nat
  BY ArchiveAssumption DEF ArchiveTypeOK, Times
<1> QED BY <1>1, <1>2 DEF FilesInv

(* Rotation renames logs that are open, and starts archive-log for them. *)
LEMMA RotatedStep ==
  ASSUME ArchiveTypeOK, LogsInv, NEW n \in Nodes, NEW fs \in SUBSET Current(n), Rotated(n, fs), UNCHANGED <<now, post>>
  PROVE  FilesInv' /\ JobsInv'
<1>0. /\ now \in Nat /\ fs \subseteq files
      /\ \A f \in files : f \in LogFiles /\ f.id \in LogIds /\ f.id.opened \in Nat /\ f.stamped \in BOOLEAN
  BY ArchiveAssumption DEF ArchiveTypeOK, Current, FilesIn, LogFiles, LogIds, Times
<1>1. \A f \in files' : \E g \in files : f.id = g.id /\ (f.stamped \/ f = g)
  BY <1>0 DEF Rotated, File
<1>2. \A f \in files' : f.id.opened <= now' /\ (Past(f.id.dir)' => f.id.opened <= post'[f.id.dir].end)
  BY <1>1 DEF FilesInv, Past, LogsInv
<1>3. \A f, g \in files' : f.id.dir = g.id.dir /\ f.id.log = g.id.log /\ ~f.stamped /\ ~g.stamped => f = g
  BY <1>1 DEF FilesInv, LogsInv
<1>4. \A j \in jobs' : j.from <= j.to
  <2>1. \A f \in fs : f.id.opened <= now
    BY <1>0 DEF FilesInv, LogsInv
  <2> QED BY <2>1 DEF Rotated, JobsInv, LogsInv
<1> QED BY <1>2, <1>3, <1>4 DEF FilesInv, JobsInv

LEMMA LogsStep ==
  ASSUME ArchiveInv, ArchiveTypeOK', ArchiveNext
  PROVE  LogsInv'
<1> USE DEF ArchiveInv, dirs
<1>0. TimesInv'
  BY TimesStep DEF LogsInv
<1>1. ASSUME UNCHANGED post PROVE TodoInv'
  BY <1>1 DEF TodoInv, LogsInv
<1>2. ASSUME UNCHANGED jobs PROVE JobsInv'
  BY <1>2 DEF JobsInv, LogsInv
<1>3. ASSUME UNCHANGED archive PROVE NamesInOrder'
  BY <1>3 DEF NamesInOrder, LogsInv
<1>4. now \in Nat /\ now <= now
  BY ArchiveAssumption DEF ArchiveTypeOK, Times
<1>5. ASSUME UNCHANGED post PROVE \A d \in Dirs : (Past(d)' <=> Past(d)) /\ post'[d].end = post[d].end
  BY <1>5 DEF Past
<1>6. CASE Tick
  <2>1. now <= now' /\ UNCHANGED <<files, post, jobs, archive>>
    BY <1>4, <1>6 DEF Tick
  <2>2. FilesInv'
    BY <1>5, <2>1, FilesFrame DEF LogsInv
  <2> QED BY <1>0, <1>1, <1>2, <1>3, <2>1, <2>2 DEF LogsInv
<1>7. ASSUME NEW n \in Nodes, StartZeek(n) PROVE LogsInv'
  <2>1. UNCHANGED <<now, files, post, jobs, archive>>
    BY <1>7 DEF StartZeek
  <2>2. FilesInv'
    BY <1>4, <1>5, <2>1, FilesFrame DEF LogsInv
  <2> QED BY <1>0, <1>1, <1>2, <1>3, <2>1, <2>2 DEF LogsInv
<1>8. ASSUME NEW n \in Nodes, NEW b \in Logs, OpenLog(n, b) PROVE LogsInv'
  <2> DEFINE i == [dir |-> Dir(n), log |-> b, opened |-> now]
             h == File(i, FALSE)
  <2>1. /\ n \in zeek /\ files' = files \cup {h} /\ UNCHANGED <<now, post, jobs, archive>>
        /\ \A f \in Current(n) : f.id.log # b
    BY <1>8 DEF OpenLog
  <2>2. h.id.dir = Dir(n) /\ h.id.log = b /\ h.id.opened = now /\ h.stamped = FALSE
    BY DEF File
  <2>3. Dir(n) \in Dirs /\ ~Past(Dir(n))
    BY Directories DEF Dir, ArchiveTypeOK, TimesInv, LogsInv
  <2>4. \A f \in files : f.id.dir = Dir(n) /\ ~f.stamped => f.id.log # b
    BY <2>1 DEF Current, FilesIn
  <2> HIDE DEF h
  <2>5. \A f \in files' : f.id.opened <= now' /\ (Past(f.id.dir)' => f.id.opened <= post'[f.id.dir].end)
    BY <1>4, <2>1, <2>2, <2>3 DEF FilesInv, LogsInv, Past
  <2>6. \A f, g \in files' : f.id.dir = g.id.dir /\ f.id.log = g.id.log /\ ~f.stamped /\ ~g.stamped => f = g
    BY <2>1, <2>2, <2>4 DEF FilesInv, LogsInv
  <2> QED BY <1>0, <1>1, <1>2, <1>3, <2>1, <2>5, <2>6 DEF FilesInv, LogsInv
<1>9. ASSUME NEW n \in Nodes, Rotate(n) PROVE LogsInv'
  <2>1. PICK f \in Current(n) : Rotated(n, {f}) /\ UNCHANGED <<now, post, archive>>
    BY <1>9 DEF Rotate
  <2>2. {f} \in SUBSET Current(n)
    OBVIOUS
  <2> QED BY <1>0, <1>1, <1>3, <2>1, <2>2, RotatedStep DEF LogsInv
<1>10. ASSUME NEW n \in Nodes, Terminate(n) PROVE LogsInv'
  <2>1. UNCHANGED <<now, post, archive>> /\ (Rotated(n, Current(n)) \/ UNCHANGED <<files, jobs>>)
    BY <1>10 DEF Terminate
  <2>2. CASE Rotated(n, Current(n))
    BY <1>0, <1>1, <1>3, <2>1, <2>2, RotatedStep DEF LogsInv
  <2>3. CASE UNCHANGED <<files, jobs>>
    <3>1. FilesInv'
      BY <1>4, <1>5, <2>1, <2>3, FilesFrame DEF LogsInv
    <3> QED BY <1>0, <1>1, <1>2, <1>3, <2>1, <2>3, <3>1 DEF LogsInv
  <2> QED BY <2>1, <2>2, <2>3
<1>11. ASSUME NEW n \in Nodes, NEW crash \in BOOLEAN, PostTerminate(n, crash) PROVE LogsInv'
  <2> DEFINE d == Dir(n)
  <2>1. d \in Dirs
    BY Directories DEF Dir, ArchiveTypeOK
  <2>2. post' = [post EXCEPT ![d] = [Idle EXCEPT !.pc = "wait", !.end = now]] /\ UNCHANGED <<now, files, jobs, archive>>
    BY <1>11 DEF PostTerminate
  <2>3. post'[d].end = now /\ post'[d].todo = {} /\ \A e \in Dirs : e # d => post'[e] = post[e]
    BY <2>1, <2>2 DEF ArchiveTypeOK, Idle
  <2>4. TodoInv'
    BY <2>3 DEF TodoInv, LogsInv
  <2>5. \A f \in files : f.id.dir \in Dirs
    BY DEF ArchiveTypeOK, LogFiles, LogIds
  <2>6. \A f \in files : f.id.opened <= now' /\ (Past(f.id.dir)' => f.id.opened <= post'[f.id.dir].end)
    BY <2>2, <2>3, <2>5 DEF FilesInv, LogsInv, Past
  <2>7. FilesInv'
    BY <2>2, <2>6 DEF FilesInv, LogsInv
  <2> QED BY <1>0, <1>2, <1>3, <2>2, <2>4, <2>7 DEF LogsInv
<1>12. ASSUME NEW j \in jobs, JobStep(j) PROVE LogsInv'
  <2>1. /\ UNCHANGED now /\ files' \subseteq files
        /\ post' = post \/ post' = [post EXCEPT ![j.id.dir].failed = TRUE]
        /\ \/ jobs' = jobs \ {j}
           \/ \E k \in Jobs : jobs' = (jobs \ {j}) \cup {k} /\ k.from = j.from /\ k.to = j.to
        /\ archive' \subseteq archive \cup {<<ArchiveName(j), j.id>>}
    BY <1>12, JobChanges
  <2>2. \A d \in Dirs : post'[d].pc = post[d].pc /\ post'[d].end = post[d].end /\ post'[d].todo = post[d].todo
    <3>1. \A d \in Dirs : post[d] \in [pc : PostSteps, end : Times, failed : BOOLEAN, todo : SUBSET LogFiles]
      BY DEF ArchiveTypeOK
    <3>2. \A d \in Dirs : post'[d] = post[d] \/ post'[d] = [post[d] EXCEPT !.failed = TRUE]
      BY <2>1 DEF ArchiveTypeOK
    <3> QED BY <3>1, <3>2
  <2>3. \A d \in Dirs : (Past(d)' <=> Past(d)) /\ post'[d].end = post[d].end
    BY <2>2 DEF Past
  <2>4. TodoInv'
    BY <2>2 DEF TodoInv, LogsInv
  <2>5. FilesInv'
    BY <1>4, <2>1, <2>3, FilesFrame DEF LogsInv
  <2>6. j.from <= j.to
    BY DEF JobsInv, LogsInv
  <2>7. JobsInv'
    BY <2>1, <2>6 DEF JobsInv, LogsInv
  <2>8. NamesInOrder'
    <3>1. <<ArchiveName(j), j.id>>[1][2] = j.from /\ <<ArchiveName(j), j.id>>[1][3] = j.to
      BY DEF ArchiveName
    <3> QED BY <2>1, <2>6, <3>1 DEF NamesInOrder, LogsInv
  <2> QED BY <1>0, <2>4, <2>5, <2>7, <2>8 DEF LogsInv
<1>13. ASSUME NEW d \in Dirs, PostStep(d) PROVE LogsInv'
  <2>1. /\ UNCHANGED <<now, archive>> /\ files' \subseteq files
        /\ \A e \in Dirs : e # d => post'[e] = post[e]
        /\ Past(d) /\ Past(d)' /\ post'[d].end = post[d].end
        /\ post'[d].todo \subseteq post[d].todo \/ post'[d].todo = FilesIn(d)
        /\ ArchiveLog(d) \/ jobs' \subseteq jobs
    BY <1>13, PostChanges
  <2>2. \A e \in Dirs : (Past(e)' <=> Past(e)) /\ post'[e].end = post[e].end
    BY <2>1 DEF Past
  <2>3. FilesInv'
    BY <1>4, <2>1, <2>2, FilesFrame DEF LogsInv
  <2>4. \A f \in FilesIn(d) : f \in files /\ f.id.dir = d /\ f.id.opened <= post[d].end
    BY <2>1 DEF FilesIn, FilesInv, LogsInv
  <2>5. \A f \in post'[d].todo : f.id.dir = d /\ f.id.opened <= post'[d].end
    BY <2>1, <2>4 DEF TodoInv, LogsInv
  <2>6. \A f, g \in post'[d].todo : f.id.log = g.id.log /\ ~f.stamped /\ ~g.stamped => f = g
    BY <2>1, <2>4 DEF TodoInv, FilesInv, LogsInv
  <2>7. TodoInv'
    BY <2>1, <2>5, <2>6 DEF TodoInv, LogsInv
  <2>8. JobsInv'
    BY <2>1, ArchiveLogAddsJob DEF JobsInv, LogsInv
  <2> QED BY <1>0, <1>3, <2>1, <2>3, <2>7, <2>8 DEF LogsInv
<1> QED BY <1>6, <1>7, <1>8, <1>9, <1>10, <1>11, <1>12, <1>13 DEF ArchiveNext, Work, JobStep, PostStep

LEMMA InvHolds == ArchiveSpec => []ArchiveInv
<1>1. ArchiveInit => ArchiveInv
  <2> SUFFICES ASSUME ArchiveInit PROVE ArchiveInv
    OBVIOUS
  <2>1. ArchiveTypeOK
    BY ArchiveAssumption, Directories DEF ArchiveInit, ArchiveTypeOK, Times, Idle, PostSteps
  <2>2. TimesInv
    BY ArchiveAssumption, Directories DEF ArchiveInit, TimesInv, Idle, Past
  <2> QED BY <2>1, <2>2 DEF ArchiveInit, ArchiveInv, LogsInv, FilesInv, TodoInv, JobsInv, NamesInOrder, Idle
<1>2. ArchiveInv /\ [ArchiveNext]_aVars => ArchiveInv'
  <2>1. CASE ArchiveInv /\ ArchiveNext
    BY <2>1, TypeStep, LogsStep DEF ArchiveInv, LogsInv
  <2>2. CASE ArchiveInv /\ UNCHANGED aVars
    BY <2>2 DEF aVars, dirs, ArchiveInv, ArchiveTypeOK, LogsInv, TimesInv, FilesInv, TodoInv, JobsInv, NamesInOrder, Past, Dir
  <2> QED BY <2>1, <2>2
<1> QED BY <1>1, <1>2, PTL DEF ArchiveSpec

(* The state stays within its types: a node never gets more directories than
   it is started times and one, and every file, job and archived log is one of
   a directory that exists. *)
THEOREM TypeCorrect == ArchiveSpec => []ArchiveTypeOK
<1>1. ArchiveInv => ArchiveTypeOK
  BY DEF ArchiveInv
<1> QED BY <1>1, InvHolds, PTL

(* post-terminate's name for a log it archives never ends before it starts,
   whatever .rotated.<log>, .startup and the file's own name said. *)
THEOREM NamesInOrderHolds == ArchiveSpec => []NamesInOrder
<1>1. ArchiveInv => NamesInOrder
  BY DEF ArchiveInv, LogsInv
<1> QED BY <1>1, InvHolds, PTL

-----------------------------------------------------------------------------
(* No log is lost.                                                         *)

(* The names that logs have in the archive, or are about to get. *)
Claims == archive \cup {<<ArchiveName(j), j.id>> : j \in jobs}

Archived(i) == \E e \in archive : e[2] = i

(* A name that Zeek has given: from the opening to a rotation, and the process
   does not end within the second of its last rotation. *)
ByZeek(c) ==
  /\ c[1][2] = c[2].opened
  /\ IF Past(c[2].dir) THEN c[1][3] < post[c[2].dir].end
     ELSE last[c[2].dir[1]] # Never /\ c[1][3] <= last[c[2].dir[1]]

(* A name that post-terminate has given, up to the end of the process: either
   from the opening, or to the last log of its kind on the list. *)
ByPost(c) ==
  /\ Past(c[2].dir) /\ c[1][3] = post[c[2].dir].end /\ post[c[2].dir].pc # "wait"
  /\ \/ c[1][2] = c[2].opened /\ c[2].opened < post[c[2].dir].end
     \/ \A f \in post[c[2].dir].todo : f.id.log # c[2].log

(* The process of a directory is started after that of every earlier directory
   has ended. *)
Successive ==
  \A d, e \in Dirs : d[1] = e[1] /\ d[2] < e[2] /\ startup[e] # Never =>
                       Past(d) /\ post[d].end < startup[e]

(* A name is for one log only. *)
ClaimsInv ==
  /\ \A c \in Claims :
       /\ c[1][1] = c[2].log /\ c[1][4] = c[2].dir[1]
       /\ startup[c[2].dir] # Never /\ startup[c[2].dir] <= c[1][3]
       /\ ByZeek(c) \/ ByPost(c)
  /\ \A c, e \in Claims : c[1] = e[1] => c[2] = e[2]

(* A log that Zeek has renamed was opened before the end. *)
StampedInv ==
  /\ \A f \in files : f.stamped =>
       IF Past(f.id.dir) THEN f.id.opened < post[f.id.dir].end
       ELSE last[f.id.dir[1]] # Never /\ f.id.opened <= last[f.id.dir[1]]
  /\ \A d \in Dirs : \A f \in post[d].todo : f.stamped => f.id.opened < post[d].end

(* What the archive-log processes have done at each stage: once
   post-terminate archives, every other one that goes on started after the end,
   and so .rotated.<log> is not before it. *)
RotatedLate(d, b) == rotated[d][b] # Never /\ post[d].end <= rotated[d][b]

StagesInv ==
  /\ \A j \in jobs :
       /\ j.by = "zeek" => ByZeek(<<ArchiveName(j), j.id>>)
       /\ j.by = "post" => post[j.id.dir].pc = "archive" /\ j.to = post[j.id.dir].end
       /\ post[j.id.dir].pc = "archive" /\ j.stage # "spawned" =>
            j.at # Never /\ post[j.id.dir].end <= j.at
       /\ j.by = "post" /\ j.stage \in {"named", "copied"} => RotatedLate(j.id.dir, j.id.log)
       /\ j.stage = "copied" => Archived(j.id)
  /\ \A e \in archive : post[e[2].dir].pc = "archive" /\ e[1][3] = post[e[2].dir].end =>
       RotatedLate(e[2].dir, e[2].log)

(* A log in a directory that post-terminate deals with is on its list, or being
   archived, or archived, or post-terminate knows that it failed. *)
KeptInv ==
  /\ \A n \in Nodes : name[Dir(n)] = "work"
  /\ \A d \in Dirs : \A f \in FilesIn(d) :
       /\ post[d].pc = "archive" =>
            \/ f \in post[d].todo \/ (\E j \in jobs : j.by = "post" /\ j.id = f.id)
            \/ post[d].failed \/ Archived(f.id)
       /\ post[d].pc = "end" /\ d \notin mailed => Archived(f.id)

KeepInv ==
  /\ ArchiveInv /\ Successive /\ ClaimsInv /\ StampedInv /\ StagesInv /\ KeptInv /\ NoLogLost

LEMMA ClaimTypes ==
  ASSUME ArchiveTypeOK
  PROVE  /\ \A c \in Claims :
              /\ c[2] \in LogIds /\ c[2].dir \in Dirs /\ c[2].dir[1] \in Nodes /\ c[2].log \in Logs
              /\ c[2].opened \in Nat /\ c[1][2] \in Nat /\ c[1][3] \in Nat
         /\ \A j \in jobs :
              /\ <<ArchiveName(j), j.id>> \in Claims /\ j.id \in LogIds /\ j.id.dir \in Dirs
              /\ j.id.log \in Logs /\ j.from \in Nat /\ j.to \in Nat /\ j.at \in Nat
              /\ ArchiveName(j)[1] = j.id.log /\ ArchiveName(j)[2] = j.from
              /\ ArchiveName(j)[3] = j.to /\ ArchiveName(j)[4] = j.id.dir[1]
         /\ \A f \in files : /\ f.id \in LogIds /\ f.id.dir \in Dirs /\ f.id.dir[1] \in Nodes
                             /\ f.id.log \in Logs /\ f.id.opened \in Nat /\ f.stamped \in BOOLEAN
         /\ \A d \in Dirs : /\ post[d].end \in Nat /\ startup[d] \in Nat
                            /\ \A b \in Logs : rotated[d][b] \in Nat
                            /\ \A f \in post[d].todo : f.id \in LogIds /\ f.id.opened \in Nat
         /\ \A n \in Nodes : last[n] \in Nat /\ Dir(n) \in Dirs
         /\ now \in Nat /\ Never \in Nat
<1>1. Times \subseteq Nat /\ Never \in Nat
  BY ArchiveAssumption DEF Times, Never
<1>2. \A d \in Dirs : d[1] \in Nodes
  BY Directories
<1>3. \A j \in jobs : j.id \in LogIds /\ j.from \in Times /\ j.to \in Times /\ j.at \in Times \cup {Never}
  BY DEF ArchiveTypeOK, Jobs
<1>4. \A i \in LogIds : i.dir \in Dirs /\ i.log \in Logs /\ i.opened \in Times
  BY DEF LogIds
<1>5. ASSUME NEW c \in Claims
      PROVE  c[2] \in LogIds /\ c[1][2] \in Nat /\ c[1][3] \in Nat
  <2>1. CASE c \in archive
    <3>1. c \in Names \X LogIds
      BY <2>1 DEF ArchiveTypeOK
    <3>2. c[1] \in Names /\ c[2] \in LogIds
      BY <3>1
    <3> QED BY <1>1, <3>2 DEF Names
  <2>2. CASE \E j \in jobs : c = <<ArchiveName(j), j.id>>
    BY <1>1, <1>3, <2>2 DEF ArchiveName
  <2> QED BY <2>1, <2>2 DEF Claims
<1>6. \A f \in LogFiles : f.id \in LogIds /\ f.stamped \in BOOLEAN
  BY DEF LogFiles
<1>7. \A d \in Dirs : /\ post[d].end \in Times /\ startup[d] \in Times \cup {Never}
                      /\ \A b \in Logs : rotated[d][b] \in Times \cup {Never}
                      /\ \A f \in post[d].todo : f \in LogFiles
  BY DEF ArchiveTypeOK
<1>8. \A n \in Nodes : last[n] \in Times \cup {Never} /\ Dir(n) \in Dirs
  BY Directories DEF ArchiveTypeOK, Dir
<1>9. now \in Nat /\ files \subseteq LogFiles
  BY <1>1 DEF ArchiveTypeOK
<1>10. \A j \in jobs : /\ <<ArchiveName(j), j.id>> \in Claims
                       /\ ArchiveName(j)[1] = j.id.log /\ ArchiveName(j)[2] = j.from
                       /\ ArchiveName(j)[3] = j.to /\ ArchiveName(j)[4] = j.id.dir[1]
  BY DEF Claims, ArchiveName
<1>11. \A c \in Claims : c[2].dir \in Dirs /\ c[2].dir[1] \in Nodes /\ c[2].log \in Logs /\ c[2].opened \in Nat
  BY <1>1, <1>2, <1>4, <1>5
<1>12. \A f \in files : /\ f.id \in LogIds /\ f.id.dir \in Dirs /\ f.id.dir[1] \in Nodes
                        /\ f.id.log \in Logs /\ f.id.opened \in Nat /\ f.stamped \in BOOLEAN
  BY <1>1, <1>2, <1>4, <1>6, <1>9
<1>13. \A d \in Dirs : /\ post[d].end \in Nat /\ startup[d] \in Nat
                       /\ \A b \in Logs : rotated[d][b] \in Nat
                       /\ \A f \in post[d].todo : f.id \in LogIds /\ f.id.opened \in Nat
  BY <1>1, <1>4, <1>6, <1>7
<1>14. \A j \in jobs : /\ j.id \in LogIds /\ j.id.dir \in Dirs /\ j.id.log \in Logs
                       /\ j.from \in Nat /\ j.to \in Nat /\ j.at \in Nat
  BY <1>1, <1>3, <1>4
<1> QED BY <1>1, <1>5, <1>8, <1>9, <1>10, <1>11, <1>12, <1>13, <1>14

(* A time belongs to one directory of a node. *)
LEMMA SameDir ==
  ASSUME ArchiveTypeOK, Successive, NEW d \in Dirs, NEW e \in Dirs, NEW t \in Nat, d[1] = e[1],
         startup[d] # Never, startup[d] <= t, Past(d) => t <= post[d].end,
         startup[e] # Never, startup[e] <= t, Past(e) => t <= post[e].end
  PROVE  d = e
<1>1. d = <<d[1], d[2]>> /\ e = <<e[1], e[2]>> /\ d[2] \in Nat /\ e[2] \in Nat
  BY Directories, ArchiveAssumption
<1>2. /\ post[d].end \in Nat /\ startup[d] \in Nat
      /\ post[e].end \in Nat /\ startup[e] \in Nat
  BY ClaimTypes
<1>3. ~(d[2] < e[2])
  BY <1>2 DEF Successive
<1>4. ~(e[2] < d[2])
  BY <1>2 DEF Successive
<1>5. d[2] = e[2]
  BY <1>1, <1>3, <1>4
<1> QED BY <1>1, <1>5

(* A step of archive-log makes no new claim, and what is in the archive stays:
   only the file of the same log is replaced. *)
LEMMA JobClaims ==
  ASSUME KeepInv, NEW j \in jobs, JobStep(j)
  PROVE  /\ Claims' \subseteq Claims
         /\ \A i : Archived(i) => Archived(i)'
         /\ \A f \in files : f \in files' \/ (f.id = j.id /\ Archived(f.id)')
<1> USE DEF KeepInv, ArchiveInv
<1>1. /\ \/ jobs' = jobs \ {j}
         \/ \E k \in Jobs : /\ jobs' = (jobs \ {j}) \cup {k}
                            /\ k.id = j.id /\ k.from = j.from /\ k.to = j.to /\ k.by = j.by
      /\ archive' \subseteq archive \cup {<<ArchiveName(j), j.id>>}
  BY JobChanges
<1>2. \A k : k.id = j.id /\ k.from = j.from /\ k.to = j.to => ArchiveName(k) = ArchiveName(j)
  BY DEF ArchiveName
<1>3. Claims' \subseteq Claims
  BY <1>1, <1>2 DEF Claims, ArchiveName
<1>4. ASSUME Put(j) PROVE \A i : Archived(i) \/ i = j.id => Archived(i)'
  <2>1. <<ArchiveName(j), j.id>> \in archive' /\ <<ArchiveName(j), j.id>>[2] = j.id
    BY <1>4 DEF Put
  <2>2. ASSUME NEW e \in archive PROVE Archived(e[2])'
    <3>1. CASE e[1] = ArchiveName(j)
      <4>1. e \in Claims /\ <<ArchiveName(j), j.id>> \in Claims
        BY DEF Claims
      <4>2. <<ArchiveName(j), j.id>>[1] = ArchiveName(j)
        OBVIOUS
      <4>3. e[2] = j.id
        BY <2>1, <3>1, <4>1, <4>2 DEF ClaimsInv
      <4> QED BY <2>1, <4>3 DEF Archived
    <3>2. CASE e[1] # ArchiveName(j)
      BY <1>4, <3>2 DEF Put, Archived
    <3> QED BY <3>1, <3>2
  <2> QED BY <2>1, <2>2 DEF Archived
<1>5. ASSUME UNCHANGED archive PROVE \A i : Archived(i) => Archived(i)'
  BY <1>5 DEF Archived
<1>6. CASE JobTransfers(j)
  <2>1. UNCHANGED <<archive, files>> \/ (Put(j) /\ (UNCHANGED files \/ files' = files \ FilesOf(j)))
    BY <1>6 DEF JobTransfers
  <2> QED BY <1>3, <1>4, <1>5, <2>1 DEF FilesOf
<1>7. CASE JobRemoves(j)
  <2>1. j.stage = "copied" /\ files' = files \ FilesOf(j) /\ UNCHANGED archive
    BY <1>7 DEF JobRemoves
  <2>2. Archived(j.id)'
    BY <1>5, <2>1 DEF StagesInv
  <2> QED BY <1>3, <1>5, <2>1, <2>2 DEF FilesOf
<1>8. CASE JobStarts(j) \/ JobNames(j) \/ JobKilled(j)
  <2>1. UNCHANGED <<archive, files>>
    BY <1>8 DEF JobStarts, JobNames, JobKilled
  <2> QED BY <1>3, <1>5, <2>1
<1> QED BY <1>6, <1>7, <1>8 DEF JobStep, Job

(* Steps that add no claim, and neither leave nor enter a directory. *)
LEMMA ClaimsFrame ==
  ASSUME KeepInv, Claims' \subseteq Claims,
         \A d \in Dirs : /\ startup[d] # Never => startup'[d] = startup[d]
                         /\ (Past(d)' <=> Past(d)) /\ post'[d].end = post[d].end
                         /\ post[d].pc # "wait" => post'[d].pc # "wait"
                         /\ post[d].pc = "wait" \/ post'[d].todo \subseteq post[d].todo,
         \A n \in Nodes : last[n] # Never => last'[n] # Never /\ last[n] <= last'[n] /\ last'[n] \in Nat
  PROVE  ClaimsInv'
<1> USE DEF KeepInv, ArchiveInv
<1>1. Never' = Never
  BY DEF Never
<1>2. ASSUME NEW c \in Claims' PROVE ByZeek(c)' \/ ByPost(c)'
  <2> DEFINE d == c[2].dir
  <2>1. /\ c \in Claims /\ d \in Dirs /\ d[1] \in Nodes /\ c[1][3] \in Nat
        /\ \A n \in Nodes : last[n] \in Nat
    BY ClaimTypes
  <2>2. CASE ByZeek(c)
    <3>1. CASE Past(d)
      BY <2>1, <2>2, <3>1 DEF ByZeek
    <3>2. CASE ~Past(d)
      <4>1. last[d[1]] # Never /\ c[1][3] <= last[d[1]] /\ c[1][2] = c[2].opened
        BY <2>2, <3>2 DEF ByZeek
      <4>2. last'[d[1]] # Never /\ c[1][3] <= last'[d[1]]
        BY <2>1, <4>1
      <4> QED BY <1>1, <2>1, <3>2, <4>1, <4>2 DEF ByZeek
    <3> QED BY <3>1, <3>2
  <2>3. CASE ByPost(c)
    BY <2>1, <2>3 DEF ByPost
  <2> QED BY <2>1, <2>2, <2>3 DEF ClaimsInv
<1>3. ASSUME NEW c \in Claims'
      PROVE  /\ c[1][1] = c[2].log /\ c[1][4] = c[2].dir[1]
             /\ startup'[c[2].dir] # Never /\ startup'[c[2].dir] <= c[1][3]
  BY ClaimTypes DEF ClaimsInv
<1>4. \A c, e \in Claims' : c[1] = e[1] => c[2] = e[2]
  BY DEF ClaimsInv
<1> QED BY <1>1, <1>2, <1>3, <1>4 DEF ClaimsInv

(* What is in the archive, and what the processes have done, does not change
   with the steps of Zeek before a rotation. *)
LEMMA StagesFrame ==
  ASSUME StagesInv, UNCHANGED <<jobs, archive, rotated, post, last>>
  PROVE  StagesInv'
BY DEF StagesInv, RotatedLate, ByZeek, Archived, ArchiveName, Past, Never

LEMMA SuccessiveFrame ==
  ASSUME Successive, UNCHANGED startup,
         \A d \in Dirs : Past(d) => Past(d)' /\ post'[d].end = post[d].end
  PROVE  Successive'
BY DEF Successive, Never

(* Time passes, Zeek is started, or opens a log. *)
LEMMA ZeekSteps ==
  ASSUME KeepInv,
         Tick \/ (\E n \in Nodes : StartZeek(n) \/ \E b \in Logs : OpenLog(n, b))
  PROVE  Successive' /\ ClaimsInv' /\ StampedInv' /\ StagesInv' /\ KeptInv' /\ NoLogLost'
<1> USE DEF KeepInv, ArchiveInv, dirs
<1>1. UNCHANGED <<run, name, rotated, post, last, jobs, archive, mailed>>
  BY DEF Tick, StartZeek, OpenLog
<1>2. Never' = Never
  BY DEF Never
<1>3. StagesInv'
  BY <1>1, StagesFrame
<1>4. ASSUME \A d \in Dirs : startup[d] # Never => startup'[d] = startup[d] PROVE ClaimsInv'
  <2>1. Claims' \subseteq Claims
    BY <1>1 DEF Claims, ArchiveName
  <2>2. \A n \in Nodes : last[n] <= last[n] /\ last[n] \in Nat
    BY ClaimTypes
  <2> QED BY <1>1, <1>4, <2>1, <2>2, ClaimsFrame DEF Past
<1>5. CASE Tick
  <2>1. UNCHANGED <<startup, files, written>>
    BY <1>5 DEF Tick
  <2>2. Successive'
    BY <1>1, <2>1, SuccessiveFrame DEF Past
  <2>3. StampedInv' /\ KeptInv' /\ NoLogLost'
    BY <1>1, <1>2, <2>1 DEF StampedInv, KeptInv, NoLogLost, Past, Dir, FilesIn, Archived
  <2> QED BY <1>3, <1>4, <2>1, <2>2, <2>3
<1>6. ASSUME NEW n \in Nodes, StartZeek(n)
      PROVE  Successive' /\ ClaimsInv' /\ StampedInv' /\ StagesInv' /\ KeptInv' /\ NoLogLost'
  <2> DEFINE d == Dir(n)
  <2>1. /\ UNCHANGED <<now, files, written>> /\ startup[d] = Never /\ startup' = [startup EXCEPT ![d] = now]
        /\ run[n] > 1 => now > post[<<n, run[n] - 1>>].end
    BY <1>6 DEF StartZeek
  <2>2. d \in Dirs /\ d[1] = n /\ d[2] = run[n] /\ run[n] \in 1 .. MaxStarts + 1 /\ MaxStarts \in Nat
    BY Directories, ArchiveAssumption DEF Dir, ArchiveTypeOK
  <2>3. startup'[d] = now /\ \A e \in Dirs : e # d => startup'[e] = startup[e]
    BY <2>1, <2>2 DEF ArchiveTypeOK
  <2>4. StampedInv' /\ KeptInv' /\ NoLogLost'
    BY <1>1, <1>2, <2>1 DEF StampedInv, KeptInv, NoLogLost, Past, Dir, FilesIn, Archived
  <2>5. \A e \in Dirs : startup[e] # Never => startup'[e] = startup[e]
    BY <2>1, <2>3
  <2>6. ASSUME NEW e \in Dirs, e[1] = n, e[2] < run[n] PROVE Past(e) /\ post[e].end < now
    <3> DEFINE c == <<n, run[n] - 1>>
    <3>1. e[2] \in 1 .. MaxStarts + 1 /\ run[n] > 1 /\ run[n] - 1 \in 1 .. MaxStarts + 1
      BY <2>2, <2>6, Directories
    <3>2. c \in Dirs /\ c[1] = n /\ c[2] = run[n] - 1
      BY <3>1, Directories
    <3>3. Past(e) /\ Past(c)
      BY <2>2, <2>6, <3>1, <3>2 DEF TimesInv, LogsInv
    <3>4. post[c].end < now
      BY <2>1, <3>1, ClaimTypes
    <3>5. CASE e[2] = run[n] - 1
      <4>1. e = c
        BY <2>6, <3>5, Directories
      <4> QED BY <3>3, <3>4, <4>1
    <3>6. CASE e[2] # run[n] - 1
      <4>1. e[2] < c[2]
        BY <2>2, <2>6, <3>1, <3>2, <3>6
      <4>2. startup[c] # Never /\ startup[c] <= post[c].end
        BY <3>2, <3>3 DEF TimesInv, LogsInv
      <4>3. post[e].end < startup[c]
        BY <2>6, <3>2, <4>1, <4>2 DEF Successive
      <4>4. post[e].end \in Nat /\ startup[c] \in Nat /\ post[c].end \in Nat /\ now \in Nat
        BY <3>2, ClaimTypes
      <4> HIDE DEF c
      <4> QED BY <3>3, <3>4, <4>2, <4>3, <4>4
    <3> QED BY <3>5, <3>6
  <2>7. Successive'
    <3> SUFFICES ASSUME NEW b \in Dirs, NEW e \in Dirs, b[1] = e[1], b[2] < e[2], startup'[e] # Never
                 PROVE  Past(b) /\ post[b].end < startup'[e]
      BY <1>1, <1>2 DEF Successive, Past
    <3>1. CASE e = d
      BY <2>2, <2>3, <2>6, <3>1
    <3>2. CASE e # d
      BY <2>3, <3>2 DEF Successive
    <3> QED BY <3>1, <3>2
  <2> QED BY <1>3, <1>4, <2>4, <2>5, <2>7
<1>7. ASSUME NEW n \in Nodes, NEW b \in Logs, OpenLog(n, b)
      PROVE  Successive' /\ ClaimsInv' /\ StampedInv' /\ StagesInv' /\ KeptInv' /\ NoLogLost'
  <2> DEFINE i == [dir |-> Dir(n), log |-> b, opened |-> now]
             h == File(i, FALSE)
  <2>1. /\ UNCHANGED <<startup>> /\ n \in zeek /\ files' = files \cup {h} /\ written' = written \cup {i}
    BY <1>7 DEF OpenLog
  <2>2. i.dir = Dir(n) /\ h.id = i /\ h.stamped = FALSE
    BY DEF File
  <2>3. Dir(n) \in Dirs /\ ~Past(Dir(n)) /\ name[Dir(n)] = "work"
    BY Directories DEF Dir, ArchiveTypeOK, TimesInv, LogsInv, KeptInv
  <2> HIDE DEF i, h
  <2>4. Successive'
    BY <1>1, <2>1, SuccessiveFrame DEF Past
  <2>5. StampedInv'
    BY <1>1, <1>2, <2>1, <2>2 DEF StampedInv, Past
  <2>6. \A d \in Dirs : \A f \in FilesIn(d)' : f \in FilesIn(d) \/ post[d].pc = "none"
    BY <2>1, <2>2, <2>3 DEF FilesIn, Past
  <2>7. KeptInv'
    BY <1>1, <2>6 DEF KeptInv, Dir, Archived
  <2>8. NoLogLost'
    BY <1>1, <2>1, <2>2, <2>3 DEF NoLogLost
  <2> QED BY <1>3, <1>4, <2>1, <2>4, <2>5, <2>7, <2>8
<1> QED BY <1>5, <1>6, <1>7

(* Zeek rotates logs: no log of the directory has a name up to this second,
   except one that was opened at the same time. *)
LEMMA RotationSteps ==
  ASSUME KeepInv, NEW n \in zeek, n \in Nodes, NEW fs \in SUBSET Current(n), fs # {}, Rotated(n, fs),
         UNCHANGED <<now, dirs, written, archive, post, mailed>>
  PROVE  Successive' /\ ClaimsInv' /\ StampedInv' /\ StagesInv' /\ KeptInv' /\ NoLogLost'
<1> USE DEF KeepInv, ArchiveInv, dirs
<1> DEFINE d == Dir(n)
           J(f) == [id |-> f.id, from |-> f.id.opened, to |-> now, stage |-> "spawned", at |-> Never, by |-> "zeek"]
           C(f) == <<ArchiveName(J(f)), f.id>>
<1>1. Never' = Never /\ now # Never /\ now \in Nat
  BY ArchiveAssumption DEF Never, ArchiveTypeOK, Times
<1>2. d \in Dirs /\ d[1] = n /\ ~Past(d) /\ startup[d] # Never /\ startup[d] <= now
  BY Directories DEF Dir, ArchiveTypeOK, TimesInv, LogsInv
<1>3. \A f \in fs : /\ f \in files /\ f.id.dir = d /\ ~f.stamped /\ f.id.opened <= now /\ f.id \in LogIds
                    /\ f.id.opened \in Nat
  BY ClaimTypes DEF Current, FilesIn, FilesInv, LogsInv
<1>4. /\ last'[n] = now /\ \A m \in Nodes : m # n => last'[m] = last[m]
      /\ files' = (files \ fs) \cup {File(f.id, TRUE) : f \in fs}
      /\ jobs' = jobs \cup {J(f) : f \in fs}
  BY DEF Rotated, ArchiveTypeOK
<1>5. \A m \in Nodes : last[m] # Never => last'[m] # Never /\ last[m] <= last'[m] /\ last'[m] \in Nat
  BY <1>1, <1>4, ClaimTypes DEF TimesInv, LogsInv
<1>6. ASSUME NEW f \in fs
      PROVE  /\ C(f)[2] = f.id /\ C(f)[1] = ArchiveName(J(f)) /\ J(f).id = f.id
             /\ C(f)[1][1] = f.id.log /\ C(f)[1][2] = f.id.opened /\ C(f)[1][3] = now /\ C(f)[1][4] = n
             /\ J(f).by = "zeek" /\ J(f).stage = "spawned"
  BY <1>2, <1>3 DEF ArchiveName
<1>7. Claims' = Claims \cup {C(f) : f \in fs}
  <2>1. \A j : ArchiveName(j)' = ArchiveName(j)
    BY DEF ArchiveName
  <2>2. \A f \in fs : <<ArchiveName(J(f)), J(f).id>> = C(f)
    BY <1>6
  <2> HIDE DEF J, C
  <2> QED BY <1>4, <2>1, <2>2 DEF Claims
<1> HIDE DEF d, J, C
<1>8. \A f \in fs : \A c : c = C(f) => ByZeek(c)'
  BY <1>1, <1>2, <1>3, <1>4, <1>6 DEF ByZeek, Past
<1>9. \A c \in Claims : (ByZeek(c) => ByZeek(c)') /\ (ByPost(c) => ByPost(c)')
  <2> TAKE c \in Claims
  <2>1. c[2].dir[1] \in Nodes /\ c[1][3] \in Nat /\ \A m \in Nodes : last[m] \in Nat
    BY ClaimTypes
  <2> QED BY <1>1, <1>5, <2>1 DEF ByZeek, ByPost, Past
<1>10. ASSUME NEW c \in Claims, NEW f \in fs, c[1] = C(f)[1] PROVE c[2] = C(f)[2]
  <2>1. c[2] \in LogIds /\ c[2].dir \in Dirs
    BY ClaimTypes
  <2>2. /\ c[1][1] = c[2].log /\ c[1][4] = c[2].dir[1] /\ (ByZeek(c) \/ ByPost(c))
        /\ startup[c[2].dir] # Never /\ startup[c[2].dir] <= c[1][3]
    BY DEF ClaimsInv
  <2>3. c[1][1] = f.id.log /\ c[1][2] = f.id.opened /\ c[1][3] = now /\ c[1][4] = n
    BY <1>6, <1>10
  <2>4. Past(c[2].dir) => now <= post[c[2].dir].end
    BY <1>1, <2>1, <2>2, <2>3, ClaimTypes DEF ByZeek, ByPost
  <2>5. c[2].dir = d
    <3> DEFINE e == c[2].dir
    <3>1. /\ e \in Dirs /\ d[1] = e[1] /\ startup[e] # Never /\ startup[e] <= now
          /\ Past(e) => now <= post[e].end
      BY <1>2, <2>1, <2>2, <2>3, <2>4
    <3>2. \A e2 \in Dirs : d[1] = e2[1] /\ startup[e2] # Never /\ startup[e2] <= now /\ (Past(e2) => now <= post[e2].end) => d = e2
      BY <1>1, <1>2, SameDir
    <3> HIDE DEF e
    <3>3. d = e
      BY <3>1, <3>2
    <3> QED BY <3>3 DEF e
  <2>6. c[2].opened = f.id.opened
    BY <1>2, <2>2, <2>3, <2>5 DEF ByZeek, ByPost
  <2>7. /\ f.id = [dir |-> f.id.dir, log |-> f.id.log, opened |-> f.id.opened]
        /\ c[2] = [dir |-> c[2].dir, log |-> c[2].log, opened |-> c[2].opened]
    BY <1>3, <2>1 DEF LogIds
  <2>8. f.id.dir = c[2].dir /\ f.id.log = c[2].log
    BY <1>3, <2>2, <2>3, <2>5
  <2>9. f.id = c[2]
    BY <2>6, <2>7, <2>8
  <2> QED BY <1>6, <2>9
<1>11. ASSUME NEW f \in fs, NEW g \in fs, C(f)[1] = C(g)[1] PROVE C(f)[2] = C(g)[2]
  <2>1. /\ f.id = [dir |-> f.id.dir, log |-> f.id.log, opened |-> f.id.opened]
        /\ g.id = [dir |-> g.id.dir, log |-> g.id.log, opened |-> g.id.opened]
    BY <1>3 DEF LogIds
  <2> QED BY <1>3, <1>6, <1>11, <2>1
<1>12. ClaimsInv'
  <2>1. \A c \in Claims' :
          /\ c[1][1] = c[2].log /\ c[1][4] = c[2].dir[1]
          /\ startup'[c[2].dir] # Never' /\ startup'[c[2].dir] <= c[1][3]
          /\ ByZeek(c)' \/ ByPost(c)'
    BY <1>1, <1>2, <1>3, <1>6, <1>7, <1>8, <1>9 DEF ClaimsInv
  <2>2. \A c, e \in Claims' : c[1] = e[1] => c[2] = e[2]
    BY <1>7, <1>10, <1>11 DEF ClaimsInv
  <2> QED BY <2>1, <2>2 DEF ClaimsInv
<1>13. StampedInv'
  <2>1. ASSUME NEW f \in files', f.stamped
        PROVE  IF Past(f.id.dir) THEN f.id.opened < post[f.id.dir].end
               ELSE last'[f.id.dir[1]] # Never /\ f.id.opened <= last'[f.id.dir[1]]
    <3>1. CASE f \in files
      <4>1. f.id.dir[1] \in Nodes /\ f.id.opened \in Nat /\ \A m \in Nodes : last[m] \in Nat
        BY <3>1, ClaimTypes
      <4> QED BY <1>5, <2>1, <3>1, <4>1 DEF StampedInv
    <3>2. CASE \E g \in fs : f = File(g.id, TRUE)
      <4>1. PICK g \in fs : f.id = g.id
        BY <3>2 DEF File
      <4> QED BY <1>1, <1>2, <1>3, <1>4, <4>1
    <3> QED BY <1>4, <3>1, <3>2
  <2> QED BY <1>1, <2>1 DEF StampedInv, Past
<1>14. StagesInv'
  <2>1. \A j \in jobs : <<ArchiveName(j), j.id>> \in Claims
    BY ClaimTypes
  <2>2. \A j \in jobs : j.by = "zeek" => ByZeek(<<ArchiveName(j), j.id>>)'
    BY <1>9, <2>1 DEF StagesInv
  <2>3. \A f \in fs : <<ArchiveName(J(f)), J(f).id>> = C(f)
    BY <1>6 DEF C
  <2>5. \A j : ArchiveName(j)' = ArchiveName(j)
    BY DEF ArchiveName
  <2>6. \A j \in jobs' : j.by = "zeek" => ByZeek(<<ArchiveName(j), j.id>>)'
    BY <1>4, <1>8, <2>2, <2>3
  <2>7. \A j \in jobs' : j \in jobs \/ (j.by = "zeek" /\ j.stage = "spawned")
    BY <1>4, <1>6
  <2>8. \A e, b : RotatedLate(e, b)' <=> RotatedLate(e, b)
    BY <1>1 DEF RotatedLate
  <2>9. \A i : Archived(i)' <=> Archived(i)
    BY DEF Archived
  <2>10. \A j \in jobs' :
          /\ j.by = "post" => post'[j.id.dir].pc = "archive" /\ j.to = post'[j.id.dir].end
          /\ post'[j.id.dir].pc = "archive" /\ j.stage # "spawned" => j.at # Never' /\ post'[j.id.dir].end <= j.at
          /\ j.by = "post" /\ j.stage \in {"named", "copied"} => RotatedLate(j.id.dir, j.id.log)'
          /\ j.stage = "copied" => Archived(j.id)'
    BY <1>1, <2>7, <2>8, <2>9 DEF StagesInv
  <2>11. \A e \in archive' : post'[e[2].dir].pc = "archive" /\ e[1][3] = post'[e[2].dir].end => RotatedLate(e[2].dir, e[2].log)'
    BY <2>8 DEF StagesInv
  <2> QED BY <2>5, <2>6, <2>10, <2>11 DEF StagesInv, ArchiveName
<1>15. Successive'
  BY SuccessiveFrame DEF Past
<1>16. KeptInv'
  <2>1. \A e \in Dirs : \A f \in FilesIn(e)' : f \in FilesIn(e) \/ post[e].pc = "none"
    <3> SUFFICES ASSUME NEW e \in Dirs, NEW f \in files', f.id.dir = e, f \notin files PROVE post[e].pc = "none"
      BY DEF FilesIn
    <3>1. PICK g \in fs : f.id = g.id
      BY <1>4 DEF File
    <3> QED BY <1>2, <1>3, <3>1 DEF Past
  <2>2. jobs \subseteq jobs'
    BY <1>4
  <2> QED BY <2>1, <2>2 DEF KeptInv, Dir, Archived
<1>17. NoLogLost'
  <2>1. \A f \in files : \E g \in files' : g.id = f.id
    <3> TAKE f \in files
    <3>1. File(f.id, TRUE).id = f.id
      BY DEF File
    <3> QED BY <1>4, <3>1
  <2> QED BY <2>1 DEF NoLogLost
<1> QED BY <1>12, <1>13, <1>14, <1>15, <1>16, <1>17

LEMMA ZeekRotates ==
  ASSUME KeepInv, NEW n \in Nodes, Rotate(n) \/ Terminate(n)
  PROVE  Successive' /\ ClaimsInv' /\ StampedInv' /\ StagesInv' /\ KeptInv' /\ NoLogLost'
<1>1. CASE UNCHANGED <<files, jobs, last>> /\ UNCHANGED <<now, dirs, written, archive, post, mailed>>
  <2> USE DEF KeepInv, dirs
  <2>1. Claims' \subseteq Claims
    BY <1>1 DEF Claims, ArchiveName
  <2>2. \A m \in Nodes : last[m] <= last[m] /\ last[m] \in Nat
    BY ClaimTypes DEF ArchiveInv
  <2>3. ClaimsInv'
    BY <1>1, <2>1, <2>2, ClaimsFrame DEF Past
  <2>4. StagesInv' /\ Successive'
    BY <1>1, StagesFrame, SuccessiveFrame DEF Past
  <2>5. StampedInv' /\ KeptInv' /\ NoLogLost'
    BY <1>1 DEF StampedInv, KeptInv, NoLogLost, Past, Dir, FilesIn, Archived, Never
  <2> QED BY <2>3, <2>4, <2>5
<1>2. CASE Rotate(n)
  <2>1. PICK f \in Current(n) : n \in zeek /\ Rotated(n, {f}) /\ UNCHANGED <<now, dirs, zeek, written, archive, post, mailed>>
    BY <1>2 DEF Rotate
  <2>2. {f} \in SUBSET Current(n) /\ {f} # {}
    OBVIOUS
  <2> QED BY <2>1, <2>2, RotationSteps
<1>3. CASE Terminate(n)
  <2>1. n \in zeek /\ UNCHANGED <<now, dirs, written, archive, post, mailed>>
    BY <1>3 DEF Terminate
  <2>2. CASE Rotated(n, Current(n)) /\ Current(n) = {}
    <3>1. last' = last /\ files' = files /\ jobs' = jobs
      BY <2>2 DEF Rotated, KeepInv, ArchiveInv, ArchiveTypeOK
    <3> QED BY <1>1, <2>1, <3>1
  <2>3. CASE Rotated(n, Current(n)) /\ Current(n) # {}
    BY <2>1, <2>3, RotationSteps
  <2> QED BY <1>1, <1>3, <2>1, <2>2, <2>3 DEF Terminate
<1> QED BY <1>2, <1>3

(* The directory is moved away: Zeek's last rotation was before this second,
   which is the end of the process. *)
LEMMA LeavingSteps ==
  ASSUME KeepInv, NEW n \in Nodes, NEW crash \in BOOLEAN, PostTerminate(n, crash)
  PROVE  Successive' /\ ClaimsInv' /\ StampedInv' /\ StagesInv' /\ KeptInv' /\ NoLogLost'
<1> USE DEF KeepInv, ArchiveInv, dirs
<1> PICK d : d = Dir(n)
  OBVIOUS
<1> PICK next : next = <<n, run[n] + 1>>
  OBVIOUS
<1>1. Never' = Never /\ now \in Nat /\ last[n] \in Nat
  BY ClaimTypes DEF Never
<1>2. d \in Dirs /\ d = <<n, run[n]>> /\ d[1] = n /\ d[2] = run[n] /\ run[n] \in 1 .. MaxStarts + 1
  BY Directories DEF Dir, ArchiveTypeOK
<1>3. startup[d] # Never /\ last[n] # now /\ ~Past(d) /\ run[n] <= MaxStarts
  BY <1>2 DEF PostTerminate, TimesInv, LogsInv
<1>4. next \in Dirs /\ next[1] = n /\ next[2] = run[n] + 1 /\ next # d
  <2>1. run[n] + 1 \in 1 .. MaxStarts + 1
    BY <1>2, <1>3, ArchiveAssumption
  <2> QED BY <1>2, <2>1, Directories
<1>5. ~Past(next)
  BY <1>2, <1>4 DEF TimesInv, LogsInv
<1>6. /\ post' = [post EXCEPT ![d] = [Idle EXCEPT !.pc = "wait", !.end = now]]
      /\ name' = [name EXCEPT ![d] = IF crash THEN "crash" ELSE "post", ![next] = "work"]
      /\ run' = [run EXCEPT ![n] = @ + 1]
      /\ UNCHANGED <<now, startup, rotated, zeek, files, written, archive, jobs, last, mailed>>
  BY <1>2 DEF PostTerminate
<1>7. /\ post'[d].pc = "wait" /\ post'[d].end = now /\ post'[d].todo = {}
      /\ \A e \in Dirs : e # d => post'[e] = post[e]
  BY <1>2, <1>6 DEF ArchiveTypeOK, Idle
<1>8. /\ name'[next] = "work" /\ name'[d] \in {"crash", "post"}
      /\ \A e \in Dirs : e # d /\ e # next => name'[e] = name[e]
  BY <1>2, <1>4, <1>6 DEF ArchiveTypeOK
<1>9. Dir(n)' = next /\ \A m \in Nodes : m # n => Dir(m)' = Dir(m) /\ Dir(m) \in Dirs /\ Dir(m) # d /\ Dir(m) # next
  BY <1>2, <1>4, <1>6, ClaimTypes DEF Dir, ArchiveTypeOK
<1>10. \A e \in Dirs : Past(e) => e # d /\ e # next /\ Past(e)' /\ post'[e] = post[e]
  BY <1>3, <1>5, <1>7 DEF Past
<1>11. Successive'
  BY <1>6, <1>10, SuccessiveFrame
<1>12. \A i \in LogIds : i.dir \in Dirs /\ i.dir[1] \in Nodes
  BY Directories DEF LogIds
<1>13. \A t \in Nat : last[n] # Never /\ t <= last[n] => t < now
  BY <1>1, <1>3 DEF TimesInv, LogsInv
<1>14. Past(d)' /\ \A e \in Dirs : e # d => (Past(e)' <=> Past(e))
  BY <1>7 DEF Past
<1>15. ASSUME NEW c \in Claims PROVE (ByZeek(c) => ByZeek(c)') /\ (ByPost(c) => ByPost(c)')
  <2>1. c[2].dir \in Dirs /\ c[1][3] \in Nat
    BY ClaimTypes
  <2>2. CASE c[2].dir = d
    BY <1>1, <1>2, <1>3, <1>7, <1>13, <1>14, <2>1, <2>2 DEF ByZeek, ByPost
  <2>3. CASE c[2].dir # d
    BY <1>1, <1>6, <1>7, <1>14, <2>1, <2>3 DEF ByZeek, ByPost
  <2> QED BY <2>2, <2>3
<1>16. ClaimsInv'
  <2>1. Claims' = Claims
    BY <1>6 DEF Claims, ArchiveName
  <2> QED BY <1>1, <1>6, <1>15, <2>1 DEF ClaimsInv
<1>17. StampedInv'
  <2>1. ASSUME NEW f \in files, f.stamped
        PROVE  IF Past(f.id.dir)' THEN f.id.opened < post'[f.id.dir].end
               ELSE last[f.id.dir[1]] # Never /\ f.id.opened <= last[f.id.dir[1]]
    <3>1. f.id.dir \in Dirs /\ f.id.opened \in Nat
      BY ClaimTypes
    <3>2. CASE f.id.dir = d
      BY <1>2, <1>3, <1>7, <1>13, <1>14, <2>1, <3>1, <3>2 DEF StampedInv
    <3>3. CASE f.id.dir # d
      BY <1>7, <1>14, <2>1, <3>1, <3>3 DEF StampedInv
    <3> QED BY <3>2, <3>3
  <2>2. \A e \in Dirs : \A f \in post'[e].todo : f.stamped => f.id.opened < post'[e].end
    BY <1>7 DEF StampedInv
  <2> QED BY <1>1, <1>6, <2>1, <2>2 DEF StampedInv
<1>18. StagesInv'
  <2>2. \A j \in jobs : <<ArchiveName(j), j.id>> \in Claims /\ j.id.dir \in Dirs
    BY ClaimTypes
  <2>3. \A j \in jobs : j.by = "zeek" => ByZeek(<<ArchiveName(j), j.id>>)'
    BY <1>15, <2>2 DEF StagesInv
  <2>4. \A e \in Dirs : post'[e].pc = "archive" => post[e] = post'[e]
    BY <1>7
  <2>5. \A e, b : RotatedLate(e, b) /\ post[e] = post'[e] => RotatedLate(e, b)'
    BY <1>1, <1>6 DEF RotatedLate
  <2>6. \A i : Archived(i) => Archived(i)'
    BY <1>6 DEF Archived
  <2>7. \A e \in Dirs : post[e].pc = "archive" => post[e] = post'[e]
    BY <1>3, <1>7 DEF Past
  <2>8. ASSUME NEW j \in jobs
        PROVE  /\ j.by = "post" => post'[j.id.dir].pc = "archive" /\ j.to = post'[j.id.dir].end
               /\ post'[j.id.dir].pc = "archive" /\ j.stage # "spawned" => j.at # Never' /\ post'[j.id.dir].end <= j.at
               /\ j.by = "post" /\ j.stage \in {"named", "copied"} => RotatedLate(j.id.dir, j.id.log)'
               /\ j.stage = "copied" => Archived(j.id)'
    BY <1>1, <2>2, <2>4, <2>5, <2>6, <2>7 DEF StagesInv
  <2>9. ASSUME NEW e \in archive, post'[e[2].dir].pc = "archive", e[1][3] = post'[e[2].dir].end
        PROVE  RotatedLate(e[2].dir, e[2].log)'
    <3>1. e[2].dir \in Dirs
      BY ClaimTypes DEF Claims
    <3> QED BY <2>4, <2>5, <2>9, <3>1 DEF StagesInv
  <2> QED BY <1>6, <2>3, <2>8, <2>9 DEF StagesInv, ArchiveName
<1>19. KeptInv'
  <2>1. \A m \in Nodes : name'[Dir(m)'] = "work"
    BY <1>8, <1>9 DEF KeptInv
  <2>2. ASSUME NEW e \in Dirs, NEW f \in FilesIn(e)
        PROVE  /\ post'[e].pc = "archive" =>
                    \/ f \in post'[e].todo \/ (\E j \in jobs : j.by = "post" /\ j.id = f.id)
                    \/ post'[e].failed \/ Archived(f.id)
               /\ post'[e].pc = "end" /\ e \notin mailed => Archived(f.id)
    BY <1>7 DEF KeptInv
  <2>3. (\A e : FilesIn(e)' = FilesIn(e)) /\ \A i : Archived(i)' <=> Archived(i)
    BY <1>6 DEF FilesIn, Archived
  <2> QED BY <1>6, <2>1, <2>2, <2>3 DEF KeptInv
<1>20. NoLogLost'
  <2>1. \A e \in Dirs : name[e] # "none" => name'[e] # "none"
    BY <1>8
  <2>2. \A e \in Dirs : post[e].pc \in {"expired", "killed"} => post'[e] = post[e] /\ name'[e] = name[e]
    BY <1>8, <1>10 DEF Past
  <2>3. \A e \in Dirs : post'[e].pc = "end" => post'[e] = post[e] /\ name'[e] = name[e]
    BY <1>5, <1>7, <1>8 DEF Past
  <2>4. \A i \in written : i.dir \in Dirs
    BY <1>12 DEF ArchiveTypeOK
  <2>5. \A d2 \in Dirs : post'[d2].pc = "end" /\ name'[d2] = "post" => d2 \in mailed'
    BY <1>6, <2>3 DEF NoLogLost
  <2>6. ASSUME NEW i \in written
        PROVE  \/ \E f \in files : f.id = i /\ name'[i.dir] # "none"
               \/ \E e \in archive : e[2] = i
               \/ post'[i.dir].pc = "expired" /\ i.dir \in mailed
               \/ post'[i.dir].pc = "killed" /\ name'[i.dir] = "none"
    <3>1. i.dir \in Dirs
      BY <2>4
    <3>2. CASE \E f \in files : f.id = i /\ name[i.dir] # "none"
      BY <2>1, <3>1, <3>2
    <3>3. CASE post[i.dir].pc = "expired" /\ i.dir \in mailed
      BY <2>2, <3>1, <3>3
    <3>4. CASE post[i.dir].pc = "killed" /\ name[i.dir] = "none"
      BY <2>2, <3>1, <3>4
    <3> QED BY <3>2, <3>3, <3>4 DEF NoLogLost
  <2> QED BY <1>6, <2>5, <2>6 DEF NoLogLost
<1> QED BY <1>11, <1>16, <1>17, <1>18, <1>19, <1>20

(* The stages of a job; and what it leaves when it has ended. *)
LEMMA JobStages ==
  ASSUME ArchiveTypeOK, NEW j \in jobs, JobStep(j)
  PROVE  /\ \/ jobs' = jobs \ {j}
            \/ \E k : /\ jobs' = (jobs \ {j}) \cup {k}
                      /\ k.id = j.id /\ k.from = j.from /\ k.to = j.to /\ k.by = j.by
                      /\ \/ k.stage = "running" /\ k.at = now
                         \/ k.stage = "named" /\ k.at = j.at /\ j.stage = "running" /\ rotated'[j.id.dir][j.id.log] = j.at
                         \/ k.stage = "copied" /\ k.at = j.at /\ j.stage = "named" /\ Put(j)
         /\ \/ UNCHANGED rotated
            \/ j.stage = "running" /\ rotated' = [rotated EXCEPT ![j.id.dir][j.id.log] = j.at]
         /\ UNCHANGED archive \/ (j.stage = "named" /\ Put(j))
         /\ \A f \in files : f.id = j.id =>
              f \notin files' \/ (\E k \in jobs' : k.by = j.by /\ k.id = j.id) \/ j.by = "zeek" \/ post'[j.id.dir].failed
<1> USE DEF dirs
<1>0. /\ j \in Jobs /\ j.id.dir \in Dirs /\ j.id.log \in Logs
      /\ post[j.id.dir] \in [pc : PostSteps, end : Times, failed : BOOLEAN, todo : SUBSET LogFiles]
  BY ClaimTypes DEF ArchiveTypeOK
<1>1. rotated[j.id.dir] \in [Logs -> Times \cup {Never}]
  BY <1>0 DEF ArchiveTypeOK
<1>2. ASSUME JobEnds(j, FALSE) PROVE jobs' = jobs \ {j} /\ (j.by = "zeek" \/ post'[j.id.dir].failed)
  BY <1>0, <1>2 DEF JobEnds, ArchiveTypeOK
<1>3. CASE JobStarts(j)
  <2> DEFINE k == [j EXCEPT !.stage = "running", !.at = now]
  <2>1. /\ k.id = j.id /\ k.from = j.from /\ k.to = j.to /\ k.by = j.by /\ k.stage = "running" /\ k.at = now
    BY <1>0 DEF Jobs
  <2>2. jobs' = (jobs \ {j}) \cup {k} /\ UNCHANGED <<rotated, archive>>
    BY <1>3 DEF JobStarts, Becomes
  <2> HIDE DEF k
  <2> QED BY <2>1, <2>2
<1>4. CASE JobNames(j)
  <2> DEFINE k == [j EXCEPT !.stage = "named"]
  <2>1. k.id = j.id /\ k.from = j.from /\ k.to = j.to /\ k.by = j.by /\ k.stage = "named" /\ k.at = j.at
    BY <1>0 DEF Jobs
  <2>2. j.stage = "running" /\ UNCHANGED archive
    BY <1>4 DEF JobNames
  <2>3. CASE Becomes(j, k) /\ rotated' = [rotated EXCEPT ![j.id.dir][j.id.log] = j.at]
    <3>1. rotated'[j.id.dir][j.id.log] = j.at
      BY <1>0, <1>1, <2>3 DEF ArchiveTypeOK
    <3>2. jobs' = (jobs \ {j}) \cup {k}
      BY <2>3 DEF Becomes
    <3> HIDE DEF k
    <3> QED BY <2>1, <2>2, <2>3, <3>1, <3>2
  <2>4. CASE JobEnds(j, FALSE) /\ UNCHANGED rotated
    BY <1>2, <2>2, <2>4
  <2> QED BY <1>4, <2>3, <2>4 DEF JobNames
<1>5. CASE JobTransfers(j)
  <2> DEFINE k == [j EXCEPT !.stage = "copied"]
  <2>1. k.id = j.id /\ k.from = j.from /\ k.to = j.to /\ k.by = j.by /\ k.stage = "copied" /\ k.at = j.at
    BY <1>0 DEF Jobs
  <2>2. j.stage = "named" /\ UNCHANGED rotated
    BY <1>5 DEF JobTransfers
  <2>3. CASE Put(j) /\ Becomes(j, k)
    <3>1. jobs' = (jobs \ {j}) \cup {k}
      BY <2>3 DEF Becomes
    <3> HIDE DEF k
    <3> QED BY <2>1, <2>2, <2>3, <3>1
  <2>4. CASE Put(j) /\ JobEnds(j, TRUE) /\ files' = files \ FilesOf(j)
    BY <2>2, <2>4 DEF JobEnds, FilesOf
  <2>5. CASE FilesOf(j) = {} /\ JobEnds(j, TRUE) /\ UNCHANGED archive
    BY <2>2, <2>5 DEF JobEnds, FilesOf
  <2>6. CASE JobEnds(j, FALSE) /\ UNCHANGED archive
    BY <1>2, <2>2, <2>6
  <2> QED BY <1>5, <2>3, <2>4, <2>5, <2>6 DEF JobTransfers
<1>6. CASE JobRemoves(j)
  BY <1>6 DEF JobRemoves, JobEnds, FilesOf
<1>7. CASE JobKilled(j)
  BY <1>2, <1>7 DEF JobKilled
<1> QED BY <1>3, <1>4, <1>5, <1>6, <1>7 DEF JobStep, Job

LEMMA JobSteps ==
  ASSUME KeepInv, NEW j \in jobs, JobStep(j)
  PROVE  Successive' /\ ClaimsInv' /\ StampedInv' /\ StagesInv' /\ KeptInv' /\ NoLogLost'
<1> USE DEF KeepInv, ArchiveInv
<1>1. /\ UNCHANGED <<now, run, name, startup, zeek, written, last, mailed>> /\ files' \subseteq files
      /\ post' = post \/ post' = [post EXCEPT ![j.id.dir].failed = TRUE]
  BY JobChanges
<1>2. \A d \in Dirs : /\ post'[d].pc = post[d].pc /\ post'[d].end = post[d].end /\ post'[d].todo = post[d].todo
                      /\ post[d].failed => post'[d].failed
  <2>1. \A d \in Dirs : post[d] \in [pc : PostSteps, end : Times, failed : BOOLEAN, todo : SUBSET LogFiles]
    BY DEF ArchiveTypeOK
  <2>2. \A d \in Dirs : post'[d] = post[d] \/ post'[d] = [post[d] EXCEPT !.failed = TRUE]
    BY <1>1 DEF ArchiveTypeOK
  <2> QED BY <2>1, <2>2
<1>3. \A d \in Dirs : Past(d)' <=> Past(d)
  BY <1>2 DEF Past
<1>4. /\ Claims' \subseteq Claims /\ \A i : Archived(i) => Archived(i)'
      /\ \A f \in files : f \in files' \/ (f.id = j.id /\ Archived(f.id)')
  BY JobClaims
<1>5. Never' = Never /\ now # Never /\ now \in Nat
  BY ArchiveAssumption DEF Never, ArchiveTypeOK, Times
<1>6. Successive'
  BY <1>1, <1>2, <1>3, SuccessiveFrame
<1>7. ClaimsInv'
  <2>1. \A n \in Nodes : last[n] <= last[n] /\ last[n] \in Nat
    BY ClaimTypes
  <2> QED BY <1>1, <1>2, <1>3, <1>4, <2>1, ClaimsFrame
<1>8. StampedInv'
  <2>1. \A f \in files : f.id.dir \in Dirs
    BY ClaimTypes
  <2> QED BY <1>1, <1>2, <1>3, <1>5, <2>1 DEF StampedInv
<1>9. \A k \in jobs : k.id.dir \in Dirs /\ k.id.log \in Logs
  BY ClaimTypes
<1>10. ASSUME NEW k \in jobs, k.by = "zeek" PROVE ByZeek(<<ArchiveName(k), k.id>>)'
  <2>1. ByZeek(<<ArchiveName(k), k.id>>)
    BY <1>10 DEF StagesInv
  <2> QED BY <1>1, <1>2, <1>3, <1>5, <1>9, <2>1 DEF ByZeek, ArchiveName
<1>11. ASSUME NEW d \in Dirs, NEW b \in Logs, post[d].pc = "archive", RotatedLate(d, b) PROVE RotatedLate(d, b)'
  <2>1. UNCHANGED rotated \/ (j.stage = "running" /\ rotated' = [rotated EXCEPT ![j.id.dir][j.id.log] = j.at])
    BY JobStages
  <2>2. CASE UNCHANGED rotated
    BY <1>2, <1>5, <1>11, <2>2 DEF RotatedLate
  <2>3. CASE j.stage = "running" /\ rotated' = [rotated EXCEPT ![j.id.dir][j.id.log] = j.at]
    <3>1. rotated[d] \in [Logs -> Times \cup {Never}] /\ rotated \in [Dirs -> [Logs -> Times \cup {Never}]]
      BY DEF ArchiveTypeOK
    <3>2. CASE d = j.id.dir /\ b = j.id.log
      <4>1. rotated'[d][b] = j.at
        BY <2>3, <3>1, <3>2
      <4>2. j.at # Never /\ post[d].end <= j.at
        BY <1>11, <2>3, <3>2 DEF StagesInv
      <4> QED BY <1>2, <1>5, <4>1, <4>2 DEF RotatedLate
    <3>3. CASE ~(d = j.id.dir /\ b = j.id.log)
      <4>1. rotated'[d][b] = rotated[d][b]
        BY <2>3, <3>1, <3>3
      <4> QED BY <1>2, <1>5, <1>11, <4>1 DEF RotatedLate
    <3> QED BY <3>2, <3>3
  <2> QED BY <2>1, <2>2, <2>3
<1> DEFINE Stage(k) ==
      /\ k.by = "zeek" => ByZeek(<<ArchiveName(k), k.id>>)'
      /\ k.by = "post" => post[k.id.dir].pc = "archive" /\ k.to = post[k.id.dir].end
      /\ post[k.id.dir].pc = "archive" /\ k.stage # "spawned" => k.at # Never /\ post[k.id.dir].end <= k.at
      /\ k.by = "post" /\ k.stage \in {"named", "copied"} => RotatedLate(k.id.dir, k.id.log)'
      /\ k.stage = "copied" => Archived(k.id)'
<1>12. ASSUME NEW k \in jobs PROVE Stage(k)
  BY <1>4, <1>9, <1>10, <1>11 DEF StagesInv
<1>13. ASSUME NEW k, k.id = j.id, k.from = j.from, k.to = j.to, k.by = j.by,
              \/ k.stage = "running" /\ k.at = now
              \/ k.stage = "named" /\ k.at = j.at /\ j.stage = "running" /\ rotated'[j.id.dir][j.id.log] = j.at
              \/ k.stage = "copied" /\ k.at = j.at /\ j.stage = "named" /\ Put(j)
       PROVE  Stage(k)
  <2>1. Stage(j)
    BY <1>12
  <2>2. ArchiveName(k)' = ArchiveName(j)' /\ ArchiveName(j)' = ArchiveName(j) /\ k.id' = k.id
    BY <1>13 DEF ArchiveName
  <2>3. k.by = "zeek" => ByZeek(<<ArchiveName(k), k.id>>)'
    BY <1>13, <2>1 DEF ArchiveName
  <2>4. post[j.id.dir].pc = "archive" => post[j.id.dir].end <= now
    BY <1>9 DEF TimesInv, LogsInv, Past
  <2>5. post[k.id.dir].pc = "archive" /\ k.stage # "spawned" => k.at # Never /\ post[k.id.dir].end <= k.at
    BY <1>5, <1>13, <2>1, <2>4
  <2>6. k.by = "post" /\ k.stage \in {"named", "copied"} => RotatedLate(k.id.dir, k.id.log)'
    BY <1>2, <1>5, <1>9, <1>13, <2>1, <2>5 DEF RotatedLate
  <2>7. ASSUME k.stage = "copied" PROVE Archived(k.id)'
    <3>1. Put(j)
      BY <1>13, <2>7
    <3>2. <<ArchiveName(j), j.id>> \in archive' /\ <<ArchiveName(j), j.id>>[2] = k.id
      BY <1>13, <3>1 DEF Put
    <3> QED BY <3>2 DEF Archived
  <2> QED BY <1>13, <2>1, <2>3, <2>5, <2>6, <2>7
<1> DEFINE Next(k) ==
      /\ k.id = j.id /\ k.from = j.from /\ k.to = j.to /\ k.by = j.by
      /\ \/ k.stage = "running" /\ k.at = now
         \/ k.stage = "named" /\ k.at = j.at /\ j.stage = "running" /\ rotated'[j.id.dir][j.id.log] = j.at
         \/ k.stage = "copied" /\ k.at = j.at /\ j.stage = "named" /\ Put(j)
<1>19. (\A k \in jobs' : k \in jobs \/ Next(k)) /\ (\A k \in jobs : k = j \/ k \in jobs')
  <2>1. jobs' = jobs \ {j} \/ \E k : jobs' = (jobs \ {j}) \cup {k} /\ Next(k)
    BY JobStages
  <2> HIDE DEF Next
  <2> QED BY <2>1
<1>20. \A f \in files : f.id = j.id =>
        f \notin files' \/ (\E k \in jobs' : k.by = j.by /\ k.id = j.id) \/ j.by = "zeek" \/ post'[j.id.dir].failed
  BY JobStages, ZenonT(40)
<1>14. \A k \in jobs' : Stage(k)
  <2> HIDE DEF Stage
  <2> QED BY <1>12, <1>13, <1>19
<1>15. ASSUME NEW e \in archive', post[e[2].dir].pc = "archive", e[1][3] = post[e[2].dir].end
       PROVE  RotatedLate(e[2].dir, e[2].log)'
  <2>1. UNCHANGED archive \/ (j.stage = "named" /\ Put(j))
    BY JobStages
  <2>2. CASE e \in archive
    <3>1. e[2].dir \in Dirs /\ e[2].log \in Logs
      BY <2>2, ClaimTypes DEF Claims
    <3> QED BY <1>11, <1>15, <2>2, <3>1 DEF StagesInv
  <2>3. CASE j.stage = "named" /\ e = <<ArchiveName(j), j.id>>
    <3>1. e[2] = j.id /\ e[1][3] = j.to
      BY <2>3 DEF ArchiveName
    <3>2. Past(j.id.dir) /\ j.to \in Nat
      BY <1>15, <3>1, ClaimTypes DEF Past
    <3>3. j.by # "zeek"
      <4>1. ByZeek(e) => e[1][3] < post[e[2].dir].end
        BY <3>1, <3>2 DEF ByZeek
      <4> QED BY <1>15, <2>3, <3>1, <3>2, <4>1 DEF StagesInv
    <3>4. j.by = "post"
      BY <3>3 DEF ArchiveTypeOK, Jobs
    <3> QED BY <1>12, <2>3, <3>1, <3>4
  <2> QED BY <2>1, <2>2, <2>3 DEF Put
<1>16. StagesInv'
  <2>1. \A k \in jobs' : k.id.dir \in Dirs
    BY <1>9, <1>19
  <2>2. ASSUME NEW e \in archive' PROVE e[2].dir \in Dirs
    <3>1. e \in Claims
      BY <1>4 DEF Claims
    <3> QED BY <3>1, ClaimTypes
  <2>3. \A k \in jobs' :
          /\ k.by = "zeek" => ByZeek(<<ArchiveName(k), k.id>>)'
          /\ k.by = "post" => post'[k.id.dir].pc = "archive" /\ k.to = post'[k.id.dir].end
          /\ post'[k.id.dir].pc = "archive" /\ k.stage # "spawned" => k.at # Never' /\ post'[k.id.dir].end <= k.at
          /\ k.by = "post" /\ k.stage \in {"named", "copied"} => RotatedLate(k.id.dir, k.id.log)'
          /\ k.stage = "copied" => Archived(k.id)'
    BY <1>2, <1>5, <1>14, <2>1
  <2>4. \A e \in archive' : post'[e[2].dir].pc = "archive" /\ e[1][3] = post'[e[2].dir].end =>
                              RotatedLate(e[2].dir, e[2].log)'
    BY <1>2, <1>15, <2>2
  <2> HIDE DEF Stage
  <2> QED BY <2>3, <2>4 DEF StagesInv, ArchiveName
<1>17. KeptInv'
  <2>1. \A n \in Nodes : name'[Dir(n)'] = "work"
    BY <1>1 DEF KeptInv, Dir
  <2>2. ASSUME NEW d \in Dirs, NEW f \in files', f.id.dir = d, post[d].pc = "archive"
        PROVE  \/ f \in post[d].todo \/ (\E k \in jobs' : k.by = "post" /\ k.id = f.id)
               \/ post'[d].failed \/ Archived(f.id)'
    <3>1. f \in FilesIn(d)
      BY <1>1, <2>2 DEF FilesIn
    <3>2. CASE f \in post[d].todo \/ post[d].failed \/ Archived(f.id)
      BY <1>2, <1>4, <3>2
    <3>3. CASE \E k \in jobs : k.by = "post" /\ k.id = f.id
      <4>1. PICK k \in jobs : k.by = "post" /\ k.id = f.id
        BY <3>3
      <4>2. CASE k = j
        <5>1. f \in files /\ f.id = j.id /\ j.by = "post" /\ f \in files'
          BY <1>1, <2>2, <4>1, <4>2
        <5>2. (\E k2 \in jobs' : k2.by = j.by /\ k2.id = j.id) \/ post'[j.id.dir].failed
          BY <1>20, <5>1
        <5> QED BY <2>2, <5>1, <5>2
      <4>3. CASE k # j
        BY <1>19, <4>1, <4>3
      <4> QED BY <4>2, <4>3
    <3> QED BY <2>2, <3>1, <3>2, <3>3 DEF KeptInv
  <2>3. ASSUME NEW d \in Dirs, NEW f \in files', f.id.dir = d, post[d].pc = "end", d \notin mailed
        PROVE  Archived(f.id)'
    <3>1. f \in FilesIn(d)
      BY <1>1, <2>3 DEF FilesIn
    <3> QED BY <1>4, <2>3, <3>1 DEF KeptInv
  <2>4. \A d \in Dirs : \A f \in FilesIn(d)' : f \in files' /\ f.id.dir = d
    BY DEF FilesIn
  <2> QED BY <1>1, <1>2, <2>1, <2>2, <2>3, <2>4 DEF KeptInv
<1>18. NoLogLost'
  <2>1. \A i \in written : i.dir \in Dirs
    BY DEF ArchiveTypeOK, LogIds
  <2>2. \A d \in Dirs : post'[d].pc = "end" /\ name[d] = "post" => d \in mailed
    BY <1>2 DEF NoLogLost
  <2>3. ASSUME NEW i \in written
        PROVE  \/ \E f \in files' : f.id = i /\ name[i.dir] # "none"
               \/ \E e \in archive' : e[2] = i
               \/ post'[i.dir].pc = "expired" /\ i.dir \in mailed
               \/ post'[i.dir].pc = "killed" /\ name[i.dir] = "none"
    <3>1. i.dir \in Dirs
      BY <2>1
    <3>2. CASE \E f \in files : f.id = i /\ name[i.dir] # "none"
      BY <1>4, <3>2 DEF Archived
    <3>3. CASE \E e \in archive : e[2] = i
      BY <1>4, <3>3 DEF Archived
    <3>4. CASE post[i.dir].pc \in {"expired", "killed"}
      BY <1>2, <3>1, <3>2, <3>3, <3>4 DEF NoLogLost
    <3> QED BY <3>2, <3>3, <3>4 DEF NoLogLost
  <2> QED BY <1>1, <2>2, <2>3 DEF NoLogLost
<1> QED BY <1>6, <1>7, <1>8, <1>16, <1>17, <1>18

(* The steps of post-terminate and of cron that start no archive-log. *)
LEMMA PostFrame ==
  ASSUME KeepInv, NEW d \in Dirs, PostStep(d), jobs' \subseteq jobs,
         post[d].pc = "wait" \/ post'[d].todo \subseteq post[d].todo, post[d].pc # "wait" => post'[d].pc # "wait"
  PROVE  Successive' /\ ClaimsInv' /\ StampedInv'
<1> USE DEF KeepInv, ArchiveInv
<1>1. /\ UNCHANGED <<now, run, startup, rotated, zeek, written, archive, last>>
      /\ files' \subseteq files /\ \A e \in Dirs : e # d => post'[e] = post[e]
      /\ Past(d) /\ Past(d)' /\ post'[d].end = post[d].end
      /\ post'[d].todo \subseteq post[d].todo \/ post'[d].todo = FilesIn(d)
  BY PostChanges
<1>2. \A e \in Dirs : (Past(e)' <=> Past(e)) /\ post'[e].end = post[e].end
  BY <1>1 DEF Past
<1>3. Claims' \subseteq Claims
  BY <1>1 DEF Claims, ArchiveName
<1>4. \A n \in Nodes : last[n] <= last[n] /\ last[n] \in Nat
  BY ClaimTypes
<1>5. ClaimsInv'
  BY <1>1, <1>2, <1>3, <1>4, ClaimsFrame
<1>6. StampedInv'
  <2>1. \A f \in files : f.id.dir \in Dirs
    BY ClaimTypes
  <2>2. \A f \in FilesIn(d) : f.stamped => f.id.opened < post[d].end
    BY <1>1 DEF FilesIn, StampedInv
  <2>3. \A e \in Dirs : \A f \in post'[e].todo : f.stamped => f.id.opened < post'[e].end
    BY <1>1, <2>2 DEF StampedInv
  <2>4. Never' = Never
    BY DEF Never
  <2> QED BY <1>1, <1>2, <2>1, <2>3, <2>4 DEF StampedInv
<1> QED BY <1>1, <1>2, <1>5, <1>6, SuccessiveFrame

(* Of a directory that is being archived, post-terminate and its jobs know; it
   may leave it, or come to it when no job has been named. *)
LEMMA StagesAfterPost ==
  ASSUME KeepInv, NEW d \in Dirs, PostStep(d), jobs' \subseteq jobs,
         \A j \in jobs' : j.id.dir = d /\ j.by = "post" => post'[d].pc = "archive",
         post'[d].pc = "archive" =>
           post[d].pc = "archive" \/ (post[d].pc = "wait" /\ \A j \in JobsIn(d) : j.stage = "spawned")
  PROVE  StagesInv'
<1> USE DEF KeepInv, ArchiveInv
<1>1. /\ UNCHANGED <<now, run, startup, rotated, zeek, written, archive, last>>
      /\ files' \subseteq files /\ \A e \in Dirs : e # d => post'[e] = post[e]
      /\ Past(d) /\ Past(d)' /\ post'[d].end = post[d].end
  BY PostChanges
<1>2. \A e \in Dirs : (Past(e)' <=> Past(e)) /\ post'[e].end = post[e].end
  BY <1>1 DEF Past
<1>3. Never' = Never
  BY DEF Never
<1>4. \A e \in Dirs, b \in Logs : RotatedLate(e, b) => RotatedLate(e, b)'
  BY <1>1, <1>2, <1>3 DEF RotatedLate
<1>5. ASSUME NEW j \in jobs' PROVE j \in jobs /\ j.id.dir \in Dirs /\ j.id.log \in Logs
  BY ClaimTypes
<1>6. ASSUME NEW j \in jobs', j.by = "zeek" PROVE ByZeek(<<ArchiveName(j), j.id>>)'
  <2>1. ByZeek(<<ArchiveName(j), j.id>>)
    BY <1>5, <1>6 DEF StagesInv
  <2> QED BY <1>1, <1>2, <1>3, <1>5, <2>1 DEF ByZeek, ArchiveName
<1>7. ASSUME NEW j \in jobs'
      PROVE  /\ j.by = "post" => post'[j.id.dir].pc = "archive" /\ j.to = post'[j.id.dir].end
             /\ post'[j.id.dir].pc = "archive" /\ j.stage # "spawned" => j.at # Never /\ post'[j.id.dir].end <= j.at
             /\ j.by = "post" /\ j.stage \in {"named", "copied"} => RotatedLate(j.id.dir, j.id.log)'
  BY <1>1, <1>2, <1>4, <1>5 DEF StagesInv, JobsIn
<1>8. ASSUME NEW e \in archive, post'[e[2].dir].pc = "archive", e[1][3] = post'[e[2].dir].end
      PROVE  RotatedLate(e[2].dir, e[2].log)'
  <2>1. e \in Claims /\ e[2].dir \in Dirs /\ e[2].log \in Logs /\ e[1][3] \in Nat
    BY ClaimTypes DEF Claims
  <2>2. CASE post[e[2].dir].pc = "wait"
    <3>1. e[1][3] = post[e[2].dir].end /\ Past(e[2].dir)
      BY <1>2, <1>8, <2>1, <2>2 DEF Past
    <3>2. ~ByZeek(e)
      BY <2>1, <3>1 DEF ByZeek
    <3>3. ~ByPost(e)
      BY <2>2 DEF ByPost
    <3> QED BY <2>1, <3>2, <3>3 DEF ClaimsInv
  <2>3. CASE post[e[2].dir].pc = "archive"
    BY <1>2, <1>4, <1>8, <2>1, <2>3 DEF StagesInv
  <2> QED BY <1>1, <1>8, <2>1, <2>2, <2>3
<1>9. \A j \in jobs' : j.stage = "copied" => Archived(j.id)'
  BY <1>1, <1>5 DEF StagesInv, Archived
<1> QED BY <1>1, <1>3, <1>6, <1>7, <1>8, <1>9 DEF StagesInv, ArchiveName

LEMMA WaitingSteps ==
  ASSUME KeepInv, NEW d \in Dirs, WaitForArchiveLog(d)
  PROVE  Successive' /\ ClaimsInv' /\ StampedInv' /\ StagesInv' /\ KeptInv' /\ NoLogLost'
<1> USE DEF KeepInv, ArchiveInv, dirs
<1>1. /\ post[d].pc = "wait" /\ \A j \in JobsIn(d) : j.stage = "spawned"
      /\ post' = [post EXCEPT ![d].pc = "archive", ![d].todo = FilesIn(d)]
      /\ UNCHANGED <<run, name, files, written, archive, jobs, mailed>>
  BY DEF WaitForArchiveLog
<1>2. PostStep(d)
  BY DEF PostStep, InBackground
<1>3. post'[d].pc = "archive" /\ post'[d].todo = FilesIn(d) /\ \A e \in Dirs : e # d => post'[e] = post[e]
  <2>1. post[d] \in [pc : PostSteps, end : Times, failed : BOOLEAN, todo : SUBSET LogFiles]
    BY DEF ArchiveTypeOK
  <2>2. post'[d] = [post[d] EXCEPT !.pc = "archive", !.todo = FilesIn(d)]
    BY <1>1 DEF ArchiveTypeOK
  <2> QED BY <1>1, <2>1, <2>2 DEF ArchiveTypeOK
<1>4. Successive' /\ ClaimsInv' /\ StampedInv'
  BY <1>1, <1>2, <1>3, PostFrame
<1>5. StagesInv'
  BY <1>1, <1>2, <1>3, StagesAfterPost
<1>6. KeptInv'
  <2>1. (\A e : FilesIn(e)' = FilesIn(e)) /\ (\A i : Archived(i)' <=> Archived(i)) /\ \A n : Dir(n)' = Dir(n)
    BY <1>1 DEF FilesIn, Archived, Dir
  <2>2. ASSUME NEW e \in Dirs, NEW f \in FilesIn(e)
        PROVE  /\ post'[e].pc = "archive" =>
                    \/ f \in post'[e].todo \/ (\E j \in jobs : j.by = "post" /\ j.id = f.id)
                    \/ post'[e].failed \/ Archived(f.id)
               /\ post'[e].pc = "end" /\ e \notin mailed => Archived(f.id)
    BY <1>3 DEF KeptInv
  <2> QED BY <1>1, <2>1, <2>2 DEF KeptInv
<1>7. NoLogLost'
  <2>1. \A i \in written : i.dir \in Dirs
    BY DEF ArchiveTypeOK, LogIds
  <2> QED BY <1>1, <1>3, <2>1 DEF NoLogLost
<1> QED BY <1>4, <1>5, <1>6, <1>7

LEMMA KillingSteps ==
  ASSUME KeepInv, NEW d \in Dirs, PostKilled(d)
  PROVE  Successive' /\ ClaimsInv' /\ StampedInv' /\ StagesInv' /\ KeptInv' /\ NoLogLost'
<1> USE DEF KeepInv, ArchiveInv, dirs
<1>1. /\ post[d].pc \in {"wait", "archive"} /\ jobs' = {j \in jobs : j.by = "zeek" \/ j.id.dir # d}
      /\ post' = [post EXCEPT ![d].pc = "killed"]
      /\ UNCHANGED <<run, name, files, written, archive, mailed>>
  BY DEF PostKilled
<1>2. PostStep(d)
  BY DEF PostStep
<1>3. post'[d].pc = "killed" /\ post'[d].todo = post[d].todo /\ \A e \in Dirs : e # d => post'[e] = post[e]
  BY <1>1 DEF ArchiveTypeOK
<1>4. Successive' /\ ClaimsInv' /\ StampedInv'
  BY <1>1, <1>2, <1>3, PostFrame
<1>5. StagesInv'
  BY <1>1, <1>2, <1>3, StagesAfterPost
<1>6. KeptInv'
  <2>1. ASSUME NEW e \in Dirs, e # d, NEW f \in FilesIn(e), \E j \in jobs : j.by = "post" /\ j.id = f.id
        PROVE  \E j \in jobs' : j.by = "post" /\ j.id = f.id
    BY <1>1, <2>1 DEF FilesIn
  <2>2. (\A e : FilesIn(e)' = FilesIn(e)) /\ (\A i : Archived(i)' <=> Archived(i)) /\ \A n : Dir(n)' = Dir(n)
    BY <1>1 DEF FilesIn, Archived, Dir
  <2>3. ASSUME NEW e \in Dirs, NEW f \in FilesIn(e)
        PROVE  /\ post'[e].pc = "archive" =>
                    \/ f \in post'[e].todo \/ (\E j \in jobs' : j.by = "post" /\ j.id = f.id)
                    \/ post'[e].failed \/ Archived(f.id)
               /\ post'[e].pc = "end" /\ e \notin mailed => Archived(f.id)
    BY <1>3, <2>1 DEF KeptInv
  <2> QED BY <1>1, <2>2, <2>3 DEF KeptInv
<1>7. NoLogLost'
  <2>1. \A i \in written : i.dir \in Dirs
    BY DEF ArchiveTypeOK, LogIds
  <2> QED BY <1>1, <1>3, <2>1 DEF NoLogLost
<1> QED BY <1>4, <1>5, <1>6, <1>7

LEMMA EndingSteps ==
  ASSUME KeepInv, NEW d \in Dirs, EndPostTerminate(d)
  PROVE  Successive' /\ ClaimsInv' /\ StampedInv' /\ StagesInv' /\ KeptInv' /\ NoLogLost'
<1> USE DEF KeepInv, ArchiveInv, dirs
<1>1. /\ post[d].pc = "archive" /\ post[d].todo = {} /\ ~Archives(d)
      /\ post' = [post EXCEPT ![d].pc = "end"]
      /\ mailed' = IF post[d].failed THEN mailed \cup {d} ELSE mailed
      /\ UNCHANGED <<run, written, archive, jobs>>
  BY DEF EndPostTerminate, Over
<1>2. PostStep(d)
  BY DEF PostStep, InBackground
<1>3. /\ post'[d].pc = "end" /\ post'[d].todo = post[d].todo /\ \A e \in Dirs : e # d => post'[e] = post[e]
      /\ Past(d)
  BY <1>1 DEF ArchiveTypeOK, Past
<1>4. Successive' /\ ClaimsInv' /\ StampedInv'
  BY <1>1, <1>2, <1>3, PostFrame
<1>5. StagesInv'
  BY <1>1, <1>2, <1>3, StagesAfterPost DEF Archives, JobsIn
<1>6. ASSUME NEW f \in FilesIn(d), ~post[d].failed PROVE Archived(f.id)
  <2>1. \A j \in jobs : j.by = "post" => j.id # f.id
    BY <1>1 DEF Archives, JobsIn, FilesIn
  <2> QED BY <1>1, <1>6, <2>1 DEF KeptInv
<1>7. \/ UNCHANGED <<name, files>> /\ (post[d].failed \/ name[d] = "crash")
      \/ ~post[d].failed /\ name' = [name EXCEPT ![d] = "none"] /\ files' = files \ FilesIn(d)
  BY DEF EndPostTerminate
<1>8. /\ files' \subseteq files /\ \A f \in files : f \in files' \/ (f.id.dir = d /\ Archived(f.id))
      /\ \A e \in Dirs : e # d => name'[e] = name[e]
  BY <1>6, <1>7 DEF FilesIn, ArchiveTypeOK
<1>9. mailed \subseteq mailed' /\ (post[d].failed => d \in mailed')
  BY <1>1
<1>10. KeptInv'
  <2>1. ASSUME NEW n \in Nodes PROVE name'[Dir(n)'] = "work"
    <3>1. Dir(n)' = Dir(n) /\ Dir(n) \in Dirs /\ Dir(n) # d
      BY <1>1, <1>3, Directories DEF Dir, ArchiveTypeOK, TimesInv, LogsInv
    <3> QED BY <1>8, <3>1 DEF KeptInv
  <2>2. ASSUME NEW e \in Dirs, NEW f \in FilesIn(e)
        PROVE  /\ post'[e].pc = "archive" =>
                    \/ f \in post'[e].todo \/ (\E j \in jobs : j.by = "post" /\ j.id = f.id)
                    \/ post'[e].failed \/ Archived(f.id)
               /\ post'[e].pc = "end" /\ e \notin mailed' => Archived(f.id)
    <3>1. CASE e = d
      BY <1>3, <1>6, <1>9, <3>1
    <3>2. CASE e # d
      BY <1>3, <1>9, <3>2 DEF KeptInv
    <3> QED BY <3>1, <3>2
  <2>3. (\A e : FilesIn(e)' \subseteq FilesIn(e)) /\ \A i : Archived(i)' <=> Archived(i)
    BY <1>1, <1>8 DEF FilesIn, Archived
  <2> QED BY <1>1, <2>1, <2>2, <2>3 DEF KeptInv
<1>11. NoLogLost'
  <2>1. ASSUME NEW i \in written
        PROVE  \/ \E f \in files' : f.id = i /\ name'[i.dir] # "none"
               \/ \E e \in archive : e[2] = i
               \/ post'[i.dir].pc = "expired" /\ i.dir \in mailed'
               \/ post'[i.dir].pc = "killed" /\ name'[i.dir] = "none"
    <3>1. i.dir \in Dirs
      BY DEF ArchiveTypeOK, LogIds
    <3>2. CASE \E f \in files : f.id = i /\ name[i.dir] # "none"
      <4>1. PICK f \in files : f.id = i /\ name[i.dir] # "none"
        BY <3>2
      <4>2. CASE i.dir = d
        <5>1. f \in FilesIn(d)
          BY <4>1, <4>2 DEF FilesIn
        <5> QED BY <1>6, <1>7, <4>1, <4>2, <5>1 DEF Archived
      <4>3. CASE i.dir # d
        BY <1>8, <3>1, <4>1, <4>3
      <4> QED BY <4>2, <4>3
    <3>3. CASE post[i.dir].pc \in {"expired", "killed"}
      BY <1>1, <1>3, <1>8, <1>9, <3>1, <3>2, <3>3 DEF NoLogLost
    <3> QED BY <3>2, <3>3 DEF NoLogLost
  <2>2. ASSUME NEW e \in Dirs, post'[e].pc = "end", name'[e] = "post" PROVE e \in mailed'
    <3>1. CASE e = d
      <4>1. name \in [Dirs -> {"work", "post", "crash", "none"}]
        BY DEF ArchiveTypeOK
      <4>2. post[d].failed
        BY <1>7, <2>2, <3>1, <4>1
      <4> QED BY <1>9, <3>1, <4>2
    <3>2. CASE e # d
      BY <1>3, <1>8, <1>9, <2>2, <3>2 DEF NoLogLost
    <3> QED BY <3>1, <3>2
  <2> QED BY <1>1, <2>1, <2>2 DEF NoLogLost
<1> QED BY <1>4, <1>5, <1>10, <1>11

LEMMA ExpirySteps ==
  ASSUME KeepInv, NEW d \in Dirs, ExpireCrash(d)
  PROVE  Successive' /\ ClaimsInv' /\ StampedInv' /\ StagesInv' /\ KeptInv' /\ NoLogLost'
<1> USE DEF KeepInv, ArchiveInv, dirs
<1>1. /\ name[d] = "crash" /\ post[d].pc \in {"end", "killed"}
      /\ name' = [name EXCEPT ![d] = "none"] /\ files' = files \ FilesIn(d)
      /\ post' = [post EXCEPT ![d].pc = IF @ = "end" THEN "expired" ELSE @]
      /\ UNCHANGED <<run, written, archive, jobs, mailed>>
  BY DEF ExpireCrash
<1>2. PostStep(d)
  BY DEF PostStep
<1>3. /\ post[d].pc = "end" => post'[d].pc = "expired"
      /\ post[d].pc = "killed" => post'[d].pc = "killed"
      /\ post'[d].todo = post[d].todo /\ \A e \in Dirs : e # d => post'[e] = post[e]
  BY <1>1 DEF ArchiveTypeOK
<1>4. Successive' /\ ClaimsInv' /\ StampedInv'
  BY <1>1, <1>2, <1>3, PostFrame
<1>5. StagesInv'
  <2>1. \A j \in jobs : j.by = "post" => j.id.dir # d
    BY <1>1 DEF StagesInv
  <2> QED BY <1>1, <1>2, <1>3, <2>1, StagesAfterPost
<1>6. name'[d] = "none" /\ \A e \in Dirs : e # d => name'[e] = name[e]
  BY <1>1 DEF ArchiveTypeOK
<1>7. KeptInv'
  <2>1. ASSUME NEW n \in Nodes PROVE name'[Dir(n)'] = "work"
    <3>1. Dir(n)' = Dir(n) /\ Dir(n) \in Dirs /\ Dir(n) # d
      BY <1>1, Directories DEF Dir, ArchiveTypeOK, KeptInv
    <3> QED BY <1>6, <3>1 DEF KeptInv
  <2>2. ASSUME NEW e \in Dirs, e # d, NEW f \in FilesIn(e)
        PROVE  /\ post'[e].pc = "archive" =>
                    \/ f \in post'[e].todo \/ (\E j \in jobs : j.by = "post" /\ j.id = f.id)
                    \/ post'[e].failed \/ Archived(f.id)
               /\ post'[e].pc = "end" /\ e \notin mailed => Archived(f.id)
    BY <1>3, <2>2 DEF KeptInv
  <2>3. FilesIn(d)' = {} /\ (\A e : FilesIn(e)' \subseteq FilesIn(e)) /\ \A i : Archived(i)' <=> Archived(i)
    BY <1>1 DEF FilesIn, Archived
  <2> QED BY <1>1, <2>1, <2>2, <2>3 DEF KeptInv
<1>8. NoLogLost'
  <2>1. ASSUME NEW i \in written
        PROVE  \/ \E f \in files' : f.id = i /\ name'[i.dir] # "none"
               \/ \E e \in archive : e[2] = i
               \/ post'[i.dir].pc = "expired" /\ i.dir \in mailed
               \/ post'[i.dir].pc = "killed" /\ name'[i.dir] = "none"
    <3>1. i.dir \in Dirs
      BY DEF ArchiveTypeOK, LogIds
    <3>2. CASE i.dir = d
      <4>1. CASE \E f \in files : f.id = i
        <5>1. PICK f \in FilesIn(d) : f.id = i
          BY <3>2, <4>1 DEF FilesIn
        <5>2. post[d].pc = "end" /\ d \notin mailed => Archived(i)
          BY <5>1 DEF KeptInv
        <5> QED BY <1>1, <1>3, <1>6, <3>2, <5>2 DEF Archived
      <4>2. CASE Archived(i)
        BY <4>2 DEF Archived
      <4>3. CASE post[d].pc = "expired" \/ (post[d].pc = "killed" /\ name[d] = "none")
        BY <1>1, <4>3
      <4> QED BY <3>2, <4>1, <4>2, <4>3 DEF NoLogLost, Archived
    <3>3. CASE i.dir # d
      <4>1. \A f \in files : f.id = i => f \in files'
        BY <1>1, <3>3 DEF FilesIn
      <4> QED BY <1>3, <1>6, <3>1, <3>3, <4>1 DEF NoLogLost
    <3> QED BY <3>2, <3>3
  <2>2. \A e \in Dirs : post'[e].pc = "end" /\ name'[e] = "post" => e \in mailed
    BY <1>3, <1>6 DEF NoLogLost
  <2> QED BY <1>1, <2>1, <2>2 DEF NoLogLost
<1> QED BY <1>4, <1>5, <1>7, <1>8

(* post-terminate starts archive-log.  A name from the opening of the log is
   that of no other: a name with the same end is post-terminate's too.  A log
   that was open is the last of its kind, and starts where .rotated.<log> says,
   which is the end if post-terminate has archived another one before. *)
LEMMA ArchivingSteps ==
  ASSUME KeepInv, NEW d \in Dirs, ArchiveLog(d)
  PROVE  Successive' /\ ClaimsInv' /\ StampedInv' /\ StagesInv' /\ KeptInv' /\ NoLogLost'
<1> USE DEF KeepInv, ArchiveInv, dirs
<1> DEFINE K(g) == [id |-> g.id, from |-> StartOf(d, g), to |-> post[d].end,
                    stage |-> "spawned", at |-> Never, by |-> "post"]
<1>1. PICK f : f = NextLog(d)
  OBVIOUS
<1>2. PICK k : k = K(f)
  OBVIOUS
<1>3. /\ post[d].pc = "archive" /\ post[d].todo # {} /\ ~Archives(d) /\ jobs' = jobs \cup {k}
      /\ post' = [post EXCEPT ![d].todo = @ \ {f}]
      /\ UNCHANGED <<now, dirs, zeek, files, written, archive, last, mailed>>
  BY <1>1, <1>2 DEF ArchiveLog
<1>4. /\ f \in post[d].todo
      /\ ~f.stamped => \A g \in post[d].todo : f.id.log = g.id.log => f = g
  BY <1>1, <1>3, NextLogOnList DEF LogsInv
<1>5. /\ f.id.dir = d /\ f.id \in LogIds /\ f.id.log \in Logs /\ f.id.opened \in Nat
      /\ f.id = [dir |-> d, log |-> f.id.log, opened |-> f.id.opened]
      /\ f.stamped \in BOOLEAN
  BY <1>4, ClaimTypes DEF TodoInv, LogsInv, LogIds, ArchiveTypeOK, LogFiles
<1>6. Past(d) /\ startup[d] # Never /\ startup[d] <= post[d].end /\ post[d].end \in Nat
  BY <1>3, ClaimTypes DEF Past, TimesInv, LogsInv
<1>7. PICK c : c = <<ArchiveName(k), k.id>>
  OBVIOUS
<1>8. /\ k.id = f.id /\ k.by = "post" /\ k.stage = "spawned" /\ k.to = post[d].end
      /\ c[2] = f.id /\ c[1][1] = f.id.log /\ c[1][2] = StartOf(d, f) /\ c[1][3] = post[d].end /\ c[1][4] = d[1]
  BY <1>2, <1>5, <1>7 DEF ArchiveName
<1> HIDE DEF K
<1>9. /\ \A e \in Dirs : e # d => post'[e] = post[e]
      /\ \A e \in Dirs : post'[e].pc = post[e].pc /\ post'[e].end = post[e].end /\ post'[e].failed = post[e].failed
      /\ post'[d].todo = post[d].todo \ {f} /\ \A e \in Dirs : post'[e].todo \subseteq post[e].todo
  BY <1>3 DEF ArchiveTypeOK
<1>10. Never' = Never /\ \A e \in Dirs : Past(e)' <=> Past(e)
  BY <1>9 DEF Never, Past
<1>11. Claims' = Claims \cup {c}
  BY <1>3, <1>7 DEF Claims, ArchiveName
<1>12. Successive'
  BY <1>3, <1>9, <1>10, SuccessiveFrame
<1>13. ByPost(c)'
  <2>1. CASE f.stamped
    <3>1. f.id.opened < post[d].end /\ StartOf(d, f) = f.id.opened
      BY <1>4, <2>1 DEF StampedInv, StartOf
    <3> QED BY <1>3, <1>5, <1>6, <1>8, <1>9, <1>10, <3>1 DEF ByPost
  <2>2. CASE ~f.stamped
    <3>1. \A g \in post'[d].todo : g.id.log # f.id.log
      BY <1>4, <1>9, <2>2
    <3> QED BY <1>3, <1>5, <1>6, <1>8, <1>9, <1>10, <3>1 DEF ByPost
  <2> QED BY <2>1, <2>2
<1>14. ASSUME NEW e \in Claims PROVE (ByZeek(e) => ByZeek(e)') /\ (ByPost(e) => ByPost(e)')
  <2>1. e[2].dir \in Dirs
    BY ClaimTypes
  <2> QED BY <1>3, <1>9, <1>10, <2>1 DEF ByZeek, ByPost
<1>15. ASSUME NEW e \in Claims, e[1] = c[1] PROVE e[2] = f.id
  <2>1. /\ e[2].dir \in Dirs /\ e[2] \in LogIds
        /\ e[2] = [dir |-> e[2].dir, log |-> e[2].log, opened |-> e[2].opened]
    BY ClaimTypes DEF LogIds
  <2>2. /\ e[1][1] = e[2].log /\ e[1][4] = e[2].dir[1] /\ (ByZeek(e) \/ ByPost(e))
        /\ startup[e[2].dir] # Never /\ startup[e[2].dir] <= e[1][3]
    BY DEF ClaimsInv
  <2>3. e[2].log = f.id.log /\ e[2].dir[1] = d[1] /\ e[1][2] = StartOf(d, f) /\ e[1][3] = post[d].end
    BY <1>8, <1>15, <2>2
  <2>4. Past(e[2].dir) => post[d].end <= post[e[2].dir].end
    <3>1. post[e[2].dir].end \in Nat
      BY <2>1, ClaimTypes
    <3> QED BY <1>6, <2>2, <2>3, <3>1 DEF ByZeek, ByPost
  <2>5. PICK b : b = e[2].dir
    OBVIOUS
  <2>6. b = d
    <3>1. b \in Dirs /\ d[1] = b[1] /\ startup[b] # Never /\ startup[b] <= post[d].end /\ (Past(b) => post[d].end <= post[b].end)
      BY <2>1, <2>2, <2>3, <2>4, <2>5
    <3>2. post[d].end <= post[d].end
      BY <1>6
    <3> QED BY <1>6, <3>1, <3>2, SameDir
  <2>7. ~ByZeek(e) /\ ByPost(e)
    BY <1>6, <2>2, <2>3, <2>5, <2>6 DEF ByZeek
  <2>8. e[1][2] = e[2].opened /\ e[2].opened < post[d].end
    BY <1>4, <2>3, <2>5, <2>6, <2>7 DEF ByPost
  <2>9. CASE f.stamped
    <3>1. e[2].opened = f.id.opened
      BY <2>3, <2>8, <2>9 DEF StartOf
    <3> QED BY <1>5, <2>1, <2>3, <2>5, <2>6, <3>1
  <2>10. CASE ~f.stamped
    <3>1. e \in archive
      <4> SUFFICES ASSUME NEW j \in jobs, e = <<ArchiveName(j), j.id>> PROVE FALSE
        BY DEF Claims
      <4>1. j.id.dir = d
        BY <2>5, <2>6
      <4>2. j.by # "zeek"
        BY <2>7 DEF StagesInv
      <4>3. j.by # "post"
        BY <1>3, <4>1 DEF Archives, JobsIn
      <4> QED BY <4>2, <4>3 DEF ArchiveTypeOK, Jobs
    <3>2. RotatedLate(d, f.id.log)
      BY <1>3, <2>3, <2>5, <2>6, <3>1 DEF StagesInv
    <3>3. rotated[d][f.id.log] \in Nat
      BY <1>5, ClaimTypes
    <3>4. StartOf(d, f) = post[d].end
      BY <1>6, <2>10, <3>2, <3>3 DEF StartOf, RotatedLate
    <3>5. e[2].opened = post[d].end
      BY <2>3, <2>8, <3>4
    <3>6. ~(post[d].end < post[d].end)
      BY <1>6
    <3> QED BY <2>8, <3>5, <3>6
  <2> QED BY <1>5, <2>9, <2>10
<1>16. ClaimsInv'
  <2>1. \A e \in Claims' : ByZeek(e)' \/ ByPost(e)'
    BY <1>11, <1>13, <1>14 DEF ClaimsInv
  <2>2. \A e \in Claims' : /\ e[1][1] = e[2].log /\ e[1][4] = e[2].dir[1]
                           /\ startup'[e[2].dir] # Never' /\ startup'[e[2].dir] <= e[1][3]
    BY <1>3, <1>5, <1>6, <1>8, <1>10, <1>11 DEF ClaimsInv
  <2>3. \A e, g \in Claims' : e[1] = g[1] => e[2] = g[2]
    BY <1>8, <1>11, <1>15 DEF ClaimsInv
  <2> QED BY <2>1, <2>2, <2>3 DEF ClaimsInv
<1>17. StampedInv'
  <2>1. \A g \in files : g.id.dir \in Dirs
    BY ClaimTypes
  <2>2. \A e \in Dirs : \A g \in post'[e].todo : g.stamped => g.id.opened < post'[e].end
    BY <1>9 DEF StampedInv
  <2> QED BY <1>3, <1>9, <1>10, <2>1, <2>2 DEF StampedInv
<1>18. StagesInv'
  <2>1. \A e \in Dirs, b \in Logs : RotatedLate(e, b) => RotatedLate(e, b)'
    BY <1>3, <1>9, <1>10 DEF RotatedLate
  <2>2. \A i : Archived(i) => Archived(i)'
    BY <1>3 DEF Archived
  <2>3. ASSUME NEW j \in jobs, j.by = "zeek" PROVE ByZeek(<<ArchiveName(j), j.id>>)'
    <3>1. <<ArchiveName(j), j.id>> \in Claims /\ ByZeek(<<ArchiveName(j), j.id>>)
      BY <2>3, ClaimTypes DEF StagesInv
    <3> QED BY <1>14, <3>1 DEF ArchiveName
  <2>4. ASSUME NEW j \in jobs'
        PROVE  /\ j.by = "post" => post'[j.id.dir].pc = "archive" /\ j.to = post'[j.id.dir].end
               /\ post'[j.id.dir].pc = "archive" /\ j.stage # "spawned" => j.at # Never /\ post'[j.id.dir].end <= j.at
               /\ j.by = "post" /\ j.stage \in {"named", "copied"} => RotatedLate(j.id.dir, j.id.log)'
               /\ j.stage = "copied" => Archived(j.id)'
    <3>1. CASE j = k
      BY <1>3, <1>5, <1>8, <1>9, <3>1
    <3>2. CASE j \in jobs
      <4>1. j.id.dir \in Dirs /\ j.id.log \in Logs
        BY <3>2, ClaimTypes
      <4> QED BY <1>9, <2>1, <2>2, <3>2, <4>1 DEF StagesInv
    <3> QED BY <1>3, <3>1, <3>2
  <2>5. ASSUME NEW e \in archive, post'[e[2].dir].pc = "archive", e[1][3] = post'[e[2].dir].end
        PROVE  RotatedLate(e[2].dir, e[2].log)'
    <3>1. e[2].dir \in Dirs /\ e[2].log \in Logs
      BY ClaimTypes DEF Claims
    <3> QED BY <1>9, <2>1, <2>5, <3>1 DEF StagesInv
  <2>6. \A j \in jobs' : j.by = "zeek" => j \in jobs
    BY <1>3, <1>8
  <2> QED BY <1>3, <1>10, <2>3, <2>4, <2>5, <2>6 DEF StagesInv, ArchiveName
<1>19. KeptInv'
  <2>1. (\A e : FilesIn(e)' = FilesIn(e)) /\ (\A i : Archived(i)' <=> Archived(i)) /\ \A n : Dir(n)' = Dir(n)
    BY <1>3 DEF FilesIn, Archived, Dir
  <2>2. ASSUME NEW e \in Dirs, NEW g \in FilesIn(e)
        PROVE  /\ post'[e].pc = "archive" =>
                    \/ g \in post'[e].todo \/ (\E j \in jobs' : j.by = "post" /\ j.id = g.id)
                    \/ post'[e].failed \/ Archived(g.id)
               /\ post'[e].pc = "end" /\ e \notin mailed => Archived(g.id)
    <3>1. k \in jobs' /\ jobs \subseteq jobs'
      BY <1>3
    <3>2. g \in post[e].todo => g \in post'[e].todo \/ g = f
      BY <1>9
    <3> QED BY <1>8, <1>9, <3>1, <3>2 DEF KeptInv
  <2> QED BY <1>3, <2>1, <2>2 DEF KeptInv
<1>20. NoLogLost'
  <2>1. \A i \in written : i.dir \in Dirs
    BY DEF ArchiveTypeOK, LogIds
  <2> QED BY <1>3, <1>9, <2>1 DEF NoLogLost
<1> QED BY <1>12, <1>16, <1>17, <1>18, <1>19, <1>20

LEMMA KeepHolds == ArchiveSpec => []KeepInv
<1>1. ArchiveInit => Successive /\ ClaimsInv /\ StampedInv /\ StagesInv /\ KeptInv /\ NoLogLost
  <2> SUFFICES ASSUME ArchiveInit PROVE Successive /\ ClaimsInv /\ StampedInv /\ StagesInv /\ KeptInv /\ NoLogLost
    OBVIOUS
  <2>1. archive = {} /\ jobs = {} /\ files = {} /\ written = {} /\ Claims = {}
    BY DEF ArchiveInit, Claims
  <2>2. \A d \in Dirs : startup[d] = Never /\ post[d].pc = "none" /\ post[d].todo = {}
    BY DEF ArchiveInit, Idle
  <2>3. \A n \in Nodes : name[Dir(n)] = "work"
    <3> TAKE n \in Nodes
    <3>1. 1 \in 1 .. MaxStarts + 1 /\ run[n] = 1
      BY ArchiveAssumption DEF ArchiveInit
    <3>2. Dir(n) \in Dirs /\ Dir(n)[2] = 1
      BY <3>1, Directories DEF Dir
    <3> QED BY <3>2 DEF ArchiveInit
  <2> QED BY <2>1, <2>2, <2>3 DEF Successive, ClaimsInv, StampedInv, StagesInv, KeptInv, NoLogLost, FilesIn
<1>2. KeepInv /\ ArchiveInv' /\ [ArchiveNext]_aVars => KeepInv'
  <2> SUFFICES ASSUME KeepInv, ArchiveInv', [ArchiveNext]_aVars
               PROVE  Successive' /\ ClaimsInv' /\ StampedInv' /\ StagesInv' /\ KeptInv' /\ NoLogLost'
    BY DEF KeepInv
  <2>1. CASE Tick
    BY <2>1, ZeekSteps
  <2>2. ASSUME NEW n \in Nodes, StartZeek(n) \/ \E b \in Logs : OpenLog(n, b)
        PROVE  Successive' /\ ClaimsInv' /\ StampedInv' /\ StagesInv' /\ KeptInv' /\ NoLogLost'
    BY <2>2, ZeekSteps
  <2>3. ASSUME NEW n \in Nodes, Rotate(n) \/ Terminate(n)
        PROVE  Successive' /\ ClaimsInv' /\ StampedInv' /\ StagesInv' /\ KeptInv' /\ NoLogLost'
    BY <2>3, ZeekRotates
  <2>4. ASSUME NEW n \in Nodes, NEW crash \in BOOLEAN, PostTerminate(n, crash)
        PROVE  Successive' /\ ClaimsInv' /\ StampedInv' /\ StagesInv' /\ KeptInv' /\ NoLogLost'
    BY <2>4, LeavingSteps
  <2>5. ASSUME NEW j \in jobs, JobStep(j)
        PROVE  Successive' /\ ClaimsInv' /\ StampedInv' /\ StagesInv' /\ KeptInv' /\ NoLogLost'
    BY <2>5, JobSteps
  <2>6. ASSUME NEW d \in Dirs, PostStep(d)
        PROVE  Successive' /\ ClaimsInv' /\ StampedInv' /\ StagesInv' /\ KeptInv' /\ NoLogLost'
    BY <2>6, WaitingSteps, ArchivingSteps, EndingSteps, KillingSteps, ExpirySteps DEF PostStep, InBackground
  <2>7. CASE UNCHANGED aVars
    <3> USE DEF KeepInv, aVars, dirs
    <3>1. Claims' = Claims
      BY <2>7 DEF Claims, ArchiveName
    <3>2. StagesInv' /\ Successive'
      BY <2>7, StagesFrame, SuccessiveFrame DEF Past
    <3>3. ClaimsInv' /\ StampedInv' /\ KeptInv' /\ NoLogLost'
      BY <2>7, <3>1 DEF ClaimsInv, ByZeek, ByPost, StampedInv, KeptInv, NoLogLost, Past, Dir, FilesIn, Archived, Never
    <3> QED BY <3>2, <3>3
  <2> QED BY <2>1, <2>2, <2>3, <2>4, <2>5, <2>6, <2>7 DEF ArchiveNext, Work, JobStep, PostStep
<1>3. ArchiveInv /\ Successive /\ ClaimsInv /\ StampedInv /\ StagesInv /\ KeptInv /\ NoLogLost => KeepInv
  BY DEF KeepInv
<1> QED BY <1>1, <1>2, <1>3, InvHolds, PTL DEF ArchiveSpec

(* Every log that Zeek has written is in the archive or still in a directory,
   whatever is killed or fails and whenever: no two logs are ever given one name
   in the archive, post-terminate removes a directory only when each of its logs
   has been archived, and what expires is that of a crashed node for which a mail
   was sent or whose post-terminate was killed. *)
THEOREM LogsKept == ArchiveSpec => []NoLogLost
<1>1. KeepInv => NoLogLost
  BY DEF KeepInv
<1> QED BY <1>1, KeepHolds, PTL

(* No archived log is ever lost from the archive: a file that archive-log
   replaces there is that of the same log. *)
THEOREM ArchiveOnlyGrows == ArchiveSpec => [][\A i \in LogIds : Archived(i) => Archived(i)']_aVars
<1>1. KeepInv /\ [ArchiveNext]_aVars => [\A i \in LogIds : Archived(i) => Archived(i)']_aVars
  <2> SUFFICES ASSUME KeepInv, ArchiveNext PROVE \A i \in LogIds : Archived(i) => Archived(i)'
    OBVIOUS
  <2> USE DEF dirs
  <2>1. ASSUME UNCHANGED archive PROVE \A i \in LogIds : Archived(i) => Archived(i)'
    BY <2>1 DEF Archived
  <2>2. ASSUME NEW j \in jobs, JobStep(j) PROVE \A i \in LogIds : Archived(i) => Archived(i)'
    BY <2>2, JobClaims
  <2>3. ASSUME NEW d \in Dirs, PostStep(d) PROVE UNCHANGED archive
    BY <2>3, PostChanges DEF KeepInv, ArchiveInv
  <2>4. ASSUME NEW n \in Nodes,
               \/ StartZeek(n) \/ Rotate(n) \/ Terminate(n)
               \/ \E b \in Logs : OpenLog(n, b)
               \/ \E crash \in BOOLEAN : PostTerminate(n, crash)
        PROVE  UNCHANGED archive
    BY <2>4 DEF StartZeek, Rotate, Terminate, OpenLog, PostTerminate
  <2>5. CASE Tick
    BY <2>1, <2>5 DEF Tick
  <2> QED BY <2>1, <2>2, <2>3, <2>4, <2>5 DEF ArchiveNext, Work, JobStep, PostStep
<1> QED BY <1>1, KeepHolds, PTL DEF ArchiveSpec
=============================================================================
