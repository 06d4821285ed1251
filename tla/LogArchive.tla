----------------------------- MODULE LogArchive -----------------------------
(***************************************************************************)
(* The logs of the nodes of one host, from a Zeek process that writes them *)
(* to the archive.  Zeek rotates a log and starts archive-log for it.  When *)
(* the process has ended, post-terminate moves the working directory away  *)
(* with everything in it, and a background part of it waits for the        *)
(* archive-log processes that it knows of, archives the logs they have     *)
(* left, and removes the directory.  Directories of crashed nodes are kept *)
(* until cron expires them.                                                *)
(***************************************************************************)
EXTENDS Naturals, FiniteSets

CONSTANTS
  Nodes, Logs,     \* nodes of the host; base names of logs, such as conn
  Compress,        \* are logs compressed (copied), or moved?
  MaxTime,         \* bound: seconds
  MaxStarts,       \* bound: times a node is started
  MaxFaults        \* bound: kills and failures

ASSUME ArchiveAssumption ==
  /\ Compress \in BOOLEAN
  /\ MaxTime \in Nat /\ MaxStarts \in Nat /\ MaxFaults \in Nat

VARIABLES
  now, faults,
  run,        \* number of working directories a node has had
  zeek,       \* nodes whose process is running
  name,       \* of a directory: "work", "post", "crash", or "none"
  startup,    \* its .startup, and
  rotated,    \* its .rotated.<log>: times, or Never
  files,      \* the log files in directories
  written,    \* history: the logs written
  archive,    \* the names in the archive, with the log each is for
  jobs,       \* archive-log processes
  last,       \* history: time of a node's last rotation
  post,       \* background part of post-terminate for a directory
  mailed      \* directories that a failure mail was sent about

dirs == <<run, name, startup, rotated>>
aVars == <<now, faults, dirs, zeek, files, written, archive, jobs, last, post, mailed>>

Times == 0 .. MaxTime
Never == MaxTime + 1
Dirs == Nodes \X (1 .. MaxStarts + 1)
Dir(n) == <<n, run[n]>>

\* A log is known by its directory and the time it was opened at; its file has
\* that time in its name once Zeek has rotated it.
LogIds == [dir : Dirs, log : Logs, opened : Times]
File(i, t) == [id |-> i, stamped |-> t]
Names == Logs \X Times \X Times \X Nodes
Stages == {"spawned", "running", "named", "copied"}
Jobs == [id : LogIds, from : Times, to : Times, stage : Stages, at : Times \cup {Never}, by : {"zeek", "post"}]
Idle == [pc |-> "none", end |-> 0, failed |-> FALSE, todo |-> {}]

PostSteps == {"none", "wait", "archive", "end", "expired", "killed"}
LogFiles == [id : LogIds, stamped : BOOLEAN]

ArchiveTypeOK ==
  /\ now \in Times /\ faults \in 0 .. MaxFaults
  /\ run \in [Nodes -> 1 .. MaxStarts + 1] /\ zeek \in SUBSET Nodes
  /\ name \in [Dirs -> {"work", "post", "crash", "none"}]
  /\ startup \in [Dirs -> Times \cup {Never}] /\ rotated \in [Dirs -> [Logs -> Times \cup {Never}]]
  /\ files \in SUBSET LogFiles /\ written \in SUBSET LogIds
  /\ archive \in SUBSET (Names \X LogIds) /\ jobs \in SUBSET Jobs
  /\ last \in [Nodes -> Times \cup {Never}]
  /\ post \in [Dirs -> [pc : PostSteps, end : Times, failed : BOOLEAN, todo : SUBSET LogFiles]]
  /\ mailed \in SUBSET Dirs

ArchiveInit ==
  /\ now = 0 /\ faults = 0
  /\ run = [n \in Nodes |-> 1] /\ zeek = {}
  /\ name = [d \in Dirs |-> IF d[2] = 1 THEN "work" ELSE "none"]
  /\ startup = [d \in Dirs |-> Never] /\ rotated = [d \in Dirs |-> [b \in Logs |-> Never]]
  /\ files = {} /\ written = {} /\ archive = {} /\ jobs = {}
  /\ last = [n \in Nodes |-> Never]
  /\ post = [d \in Dirs |-> Idle] /\ mailed = {}

Fault == faults < MaxFaults /\ faults' = faults + 1

FilesIn(d) == {f \in files : f.id.dir = d}
JobsIn(d) == {j \in jobs : j.id.dir = d}

-----------------------------------------------------------------------------
(* Zeek.                                                                   *)

(* Nothing happens before Zeek is started. *)
Tick ==
  /\ \E n \in Nodes : startup[<<n, 1>>] # Never
  /\ now < MaxTime /\ now' = now + 1
  /\ UNCHANGED <<faults, dirs, zeek, files, written, archive, jobs, last, post, mailed>>

(* run-zeek writes .startup; ZeekControl starts a node only after
   post-terminate has dealt with what the last process left, and not within
   the same second. *)
StartZeek(n) ==
  /\ n \notin zeek /\ startup[Dir(n)] = Never /\ run[n] <= MaxStarts
  /\ run[n] > 1 => now > post[<<n, run[n] - 1>>].end
  /\ zeek' = zeek \cup {n} /\ startup' = [startup EXCEPT ![Dir(n)] = now]
  /\ UNCHANGED <<now, faults, run, name, rotated, files, written, archive, jobs, last, post, mailed>>

Current(n) == {f \in FilesIn(Dir(n)) : ~f.stamped}

OpenLog(n, b) ==
  LET i == [dir |-> Dir(n), log |-> b, opened |-> now] IN
  /\ n \in zeek /\ i \notin written /\ ~\E f \in Current(n) : f.id.log = b
  /\ files' = files \cup {File(i, FALSE)} /\ written' = written \cup {i}
  /\ UNCHANGED <<now, faults, dirs, zeek, archive, jobs, last, post, mailed>>

(* A rotated log is renamed and handed to an archive-log of its own. *)
Rotated(n, fs) ==
  /\ last' = [last EXCEPT ![n] = IF fs = {} THEN @ ELSE now]
  /\ files' = (files \ fs) \cup {File(f.id, TRUE) : f \in fs}
  /\ jobs' = jobs \cup {[id |-> f.id, from |-> f.id.opened, to |-> now,
                         stage |-> "spawned", at |-> Never, by |-> "zeek"] : f \in fs}

Rotate(n) ==
  \E f \in Current(n) :
    /\ n \in zeek /\ Rotated(n, {f})
    /\ UNCHANGED <<now, faults, dirs, zeek, written, archive, post, mailed>>

(* Zeek terminates: it rotates all logs.  If it crashes or is killed it does
   not. *)
Terminate(n) ==
  /\ n \in zeek /\ zeek' = zeek \ {n}
  /\ Rotated(n, Current(n)) \/ UNCHANGED <<files, jobs, last>>
  /\ UNCHANGED <<now, faults, dirs, written, archive, post, mailed>>

-----------------------------------------------------------------------------
(* post-terminate, the part that ZeekControl waits for.  It fails unless Zeek
   was started in the directory.  Assumed: it does not run in the second of a
   rotation, as then two logs of the directory could be given the same name. *)
PostTerminate(n, crash) ==
  LET d == Dir(n) IN
  /\ n \notin zeek /\ startup[d] # Never /\ last[n] # now
  /\ run' = [run EXCEPT ![n] = @ + 1]
  /\ name' = [name EXCEPT ![d] = IF crash THEN "crash" ELSE "post", ![<<n, d[2] + 1>>] = "work"]
  /\ post' = [post EXCEPT ![d] = [Idle EXCEPT !.pc = "wait", !.end = now]]
  /\ UNCHANGED <<now, faults, startup, rotated, zeek, files, written, archive, jobs, last, mailed>>

-----------------------------------------------------------------------------
(* archive-log.                                                            *)

Becomes(j, k) == jobs' = (jobs \ {j}) \cup {k}

(* The job ends; post-terminate takes note if it was its own. *)
JobEnds(j, ok) ==
  /\ jobs' = jobs \ {j}
  /\ post' = IF j.by = "zeek" \/ ok THEN post ELSE [post EXCEPT ![j.id.dir].failed = TRUE]

(* It writes its PID file and remembers the time. *)
JobStarts(j) ==
  /\ j.stage = "spawned" /\ Becomes(j, [j EXCEPT !.stage = "running", !.at = now])
  /\ UNCHANGED <<now, faults, dirs, zeek, files, written, archive, last, post, mailed>>

(* It makes the directory of its archive name, and records the time.  It fails
   if it finds zeekctl-config.sh incomplete (see ConfigScript), or the name
   cannot be had. *)
JobNames(j) ==
  /\ j.stage = "running"
  /\ \/ /\ Becomes(j, [j EXCEPT !.stage = "named"])
        /\ rotated' = [rotated EXCEPT ![j.id.dir][j.id.log] = j.at]
        /\ UNCHANGED <<faults, post>>
     \/ Fault /\ JobEnds(j, FALSE) /\ UNCHANGED rotated
  /\ UNCHANGED <<now, run, name, startup, zeek, files, written, archive, last, mailed>>

(* make-archive-name: base name, times, and the suffix of the node. *)
ArchiveName(j) == <<j.id.log, j.from, j.to, j.id.dir[1]>>

(* The archived file replaces one of the same name. *)
Put(j) == archive' = {e \in archive : e[1] # ArchiveName(j)} \cup {<<ArchiveName(j), j.id>>}

FilesOf(j) == {f \in files : f.id = j.id}

(* A log that is no longer there has been dealt with.  A move is done at once;
   a compressed log is removed after it was written to the archive. *)
JobTransfers(j) ==
  /\ j.stage = "named"
  /\ \/ FilesOf(j) = {} /\ JobEnds(j, TRUE) /\ UNCHANGED <<faults, files, archive>>
     \/ /\ FilesOf(j) # {} /\ Put(j) /\ UNCHANGED faults
        /\ IF Compress THEN Becomes(j, [j EXCEPT !.stage = "copied"]) /\ UNCHANGED <<files, post>>
                       ELSE JobEnds(j, TRUE) /\ files' = files \ FilesOf(j)
     \/ FilesOf(j) # {} /\ Fault /\ JobEnds(j, FALSE) /\ UNCHANGED <<files, archive>>
  /\ UNCHANGED <<now, dirs, zeek, written, last, mailed>>

JobRemoves(j) ==
  /\ j.stage = "copied" /\ files' = files \ FilesOf(j) /\ JobEnds(j, TRUE)
  /\ UNCHANGED <<now, faults, dirs, zeek, written, archive, last, mailed>>

(* Killed; post-terminate finds that its PID is gone. *)
JobKilled(j) ==
  /\ Fault /\ JobEnds(j, FALSE)
  /\ UNCHANGED <<now, dirs, zeek, files, written, archive, last, mailed>>

Job(j) == JobStarts(j) \/ JobNames(j) \/ JobTransfers(j) \/ JobRemoves(j)

-----------------------------------------------------------------------------
(* post-terminate, the part in the background.                             *)

(* wait_for_archivelog(): only processes with a PID file are waited for.  The
   logs are those found then. *)
WaitForArchiveLog(d) ==
  /\ post[d].pc = "wait" /\ \A j \in JobsIn(d) : j.stage = "spawned"
  /\ post' = [post EXCEPT ![d].pc = "archive", ![d].todo = FilesIn(d)]
  /\ UNCHANGED <<now, faults, dirs, zeek, files, written, archive, jobs, last, mailed>>

(* Mutant: a time of rotation after the end is taken as it is. *)
StartOfUnclipped(d, f) ==
  IF f.stamped THEN f.id.opened
  ELSE IF rotated[d][f.id.log] = Never THEN startup[d] ELSE rotated[d][f.id.log]

(* The start time of a log: that in its name, or that of the last rotation but
   not after the end, or that of Zeek. *)
StartOf(d, f) ==
  IF f.stamped THEN f.id.opened
  ELSE IF rotated[d][f.id.log] = Never THEN startup[d]
  ELSE IF rotated[d][f.id.log] > post[d].end THEN post[d].end ELSE rotated[d][f.id.log]

(* The logs are taken in the order of their names. *)
NextLog(d) ==
  CHOOSE f \in post[d].todo : \A g \in post[d].todo :
    f.id.log = g.id.log => f = g \/ (f.stamped /\ (g.stamped => f.id.opened < g.id.opened))

Archives(d) == \E j \in JobsIn(d) : j.by = "post"

(* Mutant: a log stays on the list. *)
ArchiveLogAgain(d) ==
  /\ post[d].pc = "archive" /\ post[d].todo # {} /\ ~Archives(d)
  /\ LET f == NextLog(d) IN
     jobs' = jobs \cup {[id |-> f.id, from |-> StartOf(d, f), to |-> post[d].end,
                         stage |-> "spawned", at |-> Never, by |-> "post"]}
  /\ UNCHANGED <<now, faults, dirs, zeek, files, written, archive, last, post, mailed>>

ArchiveLog(d) ==
  /\ post[d].pc = "archive" /\ post[d].todo # {} /\ ~Archives(d)
  /\ LET f == NextLog(d) IN
     /\ jobs' = jobs \cup {[id |-> f.id, from |-> StartOf(d, f), to |-> post[d].end,
                            stage |-> "spawned", at |-> Never, by |-> "post"]}
     /\ post' = [post EXCEPT ![d].todo = @ \ {f}]
  /\ UNCHANGED <<now, faults, dirs, zeek, files, written, archive, last, mailed>>

Over(d) == post[d].pc = "archive" /\ post[d].todo = {} /\ ~Archives(d)

(* Mutant: the directory is removed even if archiving failed. *)
EndRegardless(d) ==
  /\ Over(d) /\ post' = [post EXCEPT ![d].pc = "end"]
  /\ mailed' = IF post[d].failed THEN mailed \cup {d} ELSE mailed
  /\ IF name[d] = "crash" THEN UNCHANGED <<name, files>>
                          ELSE name' = [name EXCEPT ![d] = "none"] /\ files' = files \ FilesIn(d)
  /\ UNCHANGED <<now, faults, run, startup, rotated, zeek, written, archive, jobs, last>>

(* A mail if archiving failed; the directory goes, unless it failed or Zeek
   crashed. *)
EndPostTerminate(d) ==
  /\ Over(d) /\ post' = [post EXCEPT ![d].pc = "end"]
  /\ mailed' = IF post[d].failed THEN mailed \cup {d} ELSE mailed
  /\ IF post[d].failed \/ name[d] = "crash"
     THEN UNCHANGED <<name, files>>
     ELSE name' = [name EXCEPT ![d] = "none"] /\ files' = files \ FilesIn(d)
  /\ UNCHANGED <<now, faults, run, startup, rotated, zeek, written, archive, jobs, last>>

PostKilled(d) ==
  /\ post[d].pc \in {"wait", "archive"} /\ Fault
  /\ post' = [post EXCEPT ![d].pc = "killed"] /\ jobs' = {j \in jobs : j.by = "zeek" \/ j.id.dir # d}
  /\ UNCHANGED <<now, dirs, zeek, files, written, archive, last, mailed>>

InBackground(d) == WaitForArchiveLog(d) \/ ArchiveLog(d) \/ EndPostTerminate(d)

(* expire-crash, from cron: days later. *)
ExpireCrash(d) ==
  /\ name[d] = "crash" /\ post[d].pc \in {"end", "killed"} /\ JobsIn(d) = {}
  /\ name' = [name EXCEPT ![d] = "none"] /\ files' = files \ FilesIn(d)
  /\ post' = [post EXCEPT ![d].pc = IF @ = "end" THEN "expired" ELSE @]
  /\ UNCHANGED <<now, faults, run, startup, rotated, zeek, written, archive, jobs, last, mailed>>

Work == (\E j \in jobs : Job(j)) \/ (\E d \in Dirs : InBackground(d))

ArchiveNext ==
  \/ Tick
  \/ \E n \in Nodes : \/ StartZeek(n) \/ Rotate(n) \/ Terminate(n)
                      \/ \E b \in Logs : OpenLog(n, b)
                      \/ \E crash \in BOOLEAN : PostTerminate(n, crash)
  \/ Work
  \/ \E j \in jobs : JobKilled(j)
  \/ \E d \in Dirs : PostKilled(d) \/ ExpireCrash(d)

ArchiveSpec == ArchiveInit /\ [][ArchiveNext]_aVars

(* The scripts go on running. *)
ArchiveFairness == WF_aVars(Work)

-----------------------------------------------------------------------------
(* Properties.                                                             *)

(* No log is lost silently: every log that Zeek has written is in a directory or
   in the archive -- unless it was in the directory of a crashed node that has
   expired, after a mail had been sent about it, or after post-terminate had been
   killed.  And a directory that post-terminate has left behind is that of a
   crashed node, or a mail was sent about it. *)
NoLogLost ==
  /\ \A i \in written :
       \/ \E f \in files : f.id = i /\ name[i.dir] # "none"
       \/ \E e \in archive : e[2] = i
       \/ post[i.dir].pc = "expired" /\ i.dir \in mailed
       \/ post[i.dir].pc = "killed" /\ name[i.dir] = "none"
  /\ \A d \in Dirs : post[d].pc = "end" /\ name[d] = "post" => d \in mailed

(* The name of an archived log does not end before it starts. *)
NamesInOrder == \A e \in archive : e[1][2] <= e[1][3]

(* post-terminate comes to its end.  (The last directory is never left.) *)
PostTerminateEnds ==
  \A d \in Nodes \X (1 .. MaxStarts) : post[d].pc = "wait" ~> post[d].pc \in {"end", "expired", "killed"}
=============================================================================
