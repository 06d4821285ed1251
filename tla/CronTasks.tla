------------------------------ MODULE CronTasks ------------------------------
(***************************************************************************)
(* "zeekctl cron", run after run: what the tasks of cron.py find is        *)
(* compared with what the state database has from the run before, and a    *)
(* message about a change is buffered.  All messages are mailed at the end *)
(* of the run -- if it comes to its end.  (Its first part, the watch, is in *)
(* NodeControl, and expire-crash in LogArchive.)                           *)
(***************************************************************************)
EXTENDS Naturals, Sequences, SequencesExt

CONSTANTS
  RemoteHosts,
  Unknown,      \* not in the database: get_state()'s default
  MaxChanges,   \* bound: changes in the world
  MaxRecords,   \* bound: records written to stats.log
  CronFaults    \* bound: kills and failures

ASSUME CronAssumption == Unknown \notin BOOLEAN /\ MaxChanges \in Nat /\ MaxRecords \in Nat /\ CronFaults \in Nat

VARIABLES
  at,           \* next task of a run, or "idle"
  todo,         \* hosts the task has still to look at
  world,        \* what each host is: up? disk full? no packets?
  seen,         \* the same, as recorded in the database, or Unknown
  buffer,       \* messages of this run: <<topic, host, value>>
  told,         \* the last value mailed
  changes,      \* history: number of changes the runs have come upon
  mails,        \* history: number of messages mailed
  wchanges, cfaults,
  lost,         \* history: a run did not end, or a copy failed
  records,      \* number of records written
  spool, stats  \* the stats.log in the spool and the one in statsdir

bounds == <<wchanges, cfaults>>
logs == <<records, spool, stats>>
cVars == <<at, todo, world, seen, buffer, told, changes, mails, bounds, lost, logs>>

Topics == {"down", "full", "quiet"}
Each(v) == [t \in Topics |-> [h \in RemoteHosts |-> v]]
Messages == Topics \X RemoteHosts \X BOOLEAN
Numbers == [Topics -> [RemoteHosts -> Nat]]

CronTypeOK ==
  /\ at \in {"idle", "hosts", "stats", "packets", "disk", "append", "unlink", "mail"}
  /\ todo \subseteq RemoteHosts
  /\ world \in [Topics -> [RemoteHosts -> BOOLEAN]]
  /\ seen \in [Topics -> [RemoteHosts -> BOOLEAN \cup {Unknown}]]
  /\ told \in [Topics -> [RemoteHosts -> BOOLEAN \cup {Unknown}]]
  /\ buffer \subseteq Messages
  /\ changes \in Numbers /\ mails \in Numbers
  /\ wchanges \in 0 .. MaxChanges /\ cfaults \in 0 .. CronFaults /\ lost \subseteq {"run", "copy"}
  /\ records \in 0 .. MaxRecords
  /\ spool \in Seq(1 .. MaxRecords) /\ stats \in Seq(1 .. MaxRecords)

CronInit ==
  /\ at = "idle" /\ todo = {}
  /\ world = Each(FALSE) /\ seen = Each(Unknown) /\ told = Each(Unknown)
  /\ buffer = {} /\ changes = Each(0) /\ mails = Each(0)
  /\ wchanges = 0 /\ cfaults = 0 /\ lost = {}
  /\ records = 0 /\ spool = <<>> /\ stats = <<>>

Change(t, h) ==
  /\ wchanges < MaxChanges /\ wchanges' = wchanges + 1
  /\ world' = [world EXCEPT ![t][h] = ~@]
  /\ UNCHANGED <<at, todo, seen, buffer, told, changes, mails, cfaults, lost, logs>>

CronFault == cfaults < CronFaults /\ cfaults' = cfaults + 1 /\ UNCHANGED wchanges

-----------------------------------------------------------------------------
Enter(task, hs) == at' = task /\ todo' = hs

(* Controller.cron(): the state of the hosts is known from the commands of the
   watch; without it no host has been connected to, and host_status() is empty. *)
BeginRun(watch) ==
  /\ at = "idle" /\ Enter("hosts", IF watch THEN RemoteHosts ELSE {})
  /\ buffer' = {}
  /\ UNCHANGED <<world, seen, told, changes, mails, bounds, lost, logs>>

(* A task has looked at all hosts. *)
NextTask(task, next) ==
  /\ at = task /\ todo = {} /\ Enter(next, IF next \in {"packets", "disk"} THEN RemoteHosts ELSE {})
  /\ UNCHANGED <<world, seen, buffer, told, changes, mails, bounds, lost, logs>>

(* The value of a topic is recorded; a message is buffered if there is news. *)
Record(t, h, v, news) ==
  /\ todo' = todo \ {h}
  /\ seen' = [seen EXCEPT ![t][h] = v]
  /\ buffer' = IF news THEN buffer \cup {<<t, h, v>>} ELSE buffer
  /\ UNCHANGED <<at, world, told, mails, bounds, lost, logs>>

(* History: what a run comes upon differs from what the run before did.  That
   a host is up, or a disk is not full, is no news at first. *)
Counts(t, h, v) ==
  changes' = IF v # seen[t][h] /\ (seen[t][h] # Unknown \/ (t # "down" /\ v)) /\ (t = "full" => v)
             THEN [changes EXCEPT ![t][h] = @ + 1] ELSE changes

(* Mutant: the status is compared after it has been recorded. *)
CheckHostsLate(h) ==
  LET v == world["down"][h] IN
  /\ at = "hosts" /\ h \in todo /\ Record("down", h, v, FALSE) /\ Counts("down", h, v)

CheckHosts(h) ==
  LET v == world["down"][h] IN
  /\ at = "hosts" /\ h \in todo
  /\ Record("down", h, v, seen["down"][h] \notin {Unknown, v}) /\ Counts("down", h, v)

(* log_stats(): the records, and then whether a host sees packets; a host that
   is down has no output of capstats. *)
LogStats ==
  /\ at = "stats" /\ todo = {}
  /\ \/ /\ Enter("packets", RemoteHosts)
        /\ IF records = MaxRecords THEN UNCHANGED <<records, spool>>
           ELSE records' = records + 1 /\ spool' = Append(spool, records + 1)
        /\ UNCHANGED bounds
     \/ Enter("disk", RemoteHosts) /\ CronFault /\ UNCHANGED <<records, spool>>
  /\ UNCHANGED <<world, seen, buffer, told, changes, mails, lost, stats>>

Skip(h) ==
  /\ at \in {"packets", "disk"} /\ h \in todo /\ world["down"][h]
  /\ todo' = todo \ {h}
  /\ UNCHANGED <<at, world, seen, buffer, told, changes, mails, bounds, lost, logs>>

CheckPackets(h) ==
  LET v == world["quiet"][h] IN
  /\ at = "packets" /\ h \in todo /\ ~world["down"][h]
  /\ Record("quiet", h, v, v # seen["quiet"][h] /\ (v \/ seen["quiet"][h] = TRUE))
  /\ Counts("quiet", h, v)

(* Mutant: a full disk is reported in every run. *)
CheckDiskAgain(h) ==
  LET v == world["full"][h] IN
  /\ at = "disk" /\ h \in todo /\ ~world["down"][h]
  /\ Record("full", h, v, v) /\ Counts("full", h, v)

CheckDiskSpace(h) ==
  LET v == world["full"][h] IN
  /\ at = "disk" /\ h \in todo /\ ~world["down"][h]
  /\ Record("full", h, v, v /\ seen["full"][h] # TRUE) /\ Counts("full", h, v)

(* Mutant: the log in statsdir is replaced. *)
AppendOnly ==
  /\ at = "append" /\ Enter("unlink", {})
  /\ stats' = spool
  /\ UNCHANGED <<world, seen, buffer, told, changes, mails, bounds, lost, records, spool>>

(* update_http_stats(): the log is appended to the one in statsdir, and then
   removed.  Without a log nothing is done; a failure ends the task, perhaps
   with a part of the log copied. *)
AppendStats ==
  /\ at = "append"
  /\ \/ spool # <<>> /\ Enter("unlink", {}) /\ stats' = stats \o spool /\ UNCHANGED <<bounds, lost>>
     \/ spool = <<>> /\ Enter("mail", {}) /\ UNCHANGED <<stats, bounds, lost>>
     \/ /\ Enter("mail", {}) /\ CronFault /\ lost' = lost \cup {"copy"}
        /\ \E n \in 0 .. Len(spool) : stats' = stats \o SubSeq(spool, 1, n)
  /\ UNCHANGED <<world, seen, buffer, told, changes, mails, records, spool>>

UnlinkStats ==
  /\ at = "unlink" /\ Enter("mail", {}) /\ spool' = <<>>
  /\ UNCHANGED <<world, seen, buffer, told, changes, mails, bounds, lost, records, stats>>

(* The messages are mailed, or printed if mailing fails; so cron mails them. *)
Mail ==
  /\ at = "mail" /\ Enter("idle", {}) /\ buffer' = {}
  /\ told' = [t \in Topics |-> [h \in RemoteHosts |->
               IF \E m \in buffer : m[1] = t /\ m[2] = h
               THEN \E m \in buffer : m[1] = t /\ m[2] = h /\ m[3] ELSE told[t][h]]]
  /\ mails' = [t \in Topics |-> [h \in RemoteHosts |->
               mails[t][h] + IF \E m \in buffer : m[1] = t /\ m[2] = h THEN 1 ELSE 0]]
  /\ UNCHANGED <<world, seen, changes, bounds, lost, logs>>

(* The run is killed, or ended by an error that nobody handles (such as that of
   os.unlink): its messages are gone. *)
Abort ==
  /\ at # "idle" /\ Enter("idle", {}) /\ buffer' = {} /\ lost' = lost \cup {"run"} /\ CronFault
  /\ UNCHANGED <<world, seen, told, changes, mails, logs>>

CronStep ==
  \/ \E h \in RemoteHosts : CheckHosts(h) \/ CheckPackets(h) \/ CheckDiskSpace(h) \/ Skip(h)
  \/ NextTask("hosts", "stats") \/ NextTask("packets", "disk") \/ NextTask("disk", "append")
  \/ LogStats \/ AppendStats \/ UnlinkStats \/ Mail

CronNext ==
  \/ CronStep \/ Abort \/ \E watch \in BOOLEAN : BeginRun(watch)
  \/ \E t \in Topics, h \in RemoteHosts : Change(t, h)

CronSpec == CronInit /\ [][CronNext]_cVars

-----------------------------------------------------------------------------
(* Properties.                                                             *)

(* No change is reported twice, whatever happens to a run; and as long as no run
   was killed or gave up, every change that a run has come upon has been
   reported when it is over. *)
ReportedOnce ==
  \A t \in Topics, h \in RemoteHosts :
    /\ mails[t][h] <= changes[t][h]
    /\ at = "idle" /\ "run" \notin lost => mails[t][h] = changes[t][h]

(* No record of stats.log is lost; and each is there once, in order, if no run
   was killed or gave up. *)
StatsKept ==
  /\ \A r \in 1 .. records : r \in ToSet(spool) \cup ToSet(stats)
  /\ lost = {} /\ at # "unlink" => stats \o spool = [r \in 1 .. records |-> r]

(* A host that was up and stays down is reported, unless a run was lost. *)
DownIsReported ==
  \A h \in RemoteHosts :
    seen["down"][h] = FALSE /\ world["down"][h]
      ~> ~world["down"][h] \/ "run" \in lost \/ told["down"][h] = TRUE
=============================================================================
