-------------------------------- MODULE Shell -------------------------------
(***************************************************************************)
(* Several zeekctl processes -- interactive shells, single commands, cron  *)
(* -- over one state database, one set of configuration files and one      *)
(* installation.                                                           *)
(*                                                                         *)
(* A process reads zeekctl.cfg, the database and node.cfg when it starts,  *)
(* and writes to the database while it does so, without the lock.  Its     *)
(* commands hold the lock (AbstractLock, which LockFile implements) and    *)
(* renew the copy of the database first.  deploy reads the configuration   *)
(* again if it believes that it has changed, installs it, and restarts     *)
(* the nodes.  Between any two steps the user may edit a file, a command   *)
(* may fail, and a process may be killed.                                  *)
(***************************************************************************)
EXTENDS StateStore

CONSTANTS
  Hosts,      \* hosts other than the manager's
  Versions,   \* contents of a file, and versions of the Zeek on the system
  HostOf,     \* the host of a node under a content of node.cfg, or None
  Invalid,    \* contents of node.cfg that are rejected
  First,      \* the contents at the beginning
  Jobs,       \* the commands a process may be given
  Edits,      \* what the user may change: pairs of an item and its new content
  MaxEdits,   \* bound: number of edits
  MaxFaults   \* bound: commands that fail, and processes that are killed

AllJobs == {"enable", "disable", "cron", "install", "local", "deploy"}

ASSUME ShellAssumption ==
  /\ HostOf \in [Versions -> [Nodes -> Hosts \cup {None}]]
  /\ Invalid \subseteq Versions /\ None \notin Versions \cup Hosts \cup BOOLEAN
  /\ First \in Versions \ Invalid /\ Edits \subseteq Items \X Versions
  /\ Jobs \in [Procs -> SUBSET AllJobs] /\ MaxEdits \in Nat /\ MaxFaults \in Nat

VARIABLES
  file,       \* contents of the configuration files; version of Zeek
  edits, faults,
  loaded,     \* the contents a process works with
  pc, job,    \* next step of a process; its command, "boot" while it starts
  holders,    \* the process inside a locked command, if any
  installed,  \* what the policy files on the manager were generated from
  remote,     \* what the other hosts have copies of
  unfinished  \* history: an installation has begun since one was completed

world == <<file, edits, faults>>
disk == <<installed, remote, unfinished>>
vars == <<store, world, loaded, pc, job, holders, disk>>

Lock == INSTANCE AbstractLock

Nothing == [f \in Files |-> None]
NodesOf(v) == {n \in Nodes : HostOf[v][n] # None}
MyNodes(p) == NodesOf(loaded[p]["node.cfg"])
MyHost(p, n) == HostOf[loaded[p]["node.cfg"]][n]
MyHosts(p) == {MyHost(p, n) : n \in MyNodes(p)}

BootSteps == {"read", "chksum zeekctl.cfg", "chksum node.cfg", "nodes", "dangling",
              "cronenabled", "warn"}
InstallSteps == {"version", "wipe", "generate", "config.sh", "sync", "hash zeekctl.cfg", "hash node.cfg"}
RestartSteps == {"stop", "clear", "start", "pid", "host"}
LockedSteps == {"renew", "do", "tasks", "check", "unlock"} \cup InstallSteps \cup RestartSteps

Contents == Versions \cup {None}
ValuesOf(k) == IF k[1] = "host" THEN Hosts \cup {None}
               ELSE IF k[1] \in {"chksum", "installed"} THEN Contents
               ELSE BOOLEAN \cup {None}
Tables == {t \in [Keys -> Contents \cup Hosts \cup BOOLEAN] : \A k \in Keys : t[k] \in ValuesOf(k)}

TypeOK ==
  /\ db \in Tables /\ cache \in [Procs -> Tables]
  /\ file \in [Items -> Versions] /\ edits \in 0 .. MaxEdits /\ faults \in 0 .. MaxFaults
  /\ loaded \in [Procs -> [Files -> Contents]]
  /\ pc \in [Procs -> {"off", "ready", "lock"} \cup BootSteps \cup LockedSteps]
  /\ job \in [Procs -> AllJobs \cup {"boot", "none"}]
  /\ holders \in SUBSET Procs
  /\ installed \in [Files -> Contents] /\ remote \in [Hosts -> [Files -> Contents]]
  /\ unfinished \in BOOLEAN

Init ==
  /\ db = [k \in Keys |-> None] /\ cache = [p \in Procs |-> db]
  /\ file = [i \in Items |-> First]
  /\ edits = 0 /\ faults = 0
  /\ loaded = [p \in Procs |-> Nothing]
  /\ pc = [p \in Procs |-> "off"] /\ job = [p \in Procs |-> "none"]
  /\ holders = {}
  /\ installed = Nothing /\ remote = [h \in Hosts |-> Nothing] /\ unfinished = FALSE

-----------------------------------------------------------------------------
At(p, s) == pc[p] = s
Goto(p, s) == pc' = [pc EXCEPT ![p] = s]

(* A step that writes to the database and goes to s. *)
Writes(p, f, s) ==
  /\ set_states(p, f) /\ Goto(p, s)
  /\ UNCHANGED <<world, loaded, job, holders, disk>>
WritesKey(p, k, v, s) == Writes(p, [key \in {k} |-> v], s)

Moves(p, s) == Goto(p, s) /\ UNCHANGED <<store, world, loaded, job, holders, disk>>

Fault == faults < MaxFaults /\ faults' = faults + 1 /\ UNCHANGED <<file, edits>>

(* The process ends.  Its lock, if it has it, is released, or found stale. *)
Exit(p) ==
  /\ Goto(p, "off") /\ job' = [job EXCEPT ![p] = "none"]
  /\ loaded' = [loaded EXCEPT ![p] = Nothing]
  /\ cache' = [cache EXCEPT ![p] = [k \in Keys |-> None]]
  /\ holders' = holders \ {p}
  /\ UNCHANGED <<db, disk>>

Quit(p) == At(p, "ready") /\ Exit(p) /\ UNCHANGED world
Die(p) == pc[p] \notin {"off", "ready"} /\ Exit(p) /\ Fault

(* The user edits a file, or upgrades Zeek. *)
Edit ==
  /\ edits < MaxEdits /\ edits' = edits + 1
  /\ \E e \in Edits : file' = [file EXCEPT ![e[1]] = e[2]]
  /\ UNCHANGED <<store, faults, loaded, pc, job, holders, disk>>

-----------------------------------------------------------------------------
(* Reading the configuration: Configuration() and initPostPlugins() when a  *)
(* process starts, reload_cfg() within deploy.                              *)

ReadConfig(p) == loaded' = [loaded EXCEPT ![p]["zeekctl.cfg"] = file["zeekctl.cfg"]]

Boot(p) ==
  /\ At(p, "off") /\ ReadConfig(p)
  /\ Goto(p, "read") /\ job' = [job EXCEPT ![p] = "boot"]
  /\ UNCHANGED <<store, world, holders, disk>>

BootRead(p) ==
  /\ At(p, "read") /\ read_state(p) /\ Goto(p, "chksum zeekctl.cfg")
  /\ UNCHANGED <<world, loaded, job, holders, disk>>

UpdateCfgState(p) ==
  \/ /\ At(p, "chksum zeekctl.cfg")
     /\ WritesKey(p, Chksum("zeekctl.cfg"), file["zeekctl.cfg"], "chksum node.cfg")
  \/ /\ At(p, "chksum node.cfg")
     /\ WritesKey(p, Chksum("node.cfg"), file["node.cfg"], "nodes")

ReadNodes(p) ==
  /\ At(p, "nodes")
  /\ \/ file["node.cfg"] \in Invalid /\ Exit(p) /\ UNCHANGED world
     \/ /\ file["node.cfg"] \notin Invalid
        /\ loaded' = [loaded EXCEPT ![p]["node.cfg"] = file["node.cfg"]]
        /\ Goto(p, "dangling")
        /\ UNCHANGED <<store, world, job, holders, disk>>

(* _warn_dangling_zeek(): nodes that have a PID and are not where the
   configuration has them lose their PID. *)
Dangling(p) ==
  {n \in Nodes : get_state(p, Pid(n)) = TRUE /\ get_state(p, Host(n)) \notin {None, MyHost(p, n)}}

WarnDangling(p) ==
  /\ At(p, "dangling")
  /\ Writes(p, [k \in {Pid(n) : n \in Dangling(p)} |-> None],
            IF job[p] = "boot" THEN "cronenabled" ELSE "check")

InitCronAlways(p) == At(p, "cronenabled") /\ WritesKey(p, CronEnabled, TRUE, "warn")

InitCron(p) ==
  /\ At(p, "cronenabled")
  /\ IF get_state(p, CronEnabled) = None THEN WritesKey(p, CronEnabled, TRUE, "warn")
                                         ELSE Moves(p, "warn")

(* warn_zeekctl_install(): does the installation need an update?  Skipped for
   cron, install and deploy. *)
Changed(p, i) ==
  get_state(p, Mark(i)) \notin {None, IF i = "zeek" THEN file[i] ELSE loaded[p][i]}

Warning(p) ==
  IF Changed(p, "node.cfg") THEN "node config has changed"
  ELSE IF installed = Nothing THEN "run deploy to get started"
  ELSE IF Changed(p, "zeek") THEN "new zeek version"
  ELSE IF Changed(p, "zeekctl.cfg") THEN "config has changed"
  ELSE IF \E i \in Items : get_state(p, Mark(i)) = None THEN "state needs updating"
  ELSE "no warning"

WarnInstall(p) ==
  /\ At(p, "warn")
  /\ Goto(p, "ready") /\ job' = [job EXCEPT ![p] = "none"]
  /\ UNCHANGED <<store, world, loaded, holders, disk>>

-----------------------------------------------------------------------------
(* Commands.                                                               *)

is_cfg_changed(p) == \E f \in Files : get_state(p, Chksum(f)) \notin {None, file[f]}

Begin(p, j) ==
  /\ At(p, "ready") /\ Goto(p, "lock") /\ job' = [job EXCEPT ![p] = j]
  /\ UNCHANGED <<store, world, loaded, holders, disk>>

AcquireLockStale(p) ==
  /\ At(p, "lock") /\ Lock!Acquire(p) /\ Goto(p, "do")
  /\ UNCHANGED <<store, world, loaded, job, disk>>

AcquireLock(p) ==
  /\ At(p, "lock") /\ Lock!Acquire(p) /\ Goto(p, "renew")
  /\ UNCHANGED <<store, world, loaded, job, disk>>

Renew(p) ==
  /\ At(p, "renew") /\ read_state(p) /\ Goto(p, "do")
  /\ UNCHANGED <<world, loaded, job, holders, disk>>

Unlock(p) ==
  /\ At(p, "unlock") /\ Lock!Release(p)
  /\ Goto(p, "ready") /\ job' = [job EXCEPT ![p] = "none"]
  /\ UNCHANGED <<store, world, loaded, disk>>

Copies(p, hs) == remote' = [h \in Hosts |-> IF h \in hs THEN installed ELSE remote[h]]

(* A step of a command fails: it returns to its caller, and so does deploy.
   Copies go to all hosts in parallel; some may have arrived. *)
Fail(p) ==
  /\ pc[p] \in {"check", "version", "wipe", "generate", "config.sh", "sync", "clear"}
  /\ Goto(p, "unlock") /\ Fault
  /\ IF At(p, "sync") THEN \E hs \in SUBSET MyHosts(p) : Copies(p, hs) ELSE UNCHANGED remote
  /\ UNCHANGED <<store, loaded, job, holders, installed, unfinished>>

SetCronEnabled(p) ==
  /\ At(p, "do") /\ job[p] \in {"enable", "disable"}
  /\ WritesKey(p, CronEnabled, job[p] = "enable", "unlock")

(* cron does its work only if it is enabled, and something is installed. *)
Cron(p) ==
  \/ /\ At(p, "do") /\ job[p] = "cron"
     /\ Moves(p, IF get_state(p, CronEnabled) = TRUE /\ installed # Nothing
                 THEN "tasks" ELSE "unlock")
  \/ At(p, "tasks") /\ Moves(p, "unlock")

Install(p) == At(p, "do") /\ job[p] \in {"install", "local"} /\ Moves(p, "version")

Deploy(p) ==
  /\ At(p, "do") /\ job[p] = "deploy"
  /\ \/ /\ is_cfg_changed(p) /\ ReadConfig(p) /\ Goto(p, "chksum zeekctl.cfg")
        /\ UNCHANGED <<store, world, job, holders, disk>>
     \/ ~is_cfg_changed(p) /\ Moves(p, "check")

(* The commands within deploy take the lock again, and so renew the copy of
   the database. *)
Nested(p, s) ==
  /\ read_state(p) /\ Goto(p, s) /\ UNCHANGED <<world, loaded, job, holders, disk>>

CheckScripts(p) == At(p, "check") /\ Nested(p, "version")

-----------------------------------------------------------------------------
(* Controller.install().                                                   *)

RecordVersion(p) == At(p, "version") /\ WritesKey(p, Mark("zeek"), file["zeek"], "wipe")

(* The policy directories are removed and created; what is in them then is
   incomplete until zeekctl-config.zeek has been written. *)
Wipe(p) ==
  /\ At(p, "wipe") /\ Goto(p, "generate")
  /\ installed' = Nothing /\ unfinished' = TRUE
  /\ UNCHANGED <<store, world, loaded, job, holders, remote>>

GenerateFromDisk(p) ==
  /\ At(p, "generate")
  /\ installed' = [f \in Files |-> file[f]]
  /\ Goto(p, "config.sh")
  /\ UNCHANGED <<store, world, loaded, job, holders, remote, unfinished>>

Generate(p) ==
  /\ At(p, "generate")
  /\ installed' = loaded[p]
  /\ Goto(p, "config.sh")
  /\ UNCHANGED <<store, world, loaded, job, holders, remote, unfinished>>

ConfigSh(p) ==
  /\ At(p, "config.sh")
  /\ Moves(p, IF job[p] = "local" THEN "unlock"
              ELSE IF MyHosts(p) = {} THEN "hash zeekctl.cfg" ELSE "sync")

Sync(p) ==
  /\ At(p, "sync") /\ Copies(p, MyHosts(p)) /\ Goto(p, "hash zeekctl.cfg")
  /\ UNCHANGED <<store, world, loaded, job, holders, installed, unfinished>>

UpdateCfgHashFromDisk(p) ==
  \/ /\ At(p, "hash zeekctl.cfg")
     /\ WritesKey(p, Mark("zeekctl.cfg"), file["zeekctl.cfg"], "hash node.cfg")
  \/ /\ At(p, "hash node.cfg")
     /\ set_state(p, Mark("node.cfg"), file["node.cfg"])
     /\ unfinished' = FALSE
     /\ Goto(p, IF job[p] = "deploy" THEN "stop" ELSE "unlock")
     /\ UNCHANGED <<world, loaded, job, holders, installed, remote>>

UpdateCfgHash(p) ==
  \/ /\ At(p, "hash zeekctl.cfg")
     /\ WritesKey(p, Mark("zeekctl.cfg"), loaded[p]["zeekctl.cfg"], "hash node.cfg")
  \/ /\ At(p, "hash node.cfg")
     /\ set_state(p, Mark("node.cfg"), loaded[p]["node.cfg"])
     /\ unfinished' = FALSE
     /\ Goto(p, IF job[p] = "deploy" THEN "stop" ELSE "unlock")
     /\ UNCHANGED <<world, loaded, job, holders, installed, remote>>

-----------------------------------------------------------------------------
(* The restart at the end of deploy, as far as other processes may see it;  *)
(* stop and start are in NodeControl.  setPID() writes the PID, and then    *)
(* the host.                                                                *)

Restart(p) ==
  \/ At(p, "stop") /\ Nested(p, "clear")
  \/ At(p, "start") /\ Nested(p, "pid")
  \/ /\ At(p, "clear")
     /\ Writes(p, [k \in {Pid(n) : n \in MyNodes(p)} |-> None], "start")
  \/ /\ At(p, "pid")
     /\ Writes(p, [k \in {Pid(n) : n \in MyNodes(p)} |-> TRUE], "host")
  \/ /\ At(p, "host")
     /\ Writes(p, [k \in {Host(n) : n \in MyNodes(p)} |-> MyHost(p, k[2])], "unlock")

-----------------------------------------------------------------------------
Step(p) ==
  \/ Boot(p) \/ BootRead(p) \/ UpdateCfgState(p) \/ ReadNodes(p) \/ WarnDangling(p)
  \/ InitCron(p) \/ WarnInstall(p)
  \/ AcquireLock(p) \/ Renew(p) \/ Unlock(p) \/ Fail(p)
  \/ SetCronEnabled(p) \/ Cron(p) \/ Install(p) \/ Deploy(p) \/ CheckScripts(p)
  \/ RecordVersion(p) \/ Wipe(p) \/ Generate(p) \/ ConfigSh(p) \/ Sync(p) \/ UpdateCfgHash(p)
  \/ Restart(p)

Next == Edit \/ \E p \in Procs : Step(p) \/ Quit(p) \/ Die(p) \/ \E j \in Jobs[p] : Begin(p, j)

Spec == Init /\ [][Next]_vars

-----------------------------------------------------------------------------
(* Properties.                                                             *)

(* A key another process may write while a command runs: the checksums, the
   switch of cron as long as nobody had set it, and what a node is believed to
   be that somebody's configuration does not have at its host. *)
Unguarded(p, k) ==
  \/ \E f \in Files : k = Chksum(f)
  \/ k = CronEnabled /\ cache[p][k] = FALSE
  \/ \E n \in Nodes : k = Pid(n)

(* Inside a command, the copy of the database is the database: no command acts
   on what another one has changed since. *)
CacheIsCurrent ==
  \A p \in Procs : pc[p] \in LockedSteps \ {"renew"} =>
    \A k \in Keys : cache[p][k] # db[k] => Unguarded(p, k)

(* Unless an installation has not come to its end, the recorded hashes tell
   what is installed; and a process that starts with them gives no warning only
   if that is what it has read, and the version of Zeek is the one installed. *)
MarksTellInstalled ==
  unfinished \/
    /\ \A f \in Files : db[Mark(f)] = installed[f]
    /\ \A p \in Procs :
         At(p, "warn") /\ cache[p] = db /\ Warning(p) = "no warning"
           => installed = loaded[p] /\ db[Mark("zeek")] = file["zeek"]

(* When deploy restarts the nodes, manager, other hosts and recorded hashes
   have the configuration that it goes by. *)
DeployConsistent ==
  \A p \in Procs : job[p] = "deploy" /\ pc[p] \in RestartSteps =>
    \A f \in Files :
      /\ installed[f] = loaded[p][f] /\ db[Mark(f)] = loaded[p][f]
      /\ \A h \in MyHosts(p) : remote[h][f] = loaded[p][f]

(* "cron disable" holds until "cron enable". *)
CronStaysOff ==
  [][db[CronEnabled] = FALSE /\ db'[CronEnabled] # FALSE =>
       \E p \in Procs : job[p] = "enable" \/ (job[p] = "boot" /\ cache[p][CronEnabled] = None)]_vars

(* "Returns True if the zeekctl config files have changed since last reload": a
   process that finds them changed finds so until it has read them again. *)
NoticedUntilReload ==
  [][\A p \in Procs :
       At(p, "renew") /\ At(p, "do")' /\ is_cfg_changed(p) => is_cfg_changed(p)']_vars
=============================================================================
