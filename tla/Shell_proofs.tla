---------------------------- MODULE Shell_proofs ----------------------------
(***************************************************************************)
(* Proofs about Shell, for any processes, nodes, hosts, edits and faults.  *)
(***************************************************************************)
EXTENDS Shell, TLAPS

Act(p) == Step(p) \/ Quit(p) \/ Die(p) \/ \E j \in Jobs[p] : Begin(p, j)

Reading == {"read", "chksum zeekctl.cfg", "chksum node.cfg", "nodes"}

-----------------------------------------------------------------------------
(* Keys and tables.                                                        *)

(* Only written inside a command. *)
Guarded(k) == (\E i \in Items : k = Mark(i)) \/ (\E n \in Nodes : k = Host(n))

LEMMA KeysKnown ==
  /\ CronEnabled \in Keys /\ CronEnabled[1] = "cronenabled"
  /\ \A f \in Files : Chksum(f) \in Keys /\ Chksum(f)[1] = "chksum" /\ f \in Items
  /\ \A i \in Items : Mark(i) \in Keys /\ Mark(i)[1] = "installed" /\ Mark(i)[2] = i
  /\ \A n \in Nodes : Pid(n) \in Keys /\ Pid(n)[1] = "pid" /\ Pid(n)[2] = n
  /\ \A n \in Nodes : Host(n) \in Keys /\ Host(n)[1] = "host" /\ Host(n)[2] = n
<1>1. \A n \in Nodes : Pid(n) \in NodeKeys(n) /\ Host(n) \in NodeKeys(n)
  BY DEF NodeKeys
<1>2. \A n \in Nodes : Pid(n) \in Keys /\ Host(n) \in Keys
  BY <1>1 DEF Keys
<1>3. CronEnabled \in Keys /\ \A f \in Files : Chksum(f) \in Keys
  BY DEF Keys
<1>4. \A i \in Items : Mark(i) \in Keys
  BY DEF Keys
<1> QED BY <1>2, <1>3, <1>4 DEF CronEnabled, Chksum, Mark, Pid, Host, Items

LEMMA KeyKinds ==
  ASSUME NEW k \in Keys
  PROVE  \/ Guarded(k) \/ k = CronEnabled
         \/ \E f \in Files : k = Chksum(f)
         \/ \E n \in Nodes : k = Pid(n)
BY DEF Keys, Guarded, NodeKeys

LEMMA InTables ==
  ASSUME NEW t
  PROVE  t \in Tables <=> /\ t \in [Keys -> Contents \cup Hosts \cup BOOLEAN]
                          /\ \A k \in Keys : t[k] \in ValuesOf(k)
BY DEF Tables

(* What set_states() does to the copies and the table. *)
LEMMA Written ==
  ASSUME TypeOK, NEW p \in Procs, NEW f, DOMAIN f \subseteq Keys, set_states(p, f)
  PROVE  /\ \A q \in Procs : q # p => cache'[q] = cache[q]
         /\ \A k \in Keys : k \notin DOMAIN f => cache'[p][k] = cache[p][k] /\ db'[k] = db[k]
         /\ \A k \in DOMAIN f : /\ cache'[p][k] = f[k]
                                /\ cache[p][k] # f[k] => db'[k] = f[k]
                                /\ cache[p][k] = f[k] => db'[k] = db[k]
BY DEF TypeOK, set_states

LEMMA WrittenTypes ==
  ASSUME TypeOK, NEW p \in Procs, NEW f, DOMAIN f \subseteq Keys,
         \A k \in DOMAIN f : f[k] \in ValuesOf(k), set_states(p, f)
  PROVE  db' \in Tables /\ cache' \in [Procs -> Tables]
<1>1. \A k \in Keys : ValuesOf(k) \subseteq Contents \cup Hosts \cup BOOLEAN
  BY DEF ValuesOf, Contents
<1>2. db \in Tables /\ cache[p] \in Tables
  BY DEF TypeOK
<1>3. \A k \in Keys : db[k] \in ValuesOf(k) /\ cache[p][k] \in ValuesOf(k)
  BY <1>2, InTables
<1>4. db' \in Tables
  <2> DEFINE t == [k \in Keys |-> IF k \in DOMAIN f /\ cache[p][k] # f[k] THEN f[k] ELSE db[k]]
  <2>1. \A k \in Keys : t[k] \in ValuesOf(k)
    BY <1>3
  <2>2. t \in [Keys -> Contents \cup Hosts \cup BOOLEAN]
    BY <1>1, <2>1
  <2>3. t \in Tables
    BY <2>1, <2>2, InTables
  <2> QED BY <2>3 DEF set_states
<1>5. cache' \in [Procs -> Tables]
  <2> DEFINE t == [k \in Keys |-> IF k \in DOMAIN f THEN f[k] ELSE cache[p][k]]
  <2>1. \A k \in Keys : t[k] \in ValuesOf(k)
    BY <1>3
  <2>2. t \in [Keys -> Contents \cup Hosts \cup BOOLEAN]
    BY <1>1, <2>1
  <2>3. t \in Tables
    BY <2>1, <2>2, InTables
  <2>4. cache' = [cache EXCEPT ![p] = t]
    BY DEF set_states
  <2> HIDE DEF t
  <2> QED BY <2>3, <2>4 DEF TypeOK
<1> QED BY <1>4, <1>5

LEMMA ValuesKnown ==
  /\ ValuesOf(CronEnabled) = BOOLEAN \cup {None}
  /\ \A f \in Files : ValuesOf(Chksum(f)) = Contents
  /\ \A i \in Items : ValuesOf(Mark(i)) = Contents
  /\ \A n \in Nodes : ValuesOf(Pid(n)) = BOOLEAN \cup {None} /\ ValuesOf(Host(n)) = Hosts \cup {None}
BY KeysKnown DEF ValuesOf

-----------------------------------------------------------------------------
(* Types.                                                                  *)

(* Once it has read node.cfg, a process has nodes. *)
LoadedInv == \A p \in Procs : pc[p] \notin Reading \cup {"off"} => loaded[p]["node.cfg"] \in Versions

AllSteps == {"off", "ready", "lock"} \cup BootSteps \cup LockedSteps

LEMMA WritesTypes ==
  ASSUME TypeOK, NEW p \in Procs, NEW f, DOMAIN f \subseteq Keys, NEW s \in AllSteps,
         \A k \in DOMAIN f : f[k] \in ValuesOf(k), Writes(p, f, s)
  PROVE  TypeOK'
<1>1. db' \in Tables /\ cache' \in [Procs -> Tables]
  BY WrittenTypes DEF Writes
<1>2. pc' \in [Procs -> AllSteps]
  BY DEF Writes, Goto, TypeOK, AllSteps
<1>3. UNCHANGED <<world, loaded, job, holders, disk>>
  BY DEF Writes
<1>4. /\ file \in [Items -> Versions] /\ edits \in 0 .. MaxEdits /\ faults \in 0 .. MaxFaults
      /\ loaded \in [Procs -> [Files -> Contents]] /\ job \in [Procs -> AllJobs \cup {"boot", "none"}]
      /\ holders \in SUBSET Procs /\ installed \in [Files -> Contents]
      /\ remote \in [Hosts -> [Files -> Contents]] /\ unfinished \in BOOLEAN
  BY DEF TypeOK
<1> QED BY <1>1, <1>2, <1>3, <1>4 DEF TypeOK, AllSteps, world, disk

LEMMA KeyTypes ==
  ASSUME TypeOK, NEW p \in Procs, NEW k \in Keys, NEW v \in ValuesOf(k), NEW s \in AllSteps, WritesKey(p, k, v, s)
  PROVE  TypeOK'
BY WritesTypes DEF WritesKey

LEMMA MovesTypes ==
  ASSUME TypeOK, NEW p \in Procs, NEW s \in AllSteps, Moves(p, s)
  PROVE  TypeOK'
BY DEF Moves, Goto, TypeOK, AllSteps, store, world, disk

LEMMA RenewTypes ==
  ASSUME TypeOK, NEW p \in Procs, NEW s \in AllSteps, read_state(p), Goto(p, s),
         UNCHANGED <<world, loaded, job, holders, disk>>
  PROVE  TypeOK'
BY DEF read_state, Goto, TypeOK, AllSteps, world, disk

LEMMA ExitTypes ==
  ASSUME TypeOK, NEW p \in Procs, Exit(p), UNCHANGED world \/ Fault
  PROVE  TypeOK'
<1> DEFINE t == [k \in Keys |-> None]
<1>1. t \in Tables
  <2>1. \A k \in Keys : t[k] \in ValuesOf(k)
    BY DEF ValuesOf, Contents
  <2>2. \A k \in Keys : ValuesOf(k) \subseteq Contents \cup Hosts \cup BOOLEAN
    BY DEF ValuesOf, Contents
  <2> QED BY <2>1, <2>2, InTables DEF Contents
<1>2. cache' = [cache EXCEPT ![p] = t]
  BY DEF Exit
<1>3. cache' \in [Procs -> Tables]
  <2> HIDE DEF t
  <2> QED BY <1>1, <1>2 DEF TypeOK
<1>4. loaded' \in [Procs -> [Files -> Contents]]
  BY DEF Exit, Nothing, TypeOK, Contents
<1>5. pc' \in [Procs -> AllSteps] /\ job' \in [Procs -> AllJobs \cup {"boot", "none"}]
  BY DEF Exit, Goto, TypeOK, AllSteps
<1>6. holders' \in SUBSET Procs /\ UNCHANGED <<db, installed, remote, unfinished>>
  BY DEF Exit, TypeOK, disk
<1>7. file' \in [Items -> Versions] /\ edits' \in 0 .. MaxEdits /\ faults' \in 0 .. MaxFaults
  BY ShellAssumption DEF TypeOK, Fault, world
<1> QED BY <1>3, <1>4, <1>5, <1>6, <1>7 DEF TypeOK, AllSteps

LEMMA BootTypes ==
  ASSUME TypeOK, NEW p \in Procs,
         Boot(p) \/ BootRead(p) \/ UpdateCfgState(p) \/ ReadNodes(p) \/ WarnDangling(p) \/ InitCron(p) \/ WarnInstall(p)
  PROVE  TypeOK'
<1>1. CASE Boot(p)
  BY <1>1 DEF Boot, ReadConfig, Goto, TypeOK, BootSteps, store, world, disk, Files, Items, Contents
<1>2. CASE BootRead(p)
  BY <1>2, RenewTypes DEF BootRead, AllSteps, BootSteps
<1>3. CASE UpdateCfgState(p)
  <2>1. \A f \in Files : file[f] \in ValuesOf(Chksum(f))
    BY ValuesKnown DEF TypeOK, Items, Contents
  <2>2. "chksum node.cfg" \in AllSteps /\ "nodes" \in AllSteps /\ "zeekctl.cfg" \in Files /\ "node.cfg" \in Files
    BY DEF AllSteps, BootSteps, Files
  <2> QED BY <1>3, <2>1, <2>2, KeysKnown, KeyTypes DEF UpdateCfgState
<1>4. CASE ReadNodes(p)
  <2>1. CASE Exit(p) /\ UNCHANGED world
    BY <2>1, ExitTypes
  <2>2. CASE /\ loaded' = [loaded EXCEPT ![p]["node.cfg"] = file["node.cfg"]]
             /\ Goto(p, "dangling") /\ UNCHANGED <<store, world, job, holders, disk>>
    BY <2>2 DEF Goto, TypeOK, BootSteps, store, world, disk, Files, Items, Contents
  <2> QED BY <1>4, <2>1, <2>2 DEF ReadNodes
<1>5. CASE WarnDangling(p)
  <2> DEFINE f == [k \in {Pid(n) : n \in Dangling(p)} |-> None]
  <2>1. DOMAIN f \subseteq Keys /\ \A k \in DOMAIN f : f[k] \in ValuesOf(k)
    BY KeysKnown, ValuesKnown DEF Dangling
  <2>2. PICK s \in {"cronenabled", "check"} : Writes(p, f, s)
    BY <1>5 DEF WarnDangling
  <2>3. s \in AllSteps
    BY DEF AllSteps, BootSteps, LockedSteps
  <2> HIDE DEF f
  <2> QED BY <2>1, <2>2, <2>3, WritesTypes
<1>6. CASE InitCron(p)
  <2>1. TRUE \in ValuesOf(CronEnabled) /\ "warn" \in AllSteps
    BY ValuesKnown DEF AllSteps, BootSteps
  <2> QED BY <1>6, <2>1, KeysKnown, KeyTypes, MovesTypes DEF InitCron
<1>7. CASE WarnInstall(p)
  BY <1>7 DEF WarnInstall, Goto, TypeOK, store, world, disk
<1> QED BY <1>1, <1>2, <1>3, <1>4, <1>5, <1>6, <1>7

LEMMA CommandTypes ==
  ASSUME TypeOK, LoadedInv, NEW p \in Procs,
         \/ AcquireLock(p) \/ Renew(p) \/ Unlock(p) \/ Fail(p) \/ SetCronEnabled(p) \/ Cron(p)
         \/ Install(p) \/ Deploy(p) \/ CheckScripts(p) \/ Quit(p) \/ Die(p) \/ \E j \in Jobs[p] : Begin(p, j)
  PROVE  TypeOK'
<1> USE DEF LockedSteps, InstallSteps, RestartSteps
<1>1. CASE AcquireLock(p)
  BY <1>1 DEF AcquireLock, Lock!Acquire, Goto, TypeOK, store, world, disk
<1>2. CASE Renew(p) \/ CheckScripts(p)
  BY <1>2, RenewTypes DEF Renew, CheckScripts, Nested, AllSteps
<1>3. CASE Unlock(p)
  BY <1>3 DEF Unlock, Lock!Release, Goto, TypeOK, store, world, disk
<1>4. CASE Fail(p)
  <2>1. remote' \in [Hosts -> [Files -> Contents]]
    <3>1. \A hs : Copies(p, hs) => remote' \in [Hosts -> [Files -> Contents]]
      BY DEF Copies, TypeOK
    <3> QED BY <1>4, <3>1 DEF Fail, TypeOK
  <2>2. pc' \in [Procs -> AllSteps]
    BY <1>4 DEF Fail, Goto, TypeOK, AllSteps
  <2>3. faults' \in 0 .. MaxFaults /\ UNCHANGED <<file, edits>>
    <3>1. faults \in 0 .. MaxFaults /\ MaxFaults \in Nat
      BY ShellAssumption DEF TypeOK
    <3>2. faults < MaxFaults /\ faults' = faults + 1 /\ UNCHANGED <<file, edits>>
      BY <1>4 DEF Fail, Fault
    <3> QED BY <3>1, <3>2
  <2>4. UNCHANGED <<db, cache, loaded, job, holders, installed, unfinished>>
    BY <1>4 DEF Fail, store
  <2> QED BY <2>1, <2>2, <2>3, <2>4 DEF TypeOK, AllSteps
<1>5. CASE SetCronEnabled(p)
  <2>1. (job[p] = "enable") \in ValuesOf(CronEnabled) /\ "unlock" \in AllSteps
    BY ValuesKnown DEF AllSteps
  <2> QED BY <1>5, <2>1, KeysKnown, KeyTypes DEF SetCronEnabled
<1>6. CASE Cron(p) \/ Install(p)
  <2>1. PICK s \in {"tasks", "unlock", "version"} : Moves(p, s)
    BY <1>6 DEF Cron, Install
  <2>2. s \in AllSteps
    BY DEF AllSteps
  <2> QED BY <2>1, <2>2, MovesTypes
<1>7. CASE Deploy(p)
  <2>1. CASE ReadConfig(p) /\ Goto(p, "chksum zeekctl.cfg") /\ UNCHANGED <<store, world, job, holders, disk>>
    BY <2>1 DEF ReadConfig, Goto, TypeOK, BootSteps, store, world, disk, Files, Items, Contents
  <2>2. CASE Moves(p, "check")
    BY <2>2, MovesTypes DEF AllSteps
  <2> QED BY <1>7, <2>1, <2>2 DEF Deploy
<1>8. CASE Quit(p) \/ Die(p)
  BY <1>8, ExitTypes DEF Quit, Die
<1>9. ASSUME NEW j \in Jobs[p], Begin(p, j) PROVE TypeOK'
  <2>1. j \in AllJobs
    BY ShellAssumption
  <2> QED BY <1>9, <2>1 DEF Begin, Goto, TypeOK, store, world, disk
<1> QED BY <1>1, <1>2, <1>3, <1>4, <1>5, <1>6, <1>7, <1>8, <1>9

LEMMA InstallTypes ==
  ASSUME TypeOK, LoadedInv, NEW p \in Procs,
         RecordVersion(p) \/ Wipe(p) \/ Generate(p) \/ ConfigSh(p) \/ Sync(p) \/ UpdateCfgHash(p) \/ Restart(p)
  PROVE  TypeOK'
<1> USE DEF LockedSteps, InstallSteps, RestartSteps
<1>1. CASE RecordVersion(p)
  <2>1. "zeek" \in Items /\ file["zeek"] \in ValuesOf(Mark("zeek")) /\ "wipe" \in AllSteps
    BY ValuesKnown DEF TypeOK, Items, Contents, AllSteps
  <2> QED BY <1>1, <2>1, KeysKnown, KeyTypes DEF RecordVersion
<1>2. CASE Wipe(p)
  BY <1>2 DEF Wipe, Nothing, Goto, TypeOK, Contents, store, world
<1>3. CASE Generate(p)
  BY <1>3 DEF Generate, Goto, TypeOK, store, world
<1>4. CASE ConfigSh(p)
  <2>1. PICK s \in {"unlock", "hash zeekctl.cfg", "sync"} : Moves(p, s)
    BY <1>4 DEF ConfigSh
  <2>2. s \in AllSteps
    BY DEF AllSteps
  <2> QED BY <2>1, <2>2, MovesTypes
<1>5. CASE Sync(p)
  BY <1>5 DEF Sync, Copies, Goto, TypeOK, store, world
<1>6. CASE UpdateCfgHash(p)
  <2>1. /\ "zeekctl.cfg" \in Files /\ "zeekctl.cfg" \in Items /\ "node.cfg" \in Files /\ "node.cfg" \in Items
        /\ loaded[p]["zeekctl.cfg"] \in Contents /\ loaded[p]["node.cfg"] \in Contents
    <3>1. "zeekctl.cfg" \in Files /\ "zeekctl.cfg" \in Items /\ "node.cfg" \in Files /\ "node.cfg" \in Items
      BY DEF Files, Items
    <3>2. loaded[p] \in [Files -> Contents]
      BY DEF TypeOK
    <3> QED BY <3>1, <3>2
  <2>2. CASE WritesKey(p, Mark("zeekctl.cfg"), loaded[p]["zeekctl.cfg"], "hash node.cfg")
    BY <2>1, <2>2, ValuesKnown, KeysKnown, KeyTypes, ZenonT(40) DEF AllSteps
  <2>3. CASE /\ set_state(p, Mark("node.cfg"), loaded[p]["node.cfg"]) /\ unfinished' = FALSE
             /\ Goto(p, IF job[p] = "deploy" THEN "stop" ELSE "unlock")
             /\ UNCHANGED <<world, loaded, job, holders, installed, remote>>
    <3> DEFINE f == [key \in {Mark("node.cfg")} |-> loaded[p]["node.cfg"]]
    <3>1. DOMAIN f \subseteq Keys /\ \A k \in DOMAIN f : f[k] \in ValuesOf(k)
      BY <2>1, KeysKnown, ValuesKnown
    <3>2. set_states(p, f)
      BY <2>3 DEF set_state
    <3> HIDE DEF f
    <3>3. db' \in Tables /\ cache' \in [Procs -> Tables]
      BY <3>1, <3>2, WrittenTypes
    <3> QED BY <2>3, <3>3 DEF Goto, TypeOK, world
  <2> QED BY <1>6, <2>2, <2>3 DEF UpdateCfgHash
<1>7. CASE Restart(p)
  <2>1. CASE Nested(p, "clear") \/ Nested(p, "pid")
    BY <2>1, RenewTypes DEF Nested, AllSteps
  <2>2. CASE \E v \in BOOLEAN \cup {None}, s \in {"start", "host"} : Writes(p, [k \in {Pid(n) : n \in MyNodes(p)} |-> v], s)
    <3>1. PICK v \in BOOLEAN \cup {None}, s \in {"start", "host"} : Writes(p, [k \in {Pid(n) : n \in MyNodes(p)} |-> v], s)
      BY <2>2
    <3> DEFINE f == [k \in {Pid(n) : n \in MyNodes(p)} |-> v]
    <3>2. DOMAIN f \subseteq Keys /\ \A k \in DOMAIN f : f[k] \in ValuesOf(k)
      BY KeysKnown, ValuesKnown DEF MyNodes, NodesOf
    <3>3. s \in AllSteps /\ Writes(p, f, s)
      BY <3>1 DEF AllSteps
    <3> HIDE DEF f
    <3> QED BY <3>2, <3>3, WritesTypes
  <2>3. CASE At(p, "host") /\ Writes(p, [k \in {Host(n) : n \in MyNodes(p)} |-> MyHost(p, k[2])], "unlock")
    <3> DEFINE f == [k \in {Host(n) : n \in MyNodes(p)} |-> MyHost(p, k[2])]
    <3>1. loaded[p]["node.cfg"] \in Versions
      BY <2>3 DEF LoadedInv, At, Reading
    <3>2. \A n \in MyNodes(p) : n \in Nodes /\ MyHost(p, n) \in Hosts \cup {None} /\ Host(n)[2] = n
      BY <3>1, ShellAssumption DEF MyNodes, NodesOf, MyHost, Host
    <3>3. DOMAIN f \subseteq Keys /\ \A k \in DOMAIN f : f[k] \in ValuesOf(k)
      BY <3>2, KeysKnown, ValuesKnown
    <3>4. "unlock" \in AllSteps /\ Writes(p, f, "unlock")
      BY <2>3 DEF AllSteps
    <3> HIDE DEF f
    <3> QED BY <3>3, <3>4, WritesTypes
  <2> QED BY <1>7, <2>1, <2>2, <2>3 DEF Restart
<1> QED BY <1>1, <1>2, <1>3, <1>4, <1>5, <1>6, <1>7

(* A step of a process leaves the others, and what they have, alone. *)
LEMMA OthersKeep ==
  ASSUME TypeOK, NEW p \in Procs, Act(p), NEW q \in Procs, q # p
  PROVE  /\ pc'[q] = pc[q] /\ job'[q] = job[q] /\ loaded'[q] = loaded[q] /\ cache'[q] = cache[q]
         /\ q \in holders' <=> q \in holders
<1> USE DEF Goto, ReadConfig, TypeOK
<1>1. \A f, s : Writes(p, f, s) => /\ UNCHANGED <<job, loaded, holders>> /\ pc'[q] = pc[q] /\ cache'[q] = cache[q]
  BY DEF Writes, set_states
<1>2. \A s : Moves(p, s) => UNCHANGED <<job, loaded, holders, cache>> /\ pc'[q] = pc[q]
  BY DEF Moves, store
<1>3. \A s : Nested(p, s) => UNCHANGED <<job, loaded, holders>> /\ pc'[q] = pc[q] /\ cache'[q] = cache[q]
  BY DEF Nested, read_state
<1>4. Exit(p) => /\ pc'[q] = pc[q] /\ job'[q] = job[q] /\ loaded'[q] = loaded[q] /\ cache'[q] = cache[q]
                 /\ q \in holders' <=> q \in holders
  BY DEF Exit
<1>5. CASE Boot(p) \/ BootRead(p) \/ ReadNodes(p) \/ WarnInstall(p) \/ Quit(p) \/ Die(p) \/ \E j \in Jobs[p] : Begin(p, j)
  BY <1>4, <1>5 DEF Boot, BootRead, ReadNodes, WarnInstall, Quit, Die, Begin, read_state, store
<1>6. CASE UpdateCfgState(p) \/ WarnDangling(p) \/ InitCron(p) \/ SetCronEnabled(p) \/ RecordVersion(p)
  BY <1>1, <1>2, <1>6 DEF UpdateCfgState, WarnDangling, InitCron, SetCronEnabled, RecordVersion, WritesKey
<1>7. CASE Cron(p) \/ Install(p) \/ ConfigSh(p) \/ CheckScripts(p) \/ Restart(p)
  BY <1>1, <1>2, <1>3, <1>7 DEF Cron, Install, ConfigSh, CheckScripts, Restart
<1>8. CASE Deploy(p) \/ Fail(p) \/ Wipe(p) \/ Generate(p) \/ Sync(p)
  BY <1>2, <1>8 DEF Deploy, Fail, Wipe, Generate, Sync, store
<1>9. CASE AcquireLock(p) \/ Renew(p) \/ Unlock(p)
  BY <1>9 DEF AcquireLock, Renew, Unlock, Lock!Acquire, Lock!Release, read_state, store
<1>10. CASE UpdateCfgHash(p)
  BY <1>1, <1>10 DEF UpdateCfgHash, WritesKey, set_state, set_states
<1> QED BY <1>5, <1>6, <1>7, <1>8, <1>9, <1>10 DEF Act, Step

LEMMA LoadedStep ==
  ASSUME TypeOK, LoadedInv, NEW p \in Procs, Act(p)
  PROVE  LoadedInv'
<1> USE DEF Goto, At, Reading
<1> DEFINE Good == \/ pc'[p] \in Reading \cup {"off"} \/ loaded'[p]["node.cfg"] \in Versions
<1>0. pc \in [Procs -> AllSteps] /\ loaded \in [Procs -> [Files -> Contents]] /\ file["node.cfg"] \in Versions
      /\ (pc[p] \in Reading \cup {"off"} \/ loaded[p]["node.cfg"] \in Versions)
  BY DEF TypeOK, AllSteps, LoadedInv, Items, Files
<1>1. ASSUME loaded' = loaded, NEW s, pc' = [pc EXCEPT ![p] = s],
             pc[p] \notin Reading \cup {"off"} \/ s \in Reading \cup {"off"} PROVE Good
  BY <1>0, <1>1
<1>2. Good
  <2>1. CASE Quit(p) \/ Die(p) \/ (ReadNodes(p) /\ Exit(p))
    BY <1>0, <2>1 DEF Quit, Die, Exit
  <2>2. CASE ReadNodes(p) /\ ~Exit(p)
    <3>1. loaded' = [loaded EXCEPT ![p]["node.cfg"] = file["node.cfg"]] /\ "node.cfg" \in Files
      BY <2>2 DEF ReadNodes, Files
    <3>2. loaded'[p]["node.cfg"] = file["node.cfg"]
      BY <1>0, <3>1
    <3> QED BY <1>0, <3>2
  <2>3. CASE Boot(p)
    BY <1>0, <2>3 DEF Boot
  <2>4. CASE BootRead(p) \/ WarnInstall(p) \/ \E j \in Jobs[p] : Begin(p, j)
    BY <1>1, <2>4 DEF BootRead, WarnInstall, Begin
  <2>5. CASE UpdateCfgState(p) \/ WarnDangling(p) \/ SetCronEnabled(p) \/ RecordVersion(p)
    BY <1>1, <2>5 DEF UpdateCfgState, WarnDangling, SetCronEnabled, RecordVersion, WritesKey, Writes
  <2>6. CASE InitCron(p)
    BY <1>1, <2>6 DEF InitCron, WritesKey, Writes, Moves
  <2>7. CASE Cron(p) \/ Install(p) \/ ConfigSh(p) \/ CheckScripts(p)
    BY <1>1, <2>7 DEF Cron, Install, ConfigSh, CheckScripts, Moves, Nested
  <2>8. CASE Restart(p)
    BY <1>1, <2>8 DEF Restart, Writes, Nested
  <2>9. CASE Deploy(p)
    <3>1. CASE ReadConfig(p) /\ Goto(p, "chksum zeekctl.cfg")
      BY <1>0, <3>1
    <3>2. CASE Moves(p, "check") /\ At(p, "do")
      BY <1>1, <3>2 DEF Moves
    <3> QED BY <2>9, <3>1, <3>2 DEF Deploy
  <2>10. CASE Fail(p) \/ Wipe(p) \/ Generate(p) \/ Sync(p)
    BY <1>1, <2>10 DEF Fail, Wipe, Generate, Sync
  <2>11. CASE AcquireLock(p) \/ Renew(p) \/ Unlock(p)
    BY <1>1, <2>11 DEF AcquireLock, Renew, Unlock
  <2>12. CASE UpdateCfgHash(p)
    BY <1>1, <2>12 DEF UpdateCfgHash, WritesKey, Writes
  <2> QED BY <2>1, <2>2, <2>3, <2>4, <2>5, <2>6, <2>7, <2>8, <2>9, <2>10, <2>11, <2>12 DEF Act, Step
<1>3. \A q \in Procs : q # p => loaded'[q] = loaded[q] /\ pc'[q] = pc[q]
  BY OthersKeep
<1> QED BY <1>2, <1>3 DEF LoadedInv

-----------------------------------------------------------------------------
(* The lock.                                                               *)

(* Inside a command: also when deploy reads the configuration again. *)
Holding(p) == pc[p] \in LockedSteps \/ (pc[p] \in BootSteps /\ job[p] # "boot")

LockInv ==
  /\ \A p \in Procs : p \in holders <=> Holding(p)
  /\ \A p, q \in holders : p = q
  /\ \A p \in Procs : pc[p] \in {"read", "cronenabled", "warn"} => job[p] = "boot"

LEMMA OwnLock ==
  ASSUME TypeOK, LockInv, NEW p \in Procs, Act(p)
  PROVE  /\ p \in holders' <=> Holding(p)'
         /\ pc'[p] \in {"read", "cronenabled", "warn"} => job'[p] = "boot"
<1> USE DEF Goto, At, LockedSteps, BootSteps, InstallSteps, RestartSteps
<1> DEFINE Good == /\ p \in holders' <=> Holding(p)'
                   /\ pc'[p] \in {"read", "cronenabled", "warn"} => job'[p] = "boot"
<1>0. pc \in [Procs -> AllSteps] /\ job \in [Procs -> AllJobs \cup {"boot", "none"}] /\ holders \subseteq Procs
      /\ (p \in holders <=> Holding(p))
      /\ (pc[p] \in {"read", "cronenabled", "warn"} => job[p] = "boot")
  BY DEF TypeOK, AllSteps, LockInv
<1>1. ASSUME pc[p] \in LockedSteps, UNCHANGED <<holders, job>>, NEW s \in LockedSteps, pc' = [pc EXCEPT ![p] = s] PROVE Good
  BY <1>0, <1>1 DEF Holding
<1>2. ASSUME pc[p] \in BootSteps, UNCHANGED <<holders, job>>, NEW s \in BootSteps, s \in {"read", "cronenabled", "warn"} => job[p] = "boot",
             pc' = [pc EXCEPT ![p] = s] PROVE Good
  BY <1>0, <1>2 DEF Holding
<1>3. CASE Quit(p) \/ Die(p) \/ (ReadNodes(p) /\ Exit(p))
  BY <1>0, <1>3 DEF Quit, Die, Exit, Holding
<1>4. CASE ReadNodes(p) /\ ~Exit(p)
  BY <1>2, <1>4 DEF ReadNodes
<1>5. CASE Boot(p)
  BY <1>0, <1>5 DEF Boot, Holding
<1>6. CASE WarnInstall(p)
  BY <1>0, <1>6 DEF WarnInstall, Holding
<1>7. CASE \E j \in Jobs[p] : Begin(p, j)
  BY <1>0, <1>7 DEF Begin, Holding
<1>8. CASE BootRead(p) \/ UpdateCfgState(p)
  BY <1>0, <1>2, <1>8 DEF BootRead, UpdateCfgState, WritesKey, Writes
<1>9. CASE InitCron(p)
  BY <1>0, <1>2, <1>9 DEF InitCron, WritesKey, Writes, Moves
<1>10. CASE WarnDangling(p)
  BY <1>0, <1>10 DEF WarnDangling, Writes, Holding
<1>11. CASE SetCronEnabled(p) \/ RecordVersion(p) \/ Restart(p)
  BY <1>1, <1>11 DEF SetCronEnabled, RecordVersion, Restart, WritesKey, Writes, Nested
<1>12. CASE Cron(p) \/ Install(p) \/ ConfigSh(p) \/ CheckScripts(p)
  BY <1>1, <1>12 DEF Cron, Install, ConfigSh, CheckScripts, Moves, Nested
<1>13. CASE Deploy(p)
  BY <1>0, <1>13 DEF Deploy, Moves, Holding
<1>14. CASE Fail(p) \/ Wipe(p) \/ Generate(p) \/ Sync(p) \/ Renew(p)
  BY <1>1, <1>14 DEF Fail, Wipe, Generate, Sync, Renew
<1>15. CASE AcquireLock(p)
  BY <1>0, <1>15 DEF AcquireLock, Lock!Acquire, Holding
<1>16. CASE Unlock(p)
  BY <1>0, <1>16 DEF Unlock, Lock!Release, Holding
<1>17. CASE UpdateCfgHash(p)
  BY <1>1, <1>17 DEF UpdateCfgHash, WritesKey, Writes
<1> QED BY <1>3, <1>4, <1>5, <1>6, <1>7, <1>8, <1>9, <1>10, <1>11, <1>12, <1>13, <1>14, <1>15, <1>16, <1>17 DEF Act, Step

LEMMA HoldersShrink ==
  ASSUME NEW p \in Procs, Act(p), ~AcquireLock(p)
  PROVE  holders' \subseteq holders
<1>1. CASE UpdateCfgState(p) \/ WarnDangling(p) \/ InitCron(p) \/ SetCronEnabled(p) \/ RecordVersion(p)
           \/ UpdateCfgHash(p) \/ Restart(p) \/ Cron(p) \/ Install(p) \/ ConfigSh(p) \/ CheckScripts(p)
  BY <1>1 DEF UpdateCfgState, WarnDangling, InitCron, SetCronEnabled, RecordVersion, UpdateCfgHash, Restart,
              Cron, Install, ConfigSh, CheckScripts, WritesKey, Writes, Nested, Moves
<1>2. CASE Boot(p) \/ BootRead(p) \/ ReadNodes(p) \/ WarnInstall(p) \/ Quit(p) \/ Die(p) \/ \E j \in Jobs[p] : Begin(p, j)
  BY <1>2 DEF Boot, BootRead, ReadNodes, WarnInstall, Quit, Die, Exit, Begin
<1>3. CASE Deploy(p) \/ Fail(p) \/ Wipe(p) \/ Generate(p) \/ Sync(p) \/ Renew(p)
  BY <1>3 DEF Deploy, Moves, Fail, Wipe, Generate, Sync, Renew
<1>4. CASE Unlock(p)
  BY <1>4 DEF Unlock, Lock!Release
<1> QED BY <1>1, <1>2, <1>3, <1>4 DEF Act, Step

LEMMA HoldersChange ==
  ASSUME NEW p \in Procs, Act(p)
  PROVE  holders' \subseteq holders \/ (holders = {} /\ holders' = {p})
BY HoldersShrink DEF AcquireLock, Lock!Acquire

(* A process that gets the lock has asked for it, and then renews its copy. *)
LEMMA LockedNext ==
  ASSUME TypeOK, NEW p \in Procs, Act(p), p \in holders', p \notin holders
  PROVE  pc[p] = "lock" /\ pc'[p] = "renew"
<1>1. AcquireLock(p)
  BY HoldersShrink
<1> QED BY <1>1 DEF AcquireLock, At, Goto, TypeOK

LEMMA LockStep ==
  ASSUME TypeOK, LockInv, NEW p \in Procs, Act(p)
  PROVE  LockInv'
<1>1. ASSUME NEW q \in Procs, q # p
      PROVE  /\ q \in holders' <=> Holding(q)'
             /\ pc'[q] \in {"read", "cronenabled", "warn"} => job'[q] = "boot"
  BY <1>1, OthersKeep DEF LockInv, Holding
<1>2. (p \in holders' <=> Holding(p)') /\ (pc'[p] \in {"read", "cronenabled", "warn"} => job'[p] = "boot")
  BY OwnLock
<1>3. holders' \subseteq holders \/ (holders = {} /\ holders' = {p})
  BY HoldersChange
<1>4. \A q, r \in holders' : q = r
  BY <1>3 DEF LockInv
<1>5. \A q \in Procs : q \in holders' <=> Holding(q)'
  BY <1>1, <1>2
<1>6. \A q \in Procs : pc'[q] \in {"read", "cronenabled", "warn"} => job'[q] = "boot"
  BY <1>1, <1>2
<1> QED BY <1>4, <1>5, <1>6 DEF LockInv

-----------------------------------------------------------------------------
(* The database.                                                           *)

(* What a process may write, outside of a command and inside. *)
Allowed(p, f) ==
  /\ DOMAIN f \subseteq Keys
  /\ p \notin holders => \A k \in DOMAIN f : ~Guarded(k)
  /\ CronEnabled \in DOMAIN f =>
       \/ job[p] = "boot" /\ cache[p][CronEnabled] = None /\ f[CronEnabled] = TRUE
       \/ p \in holders /\ f[CronEnabled] = (job[p] = "enable")

LEMMA StoreSteps ==
  ASSUME TypeOK, LockInv, NEW p \in Procs, Act(p)
  PROVE  \/ UNCHANGED store
         \/ db' = db /\ pc'[p] = "off" /\ cache'[p] = [k \in Keys |-> None]
         \/ read_state(p)
         \/ \E f : Allowed(p, f) /\ set_states(p, f)
<1> DEFINE Good == \E f : Allowed(p, f) /\ set_states(p, f)
<1> USE DEF Goto, At
<1>0. (p \in holders <=> Holding(p)) /\ (pc[p] \in {"read", "cronenabled", "warn"} => job[p] = "boot")
      /\ pc \in [Procs -> AllSteps] /\ cache \in [Procs -> Tables]
  BY DEF LockInv, TypeOK, AllSteps
<1>1. CASE Quit(p) \/ Die(p) \/ (ReadNodes(p) /\ Exit(p))
  BY <1>0, <1>1 DEF Quit, Die, Exit
<1>2. CASE Boot(p) \/ WarnInstall(p) \/ (ReadNodes(p) /\ ~Exit(p)) \/ \E j \in Jobs[p] : Begin(p, j)
  BY <1>2 DEF Boot, WarnInstall, ReadNodes, Begin
<1>3. CASE BootRead(p) \/ Renew(p) \/ CheckScripts(p)
  BY <1>3 DEF BootRead, Renew, CheckScripts, Nested
<1>4. CASE Cron(p) \/ Install(p) \/ ConfigSh(p) \/ Deploy(p)
  BY <1>4 DEF Cron, Install, ConfigSh, Deploy, Moves
<1>5. CASE AcquireLock(p) \/ Unlock(p) \/ Fail(p) \/ Wipe(p) \/ Generate(p) \/ Sync(p)
  BY <1>5 DEF AcquireLock, Unlock, Fail, Wipe, Generate, Sync
<1>6. CASE UpdateCfgState(p)
  <2>1. ASSUME NEW g \in Files, set_states(p, [key \in {Chksum(g)} |-> file[g]]) PROVE Good
    <3> DEFINE f == [key \in {Chksum(g)} |-> file[g]]
    <3>1. Allowed(p, f)
      BY KeysKnown DEF Allowed, Guarded
    <3> QED BY <2>1, <3>1
  <2> QED BY <1>6, <2>1 DEF UpdateCfgState, WritesKey, Writes, Files
<1>7. CASE WarnDangling(p)
  <2> DEFINE f == [k \in {Pid(n) : n \in Dangling(p)} |-> None]
  <2>1. Allowed(p, f)
    BY KeysKnown DEF Allowed, Guarded, Dangling
  <2>2. set_states(p, f)
    BY <1>7 DEF WarnDangling, Writes
  <2> QED BY <2>1, <2>2
<1>8. CASE InitCron(p)
  <2>1. CASE Moves(p, "warn")
    BY <2>1 DEF Moves
  <2>2. CASE get_state(p, CronEnabled) = None /\ WritesKey(p, CronEnabled, TRUE, "warn")
    <3> DEFINE f == [key \in {CronEnabled} |-> TRUE]
    <3>1. DOMAIN f \subseteq Keys /\ ~Guarded(CronEnabled) /\ f[CronEnabled] = TRUE
      BY KeysKnown DEF Guarded
    <3>3. job[p] = "boot" /\ cache[p][CronEnabled] = None
      BY <1>0, <1>8, <2>2 DEF InitCron, get_state
    <3>4. \A k \in DOMAIN f : k = CronEnabled
      OBVIOUS
    <3>5. Allowed(p, f)
      <4> HIDE DEF f
      <4> QED BY <3>1, <3>3, <3>4 DEF Allowed
    <3>2. set_states(p, f)
      BY <2>2 DEF WritesKey, Writes
    <3> QED BY <3>2, <3>5
  <2> QED BY <1>8, <2>1, <2>2 DEF InitCron
<1>9. CASE SetCronEnabled(p)
  <2> DEFINE f == [key \in {CronEnabled} |-> job[p] = "enable"]
  <2>1. p \in holders
    BY <1>0, <1>9 DEF SetCronEnabled, Holding, LockedSteps
  <2>2. Allowed(p, f)
    BY <2>1, KeysKnown DEF Allowed
  <2>3. set_states(p, f)
    BY <1>9 DEF SetCronEnabled, WritesKey, Writes
  <2> QED BY <2>2, <2>3
<1>10. ASSUME p \in holders, NEW i \in Items, NEW v, set_states(p, [key \in {Mark(i)} |-> v]) PROVE Good
  <2> DEFINE f == [key \in {Mark(i)} |-> v]
  <2>1. Allowed(p, f)
    BY <1>10, KeysKnown DEF Allowed
  <2> QED BY <1>10, <2>1
<1>11. CASE RecordVersion(p) \/ UpdateCfgHash(p)
  <2>1. p \in holders
    BY <1>0, <1>11 DEF RecordVersion, UpdateCfgHash, Holding, LockedSteps, InstallSteps
  <2> QED BY <1>10, <1>11, <2>1 DEF RecordVersion, UpdateCfgHash, WritesKey, Writes, set_state, Items, Files
<1>12. CASE Restart(p)
  <2>1. p \in holders
    BY <1>0, <1>12 DEF Restart, Holding, LockedSteps, RestartSteps
  <2>2. ASSUME NEW v, set_states(p, [k \in {Pid(n) : n \in MyNodes(p)} |-> v]) PROVE Good
    <3> DEFINE f == [k \in {Pid(n) : n \in MyNodes(p)} |-> v]
    <3>1. Allowed(p, f)
      BY <2>1, KeysKnown DEF Allowed, MyNodes, NodesOf
    <3> QED BY <2>2, <3>1
  <2>3. ASSUME set_states(p, [k \in {Host(n) : n \in MyNodes(p)} |-> MyHost(p, k[2])]) PROVE Good
    <3> DEFINE f == [k \in {Host(n) : n \in MyNodes(p)} |-> MyHost(p, k[2])]
    <3>1. Allowed(p, f)
      BY <2>1, KeysKnown DEF Allowed, MyNodes, NodesOf
    <3> QED BY <2>3, <3>1
  <2> HIDE DEF Good
  <2> QED BY <1>12, <2>2, <2>3 DEF Restart, Nested, Writes, Good
<1> QED BY <1>1, <1>2, <1>3, <1>4, <1>5, <1>6, <1>7, <1>8, <1>9, <1>11, <1>12 DEF Act, Step

(* The first thing a command does with the lock. *)
LEMMA RenewsFirst ==
  ASSUME NEW p \in Procs, Act(p), pc[p] = "renew"
  PROVE  read_state(p) \/ p \notin holders'
<1> USE DEF At
<1>1. CASE Renew(p)
  BY <1>1 DEF Renew
<1>2. CASE Die(p) \/ Quit(p)
  BY <1>2 DEF Die, Quit, Exit, Goto
<1> QED
  BY <1>1, <1>2 DEF Act, Step, Boot, BootRead, UpdateCfgState, ReadNodes, WarnDangling, InitCron, WarnInstall,
     AcquireLock, Unlock, Fail, SetCronEnabled, Cron, Install, Deploy, CheckScripts, RecordVersion, Wipe, Generate,
     ConfigSh, Sync, UpdateCfgHash, Restart, Begin

(* The switch of cron has been set before a process is ready. *)
LEMMA ReadyLater ==
  ASSUME TypeOK, NEW p \in Procs, Act(p), pc'[p] \in {"warn", "ready", "lock"}
  PROVE  InitCron(p) \/ pc[p] \in {"warn", "ready", "unlock"}
<1> USE DEF At, Goto
<1>0. pc \in [Procs -> AllSteps]
  BY DEF TypeOK, AllSteps
<1>1. \A s : pc' = [pc EXCEPT ![p] = s] => s \in {"warn", "ready", "lock"}
  BY <1>0
<1>2. ~(Quit(p) \/ Die(p) \/ ReadNodes(p) \/ Boot(p) \/ BootRead(p))
  BY <1>1 DEF Quit, Die, ReadNodes, Exit, Boot, BootRead
<1>3. ~(UpdateCfgState(p) \/ WarnDangling(p) \/ SetCronEnabled(p) \/ RecordVersion(p) \/ Restart(p) \/ UpdateCfgHash(p))
  BY <1>1 DEF UpdateCfgState, WarnDangling, SetCronEnabled, RecordVersion, Restart, UpdateCfgHash, WritesKey, Writes, Nested
<1>4. ~(AcquireLock(p) \/ Renew(p) \/ Fail(p) \/ Cron(p) \/ Install(p) \/ Deploy(p) \/ CheckScripts(p)
        \/ Wipe(p) \/ Generate(p) \/ ConfigSh(p) \/ Sync(p))
  BY <1>1 DEF AcquireLock, Renew, Fail, Cron, Install, Deploy, CheckScripts, Wipe, Generate, ConfigSh, Sync, Moves, Nested
<1>5. WarnInstall(p) \/ Unlock(p) \/ (\E j \in Jobs[p] : Begin(p, j)) => pc[p] \in {"warn", "ready", "unlock"}
  BY DEF WarnInstall, Unlock, Begin
<1> QED BY <1>2, <1>3, <1>4, <1>5 DEF Act, Step

CronInv ==
  \A p \in Procs :
    /\ cache[p][CronEnabled] # None => db[CronEnabled] # None
    /\ pc[p] \in {"warn", "ready", "lock"} \/ p \in holders => db[CronEnabled] # None
    /\ p \in holders /\ pc[p] # "renew" => cache[p][CronEnabled] # None

CacheInv ==
  \A p \in holders : pc[p] # "renew" => \A k \in Keys : cache[p][k] # db[k] => Unguarded(p, k)

(* Where the changes of a step can be. *)
LEMMA StoreChanges ==
  ASSUME TypeOK, LockInv, NEW p \in Procs, Act(p)
  PROVE  /\ \A k \in Keys : Guarded(k) /\ p \notin holders => db'[k] = db[k]
         /\ db'[CronEnabled] = db[CronEnabled] \/ p \in holders \/ db'[CronEnabled] = TRUE
         /\ db[CronEnabled] # None => db'[CronEnabled] # None
<1>0. CronEnabled \in Keys /\ (\A b \in BOOLEAN : b # None)
  BY KeysKnown, ShellAssumption
<1>1. CASE db' = db
  BY <1>1
<1>2. ASSUME NEW f, Allowed(p, f), set_states(p, f)
      PROVE  /\ \A k \in Keys : Guarded(k) /\ p \notin holders => db'[k] = db[k]
             /\ db'[CronEnabled] = db[CronEnabled] \/ p \in holders \/ db'[CronEnabled] = TRUE
             /\ db[CronEnabled] # None => db'[CronEnabled] # None
  <2>1. /\ \A k \in Keys : k \notin DOMAIN f => db'[k] = db[k]
        /\ \A k \in DOMAIN f : db'[k] \in {f[k], db[k]}
    BY <1>2, Written DEF Allowed
  <2>2. CronEnabled \in DOMAIN f => f[CronEnabled] \in BOOLEAN /\ (p \in holders \/ f[CronEnabled] = TRUE)
    BY <1>2 DEF Allowed
  <2>3. p \notin holders => \A k \in DOMAIN f : ~Guarded(k)
    BY <1>2 DEF Allowed
  <2> QED BY <1>0, <2>1, <2>2, <2>3
<1> QED BY <1>1, <1>2, StoreSteps DEF store, read_state

LEMMA CronStep ==
  ASSUME TypeOK, LockInv, CronInv, NEW p \in Procs, Act(p)
  PROVE  CronInv'
<1> DEFINE C == CronEnabled
<1>0. C \in Keys /\ (\A b \in BOOLEAN : b # None) /\ holders \subseteq Procs
  BY KeysKnown, ShellAssumption DEF TypeOK
<1>1. db[C] # None => db'[C] # None
  BY StoreChanges
<1>2. ASSUME NEW q \in Procs, q # p
      PROVE  /\ cache'[q][C] # None => db'[C] # None
             /\ pc'[q] \in {"warn", "ready", "lock"} \/ q \in holders' => db'[C] # None
             /\ q \in holders' /\ pc'[q] # "renew" => cache'[q][C] # None
  BY <1>1, <1>2, OthersKeep DEF CronInv
<1>3. cache'[p][C] # None => db'[C] # None
  <2>1. CASE UNCHANGED store
    BY <2>1 DEF CronInv, store
  <2>2. CASE cache'[p] = [k \in Keys |-> None]
    BY <1>0, <2>2
  <2>3. CASE read_state(p)
    BY <2>3 DEF read_state, TypeOK
  <2>4. ASSUME NEW f, Allowed(p, f), set_states(p, f) PROVE cache'[p][C] # None => db'[C] # None
    <3>1. C \notin DOMAIN f => cache'[p][C] = cache[p][C] /\ db'[C] = db[C]
      BY <1>0, <2>4, Written DEF Allowed
    <3>2. C \in DOMAIN f => f[C] \in BOOLEAN
      BY <2>4 DEF Allowed
    <3>3. DOMAIN f \subseteq Keys
      BY <2>4 DEF Allowed
    <3>4. C \in DOMAIN f => (cache[p][C] # f[C] => db'[C] = f[C]) /\ (cache[p][C] = f[C] => db'[C] = db[C])
      BY <2>4, <3>3, Written
    <3>5. cache[p][C] # None => db[C] # None
      BY DEF CronInv
    <3>6. CASE C \notin DOMAIN f
      BY <3>1, <3>5, <3>6
    <3>7. CASE C \in DOMAIN f /\ cache[p][C] = f[C]
      <4>1. cache[p][C] # None
        BY <1>0, <3>2, <3>7
      <4> QED BY <3>4, <3>5, <3>7, <4>1
    <3>8. CASE C \in DOMAIN f /\ cache[p][C] # f[C]
      <4>1. f[C] # None
        BY <1>0, <3>2, <3>8
      <4>2. db'[C] = f[C]
        BY <3>4, <3>8
      <4> QED BY <4>1, <4>2
    <3> QED BY <3>6, <3>7, <3>8
  <2> QED BY <2>1, <2>2, <2>3, <2>4, StoreSteps
<1>4. pc'[p] \in {"warn", "ready", "lock"} \/ p \in holders' => db'[C] # None
  <2>1. CASE InitCron(p)
    <3>1. CASE cache[p][C] # None
      BY <1>1, <3>1 DEF CronInv
    <3>2. CASE cache[p][C] = None
      <4> DEFINE f == [key \in {C} |-> TRUE]
      <4>1. set_states(p, f) /\ DOMAIN f \subseteq Keys /\ C \in DOMAIN f
        BY <1>0, <2>1, <3>2 DEF InitCron, get_state, WritesKey, Writes
      <4>2. f[C] # None
        BY <1>0
      <4> HIDE DEF f
      <4>3. cache[p][C] # f[C]
        BY <3>2, <4>2
      <4>4. db'[C] = f[C]
        BY <4>1, <4>3, Written
      <4> QED BY <4>2, <4>4
    <3> QED BY <3>1, <3>2
  <2>2. CASE pc'[p] \in {"warn", "ready", "lock"} /\ ~InitCron(p)
    <3>1. pc[p] \in {"warn", "ready", "unlock"}
      BY <2>2, ReadyLater
    <3>2. pc[p] = "unlock" => p \in holders
      BY DEF LockInv, Holding, LockedSteps
    <3> QED BY <1>1, <3>1, <3>2 DEF CronInv
  <2>3. CASE p \in holders' /\ p \notin holders
    <3>1. pc[p] = "lock"
      BY <2>3, LockedNext
    <3> QED BY <1>1, <3>1 DEF CronInv
  <2>4. CASE p \in holders
    BY <1>1, <2>4 DEF CronInv
  <2> QED BY <2>1, <2>2, <2>3, <2>4
<1>5. p \in holders' /\ pc'[p] # "renew" => cache'[p][C] # None
  <2> SUFFICES ASSUME p \in holders', pc'[p] # "renew" PROVE cache'[p][C] # None
    OBVIOUS
  <2>1. p \in holders
    BY LockedNext
  <2>2. CASE read_state(p)
    <3>1. cache'[p] = db /\ db[C] # None
      BY <2>1, <2>2 DEF read_state, TypeOK, CronInv
    <3> QED BY <3>1
  <2>3. CASE pc[p] # "renew" /\ UNCHANGED store
    BY <2>1, <2>3 DEF CronInv, store
  <2>4. ASSUME pc[p] # "renew", NEW f, Allowed(p, f), set_states(p, f) PROVE cache'[p][C] # None
    <3>1. C \notin DOMAIN f => cache'[p][C] = cache[p][C]
      BY <1>0, <2>4, Written DEF Allowed
    <3>2. C \in DOMAIN f => f[C] \in BOOLEAN
      BY <2>4 DEF Allowed
    <3>3. DOMAIN f \subseteq Keys
      BY <2>4 DEF Allowed
    <3>4. C \in DOMAIN f => cache'[p][C] = f[C]
      BY <2>4, <3>3, Written
    <3>5. cache[p][C] # None
      BY <2>1, <2>4 DEF CronInv
    <3> QED BY <1>0, <3>1, <3>2, <3>4, <3>5
  <2>5. pc'[p] # "off"
    <3>1. Holding(p)'
      BY OwnLock
    <3> QED BY <3>1 DEF Holding, LockedSteps, BootSteps, InstallSteps, RestartSteps
  <2>6. pc[p] = "renew" => read_state(p)
    BY RenewsFirst
  <2> QED BY <2>2, <2>3, <2>4, <2>5, <2>6, StoreSteps
<1>6. \A q \in Procs : cache'[q][C] # None => db'[C] # None
  BY <1>2, <1>3
<1>7. \A q \in Procs : pc'[q] \in {"warn", "ready", "lock"} \/ q \in holders' => db'[C] # None
  BY <1>2, <1>4
<1>8. \A q \in Procs : q \in holders' /\ pc'[q] # "renew" => cache'[q][C] # None
  BY <1>2, <1>5
<1> QED BY <1>6, <1>7, <1>8 DEF CronInv

LEMMA CacheStep ==
  ASSUME TypeOK, LockInv, CronInv, CacheInv, NEW p \in Procs, Act(p)
  PROVE  CacheInv'
<1>0. holders \subseteq Procs /\ holders' \subseteq Procs /\ CronEnabled \in Keys
  <2>1. holders' \subseteq holders \/ holders' = {p}
    BY HoldersChange
  <2> QED BY <2>1, KeysKnown DEF TypeOK
<1>1. ASSUME NEW q \in holders', q # p, pc'[q] # "renew", NEW k \in Keys, cache'[q][k] # db'[k] PROVE Unguarded(q, k)'
  <2>1. q \in Procs /\ q \in holders /\ pc'[q] = pc[q] /\ cache'[q] = cache[q]
    BY <1>0, <1>1, OthersKeep
  <2>2. p \notin holders
    BY <1>1, <2>1 DEF LockInv
  <2>3. CASE Guarded(k)
    <3>1. db'[k] = db[k]
      BY <2>2, <2>3, StoreChanges
    <3>2. Unguarded(q, k)
      BY <1>1, <2>1, <3>1 DEF CacheInv
    <3> QED BY <2>1, <3>2 DEF Unguarded
  <2>4. CASE k = CronEnabled
    <3>1. cache[q][k] \in BOOLEAN
      <4>1. cache[q][k] # None
        BY <1>1, <2>1, <2>4 DEF CronInv
      <4>2. cache[q] \in Tables
        BY <2>1 DEF TypeOK
      <4>3. cache[q][k] \in BOOLEAN \cup {None}
        BY <2>4, <4>2, InTables, ValuesKnown
      <4> QED BY <4>1, <4>3
    <3>2. CASE cache[q][k] = FALSE
      BY <2>1, <2>4, <3>2 DEF Unguarded
    <3>3. CASE cache[q][k] = TRUE
      <4>1. db'[k] = db[k]
        BY <1>1, <2>1, <2>2, <2>4, <3>3, StoreChanges
      <4>2. Unguarded(q, k)
        BY <1>1, <2>1, <4>1 DEF CacheInv
      <4> QED BY <2>1, <4>2 DEF Unguarded
    <3> QED BY <3>1, <3>2, <3>3
  <2>5. CASE (\E f \in Files : k = Chksum(f)) \/ \E n \in Nodes : k = Pid(n)
    BY <2>5 DEF Unguarded
  <2> QED BY <2>3, <2>4, <2>5, KeyKinds
<1>2. ASSUME p \in holders', pc'[p] # "renew", NEW k \in Keys, cache'[p][k] # db'[k] PROVE Unguarded(p, k)'
  <2>1. p \in holders
    BY <1>2, LockedNext
  <2>2. CASE read_state(p)
    BY <1>2, <2>2 DEF read_state, TypeOK
  <2>3. CASE pc[p] # "renew" /\ cache'[p][k] = cache[p][k] /\ db'[k] = db[k]
    <3>1. Unguarded(p, k)
      BY <1>2, <2>1, <2>3 DEF CacheInv
    <3> QED BY <2>3, <3>1 DEF Unguarded
  <2>4. ASSUME pc[p] # "renew", NEW f, Allowed(p, f), set_states(p, f) PROVE Unguarded(p, k)'
    <3>1. CASE k \notin DOMAIN f
      BY <2>3, <2>4, <3>1, Written DEF Allowed
    <3>2. CASE k \in DOMAIN f
      <4>1. cache'[p][k] = f[k] /\ (cache[p][k] # f[k] => db'[k] = f[k]) /\ (cache[p][k] = f[k] => db'[k] = db[k])
        BY <2>4, <3>2, Written DEF Allowed
      <4> QED BY <1>2, <2>3, <2>4, <4>1
    <3> QED BY <3>1, <3>2
  <2>5. pc'[p] # "off"
    <3>1. Holding(p)'
      BY <1>2, OwnLock
    <3> QED BY <3>1 DEF Holding, LockedSteps, BootSteps, InstallSteps, RestartSteps
  <2>6. pc[p] = "renew" => read_state(p)
    BY <1>2, RenewsFirst
  <2>7. UNCHANGED store => cache'[p][k] = cache[p][k] /\ db'[k] = db[k]
    BY DEF store
  <2> QED BY <2>2, <2>3, <2>4, <2>5, <2>6, <2>7, StoreSteps
<1> QED BY <1>1, <1>2 DEF CacheInv

-----------------------------------------------------------------------------
(* The installation.                                                       *)

Generated == {"config.sh", "sync", "hash zeekctl.cfg", "hash node.cfg"} \cup RestartSteps
Copied == {"hash zeekctl.cfg", "hash node.cfg"} \cup RestartSteps
Hashed == {"hash node.cfg"} \cup RestartSteps

(* How far the process that has the lock is. *)
Installed(p) ==
  /\ pc[p] \in {"generate", "config.sh", "sync", "hash zeekctl.cfg", "hash node.cfg"} => unfinished = TRUE
  /\ pc[p] \in Generated => installed = loaded[p]
  /\ pc[p] \in Copied => \A h \in MyHosts(p) : h \in Hosts => remote[h] = installed
  /\ pc[p] \in Hashed => db[Mark("zeekctl.cfg")] = loaded[p]["zeekctl.cfg"]
  /\ pc[p] \in RestartSteps => db[Mark("node.cfg")] = loaded[p]["node.cfg"]

InstallInv ==
  /\ \A p \in holders : Installed(p)
  /\ unfinished = TRUE \/ \A f \in Files : db[Mark(f)] = installed[f]

Inv == TypeOK /\ LoadedInv /\ LockInv /\ CronInv /\ CacheInv /\ InstallInv

(* Outside of a command nothing is installed. *)
LEMMA DiskOutside ==
  ASSUME LockInv, NEW p \in Procs, Act(p), p \notin holders
  PROVE  UNCHANGED disk
<1> USE DEF disk, At
<1>0. pc[p] \notin LockedSteps
  BY DEF LockInv, Holding
<1>1. ~(Fail(p) \/ Wipe(p) \/ Generate(p) \/ Sync(p) \/ UpdateCfgHash(p))
  BY <1>0 DEF Fail, Wipe, Generate, Sync, UpdateCfgHash, LockedSteps, InstallSteps, RestartSteps
<1>2. CASE UpdateCfgState(p) \/ WarnDangling(p) \/ InitCron(p) \/ SetCronEnabled(p) \/ RecordVersion(p)
           \/ Restart(p) \/ Cron(p) \/ Install(p) \/ ConfigSh(p) \/ CheckScripts(p)
  BY <1>2 DEF UpdateCfgState, WarnDangling, InitCron, SetCronEnabled, RecordVersion, Restart,
              Cron, Install, ConfigSh, CheckScripts, WritesKey, Writes, Nested, Moves
<1>3. CASE Boot(p) \/ BootRead(p) \/ ReadNodes(p) \/ WarnInstall(p) \/ Quit(p) \/ Die(p) \/ \E j \in Jobs[p] : Begin(p, j)
  BY <1>3 DEF Boot, BootRead, ReadNodes, WarnInstall, Quit, Die, Exit, Begin
<1>4. CASE Deploy(p) \/ Renew(p) \/ AcquireLock(p) \/ Unlock(p)
  BY <1>4 DEF Deploy, Moves, Renew, AcquireLock, Unlock
<1> QED BY <1>1, <1>2, <1>3, <1>4 DEF Act, Step

LEMMA MarksKept ==
  ASSUME TypeOK, NEW p \in Procs, NEW f, DOMAIN f \subseteq Keys, set_states(p, f),
         \A k \in DOMAIN f : k[1] # "installed"
  PROVE  \A i \in Items : db'[Mark(i)] = db[Mark(i)]
BY Written, KeysKnown

LEMMA MarkWritten ==
  ASSUME TypeOK, LockInv, CacheInv, NEW p \in holders, pc[p] # "renew", NEW i \in Items, NEW f,
         DOMAIN f = {Mark(i)}, set_states(p, f)
  PROVE  /\ db'[Mark(i)] = f[Mark(i)]
         /\ \A j \in Items : j # i => db'[Mark(j)] = db[Mark(j)]
<1>0. p \in Procs /\ DOMAIN f \subseteq Keys /\ Mark(i) \in DOMAIN f
      /\ \A k \in DOMAIN f : k = Mark(i)
  BY KeysKnown DEF TypeOK
<1>1. cache[p][Mark(i)] = db[Mark(i)]
  <2>1. ~Unguarded(p, Mark(i))
    BY KeysKnown DEF Unguarded
  <2> QED BY <2>1, KeysKnown DEF CacheInv
<1>2. db'[Mark(i)] = f[Mark(i)]
  <2>1. /\ cache[p][Mark(i)] # f[Mark(i)] => db'[Mark(i)] = f[Mark(i)]
        /\ cache[p][Mark(i)] = f[Mark(i)] => db'[Mark(i)] = db[Mark(i)]
    BY <1>0, Written
  <2> QED BY <1>0, <1>1, <2>1
<1>3. ASSUME NEW j \in Items, j # i PROVE db'[Mark(j)] = db[Mark(j)]
  <2>1. Mark(j) \notin DOMAIN f /\ Mark(j) \in Keys
    BY <1>0, <1>3, KeysKnown
  <2> QED BY <1>0, <2>1, Written
<1> QED BY <1>2, <1>3

(* Steps that do not change what is installed, and not the hashes of the files. *)
LEMMA HashesKept ==
  ASSUME TypeOK, LockInv, NEW p \in Procs, Act(p), ~UpdateCfgHash(p)
  PROVE  \A g \in Files : db'[Mark(g)] = db[Mark(g)]
<1> USE DEF At
<1>1. \A g \in Files : g \in Items /\ g # "zeek" /\ Mark(g) \in Keys /\ Mark(g) # Mark("zeek")
  BY KeysKnown DEF Files, Items, Mark
<1>2. ASSUME NEW f, DOMAIN f \subseteq Keys, set_states(p, f), \A k \in DOMAIN f : k[1] # "installed"
      PROVE  \A g \in Files : db'[Mark(g)] = db[Mark(g)]
  BY <1>1, <1>2, MarksKept
<1>3. CASE RecordVersion(p)
  <2> DEFINE f == [key \in {Mark("zeek")} |-> file["zeek"]]
  <2>1. DOMAIN f \subseteq Keys /\ set_states(p, f) /\ \A k \in DOMAIN f : k = Mark("zeek")
    BY <1>3, KeysKnown DEF RecordVersion, WritesKey, Writes, Items
  <2> HIDE DEF f
  <2> QED BY <1>1, <2>1, Written
<1>4. CASE UpdateCfgState(p)
  <2>1. ASSUME NEW g \in Files, set_states(p, [key \in {Chksum(g)} |-> file[g]])
        PROVE  \A h \in Files : db'[Mark(h)] = db[Mark(h)]
    <3> DEFINE f == [key \in {Chksum(g)} |-> file[g]]
    <3>1. DOMAIN f \subseteq Keys /\ set_states(p, f) /\ \A k \in DOMAIN f : k[1] # "installed"
      BY <2>1, KeysKnown
    <3> HIDE DEF f
    <3> QED BY <1>2, <3>1
  <2> QED BY <1>4, <2>1 DEF UpdateCfgState, WritesKey, Writes, Files
<1>5. CASE WarnDangling(p)
  <2> DEFINE f == [k \in {Pid(n) : n \in Dangling(p)} |-> None]
  <2>1. DOMAIN f \subseteq Keys /\ set_states(p, f) /\ \A k \in DOMAIN f : k[1] # "installed"
    BY <1>5, KeysKnown DEF WarnDangling, Writes, Dangling
  <2> HIDE DEF f
  <2> QED BY <1>2, <2>1
<1>6. CASE InitCron(p) \/ SetCronEnabled(p)
  <2>1. ASSUME NEW v, set_states(p, [key \in {CronEnabled} |-> v])
        PROVE  \A h \in Files : db'[Mark(h)] = db[Mark(h)]
    <3> DEFINE f == [key \in {CronEnabled} |-> v]
    <3>1. DOMAIN f \subseteq Keys /\ set_states(p, f) /\ \A k \in DOMAIN f : k[1] # "installed"
      BY <2>1, KeysKnown
    <3> HIDE DEF f
    <3> QED BY <1>2, <3>1
  <2>2. Moves(p, "warn") => db' = db
    BY DEF Moves, store
  <2> QED BY <1>6, <2>1, <2>2 DEF InitCron, SetCronEnabled, WritesKey, Writes
<1>7. CASE Restart(p)
  <2>1. ASSUME NEW v, set_states(p, [k \in {Pid(n) : n \in MyNodes(p)} |-> v])
        PROVE  \A h \in Files : db'[Mark(h)] = db[Mark(h)]
    <3> DEFINE f == [k \in {Pid(n) : n \in MyNodes(p)} |-> v]
    <3>1. DOMAIN f \subseteq Keys /\ set_states(p, f) /\ \A k \in DOMAIN f : k[1] # "installed"
      BY <2>1, KeysKnown DEF MyNodes, NodesOf
    <3> HIDE DEF f
    <3> QED BY <1>2, <3>1
  <2>2. ASSUME set_states(p, [k \in {Host(n) : n \in MyNodes(p)} |-> MyHost(p, k[2])])
        PROVE  \A h \in Files : db'[Mark(h)] = db[Mark(h)]
    <3> DEFINE f == [k \in {Host(n) : n \in MyNodes(p)} |-> MyHost(p, k[2])]
    <3>1. DOMAIN f \subseteq Keys /\ set_states(p, f) /\ \A k \in DOMAIN f : k[1] # "installed"
      BY <2>2, KeysKnown DEF MyNodes, NodesOf
    <3> HIDE DEF f
    <3> QED BY <1>2, <3>1
  <2>3. \A t : Nested(p, t) => db' = db
    BY DEF Nested, read_state
  <2> QED BY <1>7, <2>1, <2>2, <2>3 DEF Restart, Writes
<1>8. CASE Boot(p) \/ BootRead(p) \/ ReadNodes(p) \/ WarnInstall(p) \/ Quit(p) \/ Die(p) \/ \E j \in Jobs[p] : Begin(p, j)
  BY <1>8 DEF Boot, BootRead, ReadNodes, WarnInstall, Quit, Die, Exit, Begin, read_state, store
<1>9. CASE AcquireLock(p) \/ Renew(p) \/ Unlock(p) \/ Fail(p) \/ Wipe(p) \/ Generate(p) \/ Sync(p)
  BY <1>9 DEF AcquireLock, Renew, Unlock, Fail, Wipe, Generate, Sync, read_state, store
<1>10. CASE Cron(p) \/ Install(p) \/ Deploy(p) \/ CheckScripts(p) \/ ConfigSh(p)
  BY <1>10 DEF Cron, Install, Deploy, CheckScripts, ConfigSh, Moves, Nested, read_state, store
<1> QED BY <1>3, <1>4, <1>5, <1>6, <1>7, <1>8, <1>9, <1>10 DEF Act, Step

LEMMA OwnInstall ==
  ASSUME Inv, NEW p \in holders, Act(p), p \in holders'
  PROVE  Installed(p)' /\ (unfinished' = TRUE \/ \A f \in Files : db'[Mark(f)] = installed'[f])
<1> USE DEF At, Goto
<1> DEFINE Marks == unfinished' = TRUE \/ \A f \in Files : db'[Mark(f)] = installed'[f]
<1>0. /\ p \in Procs /\ pc \in [Procs -> AllSteps] /\ Installed(p) /\ (p \in holders <=> Holding(p))
      /\ (unfinished = TRUE \/ \A f \in Files : db[Mark(f)] = installed[f])
      /\ "zeekctl.cfg" \in Files /\ "node.cfg" \in Files
  BY DEF Inv, TypeOK, LockInv, InstallInv, AllSteps, Files
<1>1. ~UpdateCfgHash(p) => \A f \in Files : db'[Mark(f)] = db[Mark(f)]
  BY <1>0, HashesKept DEF Inv
<1>2. ASSUME UNCHANGED <<installed, unfinished>>, ~UpdateCfgHash(p),
             pc'[p] \notin {"generate"} \cup Generated
      PROVE  Installed(p)' /\ Marks
  BY <1>0, <1>1, <1>2 DEF Installed, Generated, Copied, Hashed
<1>3. CASE \/ Renew(p) \/ SetCronEnabled(p) \/ Install(p) \/ Deploy(p) \/ CheckScripts(p) \/ Fail(p) \/ Cron(p)
           \/ UpdateCfgState(p) \/ ReadNodes(p) \/ WarnDangling(p) \/ RecordVersion(p)
  <2>1. UNCHANGED <<installed, unfinished>> /\ ~UpdateCfgHash(p)
    BY <1>3 DEF Renew, SetCronEnabled, Install, Deploy, CheckScripts, Fail, Cron, UpdateCfgState, ReadNodes, Exit,
       WarnDangling, RecordVersion, UpdateCfgHash, Moves, Nested, WritesKey, Writes, disk
  <2>2. pc'[p] \in {"do", "unlock", "version", "check", "chksum zeekctl.cfg", "tasks", "chksum node.cfg", "nodes",
                    "dangling", "off", "cronenabled", "wipe"}
    BY <1>0, <1>3 DEF Renew, SetCronEnabled, Install, Deploy, CheckScripts, Fail, Cron, UpdateCfgState, ReadNodes, Exit,
       WarnDangling, RecordVersion, Moves, Nested, WritesKey, Writes
  <2> QED BY <1>2, <2>1, <2>2 DEF Generated, RestartSteps
<1>4. CASE BootRead(p) \/ InitCron(p) \/ WarnInstall(p) \/ Unlock(p) \/ Quit(p) \/ Die(p) \/ Boot(p) \/ AcquireLock(p)
           \/ \E j \in Jobs[p] : Begin(p, j)
  <2>1. pc'[p] \in {"off", "read", "chksum zeekctl.cfg", "warn", "ready", "renew", "lock"} /\ UNCHANGED disk
    BY <1>0, <1>4 DEF BootRead, InitCron, WarnInstall, Unlock, Quit, Die, Exit, Boot, AcquireLock, Begin, WritesKey, Writes, Moves
  <2>2. ~(Quit(p) \/ Die(p))
    BY DEF Quit, Die, Exit
  <2>3. ~UpdateCfgHash(p)
    BY <1>4, <2>2 DEF BootRead, InitCron, WarnInstall, Unlock, Boot, AcquireLock, Begin, UpdateCfgHash
  <2> QED BY <1>2, <2>1, <2>3 DEF Generated, RestartSteps, disk
<1>5. CASE Wipe(p)
  BY <1>0, <1>5 DEF Wipe, Installed, Generated, Copied, Hashed, RestartSteps
<1>6. CASE Generate(p)
  BY <1>0, <1>6 DEF Generate, Installed, Generated, Copied, Hashed, RestartSteps
<1>7. CASE ConfigSh(p)
  <2>1. /\ UNCHANGED <<store, loaded, disk>> /\ pc[p] = "config.sh"
        /\ pc'[p] \in {"unlock", "hash zeekctl.cfg", "sync"} /\ (pc'[p] = "hash zeekctl.cfg" => MyHosts(p) = {})
    BY <1>0, <1>7 DEF ConfigSh, Moves
  <2>2. MyHosts(p)' = MyHosts(p)
    BY <2>1 DEF MyHosts, MyHost, MyNodes
  <2> QED BY <1>0, <2>1, <2>2 DEF Installed, Generated, Copied, Hashed, RestartSteps, store, disk
<1>8. CASE Sync(p)
  <2>1. /\ UNCHANGED <<store, loaded, installed, unfinished>> /\ pc[p] = "sync" /\ pc'[p] = "hash zeekctl.cfg"
        /\ remote' = [h \in Hosts |-> IF h \in MyHosts(p) THEN installed ELSE remote[h]]
    BY <1>0, <1>8 DEF Sync, Copies
  <2>2. MyHosts(p)' = MyHosts(p)
    BY <2>1 DEF MyHosts, MyHost, MyNodes
  <2> QED BY <1>0, <2>1, <2>2 DEF Installed, Generated, Copied, Hashed, RestartSteps, store
<1>9. CASE UpdateCfgHash(p)
  <2>1. UNCHANGED <<loaded, installed, remote>> /\ MyHosts(p)' = MyHosts(p)
    BY <1>9, ZenonT(40) DEF UpdateCfgHash, WritesKey, Writes, disk, MyHosts, MyHost, MyNodes
  <2>2. "zeekctl.cfg" \in Items /\ "node.cfg" \in Items /\ pc[p] # "renew"
    BY <1>9 DEF Items, Files, UpdateCfgHash
  <2>3. CASE pc[p] = "hash zeekctl.cfg"
    <3>1. /\ set_states(p, [key \in {Mark("zeekctl.cfg")} |-> loaded[p]["zeekctl.cfg"]])
          /\ pc'[p] = "hash node.cfg" /\ unfinished' = unfinished
      BY <1>0, <1>9, <2>3 DEF UpdateCfgHash, WritesKey, Writes, disk
    <3>2. db'[Mark("zeekctl.cfg")] = loaded[p]["zeekctl.cfg"]
      <4> DEFINE f == [key \in {Mark("zeekctl.cfg")} |-> loaded[p]["zeekctl.cfg"]]
      <4>1. DOMAIN f = {Mark("zeekctl.cfg")} /\ f[Mark("zeekctl.cfg")] = loaded[p]["zeekctl.cfg"]
        OBVIOUS
      <4>2. TypeOK /\ LockInv /\ CacheInv /\ set_states(p, f)
        BY <3>1 DEF Inv
      <4> HIDE DEF f
      <4> QED BY <2>2, <4>1, <4>2, MarkWritten
    <3> QED BY <1>0, <2>1, <2>3, <3>1, <3>2 DEF Installed, Generated, Copied, Hashed, RestartSteps
  <2>4. CASE pc[p] = "hash node.cfg"
    <3>1. /\ set_states(p, [key \in {Mark("node.cfg")} |-> loaded[p]["node.cfg"]])
          /\ pc'[p] \in {"stop", "unlock"}
      BY <1>0, <1>9, <2>4 DEF UpdateCfgHash, set_state
    <3>5. TypeOK /\ LockInv /\ CacheInv
      BY DEF Inv
    <3>2. /\ db'[Mark("node.cfg")] = loaded[p]["node.cfg"]
          /\ db'[Mark("zeekctl.cfg")] = db[Mark("zeekctl.cfg")]
      <4> DEFINE f == [key \in {Mark("node.cfg")} |-> loaded[p]["node.cfg"]]
      <4>1. DOMAIN f = {Mark("node.cfg")} /\ f[Mark("node.cfg")] = loaded[p]["node.cfg"]
        OBVIOUS
      <4>2. set_states(p, f)
        BY <3>1
      <4> HIDE DEF f
      <4> QED BY <2>2, <3>5, <4>1, <4>2, MarkWritten
    <3>3. /\ installed = loaded[p] /\ db[Mark("zeekctl.cfg")] = loaded[p]["zeekctl.cfg"]
          /\ \A h \in MyHosts(p) : h \in Hosts => remote[h] = installed
      BY <1>0, <2>4 DEF Installed, Generated, Copied, Hashed
    <3>4. \A f \in Files : db'[Mark(f)] = installed'[f]
      BY <2>1, <3>2, <3>3 DEF Files
    <3> QED BY <2>1, <3>1, <3>2, <3>3, <3>4 DEF Installed, Generated, Copied, Hashed, RestartSteps
  <2> QED BY <1>9, <2>3, <2>4 DEF UpdateCfgHash
<1>10. CASE Restart(p)
  <2>1. UNCHANGED <<loaded, disk>> /\ pc[p] \in RestartSteps /\ pc'[p] \in RestartSteps \cup {"unlock"}
    BY <1>0, <1>10 DEF Restart, Nested, Writes, RestartSteps
  <2>2. MyHosts(p)' = MyHosts(p)
    BY <2>1 DEF MyHosts, MyHost, MyNodes
  <2>3. ~UpdateCfgHash(p)
    BY <2>1 DEF UpdateCfgHash, RestartSteps
  <2> QED BY <1>0, <1>1, <2>1, <2>2, <2>3 DEF Installed, Generated, Copied, Hashed, RestartSteps, disk
<1> QED BY <1>3, <1>4, <1>5, <1>6, <1>7, <1>8, <1>9, <1>10 DEF Act, Step

(* A process that gives the lock back changes nothing else. *)
LEMMA Leaves ==
  ASSUME NEW p \in Procs, Act(p), p \in holders, p \notin holders'
  PROVE  UNCHANGED <<db, disk>>
<1>1. CASE UpdateCfgState(p) \/ WarnDangling(p) \/ InitCron(p) \/ SetCronEnabled(p) \/ RecordVersion(p)
           \/ UpdateCfgHash(p) \/ Restart(p) \/ Cron(p) \/ Install(p) \/ ConfigSh(p) \/ CheckScripts(p)
  BY <1>1 DEF UpdateCfgState, WarnDangling, InitCron, SetCronEnabled, RecordVersion, UpdateCfgHash, Restart,
              Cron, Install, ConfigSh, CheckScripts, WritesKey, Writes, Nested, Moves
<1>2. CASE ReadNodes(p) \/ Quit(p) \/ Die(p)
  BY <1>2 DEF ReadNodes, Quit, Die, Exit
<1>3. CASE Deploy(p) \/ Fail(p) \/ Wipe(p) \/ Generate(p) \/ Sync(p) \/ Renew(p) \/ AcquireLock(p)
  BY <1>3 DEF Deploy, Moves, Fail, Wipe, Generate, Sync, Renew, AcquireLock, Lock!Acquire
<1>4. CASE Unlock(p)
  BY <1>4 DEF Unlock, store
<1>5. CASE Boot(p) \/ BootRead(p) \/ WarnInstall(p) \/ \E j \in Jobs[p] : Begin(p, j)
  BY <1>5 DEF Boot, BootRead, WarnInstall, Begin
<1> QED BY <1>1, <1>2, <1>3, <1>4, <1>5 DEF Act, Step

(* Being outside, a process changes nothing that Installed is about. *)
LEMMA OutsideInstall ==
  ASSUME Inv, NEW p \in Procs, Act(p), p \notin holders
  PROVE  /\ UNCHANGED disk
         /\ \A f \in Files : db'[Mark(f)] = db[Mark(f)]
         /\ \A q \in holders : Installed(q)'
<1>1. UNCHANGED disk
  BY DiskOutside DEF Inv
<1>2. \A f \in Files : Mark(f) \in Keys /\ Guarded(Mark(f))
  BY KeysKnown DEF Guarded, Files, Items
<1>3. \A f \in Files : db'[Mark(f)] = db[Mark(f)]
  BY <1>2, StoreChanges DEF Inv
<1>4. ASSUME NEW q \in holders PROVE Installed(q)'
  <2>1. q \in Procs /\ q # p
    BY DEF Inv, TypeOK
  <2>2. pc'[q] = pc[q] /\ loaded'[q] = loaded[q]
    BY <2>1, OthersKeep DEF Inv
  <2>3. MyHosts(q)' = MyHosts(q)
    BY <2>2 DEF MyHosts, MyHost, MyNodes
  <2>4. Installed(q)
    BY DEF Inv, InstallInv
  <2>5. "zeekctl.cfg" \in Files /\ "node.cfg" \in Files
    BY DEF Files
  <2> QED BY <1>1, <1>3, <2>2, <2>3, <2>4, <2>5 DEF Installed, disk
<1> QED BY <1>1, <1>3, <1>4

LEMMA InstallStep ==
  ASSUME Inv, NEW p \in Procs, Act(p)
  PROVE  InstallInv'
<1>1. CASE p \in holders /\ p \in holders'
  <2>1. Installed(p)' /\ (unfinished' = TRUE \/ \A f \in Files : db'[Mark(f)] = installed'[f])
    BY <1>1, OwnInstall
  <2>2. \A q \in holders' : q = p
    BY <1>1, LockStep DEF Inv, LockInv
  <2> QED BY <2>1, <2>2 DEF InstallInv
<1>2. CASE p \in holders /\ p \notin holders'
  <2>1. UNCHANGED <<db, disk>>
    BY <1>2, Leaves
  <2>2. holders' = {}
    <3>1. holders' \subseteq holders /\ \A q \in holders : q = p
      BY <1>2, HoldersChange DEF Inv, LockInv
    <3> QED BY <1>2, <3>1
  <2> QED BY <2>1, <2>2 DEF InstallInv, Inv, disk
<1>3. CASE p \notin holders
  <2>1. /\ UNCHANGED disk
        /\ \A f \in Files : db'[Mark(f)] = db[Mark(f)]
        /\ \A q \in holders : Installed(q)'
    BY <1>3, OutsideInstall
  <2>2. unfinished' = TRUE \/ \A f \in Files : db'[Mark(f)] = installed'[f]
    BY <2>1 DEF Inv, InstallInv, disk
  <2>3. p \in holders' => Installed(p)'
    <3>1. p \in holders' => pc'[p] = "renew"
      BY <1>3, LockedNext DEF Inv
    <3> QED BY <3>1 DEF Installed, Generated, Copied, Hashed, RestartSteps
  <2>4. \A q \in holders' : q = p \/ q \in holders
    BY HoldersChange
  <2> QED BY <2>1, <2>2, <2>3, <2>4 DEF InstallInv
<1> QED BY <1>1, <1>2, <1>3

-----------------------------------------------------------------------------
(* The theorems.                                                           *)

LEMMA InitInv == Init => Inv
<1> SUFFICES ASSUME Init PROVE Inv
  OBVIOUS
<1> USE DEF Init
<1>1. db \in Tables
  <2>1. \A k \in Keys : ValuesOf(k) \subseteq Contents \cup Hosts \cup BOOLEAN
    BY DEF ValuesOf, Contents
  <2>2. \A k \in Keys : db[k] \in ValuesOf(k)
    BY DEF ValuesOf, Contents
  <2>3. db \in [Keys -> Contents \cup Hosts \cup BOOLEAN]
    BY DEF Contents
  <2> QED BY <2>2, <2>3, InTables
<1>2. TypeOK
  <2>1. file \in [Items -> Versions] /\ edits \in 0 .. MaxEdits /\ faults \in 0 .. MaxFaults
    BY ShellAssumption
  <2>2. /\ loaded \in [Procs -> [Files -> Contents]] /\ installed \in [Files -> Contents]
        /\ remote \in [Hosts -> [Files -> Contents]]
    BY DEF Nothing, Contents
  <2>3. cache \in [Procs -> Tables]
    BY <1>1
  <2> QED BY <1>1, <2>1, <2>2, <2>3 DEF TypeOK
<1>3. LoadedInv
  BY DEF LoadedInv
<1>4. LockInv
  BY DEF LockInv, Holding, LockedSteps, BootSteps, InstallSteps, RestartSteps
<1>5. CronInv
  BY KeysKnown DEF CronInv
<1>6. CacheInv
  BY DEF CacheInv
<1>7. InstallInv
  BY KeysKnown DEF InstallInv, Nothing
<1> QED BY <1>2, <1>3, <1>4, <1>5, <1>6, <1>7 DEF Inv

LEMMA EditInv == Inv /\ Edit => Inv'
<1> SUFFICES ASSUME Inv, Edit PROVE Inv'
  OBVIOUS
<1>1. UNCHANGED <<db, cache, faults, loaded, pc, job, holders, installed, remote, unfinished>>
  BY DEF Edit, store, disk
<1>2. file' \in [Items -> Versions]
  <2>1. PICK e \in Edits : file' = [file EXCEPT ![e[1]] = e[2]]
    BY DEF Edit
  <2>2. e[2] \in Versions
    BY ShellAssumption
  <2> QED BY <2>1, <2>2 DEF Inv, TypeOK
<1>3. edits' \in 0 .. MaxEdits
  <2>1. edits \in 0 .. MaxEdits /\ MaxEdits \in Nat /\ edits < MaxEdits /\ edits' = edits + 1
    BY ShellAssumption DEF Inv, TypeOK, Edit
  <2> QED BY <2>1
<1>4. TypeOK'
  BY <1>1, <1>2, <1>3 DEF Inv, TypeOK
<1>5. \A p \in Procs : Installed(p) => Installed(p)'
  BY <1>1, ZenonT(40) DEF Installed, MyHosts, MyHost, MyNodes
<1>6. InstallInv'
  <2>1. holders \subseteq Procs
    BY DEF Inv, TypeOK
  <2> QED BY <1>1, <1>5, <2>1 DEF Inv, InstallInv
<1>7. LoadedInv' /\ LockInv' /\ CronInv' /\ CacheInv'
  BY <1>1 DEF Inv, LoadedInv, LockInv, Holding, CronInv, CacheInv, Unguarded
<1> QED BY <1>4, <1>6, <1>7 DEF Inv

LEMMA StepInv == Inv /\ [Next]_vars => Inv'
<1> SUFFICES ASSUME Inv, [Next]_vars PROVE Inv'
  OBVIOUS
<1>1. ASSUME NEW p \in Procs, Act(p) PROVE Inv'
  <2>1. TypeOK /\ LoadedInv /\ LockInv /\ CronInv /\ CacheInv
    BY DEF Inv
  <2>2. TypeOK'
    BY <1>1, <2>1, BootTypes, CommandTypes, InstallTypes DEF Act, Step
  <2>3. LoadedInv' /\ LockInv' /\ CronInv'
    BY <1>1, <2>1, LoadedStep, LockStep, CronStep
  <2>4. CacheInv'
    BY <1>1, <2>1, CacheStep
  <2>5. InstallInv'
    BY <1>1, InstallStep
  <2> QED BY <2>2, <2>3, <2>4, <2>5 DEF Inv
<1>2. CASE UNCHANGED vars
  <2>1. UNCHANGED <<db, cache, file, edits, faults, loaded, pc, job, holders, installed, remote, unfinished>>
    BY <1>2 DEF vars, store, world, disk
  <2>2. TypeOK'
    BY <2>1 DEF Inv, TypeOK
  <2>3. LoadedInv' /\ LockInv' /\ CronInv' /\ CacheInv'
    BY <2>1 DEF Inv, LoadedInv, LockInv, Holding, CronInv, CacheInv, Unguarded
  <2>4. InstallInv'
    <3>1. \A p \in Procs : Installed(p) => Installed(p)'
      BY <2>1, ZenonT(40) DEF Installed, MyHosts, MyHost, MyNodes
    <3>2. holders \subseteq Procs
      BY DEF Inv, TypeOK
    <3> QED BY <2>1, <3>1, <3>2 DEF Inv, InstallInv
  <2> QED BY <2>2, <2>3, <2>4 DEF Inv
<1> QED BY <1>1, <1>2, EditInv DEF Next, Act

LEMMA SpecInv == Spec => []Inv
BY InitInv, StepInv, PTL DEF Spec

(* Every variable keeps to its type: the database has only keys and values that
   config.py and the commands give it. *)
THEOREM TypeCorrect == Spec => []TypeOK
<1>1. Inv => TypeOK
  BY DEF Inv
<1> QED BY <1>1, SpecInv, PTL

(* A process inside a command works on the database as it is, but for the keys
   that others write without the lock (lock_required renews the copy). *)
THEOREM CacheIsCurrentHolds == Spec => []CacheIsCurrent
<1>1. Inv => CacheIsCurrent
  <2> SUFFICES ASSUME Inv, NEW p \in Procs, pc[p] \in LockedSteps \ {"renew"} PROVE \A k \in Keys : cache[p][k] # db[k] => Unguarded(p, k)
    BY DEF CacheIsCurrent
  <2>1. p \in holders
    BY DEF Inv, LockInv, Holding
  <2> QED BY <2>1 DEF Inv, CacheInv
<1> QED BY <1>1, SpecInv, PTL

(* With no installation unfinished, the recorded hashes tell what the policy
   files on the manager were generated from (install() records them last), and a
   process that starts is warned of any difference (warn_zeekctl_install). *)
THEOREM MarksTellInstalledHolds == Spec => []MarksTellInstalled
<1>1. Inv => MarksTellInstalled
  <2> SUFFICES ASSUME Inv, unfinished # TRUE PROVE MarksTellInstalled
    BY DEF MarksTellInstalled
  <2>1. \A f \in Files : db[Mark(f)] = installed[f]
    BY DEF Inv, InstallInv
  <2>2. ASSUME NEW p \in Procs, At(p, "warn"), cache[p] = db, Warning(p) = "no warning"
        PROVE  installed = loaded[p] /\ db[Mark("zeek")] = file["zeek"]
    <3>1. \A i \in Items : db[Mark(i)] # None
      BY <2>2 DEF Warning, get_state
    <3>2. ~Changed(p, "node.cfg") /\ ~Changed(p, "zeek") /\ ~Changed(p, "zeekctl.cfg")
      BY <2>2 DEF Warning
    <3>3. \A i \in Items : ~Changed(p, i)
      BY <3>2 DEF Items, Files
    <3>4. \A i \in Items : db[Mark(i)] = (IF i = "zeek" THEN file[i] ELSE loaded[p][i])
      BY <2>2, <3>1, <3>3 DEF Changed, get_state
    <3>5. \A f \in Files : f \in Items /\ f # "zeek"
      BY DEF Files, Items
    <3>6. \A f \in Files : installed[f] = loaded[p][f]
      BY <2>1, <3>4, <3>5
    <3>7. installed \in [Files -> Contents] /\ loaded[p] \in [Files -> Contents]
      BY DEF Inv, TypeOK
    <3>8. "zeek" \in Items
      BY DEF Items
    <3>9. db[Mark("zeek")] = file["zeek"]
      BY <3>4, <3>8
    <3> QED BY <3>6, <3>7, <3>9
  <2> QED BY <2>1, <2>2 DEF MarksTellInstalled
<1> QED BY <1>1, SpecInv, PTL

(* deploy restarts the nodes only when manager, other hosts and recorded hashes
   have the configuration it goes by (Controller.deploy, install, sync). *)
THEOREM DeployConsistentHolds == Spec => []DeployConsistent
<1>1. Inv => DeployConsistent
  <2> SUFFICES ASSUME Inv, NEW p \in Procs, pc[p] \in RestartSteps, NEW f \in Files
               PROVE  /\ installed[f] = loaded[p][f] /\ db[Mark(f)] = loaded[p][f]
                      /\ \A h \in MyHosts(p) : remote[h][f] = loaded[p][f]
    BY DEF DeployConsistent
  <2>1. p \in holders
    BY DEF Inv, LockInv, Holding, LockedSteps
  <2>2. Installed(p)
    BY <2>1 DEF Inv, InstallInv
  <2>3. installed = loaded[p] /\ \A h \in MyHosts(p) : h \in Hosts => remote[h] = installed
    BY <2>2 DEF Installed, Generated, Copied
  <2>4. \A h \in MyHosts(p) : h \in Hosts
    <3>1. loaded[p]["node.cfg"] \in Versions
      BY DEF Inv, LoadedInv, RestartSteps, Reading
    <3> QED BY <3>1, ShellAssumption DEF MyHosts, MyHost, MyNodes, NodesOf
  <2>5. db[Mark(f)] = loaded[p][f]
    BY <2>2 DEF Installed, Hashed, Files
  <2> QED BY <2>3, <2>4, <2>5
<1> QED BY <1>1, SpecInv, PTL

(* Once "cron disable" is in the database it stays until "cron enable", except for
   a process that read the database before and found the switch unset. *)
THEOREM CronStaysOffHolds == Spec => CronStaysOff
<1> DEFINE Change == db[CronEnabled] = FALSE /\ db'[CronEnabled] # FALSE =>
       \E p \in Procs : job[p] = "enable" \/ (job[p] = "boot" /\ cache[p][CronEnabled] = None)
<1>1. Inv /\ [Next]_vars => [Change]_vars
  <2> SUFFICES ASSUME Inv, Next, db[CronEnabled] = FALSE, db'[CronEnabled] # FALSE
               PROVE  \E p \in Procs : job[p] = "enable" \/ (job[p] = "boot" /\ cache[p][CronEnabled] = None)
    OBVIOUS
  <2>1. ~Edit
    BY DEF Edit, store
  <2>2. PICK p \in Procs : Act(p)
    BY <2>1 DEF Next, Act
  <2>3. PICK f : Allowed(p, f) /\ set_states(p, f)
    BY <2>2, StoreSteps DEF Inv, store, read_state
  <2>4. CronEnabled \in DOMAIN f /\ db'[CronEnabled] \in {f[CronEnabled], db[CronEnabled]}
    <3>1. TypeOK /\ DOMAIN f \subseteq Keys /\ CronEnabled \in Keys
      BY <2>3, KeysKnown DEF Inv, Allowed
    <3>2. /\ \A k \in Keys : k \notin DOMAIN f => db'[k] = db[k]
          /\ \A k \in DOMAIN f : db'[k] \in {f[k], db[k]}
      BY <2>3, <3>1, Written
    <3> QED BY <3>1, <3>2
  <2>5. CASE job[p] = "boot" /\ cache[p][CronEnabled] = None
    BY <2>5
  <2>6. CASE f[CronEnabled] = (job[p] = "enable")
    BY <2>4, <2>6
  <2> QED BY <2>3, <2>4, <2>5, <2>6 DEF Allowed
<1>2. Spec => [][Next]_vars
  BY PTL DEF Spec
<1>3. Spec => [][Change]_vars
  BY <1>1, <1>2, SpecInv, PTL
<1> QED BY <1>3 DEF CronStaysOff
=============================================================================
