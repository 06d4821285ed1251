---------------------------- MODULE ConfigScript ----------------------------
(***************************************************************************)
(* zeekctl-config.sh, which every shell script reads first.  Every zeekctl *)
(* process writes it when it starts, without the lock, and install writes  *)
(* it again (install.py, make_zeekctl_config_sh): a temporary file, of one *)
(* name for all, is written and renamed.  A file is an inode here, as a    *)
(* name may be given another one while it is open.                         *)
(***************************************************************************)
EXTENDS Naturals, FiniteSets

CONSTANT
  Starts      \* zeekctl processes that may write the file

VARIABLES
  cfg,        \* inode of zeekctl-config.sh
  tmp,        \* inode of the temporary file, or None
  whole,      \* inodes whose contents are complete
  fd          \* what a process has open: an inode, or where else it is

script == <<cfg, tmp, whole, fd>>

\* inodes: the file as it is at first, and one for every process
Inodes == {"first"} \cup Starts
NoFile == "no file"
States == {"not started", "has written", "done"}

ASSUME ScriptAssumption == (States \cup {NoFile}) \cap Inodes = {}

ScriptTypeOK ==
  /\ cfg \in Inodes /\ tmp \in Inodes \cup {NoFile} /\ whole \in SUBSET Inodes
  /\ fd \in [Starts -> Inodes \cup States]

ScriptInit ==
  /\ cfg = "first" /\ tmp = NoFile /\ whole = {"first"}
  /\ fd = [p \in Starts |-> "not started"]

(* Mutant: the file is written in place. *)
OpenInPlace(p) ==
  /\ fd[p] = "not started"
  /\ whole' = whole \ {cfg} /\ fd' = [fd EXCEPT ![p] = "has written"]
  /\ UNCHANGED <<cfg, tmp>>

(* open(tmp_path, "w"): an existing file is emptied, whoever made it. *)
OpenTmp(p) ==
  /\ fd[p] = "not started"
  /\ LET file == IF tmp = NoFile THEN p ELSE tmp IN
     /\ tmp' = file /\ whole' = whole \ {file} /\ fd' = [fd EXCEPT ![p] = file]
  /\ UNCHANGED cfg

WriteTmp(p) ==
  /\ fd[p] \in Inodes
  /\ whole' = whole \cup {fd[p]} /\ fd' = [fd EXCEPT ![p] = "has written"]
  /\ UNCHANGED <<cfg, tmp>>

(* os.rename() fails if another process has renamed the file already. *)
RenameTmp(p) ==
  /\ fd[p] = "has written" /\ fd' = [fd EXCEPT ![p] = "done"]
  /\ IF tmp = NoFile THEN UNCHANGED <<cfg, tmp>> ELSE cfg' = tmp /\ tmp' = NoFile
  /\ UNCHANGED whole

make_zeekctl_config_sh(p) == OpenTmp(p) \/ WriteTmp(p) \/ RenameTmp(p)

ScriptNext == \E p \in Starts : make_zeekctl_config_sh(p)

ScriptSpec == ScriptInit /\ [][ScriptNext]_script

(* The file may be read incomplete, while two processes write it, but it does
   not stay so: with nobody within make_zeekctl_config_sh() it is complete. *)
ScriptWhole == (\A p \in Starts : fd[p] \in {"not started", "done"}) => cfg \in whole
=============================================================================
