----------------------------- MODULE ZeekProcess ----------------------------
(***************************************************************************)
(* The Zeek processes ZeekControl supervises, as far as ZeekControl can    *)
(* see them: a process has a PID, writes its state to the file ".status"   *)
(* in the node's working directory, and ends.  The helper scripts run on   *)
(* the node's host (bin/helpers, bin/run-zeek, bin/post-terminate) are the *)
(* operators at the end; NodeControl uses them.                            *)
(*                                                                         *)
(* Zeek itself is not part of ZeekControl; its life is the one the test    *)
(* suite's stand-in (testing/Cfg/bin/zeek__test) acts out.                 *)
(***************************************************************************)
EXTENDS Integers, FiniteSets

CONSTANTS
  Nodes,      \* the nodes of node.cfg
  MaxPid      \* bound: processes that are ever started for a node

ASSUME ProcessAssumption == MaxPid \in Nat

VARIABLES
  procs,      \* procs[n][p]: the p-th process started for node n
  status      \* what .status in the working directory of node n says

world == <<procs, status>>

Pids == 1 .. MaxPid

(* "boot": started, has not written .status yet; "term": about to exit;
   "lost": its working directory was moved or removed under it. *)
Live == {"boot", "init", "run", "term", "lost"}

WorldTypeOK ==
  /\ procs \in [Nodes -> [Pids -> Live \cup {"unborn", "dead"}]]
  /\ status \in [Nodes -> {"blank", "INITIALIZING", "RUNNING", "TERMINATED"}]

WorldInit ==
  /\ procs = [n \in Nodes |-> [p \in Pids |-> "unborn"]]
  /\ status = [n \in Nodes |-> "blank"]

Alive(n, p) == p \in Pids /\ procs[n][p] \in Live

(* Alive, and not about to exit. *)
Serving(n, p) == Alive(n, p) /\ procs[n][p] # "term"

Up(n) == \E p \in Pids : Serving(n, p)

-----------------------------------------------------------------------------
(* The life of a Zeek process.                                             *)

Becomes(n, p, s) == procs' = [procs EXCEPT ![n][p] = s]

Writes(n, s) == status' = [status EXCEPT ![n] = s]

Initialize(n, p) ==
  procs[n][p] = "boot" /\ Becomes(n, p, "init") /\ Writes(n, "INITIALIZING")

EnterNetRun(n, p) ==
  procs[n][p] = "init" /\ Becomes(n, p, "run") /\ Writes(n, "RUNNING")

(* The exit handler, after SIGTERM or for a reason of Zeek's own: first the
   file is written, then the process is gone. *)
Terminate(n, p) ==
  procs[n][p] \in {"init", "run"} /\ Becomes(n, p, "term") /\ Writes(n, "TERMINATED")

Exit(n, p) == procs[n][p] = "term" /\ Becomes(n, p, "dead") /\ UNCHANGED status

(* Killed by a signal, out of memory, host rebooted: .status stays as it is. *)
Crash(n, p) == Alive(n, p) /\ Becomes(n, p, "dead") /\ UNCHANGED status

Progress(n, p) == Initialize(n, p) \/ EnterNetRun(n, p) \/ Exit(n, p)

ZeekStep ==
  \E n \in Nodes, p \in Pids : Progress(n, p) \/ Terminate(n, p) \/ Crash(n, p)

-----------------------------------------------------------------------------
(* What the helper scripts do to a node.                                   *)

Unborn(n) == {p \in Pids : procs[n][p] = "unborn"}

(* helpers/start and run-zeek: a new process, in the working directory as it
   is (only .pid is removed). *)
Spawn(n, p) ==
  /\ p \in Unborn(n) /\ \A q \in Unborn(n) : p <= q
  /\ Becomes(n, p, "boot")

(* The PID that run-zeek wrote last. *)
IsNewest(n, p) == p \in Pids \ Unborn(n) /\ \A q \in Pids \ Unborn(n) : q <= p

(* helpers/stop with SIGKILL. *)
Killed(n, p) == procs' = [procs EXCEPT ![n][p] = IF Alive(n, p) THEN "dead" ELSE @]

(* post-terminate moves the working directory away and makes an empty one;
   cleanup removes it and makes an empty one. *)
FreshDir(n) ==
  /\ procs' = [procs EXCEPT ![n] = [p \in Pids |-> IF Serving(n, p) THEN "lost" ELSE @[p]]]
  /\ Writes(n, "blank")
=============================================================================
