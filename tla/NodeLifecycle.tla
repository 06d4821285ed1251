---------------------------- MODULE NodeLifecycle ---------------------------
(***************************************************************************)
(* What ZeekControl believes of a node, and how that may change: a node is *)
(* stopped, running under a PID, or crashed.  A node is never started      *)
(* under a new PID while it has one, and a crashed node is reset (after    *)
(* its crash report, or by cleanup) before it is started again.            *)
(***************************************************************************)
CONSTANTS Nodes, Pids

VARIABLE view           \* <<"stopped">>, <<"crashed">> or <<"running", PID>>

Init == view = [n \in Nodes |-> <<"stopped">>]

Changes(n, from, to) == view[n] \in from /\ view' = [view EXCEPT ![n] = to]

Running == {"running"} \X Pids

Start(n) == \E p \in Pids : Changes(n, {<<"stopped">>}, <<"running", p>>)
Stop(n) == Changes(n, Running, <<"stopped">>)
Crash(n) == Changes(n, Running, <<"crashed">>)
Reset(n) == Changes(n, {<<"crashed">>}, <<"stopped">>)

Next == \E n \in Nodes : Start(n) \/ Stop(n) \/ Crash(n) \/ Reset(n)

Spec == Init /\ [][Next]_view
=============================================================================
