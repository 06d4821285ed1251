------------------------------- MODULE MCShell ------------------------------
(* Shell on small instances.                                               *)
EXTENDS Shell, TLC

CONSTANTS w, h1, h2, p1, p2, v1, v2, v3

(* A worker that the second node.cfg has on another host. *)
Moved == v1 :> (w :> h1) @@ v2 :> (w :> h2) @@ v3 :> (w :> None)

OneEach == {<<"zeekctl.cfg", v2>>, <<"node.cfg", v2>>, <<"node.cfg", v3>>, <<"zeek", v2>>}
AdminAndCron == p1 :> {"local", "deploy"} @@ p2 :> {"enable", "disable", "cron"}
=============================================================================
