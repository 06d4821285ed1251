--------------------------- MODULE MCHousekeeping ---------------------------
(* One node with one log and three starting zeekctl processes; one remote host. *)
EXTENDS Housekeeping, TLC

CONSTANTS n1, conn, p1, p2, p3, h1
=============================================================================
