--------------------------- MODULE MCCommandRunner ---------------------------
(* Instances of CommandRunner for TLC: sets of host numbers. *)
EXTENDS CommandRunner

None == {}
First == {1}
=============================================================================
