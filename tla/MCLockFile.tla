----------------------------- MODULE MCLockFile -----------------------------
(* LockFile on small instances; processes that never end are               *)
(* interchangeable.                                                        *)
EXTENDS LockFile, TLC

Symmetry == Permutations(Procs \ Mortal)
=============================================================================
