---------------------------- MODULE MCLoginLock ----------------------------
(* Instances of LoginLock for TLC. *)
EXTENDS LoginLock, TLC

Symmetry == Permutations(Procs)
=============================================================================
