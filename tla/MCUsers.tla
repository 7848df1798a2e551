------------------------------ MODULE MCUsers ------------------------------
(* Users for TLC: the request goroutines, and the read nodes, are alike. *)
EXTENDS Users, TLC

Symmetry == Permutations(Procs) \cup Permutations(Replicas)
=============================================================================
