---------------------------- MODULE MCRateLimit ----------------------------
\* Instances of RateLimit for TLC.
EXTENDS RateLimit, TLC

Symmetry == Permutations(Procs) \cup Permutations(Clients)
=============================================================================
