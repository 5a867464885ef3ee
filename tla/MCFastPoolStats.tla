--------------------------- MODULE MCFastPoolStats ---------------------------
(* Two pools that share the caches, and an observer, for TLC.              *)
EXTENDS FastPoolStats, TLC

CONSTANTS p1, p2

TwoMax == p1 :> 1 @@ p2 :> 1
TwoMin == p1 :> 1 @@ p2 :> 0
Symmetry == Permutations(Buffers) \cup Permutations(Threads)
=============================================================================
