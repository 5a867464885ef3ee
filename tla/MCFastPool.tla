----------------------------- MODULE MCFastPool -----------------------------
(* Instances of FastPool for TLC: one pool, or two that share the caches.  *)
EXTENDS FastPool, TLC

CONSTANTS p1, p2

OneMax == p1 :> 1
OneMaxTwo == p1 :> 2
OneMin == p1 :> 1
NoMin == p1 :> 0
TwoMax == p1 :> 1 @@ p2 :> 1
TwoMin == p1 :> 1 @@ p2 :> 0

AllCalls == Operations
Symmetry == Permutations(Buffers) \cup Permutations(Threads)
=============================================================================
