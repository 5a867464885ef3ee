----------------------------- MODULE PoolStats -----------------------------
(***************************************************************************)
(* What the methods of PoolStats and FastPoolStats (stats.rs) compute from *)
(* the totals of a pool.  A rate is a percentage of the acquires, rounded  *)
(* down here.                                                              *)
(***************************************************************************)
EXTENDS Integers

saturating_sub(m, n) == IF m < n THEN 0 ELSE m - n

in_use(acquired, returned) == saturating_sub(acquired, returned)

\* The acquires that no allocation served: pool_hit_rate's hits, hit_rate's reused.
hits(acquired, allocated) == saturating_sub(acquired, allocated)

Rate(part, acquired) == IF acquired = 0 THEN 0 ELSE (100 * part) \div acquired
=============================================================================
