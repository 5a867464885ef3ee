--------------------------- MODULE FastPoolStats ---------------------------
(***************************************************************************)
(* FastBufferPool::stats beside the clients of FastPool (fast.rs), and     *)
(* the methods of FastPoolStats (stats.rs, here PoolStats) on what it got. *)
(*                                                                         *)
(* The five loads are Relaxed and of different atomics: nothing orders     *)
(* them among themselves or among the clients' updates.  Each may return   *)
(* any value its counter has had since the last moment at which the        *)
(* observer synchronised with the clients (a join, a lock, a channel).     *)
(***************************************************************************)
EXTENDS FastPool

CONSTANT Watched        \* the pools whose statistics are read

ASSUME WatchedAssumption == Watched \subseteq Pools

VARIABLES of,           \* the pool whose stats() is being called, or None
          past          \* the values each of its counters has had since the
                        \* observer last synchronised with the clients

statsVars == <<of, past>>

\* The fields that stats() loads; the struct's thread_local_lost is always zero.
Fields == {"available", "allocated", "acquired", "returned", "cache_hits"}

\* Mutant: the count of returns is shown as the length of the queue.
Load_Mixed(p) == [available |-> returned[p], allocated |-> allocated[p],
                  acquired |-> acquired[p], returned |-> returned[p],
                  cache_hits |-> cache_hits[p]]

\* Mutant: the count of acquires is shown as that of the returns.
Load_Returned(p) == [available |-> size[p], allocated |-> allocated[p],
                     acquired |-> acquired[p], returned |-> acquired[p],
                     cache_hits |-> cache_hits[p]]

Load(p) == [available |-> size[p], allocated |-> allocated[p],
            acquired |-> acquired[p], returned |-> returned[p],
            cache_hits |-> cache_hits[p]]

NoPast == [f \in Fields |-> {}]

StatsInit == Init /\ of = None /\ past = NoPast

\* From here on the observer may load the fields, in any order, at any moment.
StatsCall(p) == /\ of = None
                /\ of' = p /\ past' = [f \in Fields |-> {Load(p)[f]}]
                /\ UNCHANGED vars

StatsDone == /\ of # None
             /\ of' = None /\ past' = NoPast
             /\ UNCHANGED vars

\* What the clients do meanwhile adds to what the loads may return.
Record == /\ UNCHANGED of
          /\ past' = IF of = None THEN past
                     ELSE [f \in Fields |-> past[f] \cup {Load(of)'[f]}]

StatsNext == \/ Next /\ Record
             \/ (\E p \in Watched : StatsCall(p)) \/ StatsDone

StatsSpec == StatsInit /\ [][StatsNext]_<<vars, statsVars>>

\* The structs that stats() may return.
Snapshots == [available : past.available, allocated : past.allocated,
              acquired : past.acquired, returned : past.returned,
              cache_hits : past.cache_hits]

-----------------------------------------------------------------------------
(* The methods of FastPoolStats, on a struct.                              *)

Stats == INSTANCE PoolStats
in_use(s) == Stats!in_use(s.acquired, s.returned)
hits(s) == Stats!hits(s.acquired, s.allocated)
cache_hit_rate(s) == Stats!Rate(s.cache_hits, s.acquired)
pool_hit_rate(s) == Stats!Rate(hits(s), s.acquired)

-----------------------------------------------------------------------------
(* Properties.                                                             *)

\* The acquires that clients have begun since the observer synchronised.
Unseen == acquired[of] - Min(past.acquired)

\* However old and mixed the five values are, the struct is off by no more than
\* the acquires the observer may not know of: in_use falls short of the handles by
\* at most as many, and allocations and cache hits exceed the acquires shown, which
\* takes a rate out of its 0 to 100%, by at most as many.
SnapOffByUnseen ==
    of # None =>
        \A s \in Snapshots :
            /\ Cardinality(HandlesOf(of)) =< in_use(s) + Unseen
            /\ s.allocated + s.cache_hits =< s.acquired + Unseen

\* Only what moves while stats() is called can spoil it: as long as no counter of
\* the pool has changed, it counts the handles there are among its in_use, shows
\* more hits than hits of the caches and, outside all operations, the length of the
\* queue.
CalmSnapTrue ==
    of # None /\ past = [f \in Fields |-> {Load(of)[f]}] =>
        \A s \in Snapshots :
            /\ Cardinality(HandlesOf(of)) =< in_use(s)
            /\ (\A t \in Threads : At(t, "idle")) => s.available = Cardinality(items[of])
            /\ cache_hit_rate(s) =< pool_hit_rate(s) /\ pool_hit_rate(s) =< 100
=============================================================================
