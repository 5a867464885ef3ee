----------------------------- MODULE BufferPool -----------------------------
(***************************************************************************)
(* BufferPool (src/src/pool/standard.rs): a vector of idle buffers and     *)
(* three totals behind one mutex.                                          *)
(*                                                                         *)
(* A step is one critical section.  The only work done outside the lock is *)
(* the burn of a buffer that is being dropped, which is a step of its own. *)
(* A panic inside a critical section poisons the mutex; every later        *)
(* lock().unwrap() panics.                                                 *)
(***************************************************************************)
EXTENDS Integers, FiniteSets, Sequences, PoolConfig

CONSTANTS Threads,      \* client threads
          Buffers,      \* buffer identities: bound on the live buffers
          None,         \* no buffer
          Configs,      \* the configurations a pool may be made with
          Targets,      \* the arguments grow is called with
          MaxAcquire    \* bound on the acquire calls

ASSUME BufferPoolAssumption ==
    /\ IsFiniteSet(Threads) /\ IsFiniteSet(Buffers) /\ None \notin Buffers
    /\ Configs \subseteq PoolConfigs /\ Targets \subseteq Nat
    /\ MaxAcquire \in Nat

VARIABLES config,       \* PoolInner.config
          poisoned,     \* the mutex is poisoned
          buffers,      \* Seq(Buffers): PoolInner.buffers
          total_allocated, total_acquired, total_returned,
          live,         \* the buffers that exist
          held,         \* the buffers in a client's PooledBuffer
          hand,         \* [Threads -> the burned buffer waiting for the lock]
          dirty         \* the buffers that show client data

totals == <<total_allocated, total_acquired, total_returned>>

vars == <<config, poisoned, buffers, totals, live, held, hand, dirty>>

max_pool_size == config.max_pool_size

min_pool_size == config.min_pool_size

\* Buffer::new panics.
oversized == Oversized(config)

Stats == INSTANCE PoolStats
in_use == Stats!in_use(total_acquired, total_returned)
reused == Stats!hits(total_acquired, total_allocated)

Distinct(s) == \A i, j \in DOMAIN s : s[i] = s[j] => i = j

Kept(s) == {s[i] : i \in DOMAIN s}

\* The strings of n distinct buffers that do not exist yet.
Fresh(n) == {s \in [1 .. n -> Buffers \ live] : Distinct(s)}

Lesser(m, n) == IF m < n THEN m ELSE n

\* Mutant: reset in place of burn.
Burn_Reset(b) == dirty

Burn(b) == dirty \ {b}

-----------------------------------------------------------------------------
\* new: with an oversized configuration it panics unless it makes no buffer.
Init == /\ config \in Configs
        /\ oversized => min_pool_size = 0
        /\ poisoned = FALSE
        /\ buffers \in [1 .. min_pool_size -> Buffers] /\ Distinct(buffers)
        /\ live = Kept(buffers)
        /\ total_allocated = 0 /\ total_acquired = 0 /\ total_returned = 0
        /\ held = {} /\ dirty = {}
        /\ hand = [t \in Threads |-> None]

\* Mutant: the popped buffer stays in the vector.
AcquireKept_Peek ==
    /\ ~poisoned /\ buffers # << >>
    /\ total_acquired < MaxAcquire
    /\ total_acquired' = total_acquired + 1
    /\ held' = held \cup {buffers[Len(buffers)]}
    /\ UNCHANGED <<config, poisoned, buffers, total_allocated, total_returned, live, hand, dirty>>

AcquireKept ==
    /\ ~poisoned /\ buffers # << >>
    /\ total_acquired < MaxAcquire
    /\ total_acquired' = total_acquired + 1
    /\ held' = held \cup {buffers[Len(buffers)]}
    /\ buffers' = SubSeq(buffers, 1, Len(buffers) - 1)
    /\ UNCHANGED <<config, poisoned, total_allocated, total_returned, live, hand, dirty>>

AcquireFresh ==
    /\ ~poisoned /\ buffers = << >> /\ ~oversized
    /\ total_acquired < MaxAcquire
    /\ total_acquired' = total_acquired + 1
    /\ total_allocated' = total_allocated + 1
    /\ \E b \in Buffers \ live : /\ live' = live \cup {b}
                                 /\ held' = held \cup {b}
    /\ UNCHANGED <<config, poisoned, buffers, total_returned, hand, dirty>>

\* Both totals are up by the time Buffer::new panics.
AcquirePanic ==
    /\ ~poisoned /\ buffers = << >> /\ oversized
    /\ total_acquired < MaxAcquire
    /\ total_acquired' = total_acquired + 1
    /\ total_allocated' = total_allocated + 1
    /\ poisoned' = TRUE
    /\ UNCHANGED <<config, buffers, total_returned, live, held, hand, dirty>>

Write(b) ==
    /\ b \in held
    /\ dirty' = dirty \cup {b}
    /\ UNCHANGED <<config, poisoned, buffers, totals, live, held, hand>>

-----------------------------------------------------------------------------
(* Drop for PooledBuffer: the burn, then the critical section.             *)

DropBurn(t, b) ==
    /\ b \in held /\ hand[t] = None
    /\ held' = held \ {b}
    /\ dirty' = Burn(b)
    /\ hand' = [hand EXCEPT ![t] = b]
    /\ UNCHANGED <<config, poisoned, buffers, totals, live>>

\* Mutant: off by one at max_pool_size.
HasSpace_OffByOne == Len(buffers) =< max_pool_size

HasSpace == Len(buffers) < max_pool_size

\* Mutant: a drop does not look whether its buffer was already taken.
DropReturn_Always(t) ==
    /\ ~poisoned /\ total_returned < total_acquired
    /\ total_returned' = total_returned + 1
    /\ hand' = [hand EXCEPT ![t] = None]
    /\ \/ HasSpace /\ buffers' = Append(buffers, hand[t]) /\ UNCHANGED live
       \/ ~HasSpace /\ live' = live \ {hand[t]} /\ UNCHANGED buffers
    /\ UNCHANGED <<config, poisoned, total_allocated, total_acquired, held, dirty>>

DropReturn(t) ==
    /\ ~poisoned /\ hand[t] # None
    /\ total_returned' = total_returned + 1
    /\ hand' = [hand EXCEPT ![t] = None]
    /\ \/ HasSpace /\ buffers' = Append(buffers, hand[t]) /\ UNCHANGED live
       \/ ~HasSpace /\ live' = live \ {hand[t]} /\ UNCHANGED buffers
    /\ UNCHANGED <<config, poisoned, total_allocated, total_acquired, held, dirty>>

\* leak and drop_now: the buffer is out of the pool's sight, uncounted.
DropNow(b) ==
    /\ b \in held
    /\ held' = held \ {b} /\ live' = live \ {b} /\ dirty' = Burn(b)
    /\ UNCHANGED <<config, poisoned, buffers, totals, hand>>

-----------------------------------------------------------------------------
(* shrink and clear truncate the vector, grow extends it.                  *)

Truncate(n) ==
    LET kept == SubSeq(buffers, 1, Lesser(n, Len(buffers))) IN
    /\ ~poisoned
    /\ buffers' = kept
    /\ live' = live \ (Kept(buffers) \ Kept(kept))
    /\ UNCHANGED <<config, poisoned, totals, held, hand, dirty>>

Shrink == Truncate(min_pool_size)

Clear == Truncate(0)

\* Mutant: grow counts its buffers as allocated.
Grow_Counted(n) ==
    LET missing == Lesser(n, max_pool_size) - Len(buffers) IN
    /\ ~poisoned /\ missing > 0 /\ ~oversized
    /\ \E s \in Fresh(missing) : buffers' = buffers \o s /\ live' = live \cup Kept(s)
    /\ total_allocated' = total_allocated + missing
    /\ UNCHANGED <<config, poisoned, total_acquired, total_returned, held, hand, dirty>>

Grow(n) ==
    LET missing == Lesser(n, max_pool_size) - Len(buffers) IN
    /\ ~poisoned /\ missing > 0 /\ ~oversized
    /\ \E s \in Fresh(missing) : buffers' = buffers \o s /\ live' = live \cup Kept(s)
    /\ UNCHANGED <<config, poisoned, totals, held, hand, dirty>>

\* Mutant: grow asserts under the lock that the target is within the maximum.
GrowPanic_Asserts(n) ==
    /\ ~poisoned /\ n > max_pool_size
    /\ poisoned' = TRUE
    /\ UNCHANGED <<config, buffers, totals, live, held, hand, dirty>>

GrowPanic(n) ==
    /\ ~poisoned /\ Lesser(n, max_pool_size) > Len(buffers) /\ oversized
    /\ poisoned' = TRUE
    /\ UNCHANGED <<config, buffers, totals, live, held, hand, dirty>>

\* Every call of the pool locks with unwrap.
LockPanic == poisoned /\ UNCHANGED vars

Next == \/ LockPanic
        \/ AcquireKept \/ AcquireFresh \/ AcquirePanic
        \/ Shrink \/ Clear
        \/ \E n \in Targets : Grow(n) \/ GrowPanic(n)
        \/ \E b \in Buffers : \/ Write(b) \/ DropNow(b)
                              \/ \E t \in Threads : DropBurn(t, b)
        \/ \E t \in Threads : DropReturn(t)

Spec == Init /\ [][Next]_vars

-----------------------------------------------------------------------------
Hands == {hand[t] : t \in Threads} \ {None}

TypeOK == /\ config \in Configs /\ poisoned \in BOOLEAN
          /\ buffers \in Seq(Buffers)
          /\ total_allocated \in Nat /\ total_acquired \in Nat /\ total_returned \in Nat
          /\ live \subseteq Buffers /\ held \subseteq Buffers /\ dirty \subseteq Buffers
          /\ hand \in [Threads -> Buffers \cup {None}]

\* Each existing buffer is in exactly one place: once in the vector, with one
\* client, or with one thread on its way back (acquire and drop move it).
Partition ==
    /\ Distinct(buffers)
    /\ \A t, u \in Threads : hand[t] = hand[u] => t = u \/ hand[t] = None
    /\ held \cap Kept(buffers) = {} /\ held \cap Hands = {} /\ Hands \cap Kept(buffers) = {}
    /\ live = held \cup Kept(buffers) \cup Hands

\* Unlike FastBufferPool's, the cap is exact: the vector never outgrows
\* max_pool_size, or min_pool_size if that is the larger.
IdleBound == Len(buffers) =< max_pool_size \/ Len(buffers) =< min_pool_size

\* Dropping a handle locks with unwrap: on a poisoned mutex it would panic in a
\* destructor and lose the buffer.  Only an oversized configuration poisons the
\* mutex (Buffer::new panics under it), and such a pool never gave out a handle.
DropNeverPanics == poisoned => oversized /\ held = {} /\ Hands = {}

\* The subtractions of in_use() and hit_rate() never saturate, and in_use() counts
\* at least the buffers that clients hold.
TotalsCover ==
    /\ in_use = total_acquired - total_returned
    /\ Cardinality(held) + Cardinality(Hands) =< in_use
    /\ reused = total_acquired - total_allocated

\* The pool implements SecurePool: clean buffers, held by one client.
Place == [b \in Buffers |-> IF b \in held THEN "held"
                            ELSE IF b \in live THEN "idle" ELSE "none"]

Secure == INSTANCE SecurePool WITH place <- Place
SecureSpec == Secure!Spec
=============================================================================
