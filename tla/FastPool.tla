------------------------------ MODULE FastPool ------------------------------
(***************************************************************************)
(* FastBufferPool (src/src/pool/fast.rs): a lock-free queue of idle        *)
(* buffers with a separate length counter, a cache per thread, four        *)
(* statistics counters, and handles that give the buffer back when they    *)
(* are dropped.                                                            *)
(*                                                                         *)
(* Grain of atomicity: a step is one access to memory that threads share   *)
(* (a SegQueue operation or an atomic counter) with the thread-local work  *)
(* next to it.  SegQueue is an external linearizable queue.  The relaxed   *)
(* counters are taken as sequentially consistent.                          *)
(*                                                                         *)
(* Abstractions: a buffer is an identity; its bytes are one bit, dirty, of *)
(* what data[..data.len()] shows.  Queue and cache are sets: which of its  *)
(* buffers a pop yields is left open.                                      *)
(***************************************************************************)
EXTENDS Integers, FiniteSets, FiniteSetsExt

CONSTANTS Threads,      \* client threads
          Pools,        \* pools; the thread caches are shared by all of them
          Buffers,      \* buffer identities: bound on the live buffers
          None,         \* no pool, no buffer
          Word,         \* usize holds 0 .. Word - 1
          CacheCap,     \* THREAD_CACHE_CAPACITY
          MaxPool,      \* max_pool_size of each pool
          MinPool,      \* min_pool_size of each pool
          Targets,      \* the arguments warm is called with
          Calls,        \* the operations the clients use
          MaxAcquire    \* bound on the acquire calls per pool

Operations == {"acquire", "drop", "leak", "drop_now", "clear", "warm",
               "clear_thread_cache", "exit"}

ASSUME FastPoolAssumption ==
    /\ IsFiniteSet(Threads) /\ IsFiniteSet(Buffers)
    /\ None \notin Pools \cup Buffers
    /\ Word \in Nat /\ Cardinality(Buffers) < Word
    /\ CacheCap \in Nat /\ MaxAcquire \in Nat
    /\ MaxPool \in [Pools -> 0 .. Word - 1]
    /\ MinPool \in [Pools -> 0 .. Word - 1]
    /\ Targets \subseteq 0 .. Word - 1
    /\ Calls \subseteq Operations

VARIABLES items,        \* [Pools -> SUBSET Buffers]: LockFreeQueue.items
          size,         \* [Pools -> 0..Word-1]: LockFreeQueue.size
          allocated, acquired, returned, cache_hits,
                        \* [Pools -> Nat]: FastPoolStatsInner
          cache,        \* [Threads -> SUBSET Buffers]: THREAD_CACHE
          tls,          \* the threads whose THREAD_CACHE is not destroyed
          oversized,    \* the pools whose buffer_size is above BUF_MAX_SIZE
          handle,       \* [Buffers -> pool whose FastPooledBuffer holds it]
          home,         \* [Buffers -> pool that allocated it; None if freed]
          dirty,        \* the buffers that show client data
          fn,           \* [Threads -> operation the thread is inside of]
          at,           \* [Threads -> its next step]
          pool,         \* [Threads -> the pool it works on]
          buf,          \* [Threads -> the buffer in its hands]
          todo          \* [Threads -> the pushes warm has left]

stats == <<allocated, acquired, returned, cache_hits>>

call == <<fn, at, pool, buf, todo>>

vars == <<items, size, stats, cache, tls, oversized, handle, home, dirty, call>>

-----------------------------------------------------------------------------
(* A thread enters an operation, moves on inside it, returns from it.      *)

At(t, a) == at[t] = a

Enter(t, f, a, p, b, n) == /\ fn' = [fn EXCEPT ![t] = f]
                           /\ at' = [at EXCEPT ![t] = a]
                           /\ pool' = [pool EXCEPT ![t] = p]
                           /\ buf' = [buf EXCEPT ![t] = b]
                           /\ todo' = [todo EXCEPT ![t] = n]

Return(t) == Enter(t, "none", "idle", None, None, 0)

Goto(t, a) == at' = [at EXCEPT ![t] = a] /\ UNCHANGED <<fn, pool, buf, todo>>

Unallocated == {b \in Buffers : home[b] = None}

\* The buffers the threads inside acquire or warm may still have to allocate.
Reserve(t) == IF fn[t] = "acquire" /\ buf[t] = None THEN 1
              ELSE todo[t]
Room(n) == n + MapThenSumSet(Reserve, Threads) =< Cardinality(Unallocated)

CanCall(t, f) == f \in Calls /\ At(t, "idle")

Bump(counter, p) == [counter EXCEPT ![p] = @ + 1]

\* fetch_add and fetch_sub wrap around.
Incr(n) == (n + 1) % Word
\* Mutant: a decrement that saturates at zero.
Decr_Saturating(n) == IF n = 0 THEN 0 ELSE n - 1

Decr(n) == (n - 1) % Word

\* Mutant: reset in place of burn leaves the bytes.
Burn_Reset(b) == dirty

Burn(b) == dirty \ {b}

\* Freed buffers; Buffer zeroes itself when it is dropped.
Free(S) == /\ home' = [b \in Buffers |-> IF b \in S THEN None ELSE home[b]]
           /\ dirty' = dirty \ S

-----------------------------------------------------------------------------
(* new: every pool exists from the start with min_pool_size idle buffers.  *)
(* A pool of oversized buffers exists only if it starts empty: the         *)
(* assertion of Buffer::new fails at the first buffer it makes.            *)

Init == /\ home \in [Buffers -> Pools \cup {None}]
        /\ items = [p \in Pools |-> {b \in Buffers : home[b] = p}]
        /\ \A p \in Pools : Cardinality(items[p]) = MinPool[p]
        /\ size = MinPool
        /\ allocated = [p \in Pools |-> 0]
        /\ acquired = [p \in Pools |-> 0]
        /\ returned = [p \in Pools |-> 0]
        /\ cache_hits = [p \in Pools |-> 0]
        /\ cache = [t \in Threads |-> {}]
        /\ tls = Threads
        /\ oversized \in SUBSET {p \in Pools : MinPool[p] = 0}
        /\ handle = [b \in Buffers |-> None]
        /\ dirty = {}
        /\ fn = [t \in Threads |-> "none"]
        /\ at = [t \in Threads |-> "idle"]
        /\ pool = [t \in Threads |-> None]
        /\ buf = [t \in Threads |-> None]
        /\ todo = [t \in Threads |-> 0]

-----------------------------------------------------------------------------
(* acquire: thread cache, then queue, then a fresh allocation.             *)

Acquire(t, p) ==
    /\ CanCall(t, "acquire") /\ t \in tls
    /\ acquired[p] < MaxAcquire /\ Room(1)
    /\ acquired' = Bump(acquired, p) /\ UNCHANGED <<allocated, returned, cache_hits>>
    /\ Enter(t, "acquire", "cache", p, None, 0)
    /\ UNCHANGED <<items, size, cache, tls, oversized, handle, home, dirty>>

\* Mutant: the cached buffer is handed out but not popped.
CacheHit_Peek(t) ==
    /\ At(t, "cache")
    /\ \E b \in cache[t] : handle' = [handle EXCEPT ![b] = pool[t]]
    /\ cache_hits' = Bump(cache_hits, pool[t]) /\ UNCHANGED <<allocated, acquired, returned>>
    /\ Return(t)
    /\ UNCHANGED <<items, size, cache, tls, oversized, home, dirty>>

CacheHit(t) ==
    /\ At(t, "cache")
    /\ \E b \in cache[t] :
          /\ cache' = [cache EXCEPT ![t] = @ \ {b}]
          /\ handle' = [handle EXCEPT ![b] = pool[t]]
    /\ cache_hits' = Bump(cache_hits, pool[t]) /\ UNCHANGED <<allocated, acquired, returned>>
    /\ Return(t)
    /\ UNCHANGED <<items, size, tls, oversized, home, dirty>>

Alloc(t) ==
    /\ At(t, "alloc") /\ pool[t] \notin oversized
    /\ allocated' = Bump(allocated, pool[t]) /\ UNCHANGED <<acquired, returned, cache_hits>>
    /\ \E b \in Unallocated :
          /\ home' = [home EXCEPT ![b] = pool[t]]
          /\ handle' = [handle EXCEPT ![b] = pool[t]]
    /\ Return(t)
    /\ UNCHANGED <<items, size, cache, tls, oversized, dirty>>

\* The allocation is counted before Buffer::new panics.
AllocPanic(t) ==
    /\ At(t, "alloc") /\ pool[t] \in oversized
    /\ allocated' = Bump(allocated, pool[t]) /\ UNCHANGED <<acquired, returned, cache_hits>>
    /\ Return(t)
    /\ UNCHANGED <<items, size, cache, tls, oversized, handle, home, dirty>>

-----------------------------------------------------------------------------
(* LockFreeQueue.pop, called by acquire on a cache miss and by clear: the  *)
(* item leaves the queue first, the counter follows in a step of its own.  *)

Popping(t) == At(t, "drain") \/ (At(t, "cache") /\ cache[t] = {})

PopSome(t) ==
    LET p == pool[t] IN
    /\ Popping(t)
    /\ \E b \in items[p] :
          /\ items' = [items EXCEPT ![p] = @ \ {b}]
          /\ Enter(t, fn[t], "sub", p, b, 0)
    /\ UNCHANGED <<size, stats, cache, tls, oversized, handle, home, dirty>>

\* Mutant: clear's loop does not end on an empty queue.
PopNone_Spin(t) ==
    /\ Popping(t) /\ items[pool[t]] = {}
    /\ \/ fn[t] = "acquire" /\ Goto(t, "alloc")
       \/ fn[t] = "clear" /\ UNCHANGED call
    /\ UNCHANGED <<items, size, stats, cache, tls, oversized, handle, home, dirty>>

PopNone(t) ==
    /\ Popping(t) /\ items[pool[t]] = {}
    /\ \/ fn[t] = "acquire" /\ Goto(t, "alloc")
       \/ fn[t] = "clear" /\ Return(t)
    /\ UNCHANGED <<items, size, stats, cache, tls, oversized, handle, home, dirty>>

FetchSub(t) ==
    LET p == pool[t]  b == buf[t] IN
    /\ At(t, "sub")
    /\ size' = [size EXCEPT ![p] = Decr(@)]
    /\ \/ /\ fn[t] = "acquire"
          /\ handle' = [handle EXCEPT ![b] = p]
          /\ Return(t)
          /\ UNCHANGED <<home, dirty>>
       \/ /\ fn[t] = "clear"
          /\ Free({b})
          /\ Enter(t, "clear", "drain", p, None, 0)
          /\ UNCHANGED handle
    /\ UNCHANGED <<items, stats, cache, tls, oversized>>

Clear(t, p) ==
    /\ CanCall(t, "clear")
    /\ Enter(t, "clear", "drain", p, None, 0)
    /\ UNCHANGED <<items, size, stats, cache, tls, oversized, handle, home, dirty>>

-----------------------------------------------------------------------------
(* Handles.  They are Send: any thread may write through one or drop it.   *)

Write(b) ==
    /\ handle[b] # None
    /\ dirty' = dirty \cup {b}
    /\ UNCHANGED <<items, size, stats, cache, tls, oversized, handle, home, call>>

\* Mutant: off by one at the cache's capacity.
CacheHasRoom_OffByOne(t) == t \in tls /\ Cardinality(cache[t]) =< CacheCap

CacheHasRoom(t) == t \in tls /\ Cardinality(cache[t]) < CacheCap

\* Mutant: only a return to the thread cache is counted.
Drop_CacheOnly(t, b) ==
    LET p == handle[b] IN
    /\ CanCall(t, "drop") /\ p # None
    /\ dirty' = Burn(b)
    /\ handle' = [handle EXCEPT ![b] = None]
    /\ \/ /\ CacheHasRoom(t)
          /\ cache' = [cache EXCEPT ![t] = @ \cup {b}]
          /\ returned' = Bump(returned, p) /\ UNCHANGED <<allocated, acquired, cache_hits>>
          /\ UNCHANGED call
       \/ /\ ~CacheHasRoom(t)
          /\ Enter(t, "drop", "check", p, b, 0)
          /\ UNCHANGED <<stats, cache>>
    /\ UNCHANGED <<items, size, tls, oversized, home>>

\* Burn, count, then the dropping thread's cache or, failing that, the queue.
Drop(t, b) ==
    LET p == handle[b] IN
    /\ CanCall(t, "drop") /\ p # None
    /\ dirty' = Burn(b)
    /\ handle' = [handle EXCEPT ![b] = None]
    /\ returned' = Bump(returned, p) /\ UNCHANGED <<allocated, acquired, cache_hits>>
    /\ \/ /\ CacheHasRoom(t)
          /\ cache' = [cache EXCEPT ![t] = @ \cup {b}]
          /\ UNCHANGED call
       \/ /\ ~CacheHasRoom(t)
          /\ Enter(t, "drop", "check", p, b, 0)
          /\ UNCHANGED cache
    /\ UNCHANGED <<items, size, tls, oversized, home>>

\* Mutant: off by one at max_pool_size.
HasSpace_OffByOne(p) == size[p] =< MaxPool[p]

HasSpace(p) == size[p] < MaxPool[p]

\* Mutant: the fallback to the queue counts the return a second time.
Check_Recount(t) ==
    LET b == buf[t] IN
    /\ At(t, "check")
    /\ returned' = Bump(returned, pool[t]) /\ UNCHANGED <<allocated, acquired, cache_hits>>
    /\ \/ HasSpace(pool[t]) /\ Goto(t, "push") /\ UNCHANGED <<home, dirty>>
       \/ ~HasSpace(pool[t]) /\ Return(t) /\ Free({b})
    /\ UNCHANGED <<items, size, cache, tls, oversized, handle>>

Check(t) ==
    LET b == buf[t] IN
    /\ At(t, "check")
    /\ \/ HasSpace(pool[t]) /\ Goto(t, "push") /\ UNCHANGED <<home, dirty>>
       \/ ~HasSpace(pool[t]) /\ Return(t) /\ Free({b})
    /\ UNCHANGED <<items, size, stats, cache, tls, oversized, handle>>

\* leak hands the bare Buffer to the client: it is out of the pools' sight.
Leak(b) ==
    /\ "leak" \in Calls /\ handle[b] # None
    /\ handle' = [handle EXCEPT ![b] = None]
    /\ Free({b})
    /\ UNCHANGED <<items, size, stats, cache, tls, oversized, call>>

DropNow(b) ==
    /\ "drop_now" \in Calls /\ handle[b] # None
    /\ handle' = [handle EXCEPT ![b] = None]
    /\ Free({b})
    /\ UNCHANGED <<items, size, stats, cache, tls, oversized, call>>

-----------------------------------------------------------------------------
(* LockFreeQueue.push: the item first, the counter in a step of its own.   *)

Push(t) ==
    LET p == pool[t]  b == buf[t] IN
    /\ At(t, "push")
    /\ items' = [items EXCEPT ![p] = @ \cup {b}]
    /\ Enter(t, fn[t], "add", p, None, 0)
    /\ UNCHANGED <<size, stats, cache, tls, oversized, handle, home, dirty>>

FetchAdd(t) ==
    /\ At(t, "add")
    /\ size' = [size EXCEPT ![pool[t]] = Incr(@)]
    /\ \/ fn[t] = "drop" /\ Return(t)
       \/ fn[t] = "clear_thread_cache" /\ Goto(t, "spill")
       \/ fn[t] = "warm" /\ todo[t] = 0 /\ Return(t)
       \/ fn[t] = "warm" /\ todo[t] > 0 /\ Goto(t, "fill")
    /\ UNCHANGED <<items, stats, cache, tls, oversized, handle, home, dirty>>

-----------------------------------------------------------------------------
(* warm: one read of the counter decides how many buffers are pushed.      *)

Missing(p, n) == LET target == IF n < MaxPool[p] THEN n ELSE MaxPool[p]
                 IN  IF size[p] < target THEN target - size[p] ELSE 0

Warm(t, p, n) ==
    /\ CanCall(t, "warm") /\ Room(Missing(p, n))
    /\ IF Missing(p, n) = 0
       THEN UNCHANGED call
       ELSE Enter(t, "warm", "fill", p, None, Missing(p, n))
    /\ UNCHANGED <<items, size, stats, cache, tls, oversized, handle, home, dirty>>

\* Mutant: warm counts its allocations among those of acquire.
Fill_Counted(t) ==
    LET p == pool[t] IN
    /\ At(t, "fill")
    /\ \E b \in Unallocated :
          /\ home' = [home EXCEPT ![b] = p]
          /\ items' = [items EXCEPT ![p] = @ \cup {b}]
    /\ allocated' = Bump(allocated, p) /\ UNCHANGED <<acquired, returned, cache_hits>>
    /\ Enter(t, "warm", "add", p, None, todo[t] - 1)
    /\ UNCHANGED <<size, cache, tls, oversized, handle, dirty>>

Fill(t) ==
    LET p == pool[t] IN
    /\ At(t, "fill") /\ p \notin oversized
    /\ \E b \in Unallocated :
          /\ home' = [home EXCEPT ![b] = p]
          /\ items' = [items EXCEPT ![p] = @ \cup {b}]
    /\ Enter(t, "warm", "add", p, None, todo[t] - 1)
    /\ UNCHANGED <<size, stats, cache, tls, oversized, handle, dirty>>

FillPanic(t) ==
    /\ At(t, "fill") /\ pool[t] \in oversized
    /\ Return(t)
    /\ UNCHANGED <<items, size, stats, cache, tls, oversized, handle, home, dirty>>

-----------------------------------------------------------------------------
(* clear_thread_cache and the end of a thread.                             *)

ClearThreadCache(t, p) ==
    /\ CanCall(t, "clear_thread_cache") /\ t \in tls
    /\ Enter(t, "clear_thread_cache", "spill", p, None, 0)
    /\ UNCHANGED <<items, size, stats, cache, tls, oversized, handle, home, dirty>>

\* Mutant: a buffer the queue has no space for stays in the cache.
Spill_Keep(t) ==
    LET p == pool[t] IN
    /\ At(t, "spill")
    /\ \E b \in cache[t] :
          \/ /\ HasSpace(p)
             /\ cache' = [cache EXCEPT ![t] = @ \ {b}]
             /\ Enter(t, "clear_thread_cache", "push", p, b, 0)
          \/ /\ ~HasSpace(p)
             /\ UNCHANGED <<cache, call>>
    /\ UNCHANGED <<items, size, stats, tls, oversized, handle, home, dirty>>

\* Mutant: the spilled buffer is pushed but not popped from the cache.
Spill_Peek(t) ==
    LET p == pool[t] IN
    /\ At(t, "spill")
    /\ \E b \in cache[t] :
          \/ /\ HasSpace(p)
             /\ Enter(t, "clear_thread_cache", "push", p, b, 0)
             /\ UNCHANGED <<cache, home, dirty>>
          \/ /\ ~HasSpace(p)
             /\ cache' = [cache EXCEPT ![t] = @ \ {b}]
             /\ Free({b})
             /\ UNCHANGED call
    /\ UNCHANGED <<items, size, stats, tls, oversized, handle>>

Spill(t) ==
    LET p == pool[t] IN
    /\ At(t, "spill")
    /\ \E b \in cache[t] :
          /\ cache' = [cache EXCEPT ![t] = @ \ {b}]
          /\ \/ /\ HasSpace(p)
                /\ Enter(t, "clear_thread_cache", "push", p, b, 0)
                /\ UNCHANGED <<home, dirty>>
             \/ /\ ~HasSpace(p)
                /\ Free({b})
                /\ UNCHANGED call
    /\ UNCHANGED <<items, size, stats, tls, oversized, handle>>

SpillDone(t) ==
    /\ At(t, "spill") /\ cache[t] = {}
    /\ Return(t)
    /\ UNCHANGED <<items, size, stats, cache, tls, oversized, handle, home, dirty>>

\* The thread's THREAD_CACHE is destroyed and its buffers are freed.  Later
\* thread-local destructors may still drop handles, warm or clear.
ThreadExit(t) ==
    /\ CanCall(t, "exit") /\ t \in tls
    /\ tls' = tls \ {t}
    /\ cache' = [cache EXCEPT ![t] = {}]
    /\ Free(cache[t])
    /\ UNCHANGED <<items, size, stats, oversized, handle, call>>

-----------------------------------------------------------------------------
\* The rest of an operation a thread has entered.
Step(t) == \/ CacheHit(t) \/ Alloc(t) \/ PopSome(t) \/ PopNone(t) \/ FetchSub(t)
           \/ Check(t) \/ Push(t) \/ FetchAdd(t) \/ Fill(t)
           \/ Spill(t) \/ SpillDone(t) \/ AllocPanic(t) \/ FillPanic(t)

Begin(t) == \/ \E p \in Pools : \/ Acquire(t, p)
                                \/ Clear(t, p)
                                \/ ClearThreadCache(t, p)
                                \/ \E n \in Targets : Warm(t, p, n)
            \/ \E b \in Buffers : Drop(t, b)
            \/ ThreadExit(t)

Next == \/ \E t \in Threads : Begin(t) \/ Step(t)
        \/ \E b \in Buffers : Write(b) \/ Leak(b) \/ DropNow(b)

Spec == Init /\ [][Next]_vars

\* The operating system keeps running a thread that is inside an operation;
\* nothing makes a client begin one.
FairSpec == Spec /\ \A t \in Threads : WF_vars(Step(t))

-----------------------------------------------------------------------------
(* Properties.                                                             *)

Labels == {"idle", "cache", "sub", "alloc", "drain", "check", "push", "add",
           "fill", "spill"}

VarsOK == /\ items \in [Pools -> SUBSET Buffers]
          /\ size \in [Pools -> 0 .. Word - 1]
          /\ allocated \in [Pools -> Nat]
          /\ acquired \in [Pools -> Nat]
          /\ returned \in [Pools -> Nat]
          /\ cache_hits \in [Pools -> Nat]
          /\ cache \in [Threads -> SUBSET Buffers]
          /\ tls \in SUBSET Threads
          /\ oversized \in SUBSET Pools
          /\ handle \in [Buffers -> Pools \cup {None}]
          /\ home \in [Buffers -> Pools \cup {None}]
          /\ dirty \in SUBSET Buffers

CallsOK == /\ fn \in [Threads -> Operations \cup {"none"}]
           /\ at \in [Threads -> Labels]
           /\ pool \in [Threads -> Pools \cup {None}]
           /\ buf \in [Threads -> Buffers \cup {None}]
           /\ todo \in [Threads -> 0 .. Word - 1]

\* Inside an operation a thread has a pool, and a buffer in its hands between
\* taking it from one place and putting it into another.
Carrying == {"sub", "check", "push"}

ControlOK == \A t \in Threads :
    /\ \/ fn[t] = "none" /\ at[t] = "idle"
       \/ fn[t] = "acquire" /\ at[t] \in {"cache", "sub", "alloc"}
       \/ fn[t] = "clear" /\ at[t] \in {"drain", "sub"}
       \/ fn[t] = "drop" /\ at[t] \in {"check", "push", "add"}
       \/ fn[t] = "warm" /\ at[t] \in {"fill", "add"}
       \/ fn[t] = "clear_thread_cache" /\ at[t] \in {"spill", "push", "add"}
    /\ pool[t] = None <=> at[t] = "idle"
    /\ buf[t] = None <=> at[t] \notin Carrying
    /\ todo[t] # 0 => fn[t] = "warm"
    /\ at[t] = "fill" => todo[t] # 0

\* Every counter is a usize, a thread cache never outgrows its capacity, and a
\* thread inside an operation has what its next step needs.
TypeOK == /\ VarsOK /\ CallsOK
          /\ \A t \in Threads : Cardinality(cache[t]) =< CacheCap
          /\ ControlOK

Held == {b \in Buffers : handle[b] # None}

\* What lies in a queue, a cache or a thread's hands is allocated and unheld.
PlacedIdle ==
    /\ \A p \in Pools : \A b \in items[p] : home[b] # None /\ handle[b] = None
    /\ \A t \in Threads : \A b \in cache[t] : home[b] # None /\ handle[b] = None
    /\ \A t \in Threads : buf[t] # None => home[buf[t]] # None /\ handle[buf[t]] = None
    /\ \A b \in Buffers : handle[b] # None => home[b] # None

\* No buffer is in two such places.
Apart ==
    /\ \A p, q \in Pools : p # q => \A b \in items[p] : b \notin items[q]
    /\ \A t, u \in Threads : t # u => \A b \in cache[t] : b \notin cache[u]
    /\ \A t, u \in Threads : t # u /\ buf[t] = buf[u] => buf[t] = None
    /\ \A p \in Pools, t \in Threads : \A b \in items[p] : b \notin cache[t] /\ b # buf[t]
    /\ \A t, u \in Threads : \A b \in cache[u] : b # buf[t]

Somewhere(b) == \/ handle[b] # None
                \/ \E p \in Pools : b \in items[p]
                \/ \E t \in Threads : b \in cache[t] \/ b = buf[t]

\* No buffer is lost and none is shared: an allocated buffer is in exactly one
\* queue, one cache, one thread's hands or one client handle, and a freed one
\* in none (the moves of acquire, drop, clear, warm and clear_thread_cache).
NoSharing == /\ PlacedIdle
             /\ Apart
             /\ \A b \in Buffers : home[b] # None => Somewhere(b)

\* A buffer that no client holds shows no client data, in whichever queue,
\* cache or thread it is: every path back into the pools burns it first.
IdleBuffersBurned == dirty \subseteq Held

Adding(p) == {t \in Threads : At(t, "add") /\ pool[t] = p}
Subtracting(p) == {t \in Threads : At(t, "sub") /\ pool[t] = p}

\* The counter is off the queue's length by exactly the updates that are still
\* owed, modulo the word: it never drifts, whatever stale values it shows.
CounterTracksQueue ==
    \A p \in Pools :
        size[p] = (Cardinality(items[p]) - Cardinality(Adding(p))
                      + Cardinality(Subtracting(p))) % Word

\* The pushes into the queue of p that each thread has already decided on.
Due(p) == [t \in Threads |-> IF pool[t] # p THEN 0
                             ELSE IF At(t, "push") THEN 1 ELSE todo[t]]

\* The buffers of a queue and those that are due to be pushed.
Committed(p) == Cardinality(items[p]) + FoldFunction(+, 0, Due(p))

\* The best-effort cap: the check of a stale counter lets a pool overshoot
\* max_pool_size, but never by more than that size per further thread.
QueueBound ==
    \A p \in Pools :
        Committed(p) =< Max({MinPool[p], Cardinality(Threads) * MaxPool[p]})

HandlesOf(p) == {b \in Buffers : handle[b] = p}
Acquiring(p) == {t \in Threads : fn[t] = "acquire" /\ pool[t] = p}

\* acquired - returned, the base of in_use(), never counts fewer buffers than
\* the clients hold, at any moment of any interleaving.
InUseCoversHandles ==
    \A p \in Pools :
        returned[p] + Cardinality(HandlesOf(p)) + Cardinality(Acquiring(p))
            =< acquired[p]

\* How many buffers acquired - returned shows too many, beside the acquires under
\* way, which are counted before their handle exists.
Drift(p) == acquired[p] - returned[p] - Cardinality(HandlesOf(p))
               - Cardinality(Acquiring(p))

\* The handles a step gives up for good, buffer and all.
GivenUp(p) == {b \in HandlesOf(p) : home'[b] = None}

\* The acquires that a step ends without a handle, in the panic of Buffer::new.
Panicked(p) == {t \in Acquiring(p) :
                   p \in oversized /\ At(t, "alloc") /\ at'[t] # "alloc"}

\* in_use drifts upwards by exactly the buffers that leak or drop_now take out and
\* the acquires that panic: no other step, in whatever order the threads bump the
\* counters, moves it away from the handles, and none ever brings it back.
DriftIsLeaks ==
    [][\A p \in Pools : Drift(p)' = Drift(p) + Cardinality(GivenUp(p))
                                             + Cardinality(Panicked(p))]_vars

\* Each acquire is counted once as acquired before it is counted at most once
\* as a cache hit or an allocation (the rates are percentages of acquired).
AcquiresCoverSources ==
    \A p \in Pools :
        allocated[p] + cache_hits[p] + Cardinality(Acquiring(p))
            =< acquired[p]

\* The pool keeps the promise of SecurePool: a client only ever gets a buffer
\* free of other clients' bytes, whichever tier of the cascade it came from.
Place == [b \in Buffers |-> IF handle[b] # None THEN "held"
                            ELSE IF home[b] = None THEN "none" ELSE "idle"]

Secure == INSTANCE SecurePool WITH place <- Place
SecureSpec == Secure!Spec

\* Every operation other than clear ends, whatever the other threads do.
CallsComplete ==
    \A t \in Threads :
        ~At(t, "idle") /\ fn[t] # "clear" ~> At(t, "idle")

Clearing(t, p) == fn[t] = "clear" /\ pool[t] = p
PushInto(p) == \E t \in Threads : At(t, "add") /\ pool[t] = p

\* clear ends unless other threads push into that pool for ever.
ClearCompletes ==
    \A t \in Threads, p \in Pools :
        <>[]Clearing(t, p) => []<>PushInto(p)

-----------------------------------------------------------------------------
(* What documents say of the pool.                                         *)

\* fast.rs:89 "Approximate queue length - may be briefly stale": a value that
\* is only stale is one the length had, so at most the buffers there are.
LenIsALength == \A p \in Pools : size[p] =< Cardinality(Buffers)

\* config.rs:7 "Size of each buffer in the pool": the buffer a pool hands out
\* was made with that pool's buffer_size.
HandlesHaveOwnSize == \A b \in Held : home[b] = handle[b]
=============================================================================
