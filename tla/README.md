# secbuf in TLA+

A verification project for secbuf, a Rust crate of secure memory buffers for
network servers: linear buffers with a cursor, ring buffers, two buffer pools and
the buffer set of a connection. The modules here model the code under
`src/src/`, TLC checks them on small instances, and TLAPS proves their safety
properties for every instance. Paths below are relative to `src/src/`.

## 1. The system

| Component | Source | State | Operations |
|---|---|---|---|
| Linear buffer | `buffer/core.rs`, `ops.rs`, `unsafe_ops.rs` | a `Vec` of bytes, `pos`, `len` | cursor moves, growth, typed puts and gets, `reset`, `burn`, `clone`, `into_vec` |
| Strings in a buffer | `buffer/ops.rs`, `unsafe_ops.rs` | the same | `put_string`, `get_string`, `eat_string`, the vectorised copy |
| Ring buffer | `circular/buffer.rs` | optional storage, `used`, `read_pos`, `write_pos` | copying and zero-copy reads and writes, `clear`, `free` |
| Standard pool | `pool/standard.rs` | a `Vec` of idle buffers and three totals behind one mutex | `acquire`, drop of a handle, `leak`, `drop_now`, `shrink`, `clear`, `grow` |
| Fast pool | `pool/fast.rs` | a lock-free queue, its length counter, a cache per thread, four statistics counters | `acquire`, drop of a handle, `leak`, `drop_now`, `clear`, `warm`, `clear_thread_cache`, the end of a thread, `stats` |
| Statistics | `pool/stats.rs` | none: pure functions of a snapshot | `in_use`, hit rates, `utilization` |
| Connection buffers | `connection.rs` | optional read and write buffers, rings, a packet queue with a byte count, a `burned` flag | initialisation, queueing, `reset`, `burn`, `burn_and_release`, drop |
| Pool configuration | `pool/config.rs` | three sizes | the presets; what a pool does with each |
| Error types, crate root | `error.rs`, `lib.rs` | none | not modelled |

How they interact. A pool's handle owns a linear buffer; dropping the handle
burns the buffer and gives it back, so the pools rely on what `Buffer::burn`
leaves behind. Handles are `Send`: the thread that drops one need not be the one
that acquired it. All fast pools of a process share one cache per thread. A
connection owns linear buffers and rings, calls their `burn` and `free`, and
may keep an `Arc` of a standard pool. There are no messages and no callbacks;
everything shared is shared memory.

What is hard. The fast pool is a lock-free structure of several words: the
queue and its length counter are updated in separate steps, limits are checked
against a counter that may be stale, statistics are bumped one by one and read
one by one, and thread-local caches are destroyed while handles are still
around. The standard pool is coarse, but burns outside the lock and may panic
under it. The sequential components are hard through long sequences of legal
calls: three cursors per ring, three ends per linear buffer, a byte count beside
a packet queue, a flag that says that there is nothing to burn.

What makes each component correct:

- pools: no buffer is in two places or lost; a buffer nobody holds shows no
  client's bytes; idle buffers are bounded; the length counter does not drift;
  statistics never report fewer acquires than what they are compared with; calls
  return;
- ring: it is a bounded first-in first-out queue of bytes for every mixture of
  copying and zero-copy calls;
- strings: what was accepted is read back in order, whatever failed in between;
- linear buffer: the ends stay ordered, so that checked accesses are inside the
  `Vec`, and safe calls never reach what was there before a burn;
- connection: the byte count is exact, the limits hold, a refusal is announced,
  `burn` and `reset` keep one session's bytes from the next.

`PROJECT.json` lists the components, the runs, the mutants, the map from
definitions to lines, and the hazards with the properties that watch them.

## 2. The modules

| Module | Models | Role |
|---|---|---|
| `SecurePool` | what both pools promise | abstract specification |
| `FastPool` | `FastBufferPool`, `FastPooledBuffer`, `LockFreeQueue`, `THREAD_CACHE` | concurrent model |
| `PoolStats` | what `stats.rs` computes from the totals | pure functions |
| `FastPoolStats` | `stats()` beside the clients | extends `FastPool` with an observer |
| `PoolConfig` | `PoolConfig` and its presets | values |
| `BufferPool` | `BufferPool`, `PooledBuffer` | one step per critical section |
| `ByteQueue` | what a ring promises | abstract specification |
| `CircularBuffer` | `CircularBuffer` | one step per call |
| `RingWrap` | `CircularBuffer::wrap` with its bit mask | pure function |
| `LinearBuffer` | `Buffer` | one step per call |
| `StringStream` | what `put_string` and `get_string` promise together | abstract specification |
| `Framing` | the string calls and the copies of `Buffer`, with byte values | one step per call |
| `ConnectionBuffers` | `ConnectionBuffers`, `PooledConnectionBuffers` | one step per call |
| `MCFastPool`, `MCFastPoolStats`, `MCBufferPool` | | instances for TLC |
| `FastPoolProofs`, `FastPoolCounter`, `BufferPoolProofs`, `CircularBufferProofs`, `LinearBufferProofs`, `FramingProofs`, `ConnectionBuffersProofs` | | theorems and proofs |
| `RecursionTheorems` | | lemmas on least elements, remainders, powers of two and sums |

### FastPool

A step is one access to memory that threads share, a queue operation or an
atomic counter, with the thread-local work next to it. `fn`, `at`, `pool`, `buf`
and `todo` are a thread's operation, its next step and its local variables.
`push` is two steps (`Push` or `Fill`, then `FetchAdd`), and so is `pop`
(`PopSome`, then `FetchSub`); a drop is `Drop` (burn, count, cache), then for
a full or destroyed cache `Check`, `Push`, `FetchAdd`; `warm` reads the counter
once (`Warm`) and then pushes as many as that value said.

Abstractions, all named in the module: a buffer is an identity and one bit
(does `data[..data.len()]` show client bytes?); queue and caches are sets, so
that a pop may yield any of their buffers, which includes the one the code would
take; `SegQueue` is an external linearizable queue; the updates of the relaxed
counters, and the reads of `size` in an operation, are interleaved as if sequentially
consistent. Buffers of a pool in `oversized` cannot be made: `Buffer::new` panics, in
`acquire` after the allocation was counted (`AllocPanic`), in `warm` (`FillPanic`),
and in `new` unless `min_pool_size` is 0. `Init` leaves open which pools with a minimum
of 0 are oversized. `Word` stands for 2^64, `Buffers` bounds the live buffers
(`Room` keeps an operation from starting if it could run out), `MaxAcquire` bounds the
calls of `acquire` in a run. The pool is not dropped during a run.

`FastPoolStats` adds an observer of the pools in `Watched`, who calls `stats()`. Its five
loads are relaxed and of different atomics: Rust orders them neither among themselves
nor against the clients' updates. All that holds is that each returns a value its
counter has had, no older than what the observer last synchronised with. `StatsCall`
is that moment, `past` collects what every counter has been since (`Record`), and
`Snapshots` are the structs that any choice of old values gives. What the methods of
the result compute is in `PoolStats`, with rates rounded down.

### BufferPool

Everything the pool does under its lock is one step; the burn of a dropped buffer
happens before the lock is taken and is a step of its own (`DropBurn`, then
`DropReturn`), with the buffer in the thread's `hand` between the two. The
configuration is a record of `PoolConfig`, one of `Configs`: sizes in any relation
(the code compares `min_pool_size` with nothing), and with a `buffer_size` beyond
`BUF_MAX_SIZE` `Buffer::new` panics (`oversized`). Where that happens under the
lock the mutex is poisoned (`AcquirePanic`, `GrowPanic`) and later calls panic
too (`LockPanic`).

### CircularBuffer

One object behind `&mut`, one action per call. A client that writes in place is
modelled as documented: `incr_write` commits the length asked of `write_ptr` or
`write_slices_mut`. `staged` holds its bytes in between, when it may still read.
`LooseSpec` adds the clients that do otherwise: `incr_write` with any length that
the code's check lets through.
Cursors advance with `RingWrap`'s `wrap`: by a bit mask if `is_pow2` is set, by a
remainder otherwise. The flag is the code's own, set by the constructors `New` and
`NewPow2` and only read afterwards. `MaskAgrees` says that the cursors go where the
remainder takes them. The run has a ring of a power of two, which exercises the mask;
the theorem is for every size and both constructors. (The mask is a sum over bits of its own, as `Bitwise` cannot be used
where something is proved.)

### LinearBuffer

One action per call. A byte is reduced to where it comes from: zeroed, the
client's, the client's from before the last burn, or junk from the allocator.
The `Vec` is external and keeps its own length and capacity; `resize`, `truncate`,
`reserve` and `shrink_to_fit` are modelled by what they do to the allocation:
in place, or by moving, where the allocator may or may not carry the spare part along
(`Moved`). `Clone` goes on with the copy, `Rewrap` with
`from_vec(buffer.into_vec())`. `PutUnchecked` belongs to a second specification,
`SpecUnchecked`, in which clients also call the `unsafe` puts within their
documented precondition.

### Framing

The same buffer seen from its strings, and here bytes have values. `put_string` and
`get_string` are each two checked calls, a length prefix and the bytes, and either
fails half done when the second does not fit: the position has passed the prefix.
`PutStringHalf` and `GetStringHalf` are these. The result is the same error
whether the data has ended or a string is damaged, so a reader goes on until no
prefix is left. `writes` and `reads` are histories of what the calls returned.

The buffer is new, or made by `from_vec` of any bytes (`foreign`). Its client
writes, rewinds with `set_pos(0)`, reads, resets, and may grow the buffer while it
holds no half-written string, or take such a string back with `set_len` first
(section 4 says what happens otherwise). A prefix is two digits to the base `Base`
for the code's four bytes, and a lane of the vectorised copy is `Lane` bytes for
32. `StringStream` is what a client relies on: the k-th read returns what the
k-th write returned.

### ConnectionBuffers

One action per call. Of a read or write buffer the model keeps whether client bytes
are in `data`, which the calls of `Buffer` reach, and in the spare part behind it, and
whether they were there when `burn` was last called (`"burned"`). The two fields are
public: `Use` fills a buffer, or resizes it, which moves bytes to the spare part
(`Shortened`) or zeroes some of it (`Lengthened`). `Buffer::burn` zeroes `data` alone
(`Zeroed`), so the spare part survives a burn, and a burn that the flag makes a no-op
leaves everything (`Skip`). A ring is freed by a burn; a packet is its length.
`UseBurned` says whether clients go on using a burned connection without a `reset`.
`IsQueueNearFull` is the code's integer
arithmetic. The packet queue,
though a public field, is used through its methods only. The end of the object
is a burn and is covered by `BurnBuffers`.

## 3. What is model-checked

| Run | Checks | Bounds | States |
|---|---|---|---|
| `fast_one` | safety and liveness of one fast pool | 2 threads, 3 buffers, cache of 1, 2 acquires, buffers oversized or not | 85,120 |
| `fast_two` | two fast pools that share the caches; `SecurePool`; in_use; snapshots of relaxed loads | 2 threads, 2 buffers, 2 acquires per pool, one observer, one pool's buffers oversized or not | 340,145 (symmetric) |
| `fast_len_wraps` | violation: `LenIsALength` | cache of 0 | |
| `fast_foreign_size` | violation: `HandlesHaveOwnSize` | two pools | |
| `std_pool` | safety of the standard pool; `SecurePool` | 2 threads, 3 buffers, 4 acquires, 12 configurations | 30,642 |
| `ring` | the ring; `ByteQueue` | 4 bytes of 2 values | 29,791 |
| `linear` | the linear buffer, safe calls | size at most 4, allocations at most 5 | 5,407 |
| `linear_burn_spare` | violation: `BurnWipesAll` | as above | |
| `linear_unchecked` | violation: `SliceInBounds` | as above | |
| `framing` | strings through half-done calls; `StringStream`; liveness of a reader | 7 bytes of 3 values, strings of at most 3, lanes of 2 | 20,166 |
| `connection` | the connection | 5 packets, 6 bytes, 2 streams | 349,326 |
| `connection_burn_again` | violation: `BurnZeroesAll` | as above | |

Why the bounds are enough for the cases that matter:

- fast pool: with two threads every pair of steps can interleave, one overtaking
  the other's counter update included. With three buffers and a limit of one a
  stale check overshoots the limit, the cache of one fills, spills and falls back
  to the queue. The pool of `fast_one` starts empty, so that it may be oversized; `warm`
  fills it, and `fast_two` starts with a buffer. Both threads can exit while handles
  live, which puts later drops on the path without a cache. `Word` is 16, more than the
  buffers, so a wrapped counter is told from a real length. `fast_one` has no symmetry
  set since it checks liveness.
- standard pool: maxima of 1 and 2 against minima of 0, 1 and 2, the larger
  minimum included, a `grow` target below and one above the maximum, and
  oversized buffers. Three buffers suffice for a full vector, a held one and one
  in a hand at once.
- ring: four cells are the smallest power of two at which the two cursors can be
  apart, adjacent and equal, and a segment wraps in every way; two byte values
  tell order apart.
- linear: five cells give every order of the three ends with room to grow in
  place and by moving.
- snapshots: the calls of `fast_two` are the ones that bump a counter, pass
  buffers between pools, or empty a cache; two buffers let one be held in either
  pool while the other one's counters move. If the second pool's buffers cannot be made, it
  is served from the caches and from what was returned to it, and panics otherwise. The
  other operations, three buffers and the exits are in `fast_one`.
- framing: three short strings fit, or a half-written one with another behind it;
  strings run over the end of the data, and a foreign prefix can exceed
  `MaxString`, point past the end or frame by accident. A string of 3 bytes is
  below two lanes, and `LanesAgree` tries every length up to 7: none, whole lanes
  only, and whole lanes with a rest.
- connection: either limit can be the one that refuses; packets of length zero. Both
  buffers can hold bytes of two sessions, one session's in the spare part.

The properties. `TypeOK` is each module's type invariant. Fast pool:
`NoSharing` (each allocated buffer is in exactly one place), `IdleBuffersBurned`,
`CounterTracksQueue` (the counter is the queue's length up to the updates still
owed), `QueueBound` (how far stale checks can overshoot the limit),
`InUseCoversHandles` and `AcquiresCoverSources` (statistics), `DriftIsLeaks` (an action
property: `in_use` moves away from the handles by what `leak`, `drop_now` and panics take
out, and by nothing else), `SnapOffByUnseen` (however old the values a snapshot mixes,
`in_use` and the rates are off by at most the acquires the observer missed) and
`CalmSnapTrue` (a snapshot of counters that did not move shows at least the handles there
are and the queue's length, and its rates stay within 100%).
Standard pool: `Partition`, `IdleBound`, `DropNeverPanics` (a handle never meets
a poisoned lock), `TotalsCover`. Both pools implement `SecurePool` (`SecureSpec`).
Ring: `CursorsAgree`, `NonEmptyIsReadable`, `StagedKept`, `MaskAgrees`, and it
implements `ByteQueue` (`FifoSpec`). Linear: `EndsOrdered`, `ReachableIsOwn`.
Framing: `NothingLost` (a reader who reads on past the errors gets each accepted string
and one error for each refused one), `LanesAgree` (the vectorised copy writes what the
plain one does); it implements `StringStream` (`StreamSpec`). Connection:
`BytesExact`, `LimitsKept`, `RefusalAnnounced` (a queue that is not near full takes
any packet of at most a fifth of the byte limit), `SessionsApart` (no buffer reaches a
byte from before a burn, and no burn that was skipped leaves a packet, for clients that
reset what they burned).

Deadlock is not checked for the fast pool, whose clients stop when the bound on
acquires is used up and their threads have exited. The other systems never stop,
and for them it is.

### Liveness and fairness

`FairSpec` assumes weak fairness of `Step(t)` for each thread: the operating
system keeps running a thread that is inside an operation. Nothing is assumed of
`Begin`: a client need never call, return or drop anything. Steps take no lock,
so a thread inside an operation is never disabled by another for good. Under this
`CallsComplete` says that every operation but `clear` returns, and
`ClearCompletes` that `clear`, which pops until it sees an empty queue, can only
run on for ever if other threads push into that pool for ever.

`Framing`'s `FairSpec` assumes weak fairness of `GetString \/ GetStringHalf`: a client
that reads goes on reading while there is a prefix. It need not write, rewind or
reset. `ReaderEnds` says that it comes to the end whatever bytes it meets: a
failed read has consumed a prefix.

Each property of a passing run has a mutant, a plausible bug in a mapped
definition under which TLC finds the property violated.

## 4. Where the code and its documents disagree

Five runs show a statement of a document or a comment that the code does not meet:

- `len()` of the fast pool is documented as "briefly stale" (`pool/fast.rs:89`).
  A pop that overtakes the counter update of the push before it takes the counter
  below zero, so that it shows about 2^64 for a moment.
- a pool's `buffer_size` is the "Size of each buffer in the pool"
  (`pool/config.rs:7`), but the thread caches are shared by all pools: a pool hands
  out buffers of another one's size.
- `burn` "zeros all buffer memory" (`buffer/core.rs:461`): not the spare part that
  a shortened `Vec` still owns. Safe calls cannot read it (`ReachableIsOwn`).
- the unchecked puts ask only for capacity (`buffer/unsafe_ops.rs:11`), but then
  take `len` past the `Vec`'s own length, after which `as_slice` panics.
- a connection's `burn` zeroes "every buffer" (`connection.rs:189`), but does
  nothing if an earlier burn was not followed by `reset`. For clients that do
  reset, sessions stay apart (`SessionsApart`).

Noticed while reading and not shown by a run: concurrent calls of `warm` leave
the fast pool above its maximum, which nothing trims later; `leak` and `drop_now` count
as in use for ever (`pool/stats.rs`); the five loads of
`stats()` have no order, so that a snapshot can show more hits than acquires
(`pool/fast.rs:248`; `SnapOffByUnseen` says by how much); `min_pool_size` above `max_pool_size` pre-warms beyond the
maximum (`pool/standard.rs:80`); `is_queue_near_full` compares with `>` where its
comment says at least 80% (`connection.rs:161`); the ring's documents name an error
`WouldWrap` where the code returns `InvalidState` (`circular/buffer.rs:204`); the
repository's README names a `burn_and_free_memory` that does not exist;
`into_vec` is documented as the slice from `pos` to `len` (`buffer/core.rs:612`) and
returns the bytes from 0 on, in an allocation whose spare part was never burned; a
`put_string` retried after the buffer was grown over the prefix of its failed first
try is misread (`buffer/ops.rs:138`), since the reader takes the first prefix at its
word; `is_queue_near_full` multiplies by 80 before it divides, which overflows for
byte limits near the top of `usize`.

## 5. What is proved

All theorems hold for every value of the constants that satisfies the named
assumptions (`FastPoolAssumption`, `BufferPoolAssumption`, `RingAssumption`,
`LinearAssumption`, `FramingAssumption`, `ConnectionAssumption`, `WatchedAssumption`): finite sets of threads and buffers, sizes that are naturals,
`None` not a buffer or pool, a word that exceeds the number of buffers, a ring of
at least one byte, string lengths that fit their prefix, an error that is no
string, an observer of pools that exist.

| Theorem | Module | Says |
|---|---|---|
| `TypeCorrect` | `FastPoolProofs` | `TypeOK` with the control state |
| `NeverShared`, `AlwaysBurned` | `FastPoolProofs` | `NoSharing`, `IdleBuffersBurned` |
| `ImplementsSecurePool` | `FastPoolProofs` | the fast pool implements `SecurePool` |
| `CounterNeverDrifts` | `FastPoolCounter` | `CounterTracksQueue` |
| `QueueAlwaysBounded` | `FastPoolCounter` | `QueueBound` |
| `InUseAlwaysCovers`, `AcquiresAlwaysCover` | `FastPoolCounter` | `InUseCoversHandles`, `AcquiresCoverSources` |
| `DriftIsOnlyLeaks` | `FastPoolCounter` | `DriftIsLeaks` |
| `SnapsOffByUnseen`, `CalmSnapsAlwaysTrue` | `FastPoolCounter` | `SnapOffByUnseen`, `CalmSnapTrue`, of the specification with the observer |
| `TypeCorrect` | `BufferPoolProofs` | `TypeOK` |
| `PresetPoolsSound` | `BufferPoolProofs` | a pool made with a preset is never poisoned and keeps at most `max_pool_size` idle buffers |
| `AlwaysPartitioned`, `IdleAlwaysBounded`, `DropAlwaysLocks`, `TotalsAlwaysCover` | `BufferPoolProofs` | `Partition`, `IdleBound`, `DropNeverPanics`, `TotalsCover` |
| `ImplementsSecurePool` | `BufferPoolProofs` | the standard pool implements `SecurePool` |
| `TypeCorrect`, `CursorsAlwaysAgree`, `NonEmptyAlwaysReadable`, `StagedAlwaysKept` | `CircularBufferProofs` | the ring's invariants |
| `MaskAlwaysAgrees` | `CircularBufferProofs` | `MaskAgrees` |
| `ImplementsByteQueue` | `CircularBufferProofs` | the ring is a bounded queue of bytes |
| `LooseCursorsAgree` | `CircularBufferProofs` | `TypeOK` and `CursorsAgree` for clients that call `incr_write` with any length |
| `TypeCorrect` | `LinearBufferProofs` | `TypeOK` |
| `EndsAlwaysOrdered`, `ReachableAlwaysOwn` | `LinearBufferProofs` | the linear buffer's invariants |
| `TypeCorrect`, `NothingEverLost` | `FramingProofs` | `TypeOK`, `NothingLost` |
| `LanesAlwaysAgree` | `FramingProofs` | `LanesAgree` |
| `ImplementsStringStream` | `FramingProofs` | strings in a buffer are a stream of results |
| `TypeCorrect`, `RefusalAlwaysAnnounced` | `ConnectionBuffersProofs` | `TypeOK`, `RefusalAnnounced` |
| `BytesAlwaysExact`, `LimitsAlwaysKept` | `ConnectionBuffersProofs` | `BytesExact`, `LimitsKept` |
| `SessionsStayApart` | `ConnectionBuffersProofs` | `SessionsApart`, where clients reset what they burned |

The arguments:

- Fast pool, ownership. `TypeOK` holds the control state (a thread has a buffer in
  its hands exactly at the labels of `Carrying`) and is inductive. The lemma `Moves`
  then reduces all actions to fourteen ways of moving a buffer between queue, cache,
  hands, client and allocator. `NoSharing` and `dirty \subseteq Held` are kept by
  each move, and each move is a step of `SecurePool` or invisible to it, without
  looking at the control state again.
- Fast pool, counter. `CounterTracksQueue` uses `%`, which the provers handle
  badly. Its inductive form `Congruent` says that the counter and the queue's length
  plus debts differ by a multiple of `Word`. Each action changes counter, queue and
  debts so that the difference stays a multiple; `Residue` brings the remainder
  back. It needs `NoSharing`: a push adds an element that is not there yet.
- Fast pool, cap. `QueueBound` bounds `Committed`, a queue's buffers and the pushes
  that threads have decided on. Its inductive form `CapInv` adds ownership, the
  congruence and `SharesOK`: no thread is committed to more than `max_pool_size`
  pushes. A thread takes on pushes only where it reads a counter below the limit.
  By the congruence that counter lags behind the queue by at most one for each other
  thread with an increment to make, wrapped or not, which that thread's share
  pays for. So the sum stays at one `max_pool_size` per thread, or at the pre-warmed
  `min_pool_size`.
- Fast pool, statistics. The lemma `NeitherSteps` and the case split above it sort the
  steps by what they do to one pool's counters: an acquire begins, is served, a
  handle returns, or neither. `CountsInv`, the two invariants with `TypeOK`, is
  inductive over these four, since an acquire is counted when it begins and a
  return only when the handle is gone.
  `DriftIsLeaks` is read off the same cases, with `leak`, `drop_now` and the panic told
  apart from the others.
- Snapshots. The counters of `stats` only grow, so that what `past` has collected is
  behind the present (`Behind`), which is itself among it (`UpToDate`). A snapshot then
  shows no more allocations, hits and returns than there are and at least the oldest
  number of acquires; the pool's own invariants at the present moment bound what it is
  off by. If nothing has moved, each set is one value, the pool's own.
- Standard pool. `IInv` is `TypeOK`, `Partition`, `dirty \subseteq held`,
  `IdleBound` and `Sound`, a strengthening needed for `DropNeverPanics`: a
  poisoned lock implies an oversized configuration, and that implies that no
  buffer ever exists. The vector's lemmas (append, prefix, concatenation of
  distinct elements) reduce each step to a move between sets, as above.
  `TotalsCover` is inductive next to `IInv`.
- Ring. The calls are reduced to the few ways in which they change the ring
  (`Ways`): it grows, shrinks, shows a prefix, prepares, finishes or is wiped.
  `RingInv` adds to the checked invariants that staged bytes have storage. The
  two-segment copies are reduced to indices modulo the size (`LaidCells`,
  `FrontCells`), and the refinement follows from how `Front(used)` changes.
- Ring, mask. `MaskIsRemainder`: `n & (2^k - 1)` is `n % 2^k`. The mask has every bit
  below k and none above (`MaskBits`), and the sum of the low bits of n grows with k
  as the remainder does (`LowBitsSum`).
- Linear buffer. `TypeOK`, `EndsOrdered` and `ReachableIsOwn` together are
  inductive as they stand.
- Framing. Not even `TypeOK` is inductive: `TakeBack` shortens the data by a prefix,
  which only a buffer whose last frame is half-written can spare. The invariant is
  `Framed`: there are places at which the frames of `writes` begin, each frame's bytes
  are a prefix and its string, or a prefix that claims more than is left, and the
  position is the place after the last read. Writes append a place,
  `TakeBack` drops one, a read moves to the next; what a reader decodes at a
  place is what was written there, which gives `NothingLost` and the refinement.
- Lanes. The copy by lanes is a function defined by recursion. `LanesAlwaysAgree`
  shows that the closed form, the first so many lanes copied, satisfies its
  equation, and that the rest is copied behind the last lane.
- Connection. `BytesExact` is about a fold over the queue. A sum is the number of
  its units (`Total` in `RecursionTheorems`: the pairs of an index and a number up
  to the value there), and for finite sets the library has cardinalities. So queueing a
  packet adds its units, and taking the first one moves the others down
  (`TotalAppend`, `TotalTail`). `LimitsKept` and `RefusalAnnounced` follow.

Induction over data. The library's induction theorems take an operator as a
parameter, which the provers cannot instantiate. `WFMin` takes a set, and so
`RecursionTheorems` argues through least elements: the set of naturals, or of
subsets, at which a definition does not have its closed form has no least element.
This is enough for the four recursive notions here: the fold, the power of two, the sum
of bits and the lanes.

Only model-checked: the liveness properties `CallsComplete`, `ClearCompletes` and
`ReaderEnds` (liveness under fairness and `ENABLED` are out of the prover's reach),
and what the five violation runs show. Every invariant, action property and
refinement that a passing run checks is also a theorem. No module here declares a recursive operator.

## 6. What is not modelled

- `error.rs` and `lib.rs`: an enum with its texts and conversions, and re-exports. An
  error return is a call that changes nothing, and has no action, except where the
  code fails half done.
- benches, examples and tests: clients of the crate.
- the eight-byte integers and single bytes as values (their calls move the cursors
  like the modelled ones), the rounding of floating-point rates, `memory_usage`.
- the helpers of `stats.rs` that only rename a field or compare a rate.
- what follows `Drop` and `burn_free`: there is no object afterwards.
- weak memory beyond the loads of `stats()`: those are relaxed, as in the code
  (`FastPoolStats`); the reads of `size` in `drop`, `warm` and `clear_thread_cache` are
  sequentially consistent here, and `QueueBound` rests on that.
- a ring of size zero, and lengths near 2^64.
- the lifetime of a pool's `Arc`.
- the bytes that a growing `Vec` leaves behind in the allocator, unzeroed: memory no
  object of the crate owns any more.

## 7. Plan

Done, in this order: the fast pool with its abstract specification and proofs,
its statistics, the ring with its abstract queue and proofs, the standard
pool, the linear buffer, the connection, the strings with their abstract stream,
configuration and rates, and the proofs, of every invariant and refinement.

Next:

1. A composition of `LinearBuffer` with a pool, in which "burned" is what
   `Buffer::burn` leaves and not a bit.
2. More action properties beside `DriftIsLeaks`: which moves a buffer may make, which
   counters only grow. The proofs contain them, and no run states them.
3. The disagreements of section 4 without a run.
