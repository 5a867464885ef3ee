-------------------------- MODULE BufferPoolProofs --------------------------
(***************************************************************************)
(* The mutex-based pool keeps each buffer in one place and its caps, never *)
(* meets a handle on a poisoned lock, and implements SecurePool, whatever  *)
(* its configuration and however many threads and buffers there are.       *)
(*                                                                         *)
(* The vector is reduced first: each step is shown to be one of a few      *)
(* moves of a buffer between sets (Moves).  The rest argues about those.   *)
(***************************************************************************)
EXTENDS BufferPool, FiniteSetTheorems, TLAPS

-----------------------------------------------------------------------------
(* Strings of distinct buffers.                                            *)

\* What pushing a buffer that is not in the vector makes of it (Vec::push).
LEMMA AppendDistinct ==
    ASSUME NEW s \in Seq(Buffers), NEW b \in Buffers, Distinct(s), b \notin Kept(s)
    PROVE  /\ Append(s, b) \in Seq(Buffers) /\ Len(Append(s, b)) = Len(s) + 1
           /\ Distinct(Append(s, b))
           /\ Kept(Append(s, b)) = Kept(s) \cup {b}
  <1> DEFINE r == Append(s, b)
  <1>1. /\ r \in Seq(Buffers) /\ Len(r) = Len(s) + 1 /\ r[Len(s) + 1] = b
        /\ \A i \in 1 .. Len(s) : r[i] = s[i]
    OBVIOUS
  <1>2. DOMAIN r = 1 .. Len(s) + 1 /\ DOMAIN s = 1 .. Len(s) /\ Len(s) \in Nat
    BY <1>1
  <1> HIDE DEF r
  <1>3. Distinct(r)
    BY <1>1, <1>2 DEF Distinct, Kept
  <1>4. Kept(r) = Kept(s) \cup {b}
    <2>1. b \in Kept(r)
      BY <1>1, <1>2 DEF Kept
    <2>2. Kept(s) \subseteq Kept(r)
      BY <1>1, <1>2 DEF Kept
    <2>3. Kept(r) \subseteq Kept(s) \cup {b}
      BY <1>1, <1>2 DEF Kept
    <2> QED BY <2>1, <2>2, <2>3
  <1> QED BY <1>1, <1>3, <1>4 DEF r

\* What cutting the vector to n buffers leaves (Vec::truncate).
LEMMA PrefixDistinct ==
    ASSUME NEW s \in Seq(Buffers), Distinct(s), NEW n \in 0 .. Len(s)
    PROVE  /\ SubSeq(s, 1, n) \in Seq(Buffers) /\ Len(SubSeq(s, 1, n)) = n
           /\ Distinct(SubSeq(s, 1, n))
           /\ Kept(SubSeq(s, 1, n)) \subseteq Kept(s)
  <1> DEFINE r == SubSeq(s, 1, n)
  <1>1. /\ r \in Seq(Buffers) /\ Len(r) = n /\ \A i \in 1 .. n : r[i] = s[i]
    OBVIOUS
  <1>2. DOMAIN r = 1 .. n /\ DOMAIN s = 1 .. Len(s) /\ Len(s) \in Nat
    BY <1>1
  <1> HIDE DEF r
  <1> QED BY <1>1, <1>2 DEF Distinct, Kept, r

\* What popping the last buffer leaves (Vec::pop).
LEMMA PopDistinct ==
    ASSUME NEW s \in Seq(Buffers), Distinct(s), s # << >>
    PROVE  /\ SubSeq(s, 1, Len(s) - 1) \in Seq(Buffers)
           /\ Len(SubSeq(s, 1, Len(s) - 1)) = Len(s) - 1
           /\ Distinct(SubSeq(s, 1, Len(s) - 1))
           /\ s[Len(s)] \in Kept(s)
           /\ Kept(SubSeq(s, 1, Len(s) - 1)) = Kept(s) \ {s[Len(s)]}
  <1> DEFINE n == Len(s) - 1
             r == SubSeq(s, 1, n)
  <1>1. Len(s) \in Nat /\ Len(s) > 0 /\ n \in 0 .. Len(s) /\ DOMAIN s = 1 .. Len(s)
    OBVIOUS
  <1>2. r \in Seq(Buffers) /\ Len(r) = n /\ Distinct(r)
    BY <1>1, PrefixDistinct
  <1>3. DOMAIN r = 1 .. n /\ \A i \in 1 .. n : r[i] = s[i]
    BY <1>1, <1>2
  <1> HIDE DEF r
  <1>4. s[Len(s)] \in Kept(s)
    BY <1>1 DEF Kept
  <1>5. Kept(r) = Kept(s) \ {s[Len(s)]}
    <2>1. \A i \in 1 .. n : s[i] # s[Len(s)]
      BY <1>1 DEF Distinct
    <2>2. Kept(r) \subseteq Kept(s) \ {s[Len(s)]}
      BY <2>1, <1>1, <1>3 DEF Kept
    <2>3. Kept(s) \ {s[Len(s)]} \subseteq Kept(r)
      <3>1. \A m \in Nat : \A i \in 1 .. m : i \in 1 .. m - 1 \/ i = m
        OBVIOUS
      <3> QED BY <3>1, <1>1, <1>3 DEF Kept
    <2> QED BY <2>2, <2>3
  <1> QED BY <1>2, <1>4, <1>5 DEF r

\* What extending the vector by fresh buffers makes of it (the loop of grow).
LEMMA ConcatDistinct ==
    ASSUME NEW s \in Seq(Buffers), Distinct(s), NEW n \in Nat,
           NEW r \in [1 .. n -> Buffers], Distinct(r), Kept(s) \cap Kept(r) = {}
    PROVE  /\ s \o r \in Seq(Buffers) /\ Len(s \o r) = Len(s) + n
           /\ Distinct(s \o r)
           /\ Kept(s \o r) = Kept(s) \cup Kept(r)
  <1> DEFINE c == s \o r
  <1>1. r \in Seq(Buffers) /\ Len(r) = n /\ Len(s) \in Nat
    OBVIOUS
  <1>2. /\ c \in Seq(Buffers) /\ Len(c) = Len(s) + n
        /\ DOMAIN c = 1 .. Len(s) + n /\ DOMAIN s = 1 .. Len(s) /\ DOMAIN r = 1 .. n
    BY <1>1
  <1>3. /\ \A i \in 1 .. Len(s) : c[i] = s[i]
        /\ \A i \in 1 .. n : c[Len(s) + i] = r[i]
    BY <1>1
  <1>4. \A i \in Len(s) + 1 .. Len(s) + n : i - Len(s) \in 1 .. n /\ c[i] = r[i - Len(s)]
    BY <1>1, <1>2
  <1> HIDE DEF c
  <1>5. Distinct(c)
    <2> SUFFICES ASSUME NEW i \in 1 .. Len(s) + n, NEW j \in 1 .. Len(s) + n, c[i] = c[j]
                 PROVE  i = j
      BY <1>2 DEF Distinct
    <2>1. \A k \in 1 .. Len(s), m \in 1 .. n : s[k] # r[m]
      BY <1>2 DEF Kept
    <2>2. CASE i =< Len(s) /\ j =< Len(s)
      BY <2>2, <1>1, <1>2, <1>3 DEF Distinct
    <2>3. CASE i > Len(s) /\ j > Len(s)
      <3>1. r[i - Len(s)] = r[j - Len(s)] /\ i - Len(s) \in 1 .. n /\ j - Len(s) \in 1 .. n
        BY <2>3, <1>1, <1>4
      <3>2. i - Len(s) = j - Len(s)
        BY <3>1, <1>2 DEF Distinct
      <3> QED BY <3>2, <1>1
    <2>4. CASE i =< Len(s) /\ j > Len(s)
      BY <2>4, <2>1, <1>1, <1>3, <1>4
    <2>5. CASE i > Len(s) /\ j =< Len(s)
      BY <2>5, <2>1, <1>1, <1>3, <1>4
    <2> QED BY <2>2, <2>3, <2>4, <2>5, <1>1
  <1>6. Kept(c) = Kept(s) \cup Kept(r)
    <2>1. Kept(c) \subseteq Kept(s) \cup Kept(r)
      <3>1. \A i \in 1 .. Len(s) + n : i \in 1 .. Len(s) \/ i \in Len(s) + 1 .. Len(s) + n
        BY <1>1
      <3> QED BY <3>1, <1>1, <1>2, <1>3, <1>4 DEF Kept
    <2>2. Kept(s) \subseteq Kept(c)
      BY <1>1, <1>2, <1>3 DEF Kept
    <2>3. Kept(r) \subseteq Kept(c)
      <3>1. \A i \in 1 .. n : Len(s) + i \in 1 .. Len(s) + n
        BY <1>1
      <3> QED BY <3>1, <1>2, <1>3 DEF Kept
    <2> QED BY <2>1, <2>2, <2>3
  <1> QED BY <1>2, <1>5, <1>6 DEF c

-----------------------------------------------------------------------------
(* The moves: what a step does to where the buffers are.                   *)

Stay == Kept(buffers)' = Kept(buffers) /\ UNCHANGED <<held, hand, live, dirty>>

KeptToClient(b) == /\ b \in Kept(buffers)
                   /\ Kept(buffers)' = Kept(buffers) \ {b}
                   /\ held' = held \cup {b}
                   /\ UNCHANGED <<hand, live, dirty>>

NoneToClient(b) == /\ b \notin live
                   /\ held' = held \cup {b} /\ live' = live \cup {b}
                   /\ Kept(buffers)' = Kept(buffers) /\ UNCHANGED <<hand, dirty>>

ClientWrites(b) == /\ b \in held
                   /\ dirty' = dirty \cup {b}
                   /\ Kept(buffers)' = Kept(buffers) /\ UNCHANGED <<held, hand, live>>

ClientToHand(t, b) == /\ b \in held /\ hand[t] = None
                      /\ held' = held \ {b} /\ dirty' = dirty \ {b}
                      /\ hand' = [hand EXCEPT ![t] = b]
                      /\ Kept(buffers)' = Kept(buffers) /\ UNCHANGED live

HandToKept(t) == /\ hand[t] # None
                 /\ Kept(buffers)' = Kept(buffers) \cup {hand[t]}
                 /\ hand' = [hand EXCEPT ![t] = None]
                 /\ UNCHANGED <<held, live, dirty>>

HandToNone(t) == /\ hand[t] # None
                 /\ live' = live \ {hand[t]}
                 /\ hand' = [hand EXCEPT ![t] = None]
                 /\ Kept(buffers)' = Kept(buffers) /\ UNCHANGED <<held, dirty>>

ClientToNone(b) == /\ b \in held
                   /\ held' = held \ {b} /\ live' = live \ {b} /\ dirty' = dirty \ {b}
                   /\ Kept(buffers)' = Kept(buffers) /\ UNCHANGED hand

KeptToNone(S) == /\ S \subseteq Kept(buffers)
                 /\ Kept(buffers)' = Kept(buffers) \ S /\ live' = live \ S
                 /\ UNCHANGED <<held, hand, dirty>>

NoneToKept(S) == /\ S \cap live = {}
                 /\ Kept(buffers)' = Kept(buffers) \cup S /\ live' = live \cup S
                 /\ UNCHANGED <<held, hand, dirty>>

Move == \/ Stay
        \/ \E b \in Buffers : KeptToClient(b) \/ NoneToClient(b) \/ ClientWrites(b) \/ ClientToNone(b)
        \/ \E t \in Threads, b \in Buffers : ClientToHand(t, b)
        \/ \E t \in Threads : HandToKept(t) \/ HandToNone(t)
        \/ \E S \in SUBSET Buffers : KeptToNone(S) \/ NoneToKept(S)

\* The invariant: a panic under the lock needs an oversized configuration, and
\* with one there is never a buffer.
Sound == /\ poisoned => oversized
         /\ oversized => live = {}

IInv == TypeOK /\ Partition /\ dirty \subseteq held /\ IdleBound /\ Sound

Vector == buffers \in Seq(Buffers) /\ Distinct(buffers) /\ IdleBound

\* No operation touches the configuration.
LEMMA ConfigFixed ==
    [Next]_vars => /\ config' = config
                   /\ max_pool_size' = max_pool_size /\ min_pool_size' = min_pool_size
                   /\ (oversized' <=> oversized)
  <1>1. [Next]_vars => config' = config
    BY DEF Next, vars, LockPanic, AcquireKept, AcquireFresh, AcquirePanic, Shrink, Clear,
           Truncate, Grow, GrowPanic, Write, DropNow, DropBurn, DropReturn
  <1> QED BY <1>1 DEF max_pool_size, min_pool_size, oversized

\* The sizes are naturals (PoolConfig).
LEMMA SizesOK ==
    ASSUME config \in Configs
    PROVE  max_pool_size \in Nat /\ min_pool_size \in Nat
  <1>1. config \in PoolConfigs
    BY BufferPoolAssumption
  <1> QED BY <1>1 DEF PoolConfigs, max_pool_size, min_pool_size

\* Each critical section is a move, and keeps the vector one of distinct buffers
\* within its bound (BufferPool::acquire, shrink, clear, grow; PooledBuffer::drop).
LEMMA Moves == IInv /\ [Next]_vars => Move /\ Vector'
  <1> SUFFICES ASSUME IInv, [Next]_vars PROVE Move /\ Vector'
    OBVIOUS
  <1>v. Vector /\ Kept(buffers) \subseteq live /\ live \subseteq Buffers /\ Len(buffers) \in Nat
    BY DEF IInv, TypeOK, Partition, Vector
  <1>b. max_pool_size \in Nat /\ min_pool_size \in Nat
    BY SizesOK DEF IInv, TypeOK
  <1>c. max_pool_size' = max_pool_size /\ min_pool_size' = min_pool_size
    BY ConfigFixed
  <1>u. ASSUME UNCHANGED buffers
        PROVE  Vector' /\ Kept(buffers)' = Kept(buffers)
    BY <1>v, <1>u, <1>c DEF Vector, IdleBound, Kept, Distinct
  <1>1. CASE AcquireKept
    <2> DEFINE b == buffers[Len(buffers)]
    <2>1. /\ buffers' \in Seq(Buffers) /\ Len(buffers') = Len(buffers) - 1
          /\ Distinct(buffers') /\ b \in Kept(buffers) /\ Kept(buffers') = Kept(buffers) \ {b}
      BY <1>1, <1>v, PopDistinct DEF AcquireKept, Vector
    <2>2. Vector'
      BY <1>1, <2>1, <1>v, <1>b, <1>c DEF AcquireKept, Vector, IdleBound
    <2>3. KeptToClient(b)
      BY <1>1, <2>1 DEF AcquireKept, KeptToClient, Kept
    <2>4. b \in Buffers
      BY <2>1, <1>v
    <2> QED BY <2>2, <2>3, <2>4 DEF Move
  <1>2. CASE AcquireFresh
    <2>1. PICK b \in Buffers \ live : live' = live \cup {b} /\ held' = held \cup {b}
      BY <1>2 DEF AcquireFresh
    <2>2. Vector' /\ NoneToClient(b)
      BY <1>2, <2>1, <1>u DEF AcquireFresh, NoneToClient
    <2> QED BY <2>2 DEF Move
  <1>3. CASE AcquirePanic \/ LockPanic \/ UNCHANGED vars \/ \E n \in Targets : GrowPanic(n)
    <2>1. UNCHANGED <<buffers, held, hand, live, dirty>>
      BY <1>3 DEF AcquirePanic, LockPanic, GrowPanic, vars
    <2> QED BY <2>1, <1>u DEF Stay, Move
  <1>4. ASSUME NEW n \in Nat, Truncate(n)
        PROVE  Move /\ Vector'
    <2> DEFINE m == Lesser(n, Len(buffers))
    <2>1. m \in 0 .. Len(buffers)
      BY <1>v DEF Lesser
    <2>2. /\ buffers' \in Seq(Buffers) /\ Len(buffers') = m
          /\ Distinct(buffers') /\ Kept(buffers') \subseteq Kept(buffers)
      BY <1>4, <2>1, <1>v, PrefixDistinct DEF Truncate, Vector
    <2>3. Vector'
      BY <1>4, <2>1, <2>2, <1>v, <1>b, <1>c DEF Truncate, Vector, IdleBound
    <2>4. KeptToNone(Kept(buffers) \ Kept(buffers'))
      BY <1>4, <2>2 DEF Truncate, KeptToNone, Kept
    <2>5. Kept(buffers) \ Kept(buffers') \in SUBSET Buffers
      BY <1>v
    <2> QED BY <2>3, <2>4, <2>5 DEF Move
  <1>5. CASE Shrink \/ Clear
    BY <1>4, <1>5, <1>b DEF Shrink, Clear
  <1>6. ASSUME NEW n \in Targets, Grow(n)
        PROVE  Move /\ Vector'
    <2> DEFINE missing == Lesser(n, max_pool_size) - Len(buffers)
    <2>1. n \in Nat /\ missing > 0 /\ missing \in Nat /\ Len(buffers) + missing =< max_pool_size
      BY <1>6, <1>v, <1>b, BufferPoolAssumption DEF Grow, Lesser
    <2>2. PICK s \in Fresh(missing) : buffers' = buffers \o s /\ live' = live \cup Kept(s)
      BY <1>6 DEF Grow
    <2> HIDE DEF missing
    <2>3. s \in [1 .. missing -> Buffers] /\ Distinct(s) /\ Kept(s) \subseteq Buffers \ live
      BY <2>2 DEF Fresh, Kept
    <2>4. /\ buffers' \in Seq(Buffers) /\ Len(buffers') = Len(buffers) + missing
          /\ Distinct(buffers') /\ Kept(buffers') = Kept(buffers) \cup Kept(s)
      BY <2>1, <2>2, <2>3, <1>v, ConcatDistinct DEF Vector
    <2>5. Vector'
      BY <1>6, <2>1, <2>4, <1>v, <1>b, <1>c DEF Grow, Vector, IdleBound
    <2>6. NoneToKept(Kept(s))
      BY <1>6, <2>2, <2>3, <2>4 DEF Grow, NoneToKept, Kept
    <2> QED BY <2>3, <2>5, <2>6 DEF Move
  <1>7. ASSUME NEW b \in Buffers, Write(b) \/ DropNow(b)
        PROVE  Move /\ Vector'
    <2>1. Vector' /\ (ClientWrites(b) \/ ClientToNone(b))
      BY <1>7, <1>u DEF Write, DropNow, Burn, ClientWrites, ClientToNone
    <2> QED BY <2>1 DEF Move
  <1>8. ASSUME NEW t \in Threads, NEW b \in Buffers, DropBurn(t, b)
        PROVE  Move /\ Vector'
    <2>1. Vector' /\ ClientToHand(t, b)
      BY <1>8, <1>u DEF DropBurn, Burn, ClientToHand
    <2> QED BY <2>1 DEF Move
  <1>9. ASSUME NEW t \in Threads, DropReturn(t)
        PROVE  Move /\ Vector'
    <2>1. CASE HasSpace /\ buffers' = Append(buffers, hand[t]) /\ UNCHANGED live
      <3>1. hand[t] \in Buffers /\ hand[t] \notin Kept(buffers)
        BY <1>9 DEF DropReturn, IInv, TypeOK, Partition, Hands
      <3>2. /\ buffers' \in Seq(Buffers) /\ Len(buffers') = Len(buffers) + 1
            /\ Distinct(buffers') /\ Kept(buffers') = Kept(buffers) \cup {hand[t]}
        BY <2>1, <3>1, <1>v, AppendDistinct DEF Vector
      <3>3. Vector'
        BY <1>9, <2>1, <3>2, <1>v, <1>b, <1>c DEF DropReturn, HasSpace, Vector, IdleBound
      <3>4. HandToKept(t)
        BY <1>9, <2>1, <3>2 DEF DropReturn, HandToKept, Kept
      <3> QED BY <3>3, <3>4 DEF Move
    <2>2. CASE ~HasSpace /\ live' = live \ {hand[t]} /\ UNCHANGED buffers
      <3>1. Vector' /\ HandToNone(t)
        BY <1>9, <2>2, <1>u DEF DropReturn, HandToNone
      <3> QED BY <3>1 DEF Move
    <2> QED BY <1>9, <2>1, <2>2 DEF DropReturn
  <1> QED
    BY <1>1, <1>2, <1>3, <1>5, <1>6, <1>7, <1>8, <1>9 DEF Next

-----------------------------------------------------------------------------
(* What the moves keep.                                                    *)

Apart == /\ \A t, u \in Threads : hand[t] = hand[u] => t = u \/ hand[t] = None
         /\ held \cap Kept(buffers) = {} /\ held \cap Hands = {} /\ Hands \cap Kept(buffers) = {}
         /\ live = held \cup Kept(buffers) \cup Hands

SetsOK == /\ live \subseteq Buffers /\ held \subseteq Buffers /\ dirty \subseteq Buffers
          /\ hand \in [Threads -> Buffers \cup {None}]

\* How a burn and a return change the set of buffers in hands.
LEMMA HandsChange ==
    ASSUME SetsOK, Apart, NEW t \in Threads
    PROVE  /\ \A b \in Buffers : hand[t] = None /\ hand' = [hand EXCEPT ![t] = b]
                                  => Hands' = Hands \cup {b}
           /\ hand[t] # None /\ hand' = [hand EXCEPT ![t] = None]
                  => Hands' = Hands \ {hand[t]}
  <1>1. ASSUME NEW b \in Buffers, hand[t] = None, hand' = [hand EXCEPT ![t] = b]
        PROVE  Hands' = Hands \cup {b}
    <2>1. b # None /\ hand'[t] = b /\ \A u \in Threads : u # t => hand'[u] = hand[u]
      BY <1>1, BufferPoolAssumption DEF SetsOK
    <2> QED BY <1>1, <2>1 DEF Hands
  <1>2. ASSUME hand[t] # None, hand' = [hand EXCEPT ![t] = None]
        PROVE  Hands' = Hands \ {hand[t]}
    <2>1. hand'[t] = None /\ \A u \in Threads : u # t => hand'[u] = hand[u] /\ hand[u] # hand[t]
      BY <1>2 DEF SetsOK, Apart
    <2> QED BY <1>2, <2>1 DEF Hands
  <1> QED BY <1>1, <1>2

\* Places stay apart, buffers typed and idle ones burned, whatever the move.
LEMMA MoveKeeps ==
    ASSUME SetsOK, Apart, dirty \subseteq held, Kept(buffers) \subseteq Buffers, Move
    PROVE  SetsOK' /\ Apart' /\ dirty' \subseteq held'
  <1>h. hand' = hand => Hands' = Hands
    BY DEF Hands
  <1>1. CASE Stay
    BY <1>1, <1>h DEF Stay, SetsOK, Apart
  <1>2. ASSUME NEW b \in Buffers,
               KeptToClient(b) \/ NoneToClient(b) \/ ClientWrites(b) \/ ClientToNone(b)
        PROVE  SetsOK' /\ Apart' /\ dirty' \subseteq held'
    <2>1. hand' = hand /\ Hands' = Hands
      BY <1>2, <1>h DEF KeptToClient, NoneToClient, ClientWrites, ClientToNone
    <2>2. CASE KeptToClient(b)
      BY <2>1, <2>2 DEF KeptToClient, SetsOK, Apart
    <2>3. CASE NoneToClient(b)
      BY <2>1, <2>3 DEF NoneToClient, SetsOK, Apart
    <2>4. CASE ClientWrites(b)
      BY <2>1, <2>4 DEF ClientWrites, SetsOK, Apart
    <2>5. CASE ClientToNone(b)
      BY <2>1, <2>5 DEF ClientToNone, SetsOK, Apart
    <2> QED BY <1>2, <2>2, <2>3, <2>4, <2>5
  <1>3. ASSUME NEW t \in Threads, NEW b \in Buffers, ClientToHand(t, b)
        PROVE  SetsOK' /\ Apart' /\ dirty' \subseteq held'
    <2>1. Hands' = Hands \cup {b}
      BY <1>3, HandsChange DEF ClientToHand
    <2>2. SetsOK' /\ dirty' \subseteq held'
      BY <1>3 DEF ClientToHand, SetsOK
    <2>3. \A u \in Threads : hand[u] # b
      BY <1>3, BufferPoolAssumption DEF ClientToHand, Apart, Hands
    <2>4. \A u, v \in Threads : hand'[u] = hand'[v] => u = v \/ hand'[u] = None
      BY <1>3, <2>3 DEF ClientToHand, SetsOK, Apart
    <2> QED BY <1>3, <2>1, <2>2, <2>4 DEF ClientToHand, Apart
  <1>4. ASSUME NEW t \in Threads, HandToKept(t) \/ HandToNone(t)
        PROVE  SetsOK' /\ Apart' /\ dirty' \subseteq held'
    <2>1. Hands' = Hands \ {hand[t]} /\ hand[t] \in Hands
      BY <1>4, HandsChange DEF HandToKept, HandToNone, Hands
    <2>2. SetsOK' /\ dirty' \subseteq held'
      BY <1>4 DEF HandToKept, HandToNone, SetsOK
    <2>3. \A u, v \in Threads : hand'[u] = hand'[v] => u = v \/ hand'[u] = None
      BY <1>4 DEF HandToKept, HandToNone, SetsOK, Apart
    <2> QED BY <1>4, <2>1, <2>2, <2>3 DEF HandToKept, HandToNone, Apart
  <1>5. ASSUME NEW S \in SUBSET Buffers, KeptToNone(S) \/ NoneToKept(S)
        PROVE  SetsOK' /\ Apart' /\ dirty' \subseteq held'
    <2>1. hand' = hand /\ Hands' = Hands
      BY <1>5, <1>h DEF KeptToNone, NoneToKept
    <2>2. CASE KeptToNone(S)
      BY <2>1, <2>2 DEF KeptToNone, SetsOK, Apart
    <2>3. CASE NoneToKept(S)
      BY <2>1, <2>3 DEF NoneToKept, SetsOK, Apart
    <2> QED BY <1>5, <2>2, <2>3
  <1> QED BY <1>1, <1>2, <1>3, <1>4, <1>5 DEF Move

\* A new pool satisfies the invariant (BufferPool::new).
LEMMA InitInv == Init => IInv
  <1> SUFFICES ASSUME Init PROVE IInv
    OBVIOUS
  <1>1. /\ max_pool_size \in Nat /\ min_pool_size \in Nat
        /\ buffers \in Seq(Buffers) /\ Len(buffers) = min_pool_size
    BY SizesOK DEF Init
  <1>2. Hands = {}
    BY DEF Init, Hands
  <1>3. Kept(buffers) \subseteq Buffers
    BY <1>1 DEF Kept
  <1>4. oversized => live = {}
    BY <1>1 DEF Init, Kept
  <1>5. hand \in [Threads -> Buffers \cup {None}] /\ \A t \in Threads : hand[t] = None
    BY DEF Init
  <1>6. TypeOK
    BY <1>1, <1>3, <1>5 DEF Init, TypeOK
  <1>7. Partition
    BY <1>2, <1>5 DEF Init, Partition
  <1> QED BY <1>1, <1>4, <1>6, <1>7 DEF Init, IInv, IdleBound, Sound

\* A step adds buffers only under a configuration that can make them, and a panic
\* under the lock happens only under one that cannot.
LEMMA SoundStep == IInv /\ [Next]_vars => Sound'
  <1> SUFFICES ASSUME IInv, [Next]_vars PROVE Sound'
    OBVIOUS
  <1> USE DEF IInv, Sound
  <1>c. oversized' <=> oversized
    BY ConfigFixed
  <1>1. CASE AcquireKept \/ AcquireFresh \/ AcquirePanic \/ LockPanic \/ UNCHANGED vars
    BY <1>1, <1>c DEF AcquireKept, AcquireFresh, AcquirePanic, LockPanic, vars
  <1>2. CASE Shrink \/ Clear
    BY <1>2, <1>c DEF Shrink, Clear, Truncate
  <1>3. ASSUME NEW n \in Targets, Grow(n) \/ GrowPanic(n) PROVE Sound'
    BY <1>3, <1>c DEF Grow, GrowPanic
  <1>4. ASSUME NEW b \in Buffers, Write(b) \/ DropNow(b) PROVE Sound'
    BY <1>4, <1>c DEF Write, DropNow
  <1>5. ASSUME NEW t \in Threads, NEW b \in Buffers, DropBurn(t, b) PROVE Sound'
    BY <1>5, <1>c DEF DropBurn
  <1>6. ASSUME NEW t \in Threads, DropReturn(t) PROVE Sound'
    BY <1>6, <1>c DEF DropReturn
  <1> QED BY <1>1, <1>2, <1>3, <1>4, <1>5, <1>6 DEF Next

Scalars == /\ config \in Configs /\ poisoned \in BOOLEAN
           /\ total_allocated \in Nat /\ total_acquired \in Nat /\ total_returned \in Nat

\* The configuration, the flag and the totals keep their types.
LEMMA ScalarsStep == Scalars /\ [Next]_vars => Scalars'
  <1> SUFFICES ASSUME Scalars, [Next]_vars PROVE Scalars'
    OBVIOUS
  <1> USE DEF Scalars
  <1>1. CASE AcquireKept \/ AcquireFresh
    BY <1>1 DEF AcquireKept, AcquireFresh
  <1>7. CASE AcquirePanic
    BY <1>7 DEF AcquirePanic
  <1>8. CASE LockPanic \/ UNCHANGED vars
    BY <1>8 DEF LockPanic, vars, totals
  <1>2. CASE Shrink \/ Clear
    BY <1>2 DEF Shrink, Clear, Truncate, totals
  <1>3. ASSUME NEW n \in Targets, Grow(n) \/ GrowPanic(n) PROVE Scalars'
    BY <1>3 DEF Grow, GrowPanic, totals
  <1>4. ASSUME NEW b \in Buffers, Write(b) \/ DropNow(b) PROVE Scalars'
    BY <1>4 DEF Write, DropNow, totals
  <1>5. ASSUME NEW t \in Threads, NEW b \in Buffers, DropBurn(t, b) PROVE Scalars'
    BY <1>5 DEF DropBurn, totals
  <1>6. ASSUME NEW t \in Threads, DropReturn(t) PROVE Scalars'
    BY <1>6 DEF DropReturn, totals
  <1> QED BY <1>1, <1>2, <1>3, <1>4, <1>5, <1>6, <1>7, <1>8 DEF Next

\* Every critical section and every burn keep the invariant.
LEMMA StepInv == IInv /\ [Next]_vars => IInv'
  <1> SUFFICES ASSUME IInv, [Next]_vars PROVE IInv'
    OBVIOUS
  <1>1. Move /\ Vector'
    BY Moves
  <1>2. SetsOK /\ Apart /\ Scalars /\ dirty \subseteq held /\ Kept(buffers) \subseteq Buffers
    BY DEF IInv, TypeOK, Partition, SetsOK, Apart, Scalars
  <1>3. SetsOK' /\ Apart' /\ dirty' \subseteq held'
    BY <1>1, <1>2, MoveKeeps
  <1>4. Scalars' /\ Sound'
    BY <1>2, ScalarsStep, SoundStep
  <1>5. TypeOK'
    BY <1>1, <1>3, <1>4 DEF TypeOK, Vector, SetsOK, Scalars
  <1>6. Partition'
    BY <1>1, <1>3 DEF Partition, Vector, Apart
  <1> QED BY <1>1, <1>3, <1>4, <1>5, <1>6 DEF IInv, Vector

\* The invariant holds in every reachable state of the pool.
LEMMA Invariant == Spec => []IInv
  <1> QED BY InitInv, StepInv, PTL DEF Spec

\* Configuration, totals and the whereabouts of buffers are well typed.
THEOREM TypeCorrect == Spec => []TypeOK
  <1>1. IInv => TypeOK
    BY DEF IInv
  <1> QED BY <1>1, Invariant, PTL

\* Each existing buffer is in one place: in the vector once, with one client, or
\* on its way back (acquire and drop move it).
THEOREM AlwaysPartitioned == Spec => []Partition
  <1>1. IInv => Partition
    BY DEF IInv
  <1> QED BY <1>1, Invariant, PTL

\* The vector never outgrows the larger of the two configured sizes (drop, grow,
\* new and shrink).
THEOREM IdleAlwaysBounded == Spec => []IdleBound
  <1>1. IInv => IdleBound
    BY DEF IInv
  <1> QED BY <1>1, Invariant, PTL

\* No handle exists beside a poisoned lock, so the unwrap in drop never panics.
THEOREM DropAlwaysLocks == Spec => []DropNeverPanics
  <1>1. IInv => DropNeverPanics
    BY DEF IInv, Sound, Partition, DropNeverPanics
  <1> QED BY <1>1, Invariant, PTL

\* A pool made from one of the presets keeps at most max_pool_size buffers and its
\* lock is never poisoned (PoolConfig::default, small, large, network).
THEOREM PresetPoolsSound ==
    Spec => [](config \in Presets => ~poisoned /\ Len(buffers) =< max_pool_size)
  <1>1. ASSUME config \in Presets
        PROVE  ~oversized /\ min_pool_size =< max_pool_size
               /\ min_pool_size \in Nat /\ max_pool_size \in Nat
    <2>1. PICK size \in {8192, 1024, 65536, 1500}, max \in {100, 20, 1000, 500},
               min \in {10, 5, 50, 20} :
               config = Config(size, max, min) /\ min =< max
      BY <1>1 DEF Presets, Default, Small, Large, Network
    <2>2. /\ config.buffer_size = size /\ max_pool_size = max /\ min_pool_size = min
      BY <2>1 DEF Config, max_pool_size, min_pool_size
    <2> QED BY <2>1, <2>2 DEF oversized, Oversized, BUF_MAX_SIZE
  <1>2. IInv => Len(buffers) \in Nat
    BY DEF IInv, TypeOK
  <1>3. IInv /\ config \in Presets => ~poisoned /\ Len(buffers) =< max_pool_size
    BY <1>1, <1>2 DEF IInv, Sound, IdleBound
  <1> QED BY <1>3, Invariant, PTL

\* The sets TotalsCover counts are finite.
LEMMA Counted ==
    IInv => /\ IsFiniteSet(held) /\ Cardinality(held) \in Nat
            /\ IsFiniteSet(Hands) /\ Cardinality(Hands) \in Nat
            /\ total_allocated \in Nat /\ total_acquired \in Nat /\ total_returned \in Nat
  <1> SUFFICES ASSUME IInv
               PROVE  /\ IsFiniteSet(held) /\ Cardinality(held) \in Nat
                      /\ IsFiniteSet(Hands) /\ Cardinality(Hands) \in Nat
                      /\ total_allocated \in Nat /\ total_acquired \in Nat /\ total_returned \in Nat
    OBVIOUS
  <1>1. IsFiniteSet(Buffers)
    BY BufferPoolAssumption
  <1>2. held \in SUBSET Buffers
    BY DEF IInv, TypeOK
  <1>3. Hands \in SUBSET Buffers
    BY DEF IInv, TypeOK, Hands
  <1>4. IsFiniteSet(held) /\ IsFiniteSet(Hands)
    BY <1>1, <1>2, <1>3, FS_Subset
  <1> QED BY <1>4, FS_CardinalityType DEF IInv, TypeOK

Covered ==
    /\ total_returned + Cardinality(held) + Cardinality(Hands) =< total_acquired
    /\ total_allocated =< total_acquired

\* Each way to a handle is counted before it exists and each way back after it is
\* gone (acquire, drop), so the totals never fall behind the handles.
LEMMA TotalsStep == IInv /\ Covered /\ [Next]_vars => Covered'
  <1> SUFFICES ASSUME IInv, Covered, [Next]_vars PROVE Covered'
    OBVIOUS
  <1> DEFINE h == Cardinality(held)
             g == Cardinality(Hands)
  <1>c. /\ IsFiniteSet(held) /\ h \in Nat /\ IsFiniteSet(Hands) /\ g \in Nat
        /\ total_allocated \in Nat /\ total_acquired \in Nat /\ total_returned \in Nat
    BY Counted
  <1>t. total_returned + h + g =< total_acquired /\ total_allocated =< total_acquired
    BY DEF Covered
  <1>p. SetsOK /\ Apart
    BY DEF IInv, TypeOK, Partition, SetsOK, Apart
  <1>h. hand' = hand => Hands' = Hands
    BY DEF Hands
  <1>e. ASSUME UNCHANGED <<held, hand, totals>>
        PROVE  Covered'
    BY <1>e, <1>h, <1>t DEF Covered, totals
  <1>f. ASSUME NEW b, held' = held \cup {b} \/ held' = held, hand' = hand,
               total_returned' = total_returned, total_acquired' = total_acquired + 1,
               total_allocated' = total_allocated \/ total_allocated' = total_allocated + 1
        PROVE  Covered'
    <2>1. Cardinality(held') = h \/ Cardinality(held') = h + 1
      BY <1>f, <1>c, FS_AddElement
    <2>2. Cardinality(Hands') = g
      BY <1>f, <1>h
    <2> HIDE DEF h, g
    <2> QED BY <1>f, <1>c, <1>t, <2>1, <2>2 DEF Covered
  <1>1. CASE AcquireKept \/ AcquireFresh \/ AcquirePanic
    BY <1>1, <1>f DEF AcquireKept, AcquireFresh, AcquirePanic
  <1>2. CASE LockPanic \/ Shrink \/ Clear \/ UNCHANGED vars
    BY <1>2, <1>e DEF LockPanic, Shrink, Clear, Truncate, vars
  <1>3. ASSUME NEW n \in Targets, Grow(n) \/ GrowPanic(n) PROVE Covered'
    BY <1>3, <1>e DEF Grow, GrowPanic
  <1>4. ASSUME NEW b \in Buffers, Write(b) PROVE Covered'
    BY <1>4, <1>e DEF Write
  <1>5. ASSUME NEW b \in Buffers, DropNow(b) PROVE Covered'
    <2>1. Cardinality(held') = h - 1 /\ Hands' = Hands /\ UNCHANGED totals
      BY <1>5, <1>c, <1>h, FS_RemoveElement DEF DropNow
    <2>2. Cardinality(Hands') = g
      BY <2>1
    <2> HIDE DEF h, g
    <2> QED BY <1>c, <1>t, <2>1, <2>2 DEF Covered, totals
  <1>6. ASSUME NEW t \in Threads, NEW b \in Buffers, DropBurn(t, b) PROVE Covered'
    <2>1. Cardinality(held') = h - 1 /\ UNCHANGED totals
      BY <1>6, <1>c, FS_RemoveElement DEF DropBurn
    <2>2. Hands' = Hands \cup {b}
      BY <1>6, <1>p, HandsChange DEF DropBurn
    <2>3. Cardinality(Hands') = g \/ Cardinality(Hands') = g + 1
      BY <2>2, <1>c, FS_AddElement
    <2> HIDE DEF h, g
    <2> QED BY <1>c, <1>t, <2>1, <2>3 DEF Covered, totals
  <1>7. ASSUME NEW t \in Threads, DropReturn(t) PROVE Covered'
    <2>1. /\ held' = held /\ total_returned' = total_returned + 1
          /\ total_acquired' = total_acquired /\ total_allocated' = total_allocated
      BY <1>7 DEF DropReturn
    <2>2. Hands' = Hands \ {hand[t]} /\ hand[t] \in Hands
      BY <1>7, <1>p, HandsChange DEF DropReturn, Hands
    <2>3. Cardinality(Hands') = g - 1
      BY <2>2, <1>c, FS_RemoveElement
    <2>4. Cardinality(held') = h
      BY <2>1
    <2> HIDE DEF h, g
    <2> QED BY <1>c, <1>t, <2>1, <2>3, <2>4 DEF Covered
  <1> QED BY <1>1, <1>2, <1>3, <1>4, <1>5, <1>6, <1>7 DEF Next

\* in_use() and hit_rate() never subtract below zero: the totals always cover the
\* handles, and the allocations (acquire, drop, drop_now, leak, grow).
THEOREM TotalsAlwaysCover == Spec => []TotalsCover
  <1>1. Init => Covered
    <2> SUFFICES ASSUME Init PROVE Covered
      OBVIOUS
    <2>1. held = {} /\ Hands = {}
      BY DEF Init, Hands
    <2> QED BY <2>1, FS_EmptySet DEF Init, Covered
  <1>2. IInv /\ Covered => TotalsCover
    <2> SUFFICES ASSUME IInv, Covered PROVE TotalsCover
      OBVIOUS
    <2> DEFINE h == Cardinality(held)
               g == Cardinality(Hands)
    <2>1. h \in Nat /\ g \in Nat
      BY Counted
    <2>2. total_allocated \in Nat /\ total_acquired \in Nat /\ total_returned \in Nat
      BY Counted
    <2>3. total_returned + h + g =< total_acquired /\ total_allocated =< total_acquired
      BY DEF Covered
    <2> HIDE DEF h, g
    <2>4. in_use = total_acquired - total_returned /\ h + g =< in_use
      BY <2>1, <2>2, <2>3 DEF in_use, Stats!in_use, Stats!saturating_sub
    <2>5. reused = total_acquired - total_allocated
      BY <2>2, <2>3 DEF reused, Stats!hits, Stats!saturating_sub
    <2> QED BY <2>4, <2>5 DEF TotalsCover, h, g
  <1> QED BY <1>1, <1>2, TotalsStep, Invariant, PTL DEF Spec

\* A move is a step of SecurePool, or changes nothing a client can see.
LEMMA SecureStep ==
    ASSUME SetsOK, Apart, dirty \subseteq held, Kept(buffers) \subseteq Buffers, Move
    PROVE  [Secure!Next]_(Secure!vars)
  <1>h. /\ \A b \in Kept(buffers) : b \in live /\ b \notin held /\ b \notin dirty
        /\ \A b \in held : b \in live
        /\ \A t \in Threads : hand[t] # None =>
               hand[t] \in Buffers /\ hand[t] \in live /\ hand[t] \notin held
        /\ \A b \in Buffers : b \notin live => b \notin held /\ b \notin dirty
    BY DEF Apart, Hands, SetsOK
  <1>1. CASE Stay
    BY <1>1 DEF Stay, Secure!vars, Place
  <1>2. ASSUME NEW b \in Buffers, KeptToClient(b)
        PROVE  Secure!Acquire(b)
    BY <1>2, <1>h DEF KeptToClient, Secure!Acquire, Place
  <1>3. ASSUME NEW b \in Buffers, NoneToClient(b)
        PROVE  Secure!Acquire(b)
    BY <1>3, <1>h DEF NoneToClient, Secure!Acquire, Place
  <1>4. ASSUME NEW b \in Buffers, ClientWrites(b)
        PROVE  Secure!Write(b)
    BY <1>4 DEF ClientWrites, Secure!Write, Place
  <1>5. ASSUME NEW b \in Buffers, ClientToNone(b)
        PROVE  Secure!Release(b)
    BY <1>5, <1>h DEF ClientToNone, Secure!Release, Place
  <1>6. ASSUME NEW t \in Threads, NEW b \in Buffers, ClientToHand(t, b)
        PROVE  Secure!Release(b)
    BY <1>6, <1>h DEF ClientToHand, Secure!Release, Place
  <1>7. ASSUME NEW t \in Threads, HandToKept(t)
        PROVE  UNCHANGED Secure!vars
    BY <1>7 DEF HandToKept, Secure!vars, Place
  <1>8. ASSUME NEW t \in Threads, HandToNone(t)
        PROVE  Secure!Reclaim({hand[t]}) /\ {hand[t]} \in SUBSET Buffers
    BY <1>8, <1>h DEF HandToNone, Secure!Reclaim, Place
  <1>9. ASSUME NEW S \in SUBSET Buffers, KeptToNone(S)
        PROVE  Secure!Reclaim(S)
    BY <1>9, <1>h DEF KeptToNone, Secure!Reclaim, Place
  <1>10. ASSUME NEW S \in SUBSET Buffers, NoneToKept(S)
         PROVE  Secure!Stock(S)
    BY <1>10, <1>h DEF NoneToKept, Secure!Stock, Place
  <1> QED
    BY <1>1, <1>2, <1>3, <1>4, <1>5, <1>6, <1>7, <1>8, <1>9, <1>10 DEF Move, Secure!Next

\* BufferPool implements SecurePool: a client only gets a buffer no one else
\* holds and without anyone's bytes.
THEOREM ImplementsSecurePool == Spec => SecureSpec
  <1>1. Init => Secure!Init
    <2> SUFFICES ASSUME Init PROVE Secure!Init
      OBVIOUS
    <2> QED BY DEF Init, Secure!Init, Place
  <1>2. IInv /\ [Next]_vars => [Secure!Next]_(Secure!vars)
    <2> SUFFICES ASSUME IInv, [Next]_vars PROVE [Secure!Next]_(Secure!vars)
      OBVIOUS
    <2>1. SetsOK /\ Apart /\ dirty \subseteq held /\ Kept(buffers) \subseteq Buffers
      BY DEF IInv, TypeOK, Partition, SetsOK, Apart
    <2> QED BY <2>1, Moves, SecureStep
  <1> QED BY <1>1, <1>2, Invariant, PTL DEF Spec, SecureSpec, Secure!Spec
=============================================================================
