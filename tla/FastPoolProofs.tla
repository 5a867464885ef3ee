--------------------------- MODULE FastPoolProofs ---------------------------
(***************************************************************************)
(* Theorems about FastPool, for every number of threads, pools and buffers:*)
(* its types, and where its buffers are: none is shared or lost, none that *)
(* is not held shows client data, and FastPool implements SecurePool.      *)
(*                                                                         *)
(* The twenty actions move buffers in only fourteen ways.  Moves reduces   *)
(* every step to one of them; each invariant is then shown to survive each *)
(* move, without looking at the control state again.                       *)
(***************************************************************************)
EXTENDS FastPool, FiniteSetTheorems, TLAPS

USE FastPoolAssumption DEF FastPoolAssumption

LEMMA CacheGrows ==
    ASSUME NEW t \in Threads, NEW b \in Buffers, TypeOK, CacheHasRoom(t)
    PROVE  Cardinality(cache[t] \cup {b}) =< CacheCap
  <1>1. IsFiniteSet(cache[t])
    BY FS_Subset DEF TypeOK, VarsOK
  <1>2. Cardinality(cache[t]) \in Nat /\ Cardinality(cache[t]) < CacheCap
    BY <1>1, FS_CardinalityType DEF CacheHasRoom
  <1>3. Cardinality(cache[t] \cup {b})
            = IF b \in cache[t] THEN Cardinality(cache[t]) ELSE Cardinality(cache[t]) + 1
    BY <1>1, FS_AddElement
  <1> QED BY <1>2, <1>3

LEMMA CacheShrinks ==
    ASSUME NEW t \in Threads, NEW b \in Buffers, TypeOK
    PROVE  Cardinality(cache[t] \ {b}) =< CacheCap
  <1>1. IsFiniteSet(cache[t]) /\ Cardinality(cache[t]) =< CacheCap
    BY FS_Subset DEF TypeOK, VarsOK
  <1>2. Cardinality(cache[t]) \in Nat
    BY <1>1, FS_CardinalityType
  <1>3. Cardinality(cache[t] \ {b}) =< Cardinality(cache[t]) /\ Cardinality(cache[t] \ {b}) \in Nat
    BY <1>1, FS_Subset, FS_CardinalityType, FS_RemoveElement
  <1> QED BY <1>1, <1>2, <1>3

LEMMA WordType == \A n \in 0 .. Word - 1 : Incr(n) \in 0 .. Word - 1 /\ Decr(n) \in 0 .. Word - 1
  BY DEF Incr, Decr

LEMMA EnterType ==
    ASSUME CallsOK,
           NEW t \in Threads, NEW f \in Operations \cup {"none"}, NEW a \in Labels,
           NEW p \in Pools \cup {None}, NEW b \in Buffers \cup {None},
           NEW n \in 0 .. Word - 1, Enter(t, f, a, p, b, n)
    PROVE  CallsOK'
  BY DEF CallsOK, Enter

LEMMA ReturnType == ASSUME CallsOK, NEW t \in Threads, Return(t) PROVE CallsOK'
  BY DEF CallsOK, Enter, Return, Labels

LEMMA GotoType ==
    ASSUME CallsOK, NEW t \in Threads, NEW a \in Labels, Goto(t, a) PROVE CallsOK'
  BY DEF CallsOK, Goto

LEMMA SameCallsType == ASSUME CallsOK, UNCHANGED call PROVE CallsOK'
  BY DEF CallsOK, call

LEMMA CallFields ==
    ASSUME CallsOK, ControlOK, NEW t \in Threads
    PROVE  /\ fn[t] \in Operations \cup {"none"}
           /\ ~At(t, "idle") => pool[t] \in Pools
           /\ At(t, "sub") \/ At(t, "check") \/ At(t, "push") => buf[t] \in Buffers
           /\ At(t, "fill") => todo[t] - 1 \in 0 .. Word - 1
  BY DEF CallsOK, ControlOK, Carrying, At

LEMMA MissingType ==
    ASSUME VarsOK, NEW p \in Pools, NEW n \in Targets PROVE Missing(p, n) \in 0 .. Word - 1
  BY DEF VarsOK, Missing

LEMMA CallsStep == TypeOK /\ [Next]_vars => CallsOK'
  <1> SUFFICES ASSUME VarsOK, CallsOK, ControlOK, [Next]_vars PROVE CallsOK'
    BY DEF TypeOK
  <1> USE EnterType, ReturnType, GotoType, SameCallsType
  <1> USE DEF Labels, Operations
  <1>1. ASSUME NEW t \in Threads, NEW p \in Pools, Acquire(t, p)
         PROVE  CallsOK'
    BY <1>1 DEF Acquire
  <1>2. ASSUME NEW t \in Threads, NEW p \in Pools, Clear(t, p)
         PROVE  CallsOK'
    BY <1>2 DEF Clear
  <1>3. ASSUME NEW t \in Threads, NEW p \in Pools, ClearThreadCache(t, p)
         PROVE  CallsOK'
    BY <1>3 DEF ClearThreadCache
  <1>4. ASSUME NEW t \in Threads, NEW p \in Pools, NEW n \in Targets, Warm(t, p, n)
         PROVE  CallsOK'
    BY <1>4, MissingType DEF Warm
  <1>5. ASSUME NEW t \in Threads, NEW b \in Buffers, Drop(t, b)
         PROVE  CallsOK'
    BY <1>5 DEF Drop, VarsOK
  <1>6. ASSUME NEW t \in Threads, ThreadExit(t)
         PROVE  CallsOK'
    BY <1>6 DEF ThreadExit
  <1>7. ASSUME NEW t \in Threads, CacheHit(t)
         PROVE  CallsOK'
    BY <1>7 DEF CacheHit
  <1>8. ASSUME NEW t \in Threads, Alloc(t)
         PROVE  CallsOK'
    BY <1>8 DEF Alloc
  <1>9. ASSUME NEW t \in Threads, PopSome(t)
         PROVE  CallsOK'
    <2>1. ~At(t, "idle")
      BY <1>9 DEF PopSome, At, Popping
    <2>2. pool[t] \in Pools /\ fn[t] \in Operations \cup {"none"}
      BY <2>1, CallFields
    <2>3. items[pool[t]] \subseteq Buffers
      BY <2>2 DEF VarsOK
    <2> QED BY <1>9, <2>2, <2>3 DEF PopSome
  <1>10. ASSUME NEW t \in Threads, PopNone(t)
         PROVE  CallsOK'
    BY <1>10 DEF PopNone
  <1>11. ASSUME NEW t \in Threads, FetchSub(t)
         PROVE  CallsOK'
    <2>1. ~At(t, "idle")
      BY <1>11 DEF FetchSub, At
    <2> QED BY <1>11, <2>1, CallFields DEF FetchSub
  <1>12. ASSUME NEW t \in Threads, Check(t)
         PROVE  CallsOK'
    BY <1>12 DEF Check
  <1>13. ASSUME NEW t \in Threads, Push(t)
         PROVE  CallsOK'
    <2>1. ~At(t, "idle")
      BY <1>13 DEF Push, At
    <2> QED BY <1>13, <2>1, CallFields DEF Push
  <1>14. ASSUME NEW t \in Threads, FetchAdd(t)
         PROVE  CallsOK'
    BY <1>14 DEF FetchAdd
  <1>15. ASSUME NEW t \in Threads, Fill(t)
         PROVE  CallsOK'
    <2>1. ~At(t, "idle")
      BY <1>15 DEF Fill, At
    <2> QED BY <1>15, <2>1, CallFields DEF Fill, Unallocated
  <1>16. ASSUME NEW t \in Threads, Spill(t)
         PROVE  CallsOK'
    <2>1. ~At(t, "idle")
      BY <1>16 DEF Spill, At
    <2>2. pool[t] \in Pools /\ cache[t] \subseteq Buffers
      BY <2>1, CallFields DEF VarsOK
    <2> QED BY <1>16, <2>2 DEF Spill
  <1>17. ASSUME NEW t \in Threads, SpillDone(t) \/ AllocPanic(t) \/ FillPanic(t)
         PROVE  CallsOK'
    BY <1>17 DEF SpillDone, AllocPanic, FillPanic
  <1>18. ASSUME NEW b \in Buffers, Write(b) \/ Leak(b) \/ DropNow(b)
         PROVE  CallsOK'
    BY <1>18 DEF Write, Leak, DropNow, call
  <1>19. CASE UNCHANGED vars
    BY <1>19 DEF vars
  <1> QED
    BY <1>1, <1>2, <1>3, <1>4, <1>5, <1>6, <1>7, <1>8, <1>9, <1>10, <1>11, <1>12,
       <1>13, <1>14, <1>15, <1>16, <1>17, <1>18, <1>19 DEF Next, Begin, Step

LEMMA VarsStep == TypeOK /\ [Next]_vars => VarsOK'
  <1> SUFFICES ASSUME VarsOK, CallsOK, ControlOK, [Next]_vars PROVE VarsOK'
    BY DEF TypeOK
  <1> USE WordType DEF VarsOK, CallsOK, ControlOK, Carrying, stats, At, Bump
  <1>1. ASSUME NEW t \in Threads, NEW p \in Pools, Acquire(t, p)
         PROVE  VarsOK'
    BY <1>1 DEF Acquire
  <1>2. ASSUME NEW t \in Threads, NEW p \in Pools, Clear(t, p)
         PROVE  VarsOK'
    BY <1>2 DEF Clear
  <1>3. ASSUME NEW t \in Threads, NEW p \in Pools, ClearThreadCache(t, p)
         PROVE  VarsOK'
    BY <1>3 DEF ClearThreadCache
  <1>4. ASSUME NEW t \in Threads, NEW p \in Pools, NEW n \in Targets, Warm(t, p, n)
         PROVE  VarsOK'
    BY <1>4 DEF Warm
  <1>5. ASSUME NEW t \in Threads, NEW b \in Buffers, Drop(t, b)
         PROVE  VarsOK'
    <2>1. handle[b] \in Pools
      BY <1>5 DEF Drop
    <2>2. /\ returned' \in [Pools -> Nat]
          /\ handle' \in [Buffers -> Pools \cup {None}]
          /\ dirty' \in SUBSET Buffers
      BY <1>5, <2>1 DEF Drop, Burn
    <2>3. cache' \in [Threads -> SUBSET Buffers]
      BY <1>5 DEF Drop
    <2> QED BY <1>5, <2>2, <2>3 DEF Drop
  <1>6. ASSUME NEW t \in Threads, ThreadExit(t)
         PROVE  VarsOK'
    BY <1>6 DEF ThreadExit, Free
  <1>7. ASSUME NEW t \in Threads, CacheHit(t)
         PROVE  VarsOK'
    BY <1>7 DEF CacheHit
  <1>8. ASSUME NEW t \in Threads, Alloc(t)
         PROVE  VarsOK'
    BY <1>8 DEF Alloc, Unallocated
  <1>9. ASSUME NEW t \in Threads, PopSome(t)
         PROVE  VarsOK'
    <2>1. pool[t] \in Pools
      BY <1>9 DEF PopSome, Popping
    <2>2. PICK b \in items[pool[t]] : items' = [items EXCEPT ![pool[t]] = @ \ {b}]
      BY <1>9 DEF PopSome
    <2>3. items' \in [Pools -> SUBSET Buffers]
      BY <2>1, <2>2
    <2> QED BY <1>9, <2>3 DEF PopSome
  <1>10. ASSUME NEW t \in Threads, PopNone(t)
         PROVE  VarsOK'
    BY <1>10 DEF PopNone
  <1>11. ASSUME NEW t \in Threads, FetchSub(t)
         PROVE  VarsOK'
    <2>1. pool[t] \in Pools /\ buf[t] \in Buffers
      BY <1>11 DEF FetchSub
    <2>2. size' \in [Pools -> 0 .. Word - 1]
      BY <1>11, <2>1 DEF FetchSub
    <2>3. handle' \in [Buffers -> Pools \cup {None}]
      BY <1>11, <2>1 DEF FetchSub
    <2>4. home' \in [Buffers -> Pools \cup {None}] /\ dirty' \in SUBSET Buffers
      BY <1>11 DEF FetchSub, Free
    <2> QED BY <1>11, <2>2, <2>3, <2>4 DEF FetchSub
  <1>12. ASSUME NEW t \in Threads, Check(t)
         PROVE  VarsOK'
    BY <1>12 DEF Check, Free
  <1>13. ASSUME NEW t \in Threads, Push(t)
         PROVE  VarsOK'
    BY <1>13 DEF Push
  <1>14. ASSUME NEW t \in Threads, FetchAdd(t)
         PROVE  VarsOK'
    BY <1>14 DEF FetchAdd
  <1>15. ASSUME NEW t \in Threads, Fill(t)
         PROVE  VarsOK'
    BY <1>15 DEF Fill, Unallocated
  <1>16. ASSUME NEW t \in Threads, Spill(t)
         PROVE  VarsOK'
    BY <1>16 DEF Spill, Free
  <1>17. ASSUME NEW t \in Threads, SpillDone(t) \/ AllocPanic(t) \/ FillPanic(t)
         PROVE  VarsOK'
    <2>1. CASE SpillDone(t)
      BY <2>1 DEF SpillDone
    <2>2. CASE AllocPanic(t)
      BY <2>2 DEF AllocPanic
    <2>3. CASE FillPanic(t)
      BY <2>3 DEF FillPanic
    <2> QED BY <1>17, <2>1, <2>2, <2>3
  <1>18. ASSUME NEW b \in Buffers, Write(b) \/ Leak(b) \/ DropNow(b)
         PROVE  VarsOK'
    <2>1. CASE Write(b)
      BY <2>1 DEF Write
    <2>2. CASE Leak(b)
      BY <2>2 DEF Leak, Free
    <2>3. CASE DropNow(b)
      BY <2>3 DEF DropNow, Free
    <2> QED BY <1>18, <2>1, <2>2, <2>3
  <1>19. CASE UNCHANGED vars
    BY <1>19 DEF vars
  <1> QED
    BY <1>1, <1>2, <1>3, <1>4, <1>5, <1>6, <1>7, <1>8, <1>9, <1>10, <1>11, <1>12,
       <1>13, <1>14, <1>15, <1>16, <1>17, <1>18, <1>19 DEF Next, Begin, Step

LEMMA ControlStep == TypeOK /\ [Next]_vars => ControlOK'
  <1> SUFFICES ASSUME VarsOK, CallsOK, ControlOK, [Next]_vars PROVE ControlOK'
    BY DEF TypeOK
  <1> USE DEF VarsOK, CallsOK, ControlOK, Carrying, stats, call, At, Goto, Return, Enter, CanCall
  <1>1. ASSUME NEW t \in Threads, NEW p \in Pools, Acquire(t, p) PROVE ControlOK'
    BY <1>1 DEF Acquire
  <1>2. ASSUME NEW t \in Threads, NEW p \in Pools, Clear(t, p) PROVE ControlOK'
    BY <1>2 DEF Clear
  <1>3. ASSUME NEW t \in Threads, NEW p \in Pools, ClearThreadCache(t, p) PROVE ControlOK'
    BY <1>3 DEF ClearThreadCache
  <1>4. ASSUME NEW t \in Threads, NEW p \in Pools, NEW n \in Targets, Warm(t, p, n) PROVE ControlOK'
    BY <1>4 DEF Warm, Missing
  <1>5. ASSUME NEW t \in Threads, NEW b \in Buffers, Drop(t, b) PROVE ControlOK'
    BY <1>5 DEF Drop, Burn
  <1>6. ASSUME NEW t \in Threads, ThreadExit(t) PROVE ControlOK'
    BY <1>6 DEF ThreadExit, Free
  <1>7. ASSUME NEW t \in Threads, CacheHit(t) PROVE ControlOK'
    BY <1>7 DEF CacheHit
  <1>8. ASSUME NEW t \in Threads, Alloc(t) PROVE ControlOK'
    BY <1>8 DEF Alloc, Unallocated
  <1>9. ASSUME NEW t \in Threads, PopSome(t) PROVE ControlOK'
    BY <1>9 DEF PopSome, Popping
  <1>10. ASSUME NEW t \in Threads, PopNone(t) PROVE ControlOK'
    BY <1>10 DEF PopNone, Popping
  <1>11. ASSUME NEW t \in Threads, FetchSub(t) PROVE ControlOK'
    BY <1>11 DEF FetchSub, Free
  <1>12. ASSUME NEW t \in Threads, Check(t) PROVE ControlOK'
    BY <1>12 DEF Check, Free
  <1>13. ASSUME NEW t \in Threads, Push(t) PROVE ControlOK'
    BY <1>13 DEF Push
  <1>14. ASSUME NEW t \in Threads, FetchAdd(t) PROVE ControlOK'
    BY <1>14 DEF FetchAdd
  <1>15. ASSUME NEW t \in Threads, Fill(t) PROVE ControlOK'
    BY <1>15 DEF Fill, Unallocated
  <1>16. ASSUME NEW t \in Threads, Spill(t) PROVE ControlOK'
    BY <1>16 DEF Spill, Free
  <1>17. ASSUME NEW t \in Threads, SpillDone(t) \/ AllocPanic(t) \/ FillPanic(t) PROVE ControlOK'
    BY <1>17 DEF SpillDone, AllocPanic, FillPanic
  <1>18. ASSUME NEW b \in Buffers, Write(b) \/ Leak(b) \/ DropNow(b) PROVE ControlOK'
    BY <1>18 DEF Write, Leak, DropNow, Free
  <1>19. CASE UNCHANGED vars
    BY <1>19 DEF vars
  <1> QED
    BY <1>1, <1>2, <1>3, <1>4, <1>5, <1>6, <1>7, <1>8, <1>9, <1>10, <1>11, <1>12, <1>13, <1>14, <1>15, <1>16, <1>17, <1>18, <1>19
       DEF Next, Begin, Step

LEMMA CacheStep ==
    ASSUME TypeOK, [Next]_vars
    PROVE  (\A t \in Threads : Cardinality(cache[t]) =< CacheCap)'
  <1> USE DEF TypeOK, VarsOK
  <1>1. ASSUME NEW t \in Threads, CacheHit(t) \/ Spill(t),
               NEW u \in Threads
        PROVE  Cardinality(cache'[u]) =< CacheCap
    <2>1. PICK b \in cache[t] : cache' = [cache EXCEPT ![t] = @ \ {b}]
      BY <1>1 DEF CacheHit, Spill
    <2>2. b \in Buffers
      BY <2>1
    <2>3. cache'[u] = IF u = t THEN cache[t] \ {b} ELSE cache[u]
      BY <2>1
    <2> QED BY <2>2, <2>3, CacheShrinks
  <1>2. ASSUME NEW t \in Threads, NEW b \in Buffers, Drop(t, b), NEW u \in Threads
        PROVE  Cardinality(cache'[u]) =< CacheCap
    <2>1. CASE CacheHasRoom(t)
      <3>1. cache'[u] = IF u = t THEN cache[t] \cup {b} ELSE cache[u]
        BY <1>2, <2>1 DEF Drop
      <3> QED BY <2>1, <3>1, CacheGrows
    <2>2. CASE ~CacheHasRoom(t)
      BY <1>2, <2>2 DEF Drop
    <2> QED BY <2>1, <2>2
  <1>3. ASSUME NEW t \in Threads, ThreadExit(t), NEW u \in Threads
        PROVE  Cardinality(cache'[u]) =< CacheCap
    <2>1. cache'[u] = IF u = t THEN {} ELSE cache[u]
      BY <1>3 DEF ThreadExit
    <2> QED BY <2>1, FS_EmptySet
  <1>4. CASE UNCHANGED cache
    BY <1>4
  <1>5. \/ \E t \in Threads : CacheHit(t) \/ Spill(t) \/ ThreadExit(t)
        \/ \E t \in Threads, b \in Buffers : Drop(t, b)
        \/ UNCHANGED cache
    BY DEF Next, Begin, Step, vars, Acquire, Clear, ClearThreadCache, Warm, Alloc, PopSome,
           PopNone, FetchSub, Check, Push, FetchAdd, Fill, SpillDone, AllocPanic, FillPanic,
           Write, Leak, DropNow
  <1> QED BY <1>1, <1>2, <1>3, <1>4, <1>5

LEMMA TypeInit == Init => TypeOK
  <1> SUFFICES ASSUME Init PROVE TypeOK
    OBVIOUS
  <1>1. VarsOK
    <2>1. items \in [Pools -> SUBSET Buffers] /\ cache \in [Threads -> SUBSET Buffers]
      BY DEF Init
    <2>2. size \in [Pools -> 0 .. Word - 1]
      BY DEF Init
    <2>3. /\ allocated \in [Pools -> Nat] /\ acquired \in [Pools -> Nat]
          /\ returned \in [Pools -> Nat] /\ cache_hits \in [Pools -> Nat]
      BY DEF Init
    <2>4. handle \in [Buffers -> Pools \cup {None}] /\ home \in [Buffers -> Pools \cup {None}]
      BY DEF Init
    <2> QED BY <2>1, <2>2, <2>3, <2>4 DEF Init, VarsOK
  <1>2. CallsOK /\ ControlOK
    <2>1. 0 \in 0 .. Word - 1
      BY FS_CardinalityType
    <2>2. CallsOK
      BY <2>1 DEF Init, CallsOK, Labels
    <2>3. ControlOK
      BY DEF Init, ControlOK, Carrying
    <2> QED BY <2>2, <2>3
  <1>3. \A t \in Threads : Cardinality(cache[t]) =< CacheCap
    BY FS_EmptySet DEF Init
  <1> QED BY <1>1, <1>2, <1>3 DEF TypeOK

LEMMA TypeStep == TypeOK /\ [Next]_vars => TypeOK'
  BY VarsStep, CallsStep, ControlStep, CacheStep DEF TypeOK

\* The counters stay in their word, no thread cache outgrows its capacity and
\* every thread inside an operation has the pool and buffer its step needs.
THEOREM TypeCorrect == Spec => []TypeOK
  BY TypeInit, TypeStep, PTL DEF Spec

HIDE FastPoolAssumption DEF FastPoolAssumption

-----------------------------------------------------------------------------
(* The moves.  Every step of FastPool leaves all buffers where they are or *)
(* moves buffers from one place to one other.                              *)

Stay == UNCHANGED <<items, cache, handle, home, buf, dirty>>

ClientWrites(b) ==
    /\ handle[b] # None /\ dirty' = dirty \cup {b}
    /\ UNCHANGED <<items, cache, handle, home, buf>>

QueueToHand(p, t, b) ==
    /\ b \in items[p] /\ buf[t] = None
    /\ items' = [items EXCEPT ![p] = @ \ {b}]
    /\ buf' = [buf EXCEPT ![t] = b]
    /\ UNCHANGED <<cache, handle, home, dirty>>

HandToQueue(t, p) ==
    /\ buf[t] # None
    /\ items' = [items EXCEPT ![p] = @ \cup {buf[t]}]
    /\ buf' = [buf EXCEPT ![t] = None]
    /\ UNCHANGED <<cache, handle, home, dirty>>

HandToClient(t, p) ==
    /\ buf[t] # None
    /\ handle' = [handle EXCEPT ![buf[t]] = p]
    /\ buf' = [buf EXCEPT ![t] = None]
    /\ UNCHANGED <<items, cache, home, dirty>>

HandToNone(t) ==
    /\ buf[t] # None /\ Free({buf[t]})
    /\ buf' = [buf EXCEPT ![t] = None]
    /\ UNCHANGED <<items, cache, handle>>

CacheToClient(t, p, b) ==
    /\ b \in cache[t]
    /\ cache' = [cache EXCEPT ![t] = @ \ {b}]
    /\ handle' = [handle EXCEPT ![b] = p]
    /\ UNCHANGED <<items, home, buf, dirty>>

CacheToHand(t, b) ==
    /\ b \in cache[t] /\ buf[t] = None
    /\ cache' = [cache EXCEPT ![t] = @ \ {b}]
    /\ buf' = [buf EXCEPT ![t] = b]
    /\ UNCHANGED <<items, handle, home, dirty>>

CacheToNone(t, S) ==
    /\ S \subseteq cache[t] /\ Free(S)
    /\ cache' = [cache EXCEPT ![t] = @ \ S]
    /\ UNCHANGED <<items, handle, buf>>

ClientToCache(t, b) ==
    /\ handle[b] # None /\ dirty' = dirty \ {b}
    /\ handle' = [handle EXCEPT ![b] = None]
    /\ cache' = [cache EXCEPT ![t] = @ \cup {b}]
    /\ UNCHANGED <<items, home, buf>>

ClientToHand(t, b) ==
    /\ handle[b] # None /\ buf[t] = None /\ dirty' = dirty \ {b}
    /\ handle' = [handle EXCEPT ![b] = None]
    /\ buf' = [buf EXCEPT ![t] = b]
    /\ UNCHANGED <<items, cache, home>>

ClientToNone(b) ==
    /\ handle[b] # None /\ Free({b})
    /\ handle' = [handle EXCEPT ![b] = None]
    /\ UNCHANGED <<items, cache, buf>>

NoneToClient(p, b) ==
    /\ home[b] = None
    /\ home' = [home EXCEPT ![b] = p]
    /\ handle' = [handle EXCEPT ![b] = p]
    /\ UNCHANGED <<items, cache, buf, dirty>>

NoneToQueue(p, b) ==
    /\ home[b] = None
    /\ home' = [home EXCEPT ![b] = p]
    /\ items' = [items EXCEPT ![p] = @ \cup {b}]
    /\ UNCHANGED <<cache, handle, buf, dirty>>

Move ==
    \/ Stay
    \/ \E b \in Buffers : ClientWrites(b) \/ ClientToNone(b)
    \/ \E p \in Pools, b \in Buffers : NoneToClient(p, b) \/ NoneToQueue(p, b)
    \/ \E t \in Threads, b \in Buffers :
           ClientToCache(t, b) \/ ClientToHand(t, b) \/ CacheToHand(t, b)
    \/ \E t \in Threads : HandToNone(t) \/ \E S \in SUBSET Buffers : CacheToNone(t, S)
    \/ \E t \in Threads, p \in Pools : HandToQueue(t, p) \/ HandToClient(t, p)
    \/ \E t \in Threads, p \in Pools, b \in Buffers :
           QueueToHand(p, t, b) \/ CacheToClient(t, p, b)

LEMMA BufFields ==
    ASSUME CallsOK, ControlOK, NEW t \in Threads
    PROVE  /\ buf[t] = None <=> at[t] \notin {"sub", "check", "push"}
           /\ at[t] # "idle" => pool[t] \in Pools
           /\ [buf EXCEPT ![t] = buf[t]] = buf
  BY DEF CallsOK, ControlOK, Carrying

LEMMA Moves == TypeOK /\ [Next]_vars => Move
  <1> SUFFICES ASSUME VarsOK, CallsOK, ControlOK, [Next]_vars PROVE Move
    BY DEF TypeOK
  <1> USE BufFields DEF At, Goto, Return, Enter, Stay, call
  <1>1. ASSUME NEW t \in Threads, NEW p \in Pools, Acquire(t, p)
         PROVE  Stay
    BY <1>1 DEF Acquire, CanCall
  <1>2. ASSUME NEW t \in Threads, NEW p \in Pools, Clear(t, p)
         PROVE  Stay
    BY <1>2 DEF Clear, CanCall
  <1>3. ASSUME NEW t \in Threads, NEW p \in Pools, ClearThreadCache(t, p)
         PROVE  Stay
    BY <1>3 DEF ClearThreadCache, CanCall
  <1>4. ASSUME NEW t \in Threads, NEW p \in Pools, NEW n \in Targets, Warm(t, p, n)
         PROVE  Stay
    BY <1>4 DEF Warm, CanCall
  <1>5. ASSUME NEW t \in Threads, PopNone(t)
         PROVE  Stay
    BY <1>5 DEF PopNone, Popping
  <1>6. ASSUME NEW t \in Threads, FetchAdd(t)
         PROVE  Stay
    BY <1>6 DEF FetchAdd
  <1>7. ASSUME NEW t \in Threads, SpillDone(t) \/ AllocPanic(t) \/ FillPanic(t)
         PROVE  Stay
    BY <1>7 DEF SpillDone, AllocPanic, FillPanic
  <1>8. ASSUME NEW t \in Threads, NEW b \in Buffers, Drop(t, b)
         PROVE  ClientToCache(t, b) \/ ClientToHand(t, b)
    BY <1>8 DEF Drop, Burn, CanCall, ClientToCache, ClientToHand
  <1>9. ASSUME NEW t \in Threads, ThreadExit(t)
         PROVE  \E S \in SUBSET Buffers : CacheToNone(t, S)
    <2>1. cache[t] \in SUBSET Buffers /\ cache[t] \ cache[t] = {}
      BY DEF VarsOK
    <2>2. CacheToNone(t, cache[t])
      BY <1>9, <2>1 DEF ThreadExit, CacheToNone
    <2> QED BY <2>1, <2>2
  <1>10. ASSUME NEW t \in Threads, CacheHit(t)
         PROVE  \E p \in Pools, b \in Buffers : CacheToClient(t, p, b)
    BY <1>10 DEF CacheHit, CacheToClient, VarsOK
  <1>11. ASSUME NEW t \in Threads, Alloc(t)
         PROVE  \E p \in Pools, b \in Buffers : NoneToClient(p, b)
    BY <1>11 DEF Alloc, Unallocated, NoneToClient
  <1>12. ASSUME NEW t \in Threads, PopSome(t)
         PROVE  \E p \in Pools, b \in Buffers : QueueToHand(p, t, b)
    BY <1>12 DEF PopSome, Popping, QueueToHand, VarsOK
  <1>13. ASSUME NEW t \in Threads, FetchSub(t)
         PROVE  HandToNone(t) \/ \E p \in Pools : HandToClient(t, p)
    BY <1>13 DEF FetchSub, HandToClient, HandToNone
  <1>14. ASSUME NEW t \in Threads, Check(t)
         PROVE  Stay \/ HandToNone(t)
    BY <1>14 DEF Check, HandToNone
  <1>15. ASSUME NEW t \in Threads, Push(t)
         PROVE  \E p \in Pools : HandToQueue(t, p)
    BY <1>15 DEF Push, HandToQueue
  <1>16. ASSUME NEW t \in Threads, Fill(t)
         PROVE  \E p \in Pools, b \in Buffers : NoneToQueue(p, b)
    BY <1>16 DEF Fill, Unallocated, NoneToQueue
  <1>17. ASSUME NEW t \in Threads, Spill(t)
         PROVE  \/ \E b \in Buffers : CacheToHand(t, b)
                \/ \E S \in SUBSET Buffers : CacheToNone(t, S)
    BY <1>17 DEF Spill, CacheToHand, CacheToNone, VarsOK
  <1>18. ASSUME NEW b \in Buffers, Write(b)
         PROVE  ClientWrites(b)
    BY <1>18 DEF Write, ClientWrites, call
  <1>19. ASSUME NEW b \in Buffers, Leak(b) \/ DropNow(b)
         PROVE  ClientToNone(b)
    BY <1>19 DEF Leak, DropNow, ClientToNone, call
  <1>20. CASE UNCHANGED vars
    BY <1>20 DEF vars, Move
  <1> QED
    BY <1>1, <1>2, <1>3, <1>4, <1>5, <1>6, <1>7, <1>8, <1>9, <1>10, <1>11, <1>12,
       <1>13, <1>14, <1>15, <1>16, <1>17, <1>18, <1>19, <1>20 DEF Next, Begin, Step, Move

LEMMA PlaceFields ==
    ASSUME VarsOK, CallsOK
    PROVE  /\ \A p \in Pools : \A b \in items[p] : b \in Buffers
           /\ \A t \in Threads : \A b \in cache[t] : b \in Buffers
           /\ \A t \in Threads : buf[t] # None => buf[t] \in Buffers
           /\ \A p \in Pools : p # None
           /\ \A b \in Buffers : b # None
  <1>1. \A p \in Pools : \A b \in items[p] : b \in Buffers
    BY DEF VarsOK
  <1>2. \A t \in Threads : \A b \in cache[t] : b \in Buffers
    BY DEF VarsOK
  <1>3. \A t \in Threads : buf[t] # None => buf[t] \in Buffers
    BY DEF CallsOK
  <1>4. None \notin Pools /\ None \notin Buffers
    BY FastPoolAssumption DEF FastPoolAssumption
  <1> QED BY <1>1, <1>2, <1>3, <1>4

Kept == \A b \in Buffers : home[b] # None => Somewhere(b)

LEMMA PlacedIdleMove ==
    ASSUME VarsOK, CallsOK, PlacedIdle, Apart, Move
    PROVE  PlacedIdle'
  <1> USE PlaceFields DEF VarsOK, CallsOK, PlacedIdle, Apart
  <1>1. ASSUME Stay PROVE PlacedIdle'
    BY <1>1 DEF Stay
  <1>2. ASSUME NEW b \in Buffers, ClientWrites(b) PROVE PlacedIdle'
    BY <1>2 DEF ClientWrites
  <1>3. ASSUME NEW b \in Buffers, ClientToNone(b) PROVE PlacedIdle'
    BY <1>3 DEF ClientToNone, Free
  <1>4. ASSUME NEW p \in Pools, NEW b \in Buffers, NoneToClient(p, b) PROVE PlacedIdle'
    BY <1>4 DEF NoneToClient
  <1>5. ASSUME NEW p \in Pools, NEW b \in Buffers, NoneToQueue(p, b) PROVE PlacedIdle'
    BY <1>5 DEF NoneToQueue
  <1>6. ASSUME NEW t \in Threads, NEW b \in Buffers, ClientToCache(t, b) PROVE PlacedIdle'
    BY <1>6 DEF ClientToCache
  <1>7. ASSUME NEW t \in Threads, NEW b \in Buffers, ClientToHand(t, b) PROVE PlacedIdle'
    BY <1>7 DEF ClientToHand
  <1>8. ASSUME NEW t \in Threads, NEW b \in Buffers, CacheToHand(t, b) PROVE PlacedIdle'
    BY <1>8 DEF CacheToHand
  <1>9. ASSUME NEW t \in Threads, HandToNone(t) PROVE PlacedIdle'
    BY <1>9 DEF HandToNone, Free
  <1>10. ASSUME NEW t \in Threads, NEW S \in SUBSET Buffers, CacheToNone(t, S) PROVE PlacedIdle'
    BY <1>10 DEF CacheToNone, Free
  <1>11. ASSUME NEW t \in Threads, NEW p \in Pools, HandToQueue(t, p) PROVE PlacedIdle'
    BY <1>11 DEF HandToQueue
  <1>12. ASSUME NEW t \in Threads, NEW p \in Pools, HandToClient(t, p) PROVE PlacedIdle'
    BY <1>12 DEF HandToClient
  <1>13. ASSUME NEW t \in Threads, NEW p \in Pools, NEW b \in Buffers, QueueToHand(p, t, b) PROVE PlacedIdle'
    BY <1>13 DEF QueueToHand
  <1>14. ASSUME NEW t \in Threads, NEW p \in Pools, NEW b \in Buffers, CacheToClient(t, p, b) PROVE PlacedIdle'
    BY <1>14 DEF CacheToClient
  <1> QED BY <1>1, <1>2, <1>3, <1>4, <1>5, <1>6, <1>7, <1>8, <1>9, <1>10, <1>11, <1>12, <1>13, <1>14 DEF Move

LEMMA ApartMove ==
    ASSUME VarsOK, CallsOK, PlacedIdle, Apart, Move
    PROVE  Apart'
  <1> USE PlaceFields DEF VarsOK, CallsOK, PlacedIdle, Apart
  <1>1. ASSUME Stay PROVE Apart'
    BY <1>1 DEF Stay
  <1>2. ASSUME NEW b \in Buffers, ClientWrites(b) PROVE Apart'
    BY <1>2 DEF ClientWrites
  <1>3. ASSUME NEW b \in Buffers, ClientToNone(b) PROVE Apart'
    BY <1>3 DEF ClientToNone, Free
  <1>4. ASSUME NEW p \in Pools, NEW b \in Buffers, NoneToClient(p, b) PROVE Apart'
    BY <1>4 DEF NoneToClient
  <1>5. ASSUME NEW p \in Pools, NEW b \in Buffers, NoneToQueue(p, b) PROVE Apart'
    BY <1>5 DEF NoneToQueue
  <1>6. ASSUME NEW t \in Threads, NEW b \in Buffers, ClientToCache(t, b) PROVE Apart'
    BY <1>6 DEF ClientToCache
  <1>7. ASSUME NEW t \in Threads, NEW b \in Buffers, ClientToHand(t, b) PROVE Apart'
    BY <1>7 DEF ClientToHand
  <1>8. ASSUME NEW t \in Threads, NEW b \in Buffers, CacheToHand(t, b) PROVE Apart'
    BY <1>8 DEF CacheToHand
  <1>9. ASSUME NEW t \in Threads, HandToNone(t) PROVE Apart'
    BY <1>9 DEF HandToNone, Free
  <1>10. ASSUME NEW t \in Threads, NEW S \in SUBSET Buffers, CacheToNone(t, S) PROVE Apart'
    BY <1>10 DEF CacheToNone, Free
  <1>11. ASSUME NEW t \in Threads, NEW p \in Pools, HandToQueue(t, p) PROVE Apart'
    BY <1>11 DEF HandToQueue
  <1>12. ASSUME NEW t \in Threads, NEW p \in Pools, HandToClient(t, p) PROVE Apart'
    BY <1>12 DEF HandToClient
  <1>13. ASSUME NEW t \in Threads, NEW p \in Pools, NEW b \in Buffers, QueueToHand(p, t, b) PROVE Apart'
    BY <1>13 DEF QueueToHand
  <1>14. ASSUME NEW t \in Threads, NEW p \in Pools, NEW b \in Buffers, CacheToClient(t, p, b) PROVE Apart'
    BY <1>14 DEF CacheToClient
  <1> QED BY <1>1, <1>2, <1>3, <1>4, <1>5, <1>6, <1>7, <1>8, <1>9, <1>10, <1>11, <1>12, <1>13, <1>14 DEF Move

LEMMA KeptMove ==
    ASSUME VarsOK, CallsOK, Kept, Move
    PROVE  Kept'
  <1> USE PlaceFields DEF VarsOK, CallsOK, Kept, Somewhere
  <1>1. ASSUME Stay PROVE Kept'
    BY <1>1 DEF Stay
  <1>2. ASSUME NEW b \in Buffers, ClientWrites(b) PROVE Kept'
    BY <1>2 DEF ClientWrites
  <1>3. ASSUME NEW b \in Buffers, ClientToNone(b) PROVE Kept'
    BY <1>3 DEF ClientToNone, Free
  <1>4. ASSUME NEW p \in Pools, NEW b \in Buffers, NoneToClient(p, b) PROVE Kept'
    BY <1>4 DEF NoneToClient
  <1>5. ASSUME NEW p \in Pools, NEW b \in Buffers, NoneToQueue(p, b) PROVE Kept'
    BY <1>5 DEF NoneToQueue
  <1>6. ASSUME NEW t \in Threads, NEW b \in Buffers, ClientToCache(t, b) PROVE Kept'
    BY <1>6 DEF ClientToCache
  <1>7. ASSUME NEW t \in Threads, NEW b \in Buffers, ClientToHand(t, b) PROVE Kept'
    BY <1>7 DEF ClientToHand
  <1>8. ASSUME NEW t \in Threads, NEW b \in Buffers, CacheToHand(t, b) PROVE Kept'
    BY <1>8 DEF CacheToHand
  <1>9. ASSUME NEW t \in Threads, HandToNone(t) PROVE Kept'
    BY <1>9 DEF HandToNone, Free
  <1>10. ASSUME NEW t \in Threads, NEW S \in SUBSET Buffers, CacheToNone(t, S) PROVE Kept'
    BY <1>10 DEF CacheToNone, Free
  <1>11. ASSUME NEW t \in Threads, NEW p \in Pools, HandToQueue(t, p) PROVE Kept'
    BY <1>11 DEF HandToQueue
  <1>12. ASSUME NEW t \in Threads, NEW p \in Pools, HandToClient(t, p) PROVE Kept'
    BY <1>12 DEF HandToClient
  <1>13. ASSUME NEW t \in Threads, NEW p \in Pools, NEW b \in Buffers, QueueToHand(p, t, b) PROVE Kept'
    BY <1>13 DEF QueueToHand
  <1>14. ASSUME NEW t \in Threads, NEW p \in Pools, NEW b \in Buffers, CacheToClient(t, p, b) PROVE Kept'
    BY <1>14 DEF CacheToClient
  <1> QED BY <1>1, <1>2, <1>3, <1>4, <1>5, <1>6, <1>7, <1>8, <1>9, <1>10, <1>11, <1>12, <1>13, <1>14 DEF Move

LEMMA BurnedMove ==
    ASSUME VarsOK, CallsOK, IdleBuffersBurned, Move
    PROVE  IdleBuffersBurned'
  <1> USE PlaceFields DEF VarsOK, CallsOK, IdleBuffersBurned, Held
  <1>1. ASSUME Stay PROVE IdleBuffersBurned'
    BY <1>1 DEF Stay
  <1>2. ASSUME NEW b \in Buffers, ClientWrites(b) PROVE IdleBuffersBurned'
    BY <1>2 DEF ClientWrites
  <1>3. ASSUME NEW b \in Buffers, ClientToNone(b) PROVE IdleBuffersBurned'
    BY <1>3 DEF ClientToNone, Free
  <1>4. ASSUME NEW p \in Pools, NEW b \in Buffers, NoneToClient(p, b) PROVE IdleBuffersBurned'
    BY <1>4 DEF NoneToClient
  <1>5. ASSUME NEW p \in Pools, NEW b \in Buffers, NoneToQueue(p, b) PROVE IdleBuffersBurned'
    BY <1>5 DEF NoneToQueue
  <1>6. ASSUME NEW t \in Threads, NEW b \in Buffers, ClientToCache(t, b) PROVE IdleBuffersBurned'
    BY <1>6 DEF ClientToCache
  <1>7. ASSUME NEW t \in Threads, NEW b \in Buffers, ClientToHand(t, b) PROVE IdleBuffersBurned'
    BY <1>7 DEF ClientToHand
  <1>8. ASSUME NEW t \in Threads, NEW b \in Buffers, CacheToHand(t, b) PROVE IdleBuffersBurned'
    BY <1>8 DEF CacheToHand
  <1>9. ASSUME NEW t \in Threads, HandToNone(t) PROVE IdleBuffersBurned'
    BY <1>9 DEF HandToNone, Free
  <1>10. ASSUME NEW t \in Threads, NEW S \in SUBSET Buffers, CacheToNone(t, S) PROVE IdleBuffersBurned'
    BY <1>10 DEF CacheToNone, Free
  <1>11. ASSUME NEW t \in Threads, NEW p \in Pools, HandToQueue(t, p) PROVE IdleBuffersBurned'
    BY <1>11 DEF HandToQueue
  <1>12. ASSUME NEW t \in Threads, NEW p \in Pools, HandToClient(t, p) PROVE IdleBuffersBurned'
    BY <1>12 DEF HandToClient
  <1>13. ASSUME NEW t \in Threads, NEW p \in Pools, NEW b \in Buffers, QueueToHand(p, t, b) PROVE IdleBuffersBurned'
    BY <1>13 DEF QueueToHand
  <1>14. ASSUME NEW t \in Threads, NEW p \in Pools, NEW b \in Buffers, CacheToClient(t, p, b) PROVE IdleBuffersBurned'
    BY <1>14 DEF CacheToClient
  <1> QED BY <1>1, <1>2, <1>3, <1>4, <1>5, <1>6, <1>7, <1>8, <1>9, <1>10, <1>11, <1>12, <1>13, <1>14 DEF Move

LEMMA SecureStep ==
    ASSUME VarsOK, CallsOK, NoSharing, IdleBuffersBurned, Move
    PROVE  [Secure!Next]_(Secure!vars)
  <1> USE PlaceFields DEF VarsOK, CallsOK, NoSharing, PlacedIdle, Apart, IdleBuffersBurned, Held,
                     Place, Secure!vars
  <1>1. ASSUME Stay
         PROVE  UNCHANGED Secure!vars
    BY <1>1 DEF Stay
  <1>2. ASSUME NEW b \in Buffers, ClientWrites(b)
         PROVE  Secure!Write(b)
    BY <1>2 DEF ClientWrites, Secure!Write
  <1>3. ASSUME NEW b \in Buffers, ClientToNone(b)
         PROVE  Secure!Release(b)
    BY <1>3 DEF ClientToNone, Free, Secure!Release
  <1>4. ASSUME NEW p \in Pools, NEW b \in Buffers, NoneToClient(p, b)
         PROVE  Secure!Acquire(b)
    BY <1>4 DEF NoneToClient, Secure!Acquire
  <1>5. ASSUME NEW p \in Pools, NEW b \in Buffers, NoneToQueue(p, b)
         PROVE  \E S \in SUBSET Buffers : Secure!Stock(S)
    <2>1. Secure!Stock({b})
      BY <1>5 DEF NoneToQueue, Secure!Stock
    <2> QED BY <2>1
  <1>6. ASSUME NEW t \in Threads, NEW b \in Buffers, ClientToCache(t, b)
         PROVE  Secure!Release(b)
    BY <1>6 DEF ClientToCache, Secure!Release
  <1>7. ASSUME NEW t \in Threads, NEW b \in Buffers, ClientToHand(t, b)
         PROVE  Secure!Release(b)
    BY <1>7 DEF ClientToHand, Secure!Release
  <1>8. ASSUME NEW t \in Threads, NEW b \in Buffers, CacheToHand(t, b)
         PROVE  UNCHANGED Secure!vars
    BY <1>8 DEF CacheToHand
  <1>9. ASSUME NEW t \in Threads, HandToNone(t)
         PROVE  \E S \in SUBSET Buffers : Secure!Reclaim(S)
    <2>1. PICK b \in Buffers : b = buf[t]
      BY <1>9 DEF HandToNone
    <2>2. Secure!Reclaim({b})
      BY <1>9, <2>1 DEF HandToNone, Free, Secure!Reclaim
    <2> QED BY <2>2
  <1>10. ASSUME NEW t \in Threads, NEW S \in SUBSET Buffers, CacheToNone(t, S)
         PROVE  Secure!Reclaim(S)
    BY <1>10 DEF CacheToNone, Free, Secure!Reclaim
  <1>11. ASSUME NEW t \in Threads, NEW p \in Pools, HandToQueue(t, p)
         PROVE  UNCHANGED Secure!vars
    BY <1>11 DEF HandToQueue
  <1>12. ASSUME NEW t \in Threads, NEW p \in Pools, HandToClient(t, p)
         PROVE  \E b \in Buffers : Secure!Acquire(b)
    <2>1. PICK b \in Buffers : b = buf[t]
      BY <1>12 DEF HandToClient
    <2>2. Secure!Acquire(b)
      BY <1>12, <2>1 DEF HandToClient, Secure!Acquire
    <2> QED BY <2>2
  <1>13. ASSUME NEW t \in Threads, NEW p \in Pools, NEW b \in Buffers, QueueToHand(p, t, b)
         PROVE  UNCHANGED Secure!vars
    BY <1>13 DEF QueueToHand
  <1>14. ASSUME NEW t \in Threads, NEW p \in Pools, NEW b \in Buffers, CacheToClient(t, p, b)
         PROVE  Secure!Acquire(b)
    BY <1>14 DEF CacheToClient, Secure!Acquire
  <1> HIDE DEF VarsOK, CallsOK, NoSharing, PlacedIdle, Apart, IdleBuffersBurned, Held, Place,
               Secure!vars
  <1>15. Secure!Next \/ UNCHANGED Secure!vars
    BY <1>1, <1>2, <1>3, <1>4, <1>5, <1>6, <1>7, <1>8, <1>9, <1>10, <1>11, <1>12, <1>13, <1>14
       DEF Move, Secure!Next
  <1> QED BY <1>15

OwnershipInv == TypeOK /\ NoSharing /\ IdleBuffersBurned

LEMMA OwnershipInit == Init => OwnershipInv
  <1> SUFFICES ASSUME Init PROVE NoSharing /\ IdleBuffersBurned
    BY TypeInit DEF OwnershipInv
  <1>1. PlacedIdle /\ Apart
    BY FastPoolAssumption DEF FastPoolAssumption, Init, PlacedIdle, Apart
  <1>2. \A b \in Buffers : home[b] # None => Somewhere(b)
    BY DEF Init, Somewhere
  <1> QED BY <1>1, <1>2 DEF Init, NoSharing, IdleBuffersBurned

LEMMA OwnershipStep == OwnershipInv /\ [Next]_vars => OwnershipInv'
  <1> SUFFICES ASSUME OwnershipInv, [Next]_vars PROVE NoSharing' /\ IdleBuffersBurned'
    BY TypeStep DEF OwnershipInv
  <1>1. Move /\ VarsOK /\ CallsOK
    BY Moves DEF OwnershipInv, TypeOK
  <1> QED
    BY <1>1, PlacedIdleMove, ApartMove, KeptMove, BurnedMove
       DEF OwnershipInv, NoSharing, Kept

\* Whatever the threads do, a buffer is in one place only: two clients never
\* hold the same buffer, and no pool hands out a buffer a client still holds.
THEOREM NeverShared == Spec => []NoSharing
  <1>1. OwnershipInv => NoSharing
    BY DEF OwnershipInv
  <1> QED BY <1>1, OwnershipInit, OwnershipStep, PTL DEF Spec

\* No buffer in a queue, a cache or on its way between them shows client data.
THEOREM AlwaysBurned == Spec => []IdleBuffersBurned
  <1>1. OwnershipInv => IdleBuffersBurned
    BY DEF OwnershipInv
  <1> QED BY <1>1, OwnershipInit, OwnershipStep, PTL DEF Spec

\* FastPool implements SecurePool: each of its steps is one of SecurePool's or
\* leaves the abstract pool unchanged, so every client is given clean buffers.
THEOREM ImplementsSecurePool == Spec => SecureSpec
  <1>1. Init => Secure!Init
    BY DEF Init, Secure!Init, Place
  <1>2. OwnershipInv /\ [Next]_vars => [Secure!Next]_(Secure!vars)
    BY Moves, SecureStep DEF OwnershipInv, TypeOK
  <1> QED
    BY <1>1, <1>2, OwnershipInit, OwnershipStep, PTL DEF Spec, SecureSpec, Secure!Spec
=============================================================================
