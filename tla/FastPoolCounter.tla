--------------------------- MODULE FastPoolCounter ---------------------------
(***************************************************************************)
(* The counters of FastPool.                                               *)
(*                                                                         *)
(* Modulo the word the length counter of a queue is the queue's length,    *)
(* less the increments and plus the decrements that threads still owe; so  *)
(* it cannot drift, and is exact whenever no thread is inside an operation.*)
(* The cap that operations check against it is overshot only by what other *)
(* threads had decided to push.  The statistics never count fewer acquires *)
(* than there are handles, nor fewer than allocations and cache hits, and  *)
(* drift from the handles by leaks and panics alone; the snapshots of      *)
(* stats() keep of this what relaxed loads leave.                          *)
(***************************************************************************)
EXTENDS FastPoolProofs, FastPoolStats, RecursionTheorems

Owed(p) == Cardinality(items[p]) - Cardinality(Adding(p)) + Cardinality(Subtracting(p))

\* The inductive form of CounterTracksQueue.
Congruent == \A p \in Pools : \E k \in Int : size[p] = Owed(p) + k * Word

CounterInv == OwnershipInv /\ Congruent

LEMMA FiniteParts ==
    ASSUME VarsOK, NEW p \in Pools
    PROVE  /\ IsFiniteSet(items[p]) /\ Cardinality(items[p]) \in Nat
           /\ Cardinality(items[p]) =< Cardinality(Buffers)
           /\ IsFiniteSet(Adding(p)) /\ Cardinality(Adding(p)) \in Nat
           /\ IsFiniteSet(Subtracting(p)) /\ Cardinality(Subtracting(p)) \in Nat
  <1>1. items[p] \subseteq Buffers
    BY DEF VarsOK
  <1>2. Adding(p) \subseteq Threads /\ Subtracting(p) \subseteq Threads
    BY DEF Adding, Subtracting
  <1>3. IsFiniteSet(Threads) /\ IsFiniteSet(Buffers)
    BY FastPoolAssumption DEF FastPoolAssumption
  <1>4. IsFiniteSet(items[p]) /\ Cardinality(items[p]) =< Cardinality(Buffers)
    BY <1>1, <1>3, FS_Subset
  <1>5. IsFiniteSet(Adding(p)) /\ IsFiniteSet(Subtracting(p))
    BY <1>2, <1>3, FS_Subset
  <1> QED BY <1>4, <1>5, FS_CardinalityType

LEMMA WordArithmetic ==
    ASSUME NEW n \in 0 .. Word - 1
    PROVE  /\ Word \in Nat /\ Word > 0
           /\ Incr(n) = n + 1 \/ Incr(n) = n + 1 - Word
           /\ Decr(n) = n - 1 \/ Decr(n) = n - 1 + Word
  <1>1. Word \in Nat /\ Word > 0
    BY FastPoolAssumption DEF FastPoolAssumption
  <1>2. Incr(n) = IF n = Word - 1 THEN 0 ELSE n + 1
    BY <1>1 DEF Incr
  <1>3. Decr(n) = IF n = 0 THEN Word - 1 ELSE n - 1
    BY <1>1 DEF Decr
  <1> QED BY <1>1, <1>2, <1>3

\* A step that changes no counter, no queue, and no debt.
Quiet == /\ UNCHANGED <<items, size>>
         /\ \A p \in Pools : Adding(p)' = Adding(p) /\ Subtracting(p)' = Subtracting(p)

\* Thread t comes to the step a on pool p.
Steer(t, p, a) == at' = [at EXCEPT ![t] = a] /\ pool' = [pool EXCEPT ![t] = p]

LEMMA SteerQuiet ==
    ASSUME CallsOK, NEW t \in Threads, NEW p, NEW a, Steer(t, p, a),
           at[t] \notin {"add", "sub"}, a \notin {"add", "sub"}, UNCHANGED <<items, size>>
    PROVE  Quiet
  BY DEF CallsOK, Quiet, Steer, Adding, Subtracting, At

LEMMA EnterSteers ==
    ASSUME CallsOK, NEW t \in Threads
    PROVE  /\ \A f, a, p, b, n : Enter(t, f, a, p, b, n) => Steer(t, p, a)
           /\ Return(t) => Steer(t, None, "idle")
           /\ \A a : Goto(t, a) => Steer(t, pool[t], a)
  BY DEF CallsOK, Enter, Return, Goto, Steer

LEMMA QuietSteps ==
    ASSUME VarsOK, CallsOK, ControlOK, [Next]_vars
    PROVE  \/ Quiet
           \/ \E t \in Threads : PopSome(t) \/ FetchSub(t) \/ Push(t) \/ FetchAdd(t) \/ Fill(t)
  <1> USE EnterSteers, SteerQuiet DEF At
  <1>1. ASSUME NEW t \in Threads, NEW p \in Pools, Acquire(t, p) PROVE Quiet
    BY <1>1 DEF Acquire, CanCall
  <1>2. ASSUME NEW t \in Threads, NEW p \in Pools, Clear(t, p) PROVE Quiet
    BY <1>2 DEF Clear, CanCall
  <1>3. ASSUME NEW t \in Threads, NEW p \in Pools, ClearThreadCache(t, p) PROVE Quiet
    BY <1>3 DEF ClearThreadCache, CanCall
  <1>4. ASSUME NEW t \in Threads, NEW p \in Pools, NEW n \in Targets, Warm(t, p, n)
        PROVE  Quiet
    <2>1. CASE UNCHANGED call
      BY <1>4, <2>1 DEF Warm, Quiet, call, Adding, Subtracting
    <2> QED BY <1>4, <2>1 DEF Warm, CanCall
  <1>5. ASSUME NEW t \in Threads, NEW b \in Buffers, Drop(t, b) PROVE Quiet
    <2>1. CASE UNCHANGED call
      BY <1>5, <2>1 DEF Drop, Quiet, call, Adding, Subtracting
    <2> QED BY <1>5, <2>1 DEF Drop, CanCall
  <1>6. ASSUME NEW t \in Threads, ThreadExit(t) PROVE Quiet
    BY <1>6 DEF ThreadExit, Quiet, call, Adding, Subtracting
  <1>7. ASSUME NEW t \in Threads, CacheHit(t) PROVE Quiet
    BY <1>7 DEF CacheHit
  <1>8. ASSUME NEW t \in Threads, Alloc(t) PROVE Quiet
    BY <1>8 DEF Alloc
  <1>9. ASSUME NEW t \in Threads, PopNone(t) PROVE Quiet
    BY <1>9 DEF PopNone, Popping
  <1>10. ASSUME NEW t \in Threads, Check(t) PROVE Quiet
    BY <1>10 DEF Check
  <1>11. ASSUME NEW t \in Threads, Spill(t) PROVE Quiet
    <2>1. CASE UNCHANGED call
      BY <1>11, <2>1 DEF Spill, Quiet, call, Adding, Subtracting
    <2> QED BY <1>11, <2>1 DEF Spill
  <1>12. ASSUME NEW t \in Threads, SpillDone(t) \/ AllocPanic(t) \/ FillPanic(t) PROVE Quiet
    BY <1>12 DEF SpillDone, AllocPanic, FillPanic
  <1>13. ASSUME NEW b \in Buffers, Write(b) \/ Leak(b) \/ DropNow(b) PROVE Quiet
    BY <1>13 DEF Write, Leak, DropNow, Quiet, call, Adding, Subtracting
  <1>14. CASE UNCHANGED vars
    BY <1>14 DEF vars, Quiet, call, Adding, Subtracting
  <1> QED
    BY <1>1, <1>2, <1>3, <1>4, <1>5, <1>6, <1>7, <1>8, <1>9, <1>10, <1>11, <1>12, <1>13, <1>14
       DEF Next, Begin, Step

LEMMA PlusOne ==
    ASSUME NEW S, NEW x, IsFiniteSet(S), x \notin S
    PROVE  Cardinality(S \cup {x}) = Cardinality(S) + 1
  BY FS_AddElement

LEMMA AtMostOneMore ==
    ASSUME NEW S, NEW x, IsFiniteSet(S), Cardinality(S) \in Nat
    PROVE  /\ IsFiniteSet(S \cup {x})
           /\ Cardinality(S \cup {x}) =< Cardinality(S) + 1
           /\ Cardinality(S \cup {x}) \in Nat
  <1>1. CASE x \in S
    <2>1. S \cup {x} = S
      BY <1>1
    <2>2. Cardinality(S) =< Cardinality(S) + 1
      OBVIOUS
    <2>3. IsFiniteSet(S \cup {x}) /\ Cardinality(S \cup {x}) = Cardinality(S)
      BY <2>1, Zenon
    <2> QED BY <2>2, <2>3
  <1>2. CASE x \notin S
    <2>1. IsFiniteSet(S \cup {x}) /\ Cardinality(S \cup {x}) = Cardinality(S) + 1
      BY <1>2, FS_AddElement
    <2> QED BY <2>1
  <1> QED BY <1>1, <1>2

LEMMA MinusOne ==
    ASSUME NEW S, NEW x, IsFiniteSet(S), x \in S
    PROVE  Cardinality(S \ {x}) = Cardinality(S) - 1
  BY FS_RemoveElement

\* PopSome takes an item and incurs the debt of one decrement.
LEMMA PopSomeOwes ==
    ASSUME VarsOK, CallsOK, ControlOK, NEW t \in Threads, PopSome(t), NEW q \in Pools
    PROVE  size' = size /\ Owed(q)' = Owed(q)
  <1> DEFINE p == pool[t]
  <1>1. /\ p \in Pools /\ at[t] \notin {"add", "sub"} /\ Steer(t, p, "sub") /\ size' = size
    BY EnterSteers DEF PopSome, Popping, At, CallsOK, ControlOK
  <1>2. PICK b \in items[p] : items' = [items EXCEPT ![p] = @ \ {b}]
    BY DEF PopSome
  <1>3. items'[q] = IF q = p THEN items[p] \ {b} ELSE items[q]
    BY <1>1, <1>2 DEF VarsOK
  <1>4. Adding(q)' = Adding(q)
    BY <1>1 DEF Adding, Steer, CallsOK, At
  <1>5. Subtracting(q)' = IF q = p THEN Subtracting(p) \cup {t} ELSE Subtracting(q)
    BY <1>1 DEF Subtracting, Steer, CallsOK, At
  <1>6. t \notin Subtracting(p)
    BY <1>1 DEF Subtracting, At
  <1>7. Cardinality(items[p] \ {b}) = Cardinality(items[p]) - 1
    BY <1>1, FiniteParts, MinusOne
  <1>8. Cardinality(Subtracting(p) \cup {t}) = Cardinality(Subtracting(p)) + 1
    BY <1>1, <1>6, FiniteParts, PlusOne
  <1> QED BY <1>1, <1>3, <1>4, <1>5, <1>7, <1>8, FiniteParts DEF Owed

\* Thread t adds a buffer to the queue it works on.
Appends(t, b) == /\ at[t] \in {"push", "fill"} /\ b \notin items[pool[t]]
                 /\ items' = [items EXCEPT ![pool[t]] = @ \cup {b}]
                 /\ Steer(t, pool[t], "add")

\* Push and Fill add an item and incur the debt of one increment.
LEMMA PushOwes ==
    ASSUME VarsOK, CallsOK, ControlOK, NEW t \in Threads, NEW b, Appends(t, b),
           NEW q \in Pools
    PROVE  Owed(q)' = Owed(q)
  <1> DEFINE p == pool[t]
  <1> USE DEF Appends
  <1>1. p \in Pools
    BY DEF CallsOK, ControlOK
  <1>2. items'[q] = IF q = p THEN items[p] \cup {b} ELSE items[q]
    BY <1>1 DEF VarsOK
  <1>3. Subtracting(q)' = Subtracting(q)
    BY DEF Subtracting, Steer, CallsOK, At
  <1>4. Adding(q)' = IF q = p THEN Adding(p) \cup {t} ELSE Adding(q)
    BY <1>1 DEF Adding, Steer, CallsOK, At
  <1>5. t \notin Adding(p)
    BY DEF Adding, At
  <1>6. Cardinality(items[p] \cup {b}) = Cardinality(items[p]) + 1
    BY <1>1, FiniteParts, PlusOne
  <1>7. Cardinality(Adding(p) \cup {t}) = Cardinality(Adding(p)) + 1
    BY <1>1, <1>5, FiniteParts, PlusOne
  <1> QED BY <1>1, <1>2, <1>3, <1>4, <1>6, <1>7, FiniteParts DEF Owed

\* FetchAdd pays an increment.
LEMMA FetchAddPays ==
    ASSUME VarsOK, CallsOK, ControlOK, NEW t \in Threads, FetchAdd(t), NEW q \in Pools
    PROVE  /\ size'[q] = IF q = pool[t] THEN Incr(size[q]) ELSE size[q]
           /\ Owed(q)' = IF q = pool[t] THEN Owed(q) + 1 ELSE Owed(q)
  <1> DEFINE p == pool[t]
  <1>1. p \in Pools /\ at[t] = "add"
    BY DEF FetchAdd, At, CallsOK, ControlOK
  <1>2. size'[q] = IF q = p THEN Incr(size[q]) ELSE size[q]
    BY <1>1 DEF FetchAdd, VarsOK
  <1>3. \E a, r : Steer(t, r, a) /\ a \notin {"add", "sub"}
    BY EnterSteers DEF FetchAdd
  <1>4. items' = items
    BY DEF FetchAdd
  <1>5. Subtracting(q)' = Subtracting(q)
    BY <1>1, <1>3 DEF Subtracting, Steer, CallsOK, At
  <1>6. Adding(q)' = IF q = p THEN Adding(p) \ {t} ELSE Adding(q)
    BY <1>1, <1>3 DEF Adding, Steer, CallsOK, At
  <1>7. t \in Adding(p)
    BY <1>1 DEF Adding, At
  <1>8. Cardinality(Adding(p) \ {t}) = Cardinality(Adding(p)) - 1
    BY <1>1, <1>7, FiniteParts, MinusOne
  <1> QED BY <1>1, <1>2, <1>4, <1>5, <1>6, <1>8, FiniteParts DEF Owed

\* FetchSub pays a decrement.
LEMMA FetchSubPays ==
    ASSUME VarsOK, CallsOK, ControlOK, NEW t \in Threads, FetchSub(t), NEW q \in Pools
    PROVE  /\ size'[q] = IF q = pool[t] THEN Decr(size[q]) ELSE size[q]
           /\ Owed(q)' = IF q = pool[t] THEN Owed(q) - 1 ELSE Owed(q)
  <1> DEFINE p == pool[t]
  <1>1. p \in Pools /\ at[t] = "sub"
    BY DEF FetchSub, At, CallsOK, ControlOK
  <1>2. size'[q] = IF q = p THEN Decr(size[q]) ELSE size[q]
    BY <1>1 DEF FetchSub, VarsOK
  <1>3. \E a, r : Steer(t, r, a) /\ a \notin {"add", "sub"}
    BY EnterSteers DEF FetchSub
  <1>4. items' = items
    BY DEF FetchSub
  <1>5. Adding(q)' = Adding(q)
    BY <1>1, <1>3 DEF Adding, Steer, CallsOK, At
  <1>6. Subtracting(q)' = IF q = p THEN Subtracting(p) \ {t} ELSE Subtracting(q)
    BY <1>1, <1>3 DEF Subtracting, Steer, CallsOK, At
  <1>7. t \in Subtracting(p)
    BY <1>1 DEF Subtracting, At
  <1>8. Cardinality(Subtracting(p) \ {t}) = Cardinality(Subtracting(p)) - 1
    BY <1>1, <1>7, FiniteParts, MinusOne
  <1> QED BY <1>1, <1>2, <1>4, <1>5, <1>6, <1>8, FiniteParts DEF Owed

\* A buffer about to be pushed is not in the queue already.
LEMMA PushIsNew ==
    ASSUME VarsOK, CallsOK, ControlOK, NoSharing, NEW t \in Threads, Push(t) \/ Fill(t)
    PROVE  \E b : /\ b \notin items[pool[t]]
                  /\ items' = [items EXCEPT ![pool[t]] = @ \cup {b}]
  <1>1. pool[t] \in Pools
    BY DEF Push, Fill, At, CallsOK, ControlOK
  <1>2. CASE Push(t)
    BY <1>1, <1>2 DEF Push, NoSharing, Apart
  <1>3. CASE Fill(t)
    BY <1>1, <1>3 DEF Fill, Unallocated, NoSharing, PlacedIdle
  <1> QED BY <1>2, <1>3

LEMMA OwedStep ==
    ASSUME OwnershipInv, [Next]_vars, NEW q \in Pools
    PROVE  \/ size'[q] = size[q] /\ Owed(q)' = Owed(q)
           \/ size'[q] = Incr(size[q]) /\ Owed(q)' = Owed(q) + 1
           \/ size'[q] = Decr(size[q]) /\ Owed(q)' = Owed(q) - 1
  <1>1. VarsOK /\ CallsOK /\ ControlOK /\ NoSharing
    BY DEF OwnershipInv, TypeOK
  <1>2. CASE Quiet
    BY <1>2 DEF Quiet, Owed
  <1>3. ASSUME NEW t \in Threads, PopSome(t)
        PROVE  size' = size /\ Owed(q)' = Owed(q)
    BY <1>1, <1>3, PopSomeOwes
  <1>4. ASSUME NEW t \in Threads, Push(t) \/ Fill(t)
        PROVE  size' = size /\ Owed(q)' = Owed(q)
    <2>1. PICK b : b \notin items[pool[t]] /\ items' = [items EXCEPT ![pool[t]] = @ \cup {b}]
      BY <1>1, <1>4, PushIsNew
    <2>2. at[t] \in {"push", "fill"} /\ Steer(t, pool[t], "add") /\ size' = size
      BY <1>1, <1>4, EnterSteers DEF Push, Fill, At
    <2>3. Appends(t, b)
      BY <2>1, <2>2 DEF Appends
    <2>4. Owed(q)' = Owed(q)
      BY <1>1, <2>3, PushOwes
    <2> QED BY <2>2, <2>4
  <1>5. ASSUME NEW t \in Threads, FetchAdd(t)
        PROVE  \/ size'[q] = size[q] /\ Owed(q)' = Owed(q)
               \/ size'[q] = Incr(size[q]) /\ Owed(q)' = Owed(q) + 1
    BY <1>1, <1>5, FetchAddPays
  <1>6. ASSUME NEW t \in Threads, FetchSub(t)
        PROVE  \/ size'[q] = size[q] /\ Owed(q)' = Owed(q)
               \/ size'[q] = Decr(size[q]) /\ Owed(q)' = Owed(q) - 1
    BY <1>1, <1>6, FetchSubPays
  <1> QED BY <1>1, <1>2, <1>3, <1>4, <1>5, <1>6, QuietSteps

LEMMA CounterInit == Init => CounterInv
  <1> SUFFICES ASSUME Init, NEW p \in Pools
               PROVE  size[p] = Owed(p) + 0 * Word
    BY OwnershipInit DEF CounterInv, Congruent
  <1>1. VarsOK
    BY TypeInit DEF TypeOK
  <1>2. Adding(p) = {} /\ Subtracting(p) = {}
    BY DEF Init, Adding, Subtracting, At
  <1>3. size[p] = Cardinality(items[p])
    BY DEF Init
  <1>4. Word \in Nat
    BY FastPoolAssumption DEF FastPoolAssumption
  <1> QED BY <1>1, <1>2, <1>3, <1>4, FiniteParts, FS_EmptySet DEF Owed

LEMMA CounterStep == CounterInv /\ [Next]_vars => CounterInv'
  <1> SUFFICES ASSUME CounterInv, [Next]_vars, NEW q \in Pools
               PROVE  \E k \in Int : size'[q] = Owed(q)' + k * Word
    BY OwnershipStep DEF CounterInv, Congruent
  <1>1. VarsOK /\ VarsOK'
    BY OwnershipStep DEF CounterInv, OwnershipInv, TypeOK
  <1>2. size[q] \in 0 .. Word - 1 /\ Owed(q) \in Int
    BY <1>1, FiniteParts DEF VarsOK, Owed
  <1>3. PICK k \in Int : size[q] = Owed(q) + k * Word
    BY DEF CounterInv, Congruent
  <1>4. Word \in Nat
    BY <1>2, WordArithmetic
  <1>5. CASE size'[q] = size[q] /\ Owed(q)' = Owed(q)
    BY <1>3, <1>5
  <1>6. CASE size'[q] = Incr(size[q]) /\ Owed(q)' = Owed(q) + 1
    <2>1. \/ size'[q] = Owed(q)' + k * Word
          \/ size'[q] = Owed(q)' + (k - 1) * Word
      BY <1>2, <1>3, <1>4, <1>6, WordArithmetic
    <2> QED BY <2>1
  <1>7. CASE size'[q] = Decr(size[q]) /\ Owed(q)' = Owed(q) - 1
    <2>1. \/ size'[q] = Owed(q)' + k * Word
          \/ size'[q] = Owed(q)' + (k + 1) * Word
      BY <1>2, <1>3, <1>4, <1>7, WordArithmetic
    <2> QED BY <2>1
  <1> QED
    BY <1>5, <1>6, <1>7, OwedStep DEF CounterInv

\* The counter is never off by anything but the updates threads still owe.
THEOREM CounterNeverDrifts == Spec => []CounterTracksQueue
  <1>1. ASSUME CounterInv, NEW p \in Pools
        PROVE  size[p] = Owed(p) % Word
    <2>1. VarsOK
      BY <1>1 DEF CounterInv, OwnershipInv, TypeOK
    <2>2. size[p] \in 0 .. Word - 1 /\ Owed(p) \in Int
      BY <2>1, FiniteParts DEF VarsOK, Owed
    <2>3. PICK k \in Int : size[p] = Owed(p) + k * Word
      BY <1>1 DEF CounterInv, Congruent
    <2> QED BY <2>2, <2>3, WordArithmetic, Residue
  <1>2. CounterInv => CounterTracksQueue
    BY <1>1 DEF CounterTracksQueue, Owed
  <1> QED BY <1>2, CounterInit, CounterStep, PTL DEF Spec

\* So when no thread is inside an operation, the counter is the queue's length.
LEMMA QuietIsExact ==
    ASSUME CounterInv, \A t \in Threads : At(t, "idle"), NEW p \in Pools
    PROVE  size[p] = Cardinality(items[p])
  <1>1. VarsOK
    BY DEF CounterInv, OwnershipInv, TypeOK
  <1>2. Adding(p) = {} /\ Subtracting(p) = {}
    BY DEF Adding, Subtracting, At
  <1>3. Owed(p) = Cardinality(items[p])
    BY <1>1, <1>2, FiniteParts, FS_EmptySet DEF Owed
  <1>4. Cardinality(items[p]) \in 0 .. Word - 1
    BY <1>1, FiniteParts, FastPoolAssumption, FS_CardinalityType DEF FastPoolAssumption
  <1>5. size[p] \in 0 .. Word - 1
    BY <1>1 DEF VarsOK
  <1>6. PICK k \in Int : size[p] = Cardinality(items[p]) + k * Word
    BY <1>3 DEF CounterInv, Congruent
  <1>7. Word \in Nat
    BY FastPoolAssumption DEF FastPoolAssumption
  <1>8. k * Word < Word /\ k * Word > -Word
    BY <1>4, <1>5, <1>6, <1>7
  <1>9. k = 0
    BY <1>7, <1>8
  <1> QED BY <1>4, <1>6, <1>7, <1>9

-----------------------------------------------------------------------------
(* The cap.  A thread decides to push only when the counter is below       *)
(* max_pool_size.  By the congruence the queue is then longer than the     *)
(* counter by at most one buffer per thread about to increment it, and no  *)
(* other thread is committed to more than max_pool_size buffers.           *)

\* What thread t pushes of its own decision, until it has counted the last of it.
Share(t) == todo[t] + (IF at[t] \in {"push", "add"} THEN 1 ELSE 0)

SharesOK == \A t \in Threads : pool[t] # None => Share(t) =< MaxPool[pool[t]]

CapInv == CounterInv /\ SharesOK /\ QueueBound

LEMMA PoolSizes ==
    /\ None \notin Pools /\ Word \in Nat
    /\ \A p \in Pools : MaxPool[p] \in Nat /\ MinPool[p] \in Nat
    /\ IsFiniteSet(Threads) /\ Cardinality(Threads) \in Nat
    /\ IsFiniteSet(Buffers) /\ Cardinality(Buffers) \in Nat /\ Cardinality(Buffers) < Word
  BY FastPoolAssumption, FS_CardinalityType DEF FastPoolAssumption

LEMMA SharesStep ==
    ASSUME VarsOK, CallsOK, ControlOK, SharesOK, [Next]_vars
    PROVE  SharesOK'
  <1> USE PoolSizes DEF VarsOK, CallsOK, ControlOK, SharesOK, Share, call, At, Goto, Return, Enter,
                        CanCall
  <1>1. ASSUME NEW t \in Threads, NEW p \in Pools, Acquire(t, p) PROVE SharesOK'
    BY <1>1 DEF Acquire
  <1>2. ASSUME NEW t \in Threads, NEW p \in Pools, Clear(t, p) PROVE SharesOK'
    BY <1>2 DEF Clear
  <1>3. ASSUME NEW t \in Threads, NEW p \in Pools, ClearThreadCache(t, p) PROVE SharesOK'
    BY <1>3 DEF ClearThreadCache
  <1>4. ASSUME NEW t \in Threads, NEW p \in Pools, NEW n \in Targets, Warm(t, p, n) PROVE SharesOK'
    <2>1. Missing(p, n) \in Nat /\ Missing(p, n) =< MaxPool[p]
      BY FastPoolAssumption DEF FastPoolAssumption, Missing
    <2> QED BY <1>4, <2>1 DEF Warm
  <1>5. ASSUME NEW t \in Threads, NEW b \in Buffers, Drop(t, b) PROVE SharesOK'
    BY <1>5 DEF Drop
  <1>6. ASSUME NEW t \in Threads, ThreadExit(t) PROVE SharesOK'
    BY <1>6 DEF ThreadExit
  <1>7. ASSUME NEW t \in Threads, CacheHit(t) PROVE SharesOK'
    BY <1>7 DEF CacheHit
  <1>8. ASSUME NEW t \in Threads, Alloc(t) PROVE SharesOK'
    BY <1>8 DEF Alloc
  <1>9. ASSUME NEW t \in Threads, PopSome(t) PROVE SharesOK'
    BY <1>9 DEF PopSome, Popping
  <1>10. ASSUME NEW t \in Threads, PopNone(t) PROVE SharesOK'
    BY <1>10 DEF PopNone, Popping
  <1>11. ASSUME NEW t \in Threads, FetchSub(t) PROVE SharesOK'
    BY <1>11 DEF FetchSub
  <1>12. ASSUME NEW t \in Threads, Check(t) PROVE SharesOK'
    BY <1>12 DEF Check, HasSpace
  <1>13. ASSUME NEW t \in Threads, Push(t) PROVE SharesOK'
    BY <1>13 DEF Push
  <1>14. ASSUME NEW t \in Threads, FetchAdd(t) PROVE SharesOK'
    BY <1>14 DEF FetchAdd
  <1>15. ASSUME NEW t \in Threads, Fill(t) PROVE SharesOK'
    BY <1>15 DEF Fill
  <1>16. ASSUME NEW t \in Threads, Spill(t) PROVE SharesOK'
    BY <1>16 DEF Spill, HasSpace
  <1>17. ASSUME NEW t \in Threads, SpillDone(t) \/ AllocPanic(t) \/ FillPanic(t) PROVE SharesOK'
    BY <1>17 DEF SpillDone, AllocPanic, FillPanic
  <1>18. ASSUME NEW b \in Buffers, Write(b) \/ Leak(b) \/ DropNow(b) PROVE SharesOK'
    BY <1>18 DEF Write, Leak, DropNow
  <1>19. CASE UNCHANGED vars
    BY <1>19 DEF vars
  <1> QED
    BY <1>1, <1>2, <1>3, <1>4, <1>5, <1>6, <1>7, <1>8, <1>9, <1>10, <1>11, <1>12, <1>13, <1>14, <1>15, <1>16, <1>17, <1>18, <1>19
       DEF Next, Begin, Step

\* The buffers that threads are taking out of a queue are no longer in it.
LEMMA RoomToSubtract ==
    ASSUME VarsOK, CallsOK, ControlOK, Apart, NEW p \in Pools
    PROVE  Cardinality(items[p]) + Cardinality(Subtracting(p)) =< Cardinality(Buffers)
  <1> DEFINE S == Subtracting(p)
             Q == items[p]
             H == {buf[t] : t \in S}
             g == [t \in S |-> buf[t]]
  <1>1. \A t \in S : t \in Threads /\ buf[t] \in Buffers /\ buf[t] # None
    BY CallFields, PlaceFields DEF Subtracting, At
  <1>2. g \in Bijection(S, H)
    <2>1. \A t, u \in S : buf[t] = buf[u] => t = u
      BY <1>1 DEF Apart
    <2> QED BY <2>1 DEF Bijection, Injection, Surjection, IsInjective
  <1>3. IsFiniteSet(Q) /\ IsFiniteSet(S) /\ Cardinality(Q) \in Nat /\ Cardinality(S) \in Nat
    BY FiniteParts
  <1>4. IsFiniteSet(H) /\ Cardinality(H) = Cardinality(S)
    BY <1>2, <1>3, FS_Bijection DEF ExistsBijection
  <1>5. Q \cap H = {} /\ Q \cup H \subseteq Buffers
    BY <1>1 DEF Apart, VarsOK
  <1> HIDE DEF Q, H, S
  <1>6. Cardinality(Q \cup H) = Cardinality(Q) + Cardinality(H) - Cardinality(Q \cap H)
    BY <1>3, <1>4, FS_Union
  <1>7. Cardinality(Q \cap H) = 0
    BY <1>5, FS_EmptySet
  <1>8. Cardinality(Q) + Cardinality(S) = Cardinality(Q \cup H)
    BY <1>3, <1>4, <1>6, <1>7
  <1>9. Cardinality(Q \cup H) =< Cardinality(Buffers)
    BY <1>5, PoolSizes, FS_Subset
  <1> QED BY <1>8, <1>9 DEF Q, S

\* A counter lags behind its queue by no more than the increments owed.
LEMMA CounterLag ==
    ASSUME CounterInv, NEW p \in Pools
    PROVE  Cardinality(items[p]) =< size[p] + Cardinality(Adding(p))
  <1>1. VarsOK /\ CallsOK /\ ControlOK /\ Apart
    BY DEF CounterInv, OwnershipInv, TypeOK, NoSharing
  <1>2. /\ Cardinality(items[p]) \in Nat /\ Cardinality(Adding(p)) \in Nat
        /\ Cardinality(Subtracting(p)) \in Nat /\ size[p] \in 0 .. Word - 1
    BY <1>1, FiniteParts DEF VarsOK
  <1>3. Owed(p) < Word
    BY <1>1, <1>2, RoomToSubtract, PoolSizes DEF Owed
  <1>4. PICK k \in Int : size[p] = Owed(p) + k * Word
    BY DEF CounterInv, Congruent
  <1>5. Owed(p) \in Int /\ Word \in Nat /\ Word > 0
    BY <1>2, PoolSizes DEF Owed
  <1>6. k > -1
    <2>1. CASE k =< -1
      <3>1. k * Word =< -Word
        BY <1>5, <2>1
      <3> QED BY <1>2, <1>3, <1>4, <1>5, <3>1
    <2> QED BY <2>1
  <1>7. k * Word >= 0
    BY <1>5, <1>6
  <1>8. Owed(p) =< size[p]
    BY <1>2, <1>4, <1>5, <1>7
  <1> QED BY <1>2, <1>8 DEF Owed

LEMMA DueType == ASSUME CallsOK, NEW p \in Pools PROVE Due(p) \in [Threads -> Nat]
  BY PoolSizes DEF CallsOK, Due

LEMMA CommittedIs ==
    ASSUME VarsOK, CallsOK, NEW p \in Pools
    PROVE  /\ Committed(p) = Cardinality(items[p]) + Total(Due(p))
           /\ Cardinality(items[p]) \in Nat /\ Total(Due(p)) \in Nat
  BY DueType, SumIsCount, FiniteParts, PoolSizes DEF Committed, Total

\* Thread t alone may owe other pushes than before.
OnlyOf(t, p) == \A u \in Threads \ {t} : Due(p)'[u] = Due(p)[u]

LEMMA DueChange ==
    ASSUME VarsOK, CallsOK, VarsOK', CallsOK', NEW p \in Pools, NEW t \in Threads, OnlyOf(t, p)
    PROVE  /\ Total(Due(p)') = Total(Due(p)) - Due(p)[t] + Due(p)'[t]
           /\ Due(p)[t] \in Nat /\ Due(p)'[t] \in Nat /\ Total(Due(p)') \in Nat
  <1> DEFINE f == Due(p)
             g == Due(p)'
  <1>1. f \in [Threads -> Nat]
    BY DueType
  <1>2. g \in [Threads -> Nat]
    BY PoolSizes DEF CallsOK, Due
  <1>3. \A u \in Threads \ {t} : g[u] = f[u]
    BY DEF OnlyOf
  <1> HIDE DEF f, g
  <1>4. Total(g) = Total(f) - f[t] + g[t] /\ f[t] \in Nat /\ g[t] \in Nat
    BY <1>1, <1>2, <1>3, PoolSizes, TotalChange
  <1>5. Total(g) \in Nat
    BY <1>2, PoolSizes, SumIsCount DEF Total
  <1> QED BY <1>4, <1>5 DEF f, g

\* The pushes a thread owes to q at the step a of an operation on p, with n to go.
DueAt(q, a, p, n) == IF p # q THEN 0 ELSE IF a = "push" THEN 1 ELSE n

\* Thread t comes to the step a on pool p with n pushes to go.
Heads(t, a, p, n) == /\ at' = [at EXCEPT ![t] = a]
                     /\ pool' = [pool EXCEPT ![t] = p]
                     /\ todo' = [todo EXCEPT ![t] = n]

LEMMA EnterHeads ==
    ASSUME CallsOK, NEW t \in Threads
    PROVE  /\ \A f, a, p, b, n : Enter(t, f, a, p, b, n) => Heads(t, a, p, n)
           /\ Return(t) => Heads(t, "idle", None, 0)
           /\ \A a : Goto(t, a) => Heads(t, a, pool[t], todo[t])
           /\ UNCHANGED call => Heads(t, at[t], pool[t], todo[t])
  BY DEF CallsOK, Enter, Return, Goto, Heads, call

LEMMA DueOf ==
    ASSUME CallsOK, NEW t \in Threads, NEW a, NEW p, NEW n, Heads(t, a, p, n), NEW q \in Pools
    PROVE  /\ OnlyOf(t, q) /\ Due(q)'[t] = DueAt(q, a, p, n)
           /\ Due(q)[t] = DueAt(q, at[t], pool[t], todo[t])
  BY DEF CallsOK, Heads, OnlyOf, Due, DueAt, At

\* What a step may do to the commitments of a pool: leave them alone, lessen them,
\* turn one that is due into a buffer of the queue, or take on new ones.
Keeps(q) == items'[q] = items[q] /\ Due(q)' = Due(q)

Lessens(q) == \E t \in Threads : /\ OnlyOf(t, q) /\ Due(q)'[t] =< Due(q)[t]
                                 /\ items'[q] \subseteq items[q]

Delivers(q) == \E t \in Threads, b \in Buffers :
                   /\ OnlyOf(t, q) /\ Due(q)'[t] = Due(q)[t] - 1
                   /\ items'[q] = items[q] \cup {b}

Commits(q) == \E t \in Threads \ Adding(q) :
                  /\ OnlyOf(t, q) /\ Due(q)[t] = 0 /\ items'[q] = items[q]
                  /\ MaxPool[q] > 0 /\ size[q] + Due(q)'[t] =< MaxPool[q]

LEMMA CommitSteps ==
    ASSUME VarsOK, CallsOK, ControlOK, [Next]_vars, NEW q \in Pools
    PROVE  Keeps(q) \/ Lessens(q) \/ Delivers(q) \/ Commits(q)
  <1> DEFINE Goal == Keeps(q) \/ Lessens(q) \/ Delivers(q) \/ Commits(q)
  <1>a. ASSUME UNCHANGED <<items, call>> PROVE Keeps(q)
    BY <1>a DEF Keeps, Due, At, call
  <1>b. ASSUME NEW t \in Threads, NEW a \in Labels, NEW p, Heads(t, a, p, 0),
               a # "push", items'[q] \subseteq items[q]
        PROVE  Lessens(q)
    <2>1. OnlyOf(t, q) /\ Due(q)'[t] = 0
      BY <1>b, DueOf DEF DueAt
    <2>2. Due(q)[t] \in Nat
      BY DueType
    <2> QED BY <1>b, <2>1, <2>2 DEF Lessens
  <1>c. ASSUME NEW t \in Threads, NEW a \in {"spill", "fill"}, at[t] = "add",
               Heads(t, a, pool[t], todo[t]), UNCHANGED items
        PROVE  Lessens(q)
    <2>1. OnlyOf(t, q) /\ Due(q)'[t] = Due(q)[t]
      BY <1>c, DueOf DEF DueAt
    <2>2. Due(q)[t] \in Nat
      BY DueType
    <2> QED BY <1>c, <2>1, <2>2 DEF Lessens
  <1>d. ASSUME NEW t \in Threads, NEW b \in Buffers, NEW n \in Nat, pool[t] \in Pools,
               \/ at[t] = "push" /\ n = 0
               \/ at[t] = "fill" /\ n = todo[t] - 1,
               Heads(t, "add", pool[t], n),
               items' = [items EXCEPT ![pool[t]] = @ \cup {b}]
        PROVE  Lessens(q) \/ Delivers(q)
    <2>1. OnlyOf(t, q) /\ todo[t] \in Nat
      BY <1>d, DueOf, PoolSizes DEF CallsOK
    <2>2. /\ Due(q)'[t] = DueAt(q, "add", pool[t], n)
          /\ Due(q)[t] = DueAt(q, at[t], pool[t], todo[t])
      BY <1>d, DueOf
    <2>3. CASE q = pool[t]
      <3>1. Due(q)'[t] = Due(q)[t] - 1
        BY <1>d, <2>1, <2>2, <2>3 DEF DueAt
      <3> QED BY <1>d, <2>1, <2>3, <3>1 DEF Delivers, VarsOK
    <2>4. CASE q # pool[t]
      <3>1. Due(q)'[t] = 0 /\ Due(q)[t] = 0
        BY <1>d, <2>2, <2>4 DEF DueAt
      <3> QED BY <1>d, <2>1, <2>4, <3>1 DEF Lessens, VarsOK
    <2> QED BY <2>3, <2>4
  <1>e. ASSUME NEW t \in Threads, NEW a \in {"push", "fill"}, NEW p \in Pools, NEW n \in Nat,
               Heads(t, a, p, n), at[t] \in {"check", "spill", "idle"}, todo[t] = 0,
               UNCHANGED items, size[p] + DueAt(p, a, p, n) =< MaxPool[p], MaxPool[p] > 0
        PROVE  Lessens(q) \/ Commits(q)
    <2>1. /\ OnlyOf(t, q) /\ Due(q)'[t] = DueAt(q, a, p, n)
          /\ Due(q)[t] = 0 /\ t \notin Adding(q)
      BY <1>e, DueOf DEF DueAt, Adding, At
    <2>2. CASE q = p
      BY <1>e, <2>1, <2>2 DEF Commits
    <2>3. CASE q # p
      BY <1>e, <2>1, <2>3 DEF Lessens, DueAt
    <2> QED BY <2>2, <2>3
  <1> USE EnterHeads DEF At, Labels
  <1>1. ASSUME NEW t \in Threads, NEW p \in Pools, Acquire(t, p) PROVE Goal
    BY <1>1, <1>b DEF Acquire
  <1>2. ASSUME NEW t \in Threads, NEW p \in Pools, Clear(t, p) PROVE Goal
    BY <1>2, <1>b DEF Clear
  <1>3. ASSUME NEW t \in Threads, NEW p \in Pools, ClearThreadCache(t, p) PROVE Goal
    BY <1>3, <1>b DEF ClearThreadCache
  <1>4. ASSUME NEW t \in Threads, NEW p \in Pools, NEW n \in Targets, Warm(t, p, n) PROVE Goal
    <2>1. at[t] = "idle" /\ todo[t] = 0 /\ UNCHANGED items
      BY <1>4 DEF Warm, CanCall, ControlOK
    <2>2. CASE Missing(p, n) = 0
      BY <1>4, <1>a, <2>1, <2>2 DEF Warm
    <2>3. CASE Missing(p, n) # 0
      <3> DEFINE m == Missing(p, n)
      <3>1. m \in Nat /\ size[p] + m =< MaxPool[p] /\ MaxPool[p] > 0
        BY <2>3, PoolSizes, FastPoolAssumption DEF FastPoolAssumption, Missing, VarsOK
      <3>2. Heads(t, "fill", p, m)
        BY <1>4, <2>3 DEF Warm
      <3>3. DueAt(p, "fill", p, m) = m
        BY DEF DueAt
      <3> HIDE DEF m
      <3>4. Lessens(q) \/ Commits(q)
        BY <1>e, <2>1, <3>1, <3>2, <3>3
      <3> QED BY <3>4
    <2> QED BY <2>2, <2>3
  <1>5. ASSUME NEW t \in Threads, NEW b \in Buffers, Drop(t, b) PROVE Goal
    <2>1. CASE UNCHANGED call
      BY <1>5, <1>a, <2>1 DEF Drop
    <2> QED BY <1>5, <1>b, <2>1 DEF Drop
  <1>6. ASSUME NEW t \in Threads, ThreadExit(t) PROVE Goal
    BY <1>6, <1>a DEF ThreadExit
  <1>7. ASSUME NEW t \in Threads, CacheHit(t) PROVE Goal
    BY <1>7, <1>b DEF CacheHit
  <1>8. ASSUME NEW t \in Threads, Alloc(t) PROVE Goal
    BY <1>8, <1>b DEF Alloc
  <1>9. ASSUME NEW t \in Threads, PopSome(t) PROVE Goal
    <2>1. items'[q] \subseteq items[q]
      BY <1>9 DEF PopSome, VarsOK
    <2> QED BY <1>9, <1>b, <2>1 DEF PopSome
  <1>10. ASSUME NEW t \in Threads, PopNone(t) PROVE Goal
    <2>1. fn[t] = "acquire" \/ fn[t] = "clear"
      BY <1>10 DEF PopNone
    <2>2. todo[t] = 0
      BY <2>1 DEF ControlOK
    <2> QED BY <1>10, <1>b, <2>2 DEF PopNone
  <1>11. ASSUME NEW t \in Threads, FetchSub(t) PROVE Goal
    BY <1>11, <1>b DEF FetchSub
  <1>12. ASSUME NEW t \in Threads, Check(t) PROVE Goal
    <2>1. at[t] = "check" /\ todo[t] = 0 /\ pool[t] \in Pools /\ UNCHANGED items
      BY <1>12 DEF Check, ControlOK, CallsOK
    <2>2. CASE HasSpace(pool[t])
      <3>1. /\ size[pool[t]] + 1 =< MaxPool[pool[t]] /\ MaxPool[pool[t]] > 0
        BY <2>1, <2>2, PoolSizes DEF HasSpace, VarsOK
      <3>2. Heads(t, "push", pool[t], todo[t])
        BY <1>12, <2>2 DEF Check
      <3>3. DueAt(pool[t], "push", pool[t], todo[t]) = 1
        BY DEF DueAt
      <3>4. Lessens(q) \/ Commits(q)
        BY <1>e, <2>1, <3>1, <3>2, <3>3
      <3> QED BY <3>4
    <2>3. CASE ~HasSpace(pool[t])
      BY <1>12, <1>b, <2>1, <2>3 DEF Check
    <2> QED BY <2>2, <2>3
  <1>13. ASSUME NEW t \in Threads, Push(t) PROVE Goal
    <2>1. /\ pool[t] \in Pools /\ buf[t] \in Buffers /\ at[t] = "push"
          /\ Heads(t, "add", pool[t], 0)
      BY <1>13, CallFields DEF Push
    <2> QED BY <1>13, <1>d, <2>1 DEF Push
  <1>14. ASSUME NEW t \in Threads, FetchAdd(t) PROVE Goal
    <2>1. at[t] = "add" /\ UNCHANGED items
      BY <1>14 DEF FetchAdd
    <2> QED BY <1>14, <1>b, <1>c, <2>1 DEF FetchAdd
  <1>15. ASSUME NEW t \in Threads, Fill(t) PROVE Goal
    <2>1. /\ pool[t] \in Pools /\ at[t] = "fill" /\ todo[t] - 1 \in Nat
          /\ Heads(t, "add", pool[t], todo[t] - 1)
      BY <1>15, CallFields, PoolSizes DEF Fill
    <2>2. PICK b \in Buffers : items' = [items EXCEPT ![pool[t]] = @ \cup {b}]
      BY <1>15 DEF Fill, Unallocated
    <2> QED BY <1>d, <2>1, <2>2
  <1>16. ASSUME NEW t \in Threads, Spill(t) PROVE Goal
    <2>1. at[t] = "spill" /\ todo[t] = 0 /\ pool[t] \in Pools /\ UNCHANGED items
      BY <1>16 DEF Spill, ControlOK, CallsOK
    <2>2. CASE HasSpace(pool[t])
      <3>1. /\ size[pool[t]] + 1 =< MaxPool[pool[t]] /\ MaxPool[pool[t]] > 0
        BY <2>1, <2>2, PoolSizes DEF HasSpace, VarsOK
      <3>2. Heads(t, "push", pool[t], 0)
        BY <1>16, <2>2 DEF Spill
      <3>3. DueAt(pool[t], "push", pool[t], 0) = 1
        BY DEF DueAt
      <3>4. Lessens(q) \/ Commits(q)
        BY <1>e, <2>1, <3>1, <3>2, <3>3
      <3> QED BY <3>4
    <2>3. CASE ~HasSpace(pool[t])
      BY <1>16, <1>a, <2>3 DEF Spill
    <2> QED BY <2>2, <2>3
  <1>17. ASSUME NEW t \in Threads, SpillDone(t) \/ AllocPanic(t) \/ FillPanic(t) PROVE Goal
    BY <1>17, <1>b DEF SpillDone, AllocPanic, FillPanic
  <1>18. ASSUME NEW b \in Buffers, Write(b) \/ Leak(b) \/ DropNow(b) PROVE Goal
    BY <1>18, <1>a DEF Write, Leak, DropNow
  <1>19. CASE UNCHANGED vars
    BY <1>19, <1>a DEF vars
  <1> QED
    BY <1>1, <1>2, <1>3, <1>4, <1>5, <1>6, <1>7, <1>8, <1>9, <1>10, <1>11, <1>12, <1>13, <1>14, <1>15, <1>16, <1>17, <1>18, <1>19
       DEF Next, Begin, Step

LEMMA LargerOf ==
    ASSUME NEW m \in Nat, NEW n \in Nat
    PROVE  /\ Max({m, n}) \in {m, n} /\ Max({m, n}) \in Nat
           /\ m =< Max({m, n}) /\ n =< Max({m, n})
  <1>1. \E x \in {m, n} : \A y \in {m, n} : x >= y
    <2>1. CASE m >= n
      BY <2>1
    <2>2. CASE n >= m
      BY <2>2
    <2> QED BY <2>1, <2>2
  <1>2. /\ Max({m, n}) \in {m, n}
        /\ \A y \in {m, n} : Max({m, n}) >= y
    BY <1>1 DEF Max
  <1> QED BY <1>2

\* The most a pool is ever committed to.
Cap(p) == Max({MinPool[p], Cardinality(Threads) * MaxPool[p]})

LEMMA CapIs ==
    ASSUME NEW p \in Pools
    PROVE  Cap(p) \in Nat /\ MinPool[p] =< Cap(p) /\ Cardinality(Threads) * MaxPool[p] =< Cap(p)
  <1>1. Cardinality(Threads) * MaxPool[p] \in Nat /\ MinPool[p] \in Nat
    BY PoolSizes
  <1> QED BY <1>1, LargerOf DEF Cap

\* A thread that takes on pushes leaves the pool within the cap.
LEMMA CommitsFit ==
    ASSUME CounterInv, SharesOK, NEW q \in Pools, NEW t \in Threads \ Adding(q), Due(q)[t] = 0,
           NEW d \in Nat, MaxPool[q] > 0, size[q] + d =< MaxPool[q]
    PROVE  Cardinality(items[q]) + Total(Due(q)) + d =< Cardinality(Threads) * MaxPool[q]
  <1> DEFINE f == Due(q)
             A == Adding(q)
             m == MaxPool[q]
             N == Cardinality(Threads)
  <1>1. VarsOK /\ CallsOK /\ ControlOK
    BY DEF CounterInv, OwnershipInv, TypeOK
  <1>2. f \in [Threads -> Nat] /\ m \in Nat \ {0} /\ N \in Nat
    BY <1>1, DueType, PoolSizes
  <1>3. A \subseteq Threads \ {t}
    BY DEF Adding
  <1>4. \A u \in Threads : f[u] =< m
    <2> SUFFICES ASSUME NEW u \in Threads
                 PROVE  f[u] =< m
      OBVIOUS
    <2>1. CASE pool[u] = q
      <3>1. Share(u) =< MaxPool[q] /\ todo[u] \in Nat
        BY <1>1, <2>1, PoolSizes DEF SharesOK, CallsOK
      <3>2. f[u] = IF at[u] = "push" THEN 1 ELSE todo[u]
        BY <2>1 DEF Due, At
      <3>3. Share(u) = IF at[u] \in {"push", "add"} THEN todo[u] + 1 ELSE todo[u]
        BY <3>1 DEF Share
      <3>4. m \in Nat
        BY <1>2
      <3> HIDE DEF f
      <3> QED BY <3>1, <3>2, <3>3, <3>4
    <2>2. CASE pool[u] # q
      BY <1>2, <2>2 DEF Due
    <2> QED BY <2>1, <2>2
  <1>5. \A u \in A : f[u] < m
    <2> SUFFICES ASSUME NEW u \in A
                 PROVE  f[u] < m
      OBVIOUS
    <2>1. u \in Threads /\ at[u] = "add" /\ pool[u] = q
      BY DEF Adding, At
    <2>2. Share(u) =< MaxPool[q] /\ todo[u] \in Nat /\ Share(u) = todo[u] + 1
      BY <1>1, <2>1, PoolSizes DEF SharesOK, CallsOK, Share
    <2>3. f[u] = todo[u] /\ m \in Nat
      BY <1>2, <2>1 DEF Due, At
    <2> HIDE DEF f
    <2> QED BY <2>2, <2>3
  <1>6. /\ Cardinality(items[q]) =< size[q] + Cardinality(A)
        /\ Cardinality(items[q]) \in Nat /\ Cardinality(A) \in Nat /\ size[q] \in Nat
        /\ Total(f) \in Nat
    BY <1>1, CounterLag, FiniteParts, CommittedIs DEF VarsOK
  <1>7. f[t] = 0
    OBVIOUS
  <1> HIDE DEF f, A, m, N
  <1>8. Total(f) + Cardinality(A) =< (Cardinality(Threads) - 1) * m
    BY <1>2, <1>3, <1>4, <1>5, <1>7, PoolSizes, TotalBound
  <1>9. (N - 1) * m = N * m - m
    BY <1>2
  <1>10. Total(f) + Cardinality(A) =< N * m - m /\ size[q] + d =< m
    BY <1>8, <1>9 DEF N, m
  <1>11. N * m \in Nat
    BY <1>2
  <1>12. Cardinality(items[q]) + Total(f) + d =< N * m
    BY <1>2, <1>6, <1>10, <1>11
  <1> QED BY <1>12 DEF f, N, m

LEMMA CommittedStep ==
    ASSUME CapInv, [Next]_vars, NEW q \in Pools
    PROVE  Committed(q)' =< Cap(q)
  <1> DEFINE c == Cardinality(items[q])
             cn == Cardinality(items'[q])
             s == Total(Due(q))
             sn == Total(Due(q)')
  <1>1. /\ VarsOK /\ CallsOK /\ ControlOK /\ VarsOK' /\ CallsOK'
        /\ CounterInv /\ SharesOK
    BY CounterStep DEF CapInv, CounterInv, OwnershipInv, TypeOK
  <1>2. c \in Nat /\ s \in Nat /\ c + s =< Cap(q) /\ IsFiniteSet(items[q])
    BY <1>1, CommittedIs, FiniteParts DEF CapInv, QueueBound, Cap
  <1>3. Committed(q)' = cn + sn
    BY DEF Committed, Total, FoldFunction, FoldFunctionOnSet, MapThenFoldSet
  <1>4. cn \in Nat /\ sn \in Nat
    <2>1. items'[q] \subseteq Buffers
      BY <1>1 DEF VarsOK
    <2>2. Due(q)' \in [Threads -> Nat]
      BY <1>1, PoolSizes DEF CallsOK, Due
    <2>3. Total(Due(q)') \in Nat
      BY <2>2, PoolSizes, SumIsCount DEF Total
    <2> QED BY <2>1, <2>3, PoolSizes, FS_Subset, FS_CardinalityType
  <1>5. CASE Keeps(q)
    BY <1>2, <1>3, <1>5 DEF Keeps
  <1>6. CASE Lessens(q)
    <2>1. PICK t \in Threads : /\ OnlyOf(t, q) /\ Due(q)'[t] =< Due(q)[t]
                               /\ items'[q] \subseteq items[q]
      BY <1>6 DEF Lessens
    <2>2. sn = s - Due(q)[t] + Due(q)'[t] /\ Due(q)[t] \in Nat /\ Due(q)'[t] \in Nat
      BY <1>1, <2>1, DueChange
    <2>3. cn =< c
      BY <1>2, <2>1, FS_Subset
    <2> HIDE DEF c, cn, s, sn
    <2> QED BY <1>2, <1>3, <1>4, <2>1, <2>2, <2>3, CapIs
  <1>7. CASE Delivers(q)
    <2>1. PICK t \in Threads, b \in Buffers :
              /\ OnlyOf(t, q) /\ Due(q)'[t] = Due(q)[t] - 1
              /\ items'[q] = items[q] \cup {b}
      BY <1>7 DEF Delivers
    <2>2. sn = s - Due(q)[t] + Due(q)'[t] /\ Due(q)[t] \in Nat /\ Due(q)'[t] \in Nat
      BY <1>1, <2>1, DueChange
    <2>3. cn =< c + 1
      BY <1>2, <2>1, AtMostOneMore
    <2> HIDE DEF c, cn, s, sn
    <2> QED BY <1>2, <1>3, <1>4, <2>1, <2>2, <2>3, CapIs
  <1>8. CASE Commits(q)
    <2>1. PICK t \in Threads \ Adding(q) :
              /\ OnlyOf(t, q) /\ Due(q)[t] = 0 /\ items'[q] = items[q]
              /\ MaxPool[q] > 0 /\ size[q] + Due(q)'[t] =< MaxPool[q]
      BY <1>8 DEF Commits
    <2> DEFINE d == Due(q)'[t]
    <2>2. sn = s - Due(q)[t] + d /\ d \in Nat
      BY <1>1, <2>1, DueChange
    <2>3. cn = c /\ sn = s + d
      BY <1>2, <2>1, <2>2
    <2>4. size[q] + d =< MaxPool[q]
      BY <2>1
    <2> HIDE DEF d
    <2>5. c + s + d =< Cardinality(Threads) * MaxPool[q]
      BY <1>1, <2>1, <2>2, <2>4, CommitsFit
    <2>6. Cardinality(Threads) * MaxPool[q] =< Cap(q) /\ Cap(q) \in Nat
          /\ Cardinality(Threads) * MaxPool[q] \in Nat
      BY CapIs, PoolSizes
    <2> HIDE DEF c, cn, s, sn
    <2>7. cn + sn =< Cap(q)
      BY <1>2, <2>2, <2>3, <2>5, <2>6
    <2> QED BY <1>3, <2>7
  <1> QED BY <1>1, <1>5, <1>6, <1>7, <1>8, CommitSteps

LEMMA CapInit == Init => CapInv
  <1> SUFFICES ASSUME Init
               PROVE  SharesOK /\ QueueBound
    BY CounterInit DEF CapInv
  <1>1. SharesOK
    BY DEF Init, SharesOK
  <1>2. ASSUME NEW p \in Pools
        PROVE  Committed(p) =< Cap(p)
    <2>1. VarsOK /\ CallsOK
      BY TypeInit DEF TypeOK
    <2>2. Cardinality(items[p]) = MinPool[p]
      BY DEF Init
    <2>3. \A t \in Threads : Due(p)[t] = 0
      BY PoolSizes DEF Init, Due
    <2>4. Total(Due(p)) = 0
      BY <2>1, <2>3, DueType, PoolSizes, TotalZero
    <2> QED BY <2>1, <2>2, <2>4, CommittedIs, CapIs
  <1> QED BY <1>1, <1>2 DEF QueueBound, Cap

LEMMA CapStep == CapInv /\ [Next]_vars => CapInv'
  <1> SUFFICES ASSUME CapInv, [Next]_vars
               PROVE  CapInv'
    OBVIOUS
  <1>1. CounterInv' /\ SharesOK'
    BY CounterStep, SharesStep DEF CapInv, CounterInv, OwnershipInv, TypeOK
  <1>2. QueueBound'
    BY CommittedStep DEF QueueBound, Cap
  <1> QED BY <1>1, <1>2 DEF CapInv

\* However the checks of len() and the pushes of drop, warm and clear_thread_cache
\* interleave, a pool never keeps more than max_pool_size idle buffers per thread, or
\* the min_pool_size it was made with.
THEOREM QueueAlwaysBounded == Spec => []QueueBound
  <1>1. CapInv => QueueBound
    BY DEF CapInv
  <1> QED BY <1>1, CapInit, CapStep, PTL DEF Spec

-----------------------------------------------------------------------------
(* The statistics.  For one pool a step does one of six things: it begins  *)
(* an acquire, ends one with a buffer, ends one in a panic, returns a      *)
(* buffer, gives one up for good, or none of these.                        *)

StatsSame(q) == /\ acquired'[q] = acquired[q] /\ returned'[q] = returned[q]
                /\ allocated'[q] = allocated[q] /\ cache_hits'[q] = cache_hits[q]

\* No handle of q is given up for good, no acquire from q panics.
Plain(q) == GivenUp(q) = {} /\ Panicked(q) = {}

Neither(q) == /\ StatsSame(q)
              /\ HandlesOf(q)' = HandlesOf(q) /\ Acquiring(q)' = Acquiring(q)

Begins(q) == \E t \in Threads \ Acquiring(q) :
    /\ acquired'[q] = acquired[q] + 1 /\ returned'[q] = returned[q]
    /\ allocated'[q] = allocated[q] /\ cache_hits'[q] = cache_hits[q]
    /\ HandlesOf(q)' = HandlesOf(q) /\ Acquiring(q)' = Acquiring(q) \cup {t}

Serves(q) == \E t \in Acquiring(q), b \in Buffers \ HandlesOf(q) :
    /\ acquired'[q] = acquired[q] /\ returned'[q] = returned[q]
    /\ \/ allocated'[q] = allocated[q] /\ cache_hits'[q] = cache_hits[q]
       \/ allocated'[q] = allocated[q] + 1 /\ cache_hits'[q] = cache_hits[q]
       \/ allocated'[q] = allocated[q] /\ cache_hits'[q] = cache_hits[q] + 1
    /\ HandlesOf(q)' = HandlesOf(q) \cup {b} /\ Acquiring(q)' = Acquiring(q) \ {t}

Panics(q) == \E t \in Acquiring(q) :
    /\ acquired'[q] = acquired[q] /\ returned'[q] = returned[q]
    /\ allocated'[q] = allocated[q] + 1 /\ cache_hits'[q] = cache_hits[q]
    /\ HandlesOf(q)' = HandlesOf(q) /\ Acquiring(q)' = Acquiring(q) \ {t}
    /\ GivenUp(q) = {} /\ Panicked(q) = {t}

Returns(q) == \E b \in HandlesOf(q) :
    /\ acquired'[q] = acquired[q] /\ returned'[q] = returned[q] + 1
    /\ allocated'[q] = allocated[q] /\ cache_hits'[q] = cache_hits[q]
    /\ HandlesOf(q)' = HandlesOf(q) \ {b} /\ Acquiring(q)' = Acquiring(q)

GivesUp(q) == \E b \in HandlesOf(q) :
    /\ StatsSame(q) /\ Acquiring(q)' = Acquiring(q)
    /\ HandlesOf(q)' = HandlesOf(q) \ {b}
    /\ GivenUp(q) = {b} /\ Panicked(q) = {}

\* A pool's counts change in one of these ways.
Counted(q) == \/ Plain(q) /\ (Neither(q) \/ Begins(q) \/ Serves(q) \/ Returns(q))
              \/ Panics(q) \/ GivesUp(q)

\* Thread t turns to the operation f on pool p.
Turn(t, f, p) == fn' = [fn EXCEPT ![t] = f] /\ pool' = [pool EXCEPT ![t] = p]

LEMMA EnterTurns ==
    ASSUME CallsOK, NEW t \in Threads
    PROVE  /\ \A f, a, p, b, n : Enter(t, f, a, p, b, n) => Turn(t, f, p)
           /\ Return(t) => Turn(t, "none", None)
           /\ \A a : Goto(t, a) => Turn(t, fn[t], pool[t])
           /\ UNCHANGED call => Turn(t, fn[t], pool[t])
  BY DEF CallsOK, Enter, Return, Goto, Turn, call

\* Who is acquiring does not change with a turn that has nothing to do with acquire.
LEMMA TurnElsewhere ==
    ASSUME CallsOK, NEW t \in Threads, NEW f, NEW p, Turn(t, f, p),
           \/ fn[t] # "acquire" /\ f # "acquire"
           \/ fn[t] = f /\ pool[t] = p,
           NEW q \in Pools
    PROVE  Acquiring(q)' = Acquiring(q)
  BY DEF CallsOK, Turn, Acquiring

\* An acquire ends.
LEMMA TurnDone ==
    ASSUME CallsOK, NEW t \in Threads, Turn(t, "none", None), fn[t] = "acquire",
           NEW q \in Pools
    PROVE  /\ Acquiring(q)' = Acquiring(q) \ {t}
           /\ pool[t] # q => Acquiring(q)' = Acquiring(q)
           /\ pool[t] = q => t \in Acquiring(q)
  BY DEF CallsOK, Turn, Acquiring

\* A handle is made of b, for p.
LEMMA HandleMade ==
    ASSUME VarsOK, NEW b \in Buffers, handle[b] = None, NEW p \in Pools,
           handle' = [handle EXCEPT ![b] = p], NEW q \in Pools
    PROVE  /\ HandlesOf(q)' = IF p = q THEN HandlesOf(q) \cup {b} ELSE HandlesOf(q)
           /\ b \notin HandlesOf(q)
  <1>1. None # q
    BY FastPoolAssumption DEF FastPoolAssumption
  <1> QED BY <1>1 DEF VarsOK, HandlesOf

\* The handle of b goes.
LEMMA HandleGone ==
    ASSUME VarsOK, NEW b \in Buffers, handle' = [handle EXCEPT ![b] = None], NEW q \in Pools
    PROVE  /\ HandlesOf(q)' = HandlesOf(q) \ {b}
           /\ handle[b] # q => HandlesOf(q)' = HandlesOf(q)
  <1>1. None # q
    BY FastPoolAssumption DEF FastPoolAssumption
  <1> QED BY <1>1 DEF VarsOK, HandlesOf

\* Only leak and drop_now free a buffer that a handle holds.
LEMMA GivingUpSteps ==
    ASSUME VarsOK, CallsOK, ControlOK, NoSharing, [Next]_vars, NEW q \in Pools
    PROVE  GivenUp(q) = {} \/ \E b \in Buffers : Leak(b) \/ DropNow(b)
  <1>1. None \notin Pools
    BY PoolSizes
  <1>2. ASSUME \A b \in Buffers : handle[b] # None => home'[b] # None
        PROVE  GivenUp(q) = {}
    BY <1>1, <1>2 DEF GivenUp, HandlesOf
  <1>3. \A b \in Buffers : handle[b] # None => home[b] # None
    BY DEF NoSharing, PlacedIdle
  <1>4. ASSUME UNCHANGED home
        PROVE  GivenUp(q) = {}
    BY <1>2, <1>3, <1>4
  <1>5. ASSUME NEW b \in Buffers, NEW p \in Pools, home' = [home EXCEPT ![b] = p]
        PROVE  GivenUp(q) = {}
    BY <1>1, <1>2, <1>3, <1>5 DEF VarsOK
  <1>6. ASSUME NEW S, Free(S), \A b \in S : b \in Buffers => handle[b] = None
        PROVE  GivenUp(q) = {}
    BY <1>2, <1>3, <1>6 DEF Free
  <1>7. ASSUME NEW t \in Threads, Alloc(t) \/ Fill(t)
        PROVE  GivenUp(q) = {}
    <2>1. pool[t] \in Pools
      BY <1>7, CallFields DEF Alloc, Fill, At
    <2> QED BY <1>5, <1>7, <2>1 DEF Alloc, Fill, Unallocated
  <1>8. ASSUME NEW t \in Threads, FetchSub(t) \/ Check(t)
        PROVE  GivenUp(q) = {}
    <2>1. buf[t] # None
      BY <1>8 DEF FetchSub, Check, At, ControlOK, Carrying
    <2>2. handle[buf[t]] = None
      BY <2>1 DEF NoSharing, PlacedIdle
    <2>3. CASE Free({buf[t]})
      BY <1>6, <2>2, <2>3
    <2>4. Free({buf[t]}) \/ UNCHANGED home
      BY <1>8 DEF FetchSub, Check
    <2> QED BY <1>4, <2>3, <2>4
  <1>9. ASSUME NEW t \in Threads, Spill(t) \/ ThreadExit(t)
        PROVE  GivenUp(q) = {}
    <2>1. \A b \in cache[t] : handle[b] = None
      BY DEF NoSharing, PlacedIdle
    <2>2. ASSUME NEW b \in cache[t], Free({b})
          PROVE  GivenUp(q) = {}
      BY <1>6, <2>1, <2>2
    <2>3. CASE Free(cache[t])
      BY <1>6, <2>1, <2>3
    <2>4. Free(cache[t]) \/ (\E b \in cache[t] : Free({b})) \/ UNCHANGED home
      BY <1>9 DEF Spill, ThreadExit
    <2> QED BY <1>4, <2>2, <2>3, <2>4
  <1>10. \/ \E t \in Threads : \/ Alloc(t) \/ Fill(t) \/ FetchSub(t) \/ Check(t)
                               \/ Spill(t) \/ ThreadExit(t)
         \/ \E b \in Buffers : Leak(b) \/ DropNow(b)
         \/ UNCHANGED home
    BY DEF Next, Begin, Step, vars, Acquire, Clear, ClearThreadCache, Warm, Drop, CacheHit,
           PopSome, PopNone, Push, FetchAdd, SpillDone, AllocPanic, FillPanic, Write
  <1> QED BY <1>4, <1>7, <1>8, <1>9, <1>10

\* A thread is about to allocate for an acquire, or will not be.
LEMMA PanickingSteps ==
    ASSUME VarsOK, CallsOK, ControlOK, [Next]_vars, NEW q \in Pools
    PROVE  Panicked(q) = {} \/ \E t \in Threads : AllocPanic(t)
  <1> USE EnterSteers DEF At
  <1>1. ASSUME NEW t \in Threads, NEW a, NEW p, Steer(t, p, a), at[t] # "alloc"
        PROVE  Panicked(q) = {}
    BY <1>1 DEF Panicked, Steer, Acquiring, CallsOK
  <1>2. ASSUME UNCHANGED at
        PROVE  Panicked(q) = {}
    BY <1>2 DEF Panicked
  <1>3. ASSUME NEW t \in Threads, Alloc(t)
        PROVE  Panicked(q) = {}
    BY <1>3 DEF Alloc, Panicked, Steer, Acquiring, CallsOK
  <1>4. ASSUME NEW t \in Threads, NEW p \in Pools,
               Acquire(t, p) \/ Clear(t, p) \/ ClearThreadCache(t, p)
        PROVE  Panicked(q) = {}
    BY <1>1, <1>4 DEF Acquire, Clear, ClearThreadCache, CanCall
  <1>5. ASSUME NEW t \in Threads, NEW p \in Pools, NEW n \in Targets, Warm(t, p, n)
        PROVE  Panicked(q) = {}
    BY <1>1, <1>2, <1>5 DEF Warm, CanCall, call
  <1>6. ASSUME NEW t \in Threads, NEW b \in Buffers, Drop(t, b)
        PROVE  Panicked(q) = {}
    BY <1>1, <1>2, <1>6 DEF Drop, CanCall, call
  <1>7. ASSUME NEW t \in Threads, CacheHit(t) \/ PopSome(t) \/ PopNone(t) \/ FetchSub(t)
        PROVE  Panicked(q) = {}
    BY <1>1, <1>7 DEF CacheHit, PopSome, PopNone, Popping, FetchSub
  <1>8. ASSUME NEW t \in Threads, Check(t) \/ Push(t) \/ FetchAdd(t) \/ Fill(t)
        PROVE  Panicked(q) = {}
    BY <1>1, <1>8 DEF Check, Push, FetchAdd, Fill
  <1>9. ASSUME NEW t \in Threads, Spill(t) \/ SpillDone(t) \/ FillPanic(t)
        PROVE  Panicked(q) = {}
    BY <1>1, <1>2, <1>9 DEF Spill, SpillDone, FillPanic, call
  <1>10. \/ \E t \in Threads : ThreadExit(t)
         \/ \E b \in Buffers : Write(b) \/ Leak(b) \/ DropNow(b)
         \/ UNCHANGED vars
         => Panicked(q) = {}
    BY <1>2 DEF ThreadExit, Write, Leak, DropNow, vars, call
  <1> QED BY <1>3, <1>4, <1>5, <1>6, <1>7, <1>8, <1>9, <1>10 DEF Next, Begin, Step

LEMMA NeitherSteps ==
    ASSUME VarsOK, CallsOK, ControlOK, [Next]_vars, NEW q \in Pools
    PROVE  \/ Neither(q)
           \/ \E t \in Threads : \/ CacheHit(t) \/ Alloc(t) \/ FetchSub(t) \/ AllocPanic(t)
                                 \/ \E p \in Pools : Acquire(t, p)
                                 \/ \E b \in Buffers : Drop(t, b)
           \/ \E b \in Buffers : Leak(b) \/ DropNow(b)
  <1> USE EnterTurns, TurnElsewhere DEF At
  <1>0. ASSUME UNCHANGED <<stats, handle>>, Acquiring(q)' = Acquiring(q)
        PROVE  Neither(q)
    BY <1>0 DEF Neither, StatsSame, stats, HandlesOf
  <1>1. ASSUME NEW t \in Threads, NEW p \in Pools, Clear(t, p) \/ ClearThreadCache(t, p)
        PROVE  Neither(q)
    <2>1. Acquiring(q)' = Acquiring(q)
      BY <1>1 DEF Clear, ClearThreadCache, CanCall, ControlOK
    <2> QED BY <1>0, <1>1, <2>1 DEF Clear, ClearThreadCache
  <1>2. ASSUME NEW t \in Threads, NEW p \in Pools, NEW n \in Targets, Warm(t, p, n)
        PROVE  Neither(q)
    <2>1. Acquiring(q)' = Acquiring(q)
      BY <1>2 DEF Warm, CanCall, ControlOK
    <2> QED BY <1>0, <1>2, <2>1 DEF Warm
  <1>3. ASSUME NEW t \in Threads, ThreadExit(t)
        PROVE  Neither(q)
    <2>1. Acquiring(q)' = Acquiring(q)
      BY <1>3 DEF ThreadExit
    <2> QED BY <1>0, <1>3, <2>1 DEF ThreadExit
  <1>4. ASSUME NEW t \in Threads, PopSome(t) \/ PopNone(t)
        PROVE  Neither(q)
    <2>1. Acquiring(q)' = Acquiring(q)
      BY <1>4 DEF PopSome, PopNone
    <2> QED BY <1>0, <1>4, <2>1 DEF PopSome, PopNone
  <1>5. ASSUME NEW t \in Threads, Check(t) \/ Push(t)
        PROVE  Neither(q)
    <2>1. Acquiring(q)' = Acquiring(q)
      BY <1>5 DEF Check, Push, ControlOK
    <2> QED BY <1>0, <1>5, <2>1 DEF Check, Push
  <1>6. ASSUME NEW t \in Threads, FetchAdd(t) \/ Fill(t)
        PROVE  Neither(q)
    <2>1. Acquiring(q)' = Acquiring(q)
      BY <1>6 DEF FetchAdd, Fill, ControlOK
    <2> QED BY <1>0, <1>6, <2>1 DEF FetchAdd, Fill
  <1>7. ASSUME NEW t \in Threads, Spill(t) \/ SpillDone(t) \/ FillPanic(t)
        PROVE  Neither(q)
    <2>1. Acquiring(q)' = Acquiring(q)
      BY <1>7 DEF Spill, SpillDone, FillPanic, ControlOK
    <2> QED BY <1>0, <1>7, <2>1 DEF Spill, SpillDone, FillPanic
  <1>8. ASSUME NEW b \in Buffers, Write(b)
        PROVE  Neither(q)
    BY <1>8, <1>0 DEF Write, call, Acquiring
  <1>9. CASE UNCHANGED vars
    BY <1>9, <1>0 DEF vars, call, Acquiring
  <1> QED BY <1>1, <1>2, <1>3, <1>4, <1>5, <1>6, <1>7, <1>8, <1>9 DEF Next, Begin, Step

LEMMA StatsSteps ==
    ASSUME VarsOK, CallsOK, ControlOK, NoSharing, [Next]_vars, NEW q \in Pools
    PROVE  \/ Neither(q) \/ Begins(q) \/ Serves(q) \/ Returns(q)
           \/ \E t \in Threads : AllocPanic(t)
           \/ \E b \in Buffers : Leak(b) \/ DropNow(b)
  <1>1. ASSUME NEW t \in Threads, NEW p \in Pools, Acquire(t, p)
        PROVE  Neither(q) \/ Begins(q)
    <2>1. fn[t] = "none" /\ pool[t] = None /\ Turn(t, "acquire", p) /\ handle' = handle
      BY <1>1, EnterTurns DEF Acquire, CanCall, At, ControlOK
    <2>2. /\ acquired' = [acquired EXCEPT ![p] = @ + 1]
          /\ UNCHANGED <<allocated, returned, cache_hits>>
      BY <1>1 DEF Acquire, Bump
    <2>3. CASE q = p
      <3>1. Acquiring(q)' = Acquiring(q) \cup {t} /\ t \notin Acquiring(q)
        BY <2>1, <2>3 DEF CallsOK, Turn, Acquiring
      <3> QED BY <2>1, <2>2, <2>3, <3>1 DEF Begins, VarsOK, HandlesOf
    <2>4. CASE q # p
      <3>1. Acquiring(q)' = Acquiring(q)
        BY <2>1, <2>4 DEF CallsOK, Turn, Acquiring
      <3> QED BY <2>1, <2>2, <2>4, <3>1 DEF Neither, StatsSame, VarsOK, HandlesOf
    <2> QED BY <2>3, <2>4
  <1>2. ASSUME NEW t \in Threads, NEW b \in Buffers, fn[t] = "acquire", pool[t] \in Pools,
               handle[b] = None, handle' = [handle EXCEPT ![b] = pool[t]], Return(t),
               UNCHANGED <<acquired, returned>>,
               \/ UNCHANGED <<allocated, cache_hits>>
               \/ allocated' = Bump(allocated, pool[t]) /\ UNCHANGED cache_hits
               \/ cache_hits' = Bump(cache_hits, pool[t]) /\ UNCHANGED allocated
        PROVE  Neither(q) \/ Serves(q)
    <2> DEFINE p == pool[t]
    <2>1. /\ Acquiring(q)' = Acquiring(q) \ {t}
          /\ p # q => Acquiring(q)' = Acquiring(q)
          /\ p = q => t \in Acquiring(q)
      BY <1>2, EnterTurns, TurnDone
    <2>2. /\ HandlesOf(q)' = IF p = q THEN HandlesOf(q) \cup {b} ELSE HandlesOf(q)
          /\ b \notin HandlesOf(q)
      BY <1>2, HandleMade
    <2>3. CASE q = p
      BY <1>2, <2>1, <2>2, <2>3 DEF Serves, Bump, VarsOK
    <2>4. CASE q # p
      BY <1>2, <2>1, <2>2, <2>4 DEF Neither, StatsSame, Bump, VarsOK
    <2> QED BY <2>3, <2>4
  <1>3. ASSUME NEW t \in Threads, CacheHit(t) \/ Alloc(t)
        PROVE  Neither(q) \/ Serves(q)
    <2>1. fn[t] = "acquire" /\ pool[t] \in Pools
      BY <1>3 DEF CacheHit, Alloc, At, ControlOK, CallsOK
    <2>2. PICK b \in Buffers : handle[b] = None /\ handle' = [handle EXCEPT ![b] = pool[t]]
      BY <1>3 DEF CacheHit, Alloc, Unallocated, VarsOK, NoSharing, PlacedIdle
    <2> QED BY <1>2, <1>3, <2>1, <2>2 DEF CacheHit, Alloc
  <1>4. ASSUME NEW t \in Threads, FetchSub(t)
        PROVE  Neither(q) \/ Serves(q)
    <2>1. CASE fn[t] = "acquire"
      <3>1. pool[t] \in Pools /\ buf[t] \in Buffers /\ buf[t] # None
        BY <1>4 DEF FetchSub, At, ControlOK, CallsOK, Carrying
      <3>2. handle[buf[t]] = None
        BY <3>1 DEF NoSharing, PlacedIdle
      <3> QED BY <1>2, <1>4, <2>1, <3>1, <3>2 DEF FetchSub, stats
    <2>2. CASE fn[t] = "clear"
      <3>1. Acquiring(q)' = Acquiring(q)
        BY <1>4, <2>2, EnterTurns, TurnElsewhere DEF FetchSub
      <3> QED BY <1>4, <2>2, <3>1 DEF FetchSub, Neither, StatsSame, stats, HandlesOf
    <2> QED BY <1>4, <2>1, <2>2 DEF FetchSub
  <1>5. ASSUME NEW t \in Threads, NEW b \in Buffers, Drop(t, b)
        PROVE  Neither(q) \/ Returns(q)
    <2>1. /\ fn[t] = "none" /\ handle[b] \in Pools /\ handle' = [handle EXCEPT ![b] = None]
          /\ returned' = Bump(returned, handle[b]) /\ UNCHANGED <<allocated, acquired, cache_hits>>
      BY <1>5 DEF Drop, CanCall, At, ControlOK, VarsOK
    <2>2. Acquiring(q)' = Acquiring(q)
      BY <1>5, <2>1, EnterTurns, TurnElsewhere DEF Drop
    <2>3. /\ HandlesOf(q)' = HandlesOf(q) \ {b}
          /\ handle[b] # q => HandlesOf(q)' = HandlesOf(q)
          /\ handle[b] = q => b \in HandlesOf(q)
      BY <2>1, HandleGone DEF HandlesOf
    <2>4. CASE handle[b] = q
      BY <2>1, <2>2, <2>3, <2>4 DEF Returns, Bump, VarsOK
    <2>5. CASE handle[b] # q
      BY <2>1, <2>2, <2>3, <2>5 DEF Neither, StatsSame, Bump, VarsOK
    <2> QED BY <2>4, <2>5
  <1> QED BY <1>1, <1>3, <1>4, <1>5, NeitherSteps

LEMMA PanicStep ==
    ASSUME VarsOK, CallsOK, ControlOK, NoSharing, NEW t \in Threads, AllocPanic(t),
           NEW q \in Pools
    PROVE  Counted(q)
  <1>1. /\ fn[t] = "acquire" /\ pool[t] \in Pools /\ at[t] = "alloc" /\ pool[t] \in oversized
        /\ at' = [at EXCEPT ![t] = "idle"] /\ Turn(t, "none", None)
    BY EnterTurns DEF AllocPanic, At, ControlOK, CallsOK, Return, Enter
  <1>2. /\ allocated' = [allocated EXCEPT ![pool[t]] = @ + 1]
        /\ UNCHANGED <<acquired, returned, cache_hits, handle, home>>
    BY DEF AllocPanic, Bump
  <1>3. HandlesOf(q)' = HandlesOf(q)
    BY <1>2 DEF HandlesOf
  <1>4. GivenUp(q) = {}
    BY <1>2, PoolSizes DEF GivenUp, HandlesOf, NoSharing, PlacedIdle
  <1>5. /\ Acquiring(q)' = Acquiring(q) \ {t}
        /\ pool[t] # q => Acquiring(q)' = Acquiring(q)
        /\ pool[t] = q => t \in Acquiring(q)
    BY <1>1, TurnDone
  <1>6. Panicked(q) = IF pool[t] = q THEN {t} ELSE {}
    BY <1>1, <1>5 DEF Panicked, Acquiring, At, CallsOK
  <1>7. CASE pool[t] = q
    BY <1>2, <1>3, <1>4, <1>5, <1>6, <1>7 DEF Counted, Panics, VarsOK
  <1>8. CASE pool[t] # q
    BY <1>2, <1>3, <1>4, <1>5, <1>6, <1>8 DEF Counted, Plain, Neither, StatsSame, VarsOK
  <1> QED BY <1>7, <1>8

LEMMA GiveUpStep ==
    ASSUME VarsOK, CallsOK, NoSharing, NEW b \in Buffers, Leak(b) \/ DropNow(b), NEW q \in Pools
    PROVE  Counted(q)
  <1>1. /\ handle[b] # None /\ handle' = [handle EXCEPT ![b] = None]
        /\ home' = [c \in Buffers |-> IF c \in {b} THEN None ELSE home[c]]
        /\ UNCHANGED <<stats, call>>
    BY DEF Leak, DropNow, Free
  <1>2. /\ HandlesOf(q)' = HandlesOf(q) \ {b}
        /\ handle[b] # q => HandlesOf(q)' = HandlesOf(q)
        /\ handle[b] = q => b \in HandlesOf(q)
    BY <1>1, HandleGone DEF HandlesOf
  <1>3. Acquiring(q)' = Acquiring(q) /\ Panicked(q) = {} /\ StatsSame(q)
    BY <1>1 DEF Acquiring, Panicked, call, stats, StatsSame, At
  <1>4. GivenUp(q) = IF handle[b] = q THEN {b} ELSE {}
    <2>1. \A c \in HandlesOf(q) : c \in Buffers /\ home[c] # None /\ handle[c] = q
      BY PoolSizes DEF HandlesOf, NoSharing, PlacedIdle
    <2>2. \A c \in Buffers : home'[c] = None <=> c = b \/ home[c] = None
      BY <1>1
    <2> QED BY <1>2, <2>1, <2>2 DEF GivenUp
  <1>5. CASE handle[b] = q
    BY <1>2, <1>3, <1>4, <1>5 DEF Counted, GivesUp
  <1>6. CASE handle[b] # q
    BY <1>2, <1>3, <1>4, <1>6 DEF Counted, Plain, Neither
  <1> QED BY <1>5, <1>6

LEMMA CountedSteps ==
    ASSUME OwnershipInv, [Next]_vars, NEW q \in Pools
    PROVE  Counted(q)
  <1>1. VarsOK /\ CallsOK /\ ControlOK /\ NoSharing
    BY DEF OwnershipInv, TypeOK
  <1>2. ASSUME NEW t \in Threads, AllocPanic(t)
        PROVE  Counted(q)
    BY <1>1, <1>2, PanicStep
  <1>3. ASSUME NEW b \in Buffers, Leak(b) \/ DropNow(b)
        PROVE  Counted(q)
    BY <1>1, <1>3, GiveUpStep
  <1>4. \/ Plain(q) \/ \E t \in Threads : AllocPanic(t)
        \/ \E b \in Buffers : Leak(b) \/ DropNow(b)
    BY <1>1, GivingUpSteps, PanickingSteps DEF Plain
  <1>5. \/ Neither(q) \/ Begins(q) \/ Serves(q) \/ Returns(q)
        \/ \E t \in Threads : AllocPanic(t)
        \/ \E b \in Buffers : Leak(b) \/ DropNow(b)
    BY <1>1, StatsSteps
  <1> QED BY <1>2, <1>3, <1>4, <1>5 DEF Counted

CountsInv == OwnershipInv /\ InUseCoversHandles /\ AcquiresCoverSources

LEMMA FiniteCounts ==
    ASSUME VarsOK, NEW p \in Pools
    PROVE  /\ IsFiniteSet(HandlesOf(p)) /\ Cardinality(HandlesOf(p)) \in Nat
           /\ IsFiniteSet(Acquiring(p)) /\ Cardinality(Acquiring(p)) \in Nat
           /\ acquired[p] \in Nat /\ returned[p] \in Nat
           /\ allocated[p] \in Nat /\ cache_hits[p] \in Nat
  <1>1. HandlesOf(p) \subseteq Buffers /\ Acquiring(p) \subseteq Threads
    BY DEF HandlesOf, Acquiring
  <1>2. IsFiniteSet(Threads) /\ IsFiniteSet(Buffers)
    BY FastPoolAssumption DEF FastPoolAssumption
  <1>3. IsFiniteSet(HandlesOf(p)) /\ IsFiniteSet(Acquiring(p))
    BY <1>1, <1>2, FS_Subset
  <1> QED BY <1>3, FS_CardinalityType DEF VarsOK

\* What the kinds of step do to the numbers of handles and of acquires under way.
LEMMA Headcounts ==
    ASSUME VarsOK, NEW q \in Pools, NEW h, NEW a
    PROVE  /\ \A b : b \notin HandlesOf(q) /\ h = HandlesOf(q) \cup {b} =>
                         Cardinality(h) = Cardinality(HandlesOf(q)) + 1
           /\ \A b \in HandlesOf(q) : h = HandlesOf(q) \ {b} =>
                         Cardinality(h) = Cardinality(HandlesOf(q)) - 1
           /\ \A t : t \notin Acquiring(q) /\ a = Acquiring(q) \cup {t} =>
                         Cardinality(a) = Cardinality(Acquiring(q)) + 1
           /\ \A t \in Acquiring(q) : a = Acquiring(q) \ {t} =>
                         Cardinality(a) = Cardinality(Acquiring(q)) - 1
  <1>1. /\ IsFiniteSet(HandlesOf(q)) /\ Cardinality(HandlesOf(q)) \in Nat
        /\ IsFiniteSet(Acquiring(q)) /\ Cardinality(Acquiring(q)) \in Nat
    BY FiniteCounts
  <1>3. ASSUME NEW b, b \notin HandlesOf(q), h = HandlesOf(q) \cup {b}
        PROVE  Cardinality(h) = Cardinality(HandlesOf(q)) + 1
    BY <1>1, <1>3, PlusOne
  <1>4. ASSUME NEW b \in HandlesOf(q), h = HandlesOf(q) \ {b}
        PROVE  Cardinality(h) = Cardinality(HandlesOf(q)) - 1
    BY <1>1, <1>4, MinusOne
  <1>5. ASSUME NEW t, t \notin Acquiring(q), a = Acquiring(q) \cup {t}
        PROVE  Cardinality(a) = Cardinality(Acquiring(q)) + 1
    BY <1>1, <1>5, PlusOne
  <1>6. ASSUME NEW t \in Acquiring(q), a = Acquiring(q) \ {t}
        PROVE  Cardinality(a) = Cardinality(Acquiring(q)) - 1
    BY <1>1, <1>6, MinusOne
  <1> QED BY <1>3, <1>4, <1>5, <1>6

LEMMA CountsInit == Init => CountsInv
  <1> SUFFICES ASSUME Init, NEW p \in Pools
               PROVE  /\ returned[p] + Cardinality(HandlesOf(p)) + Cardinality(Acquiring(p))
                             =< acquired[p]
                      /\ allocated[p] + cache_hits[p] + Cardinality(Acquiring(p)) =< acquired[p]
    BY OwnershipInit DEF CountsInv, InUseCoversHandles, AcquiresCoverSources
  <1>1. p # None
    BY FastPoolAssumption DEF FastPoolAssumption
  <1>2. HandlesOf(p) = {} /\ Acquiring(p) = {}
    BY <1>1 DEF Init, HandlesOf, Acquiring
  <1>3. acquired[p] = 0 /\ returned[p] = 0 /\ allocated[p] = 0 /\ cache_hits[p] = 0
    BY DEF Init
  <1> QED BY <1>2, <1>3, FS_EmptySet

\* The two bounds at once, as numbers: what the handles, the acquires under way, the
\* given up and the panicked come to before and after a step.
LEMMA CountsChange ==
    ASSUME OwnershipInv, [Next]_vars, NEW q \in Pools,
           NEW h, NEW a, NEW hn, NEW an, NEW g, NEW x,
           h = Cardinality(HandlesOf(q)), a = Cardinality(Acquiring(q)),
           hn = Cardinality(HandlesOf(q)'), an = Cardinality(Acquiring(q)'),
           g = Cardinality(GivenUp(q)), x = Cardinality(Panicked(q))
    PROVE  /\ h \in Nat /\ a \in Nat /\ hn \in Nat /\ an \in Nat
           /\ acquired[q] \in Nat /\ returned[q] \in Nat
           /\ allocated[q] \in Nat /\ cache_hits[q] \in Nat
           /\ \/ /\ acquired'[q] = acquired[q] /\ returned'[q] = returned[q]
                 /\ allocated'[q] = allocated[q] /\ cache_hits'[q] = cache_hits[q]
                 /\ \/ hn = h /\ an = a /\ g = 0 /\ x = 0
                    \/ hn = h - 1 /\ an = a /\ g = 1 /\ x = 0
              \/ /\ acquired'[q] = acquired[q] + 1 /\ returned'[q] = returned[q]
                 /\ allocated'[q] = allocated[q] /\ cache_hits'[q] = cache_hits[q]
                 /\ hn = h /\ an = a + 1 /\ g = 0 /\ x = 0
              \/ /\ acquired'[q] = acquired[q] /\ returned'[q] = returned[q]
                 /\ \/ allocated'[q] = allocated[q] /\ cache_hits'[q] = cache_hits[q]
                    \/ allocated'[q] = allocated[q] + 1 /\ cache_hits'[q] = cache_hits[q]
                    \/ allocated'[q] = allocated[q] /\ cache_hits'[q] = cache_hits[q] + 1
                 /\ hn = h + 1 /\ an = a - 1 /\ g = 0 /\ x = 0
              \/ /\ acquired'[q] = acquired[q] /\ returned'[q] = returned[q]
                 /\ allocated'[q] = allocated[q] + 1 /\ cache_hits'[q] = cache_hits[q]
                 /\ hn = h /\ an = a - 1 /\ g = 0 /\ x = 1
              \/ /\ acquired'[q] = acquired[q] /\ returned'[q] = returned[q] + 1
                 /\ allocated'[q] = allocated[q] /\ cache_hits'[q] = cache_hits[q]
                 /\ hn = h - 1 /\ an = a /\ g = 0 /\ x = 0
  <1>1. VarsOK
    BY DEF OwnershipInv, TypeOK
  <1>2. /\ h \in Nat /\ a \in Nat /\ acquired[q] \in Nat /\ returned[q] \in Nat
        /\ allocated[q] \in Nat /\ cache_hits[q] \in Nat
    BY <1>1, FiniteCounts
  <1>3. hn \in Nat /\ an \in Nat
    <2>1. HandlesOf(q)' \subseteq Buffers /\ Acquiring(q)' \subseteq Threads
      BY DEF HandlesOf, Acquiring
    <2>2. IsFiniteSet(HandlesOf(q)') /\ IsFiniteSet(Acquiring(q)')
      BY <2>1, PoolSizes, FS_Subset
    <2> QED BY <2>2, FS_CardinalityType
  <1>4. /\ GivenUp(q) = {} => g = 0
        /\ Panicked(q) = {} => x = 0
        /\ \A b : GivenUp(q) = {b} => g = 1
        /\ \A t : Panicked(q) = {t} => x = 1
    BY FS_EmptySet, FS_Singleton
  <1>5. CASE Plain(q) /\ Neither(q)
    BY <1>2, <1>3, <1>4, <1>5 DEF Plain, Neither, StatsSame
  <1>6. CASE Plain(q) /\ Begins(q)
    <2>1. an = a + 1 /\ hn = h
      BY <1>1, <1>6, Headcounts DEF Begins
    <2> QED BY <1>2, <1>3, <1>4, <1>6, <2>1 DEF Plain, Begins
  <1>7. CASE Plain(q) /\ Serves(q)
    <2>1. an = a - 1 /\ hn = h + 1
      BY <1>1, <1>7, Headcounts DEF Serves
    <2> QED BY <1>2, <1>3, <1>4, <1>7, <2>1 DEF Plain, Serves
  <1>8. CASE Plain(q) /\ Returns(q)
    <2>1. an = a /\ hn = h - 1
      BY <1>1, <1>8, Headcounts DEF Returns
    <2> QED BY <1>2, <1>3, <1>4, <1>8, <2>1 DEF Plain, Returns
  <1>9. CASE Panics(q)
    <2>1. an = a - 1 /\ hn = h
      BY <1>1, <1>9, Headcounts DEF Panics
    <2> QED BY <1>2, <1>3, <1>4, <1>9, <2>1 DEF Panics
  <1>10. CASE GivesUp(q)
    <2>1. an = a /\ hn = h - 1
      BY <1>1, <1>10, Headcounts DEF GivesUp
    <2> QED BY <1>2, <1>3, <1>4, <1>10, <2>1 DEF GivesUp, StatsSame
  <1> QED BY <1>5, <1>6, <1>7, <1>8, <1>9, <1>10, CountedSteps DEF Counted

LEMMA CountsStep == CountsInv /\ [Next]_vars => CountsInv'
  <1> SUFFICES ASSUME CountsInv, [Next]_vars, OwnershipInv', NEW q \in Pools
               PROVE  /\ returned'[q] + Cardinality(HandlesOf(q)') + Cardinality(Acquiring(q)')
                             =< acquired'[q]
                      /\ allocated'[q] + cache_hits'[q] + Cardinality(Acquiring(q)')
                             =< acquired'[q]
    BY OwnershipStep DEF CountsInv, InUseCoversHandles, AcquiresCoverSources
  <1>1. /\ returned[q] + Cardinality(HandlesOf(q)) + Cardinality(Acquiring(q)) =< acquired[q]
        /\ allocated[q] + cache_hits[q] + Cardinality(Acquiring(q)) =< acquired[q]
    BY DEF CountsInv, InUseCoversHandles, AcquiresCoverSources
  <1>2. OwnershipInv
    BY DEF CountsInv
  <1> QED BY <1>1, <1>2, CountsChange

\* acquired less returned never counts fewer buffers than the clients hold, nor than
\* they will hold once the acquires under way are served.
THEOREM InUseAlwaysCovers == Spec => []InUseCoversHandles
  <1>1. CountsInv => InUseCoversHandles
    BY DEF CountsInv
  <1> QED BY <1>1, CountsInit, CountsStep, PTL DEF Spec

\* in_use drifts upwards by what leak and drop_now take out and by the acquires that
\* panic, and by nothing else, whatever the order of the threads' updates.
THEOREM DriftIsOnlyLeaks == Spec => DriftIsLeaks
  <1>1. ASSUME CountsInv, [Next]_vars, NEW p \in Pools
        PROVE  Drift(p)' = Drift(p) + Cardinality(GivenUp(p)) + Cardinality(Panicked(p))
    <2>1. OwnershipInv
      BY <1>1 DEF CountsInv
    <2> QED BY <1>1, <2>1, CountsChange DEF Drift
  <1>2. CountsInv /\ [Next]_vars =>
            [\A p \in Pools : Drift(p)' = Drift(p) + Cardinality(GivenUp(p))
                                                  + Cardinality(Panicked(p))]_vars
    BY <1>1
  <1> QED BY <1>2, CountsInit, CountsStep, PTL DEF Spec, DriftIsLeaks

\* Allocations and cache hits together never exceed the acquires.
THEOREM AcquiresAlwaysCover == Spec => []AcquiresCoverSources
  <1>1. CountsInv => AcquiresCoverSources
    BY DEF CountsInv
  <1> QED BY <1>1, CountsInit, CountsStep, PTL DEF Spec

-----------------------------------------------------------------------------
(* The snapshots of stats().  A value its counter once had is one that the *)
(* counter has grown from, so the current bounds hold of any mixture of    *)
(* them but for the acquires begun since the oldest.                       *)

PastType == of \in Pools \cup {None} /\ past \in [Fields -> SUBSET Nat]

Behind == of # None =>
    /\ \A n \in past["allocated"] : n =< allocated[of]
    /\ \A n \in past["acquired"] : n =< acquired[of]
    /\ \A n \in past["returned"] : n =< returned[of]
    /\ \A n \in past["cache_hits"] : n =< cache_hits[of]
    /\ \E m \in past["acquired"] : \A n \in past["acquired"] : m =< n

UpToDate == of # None => \A f \in Fields : Load(of)[f] \in past[f]

PoolInv == CounterInv /\ CountsInv

SnapInv == PoolInv /\ PastType /\ Behind /\ UpToDate

allVars == <<vars, statsVars>>

LEMMA LoadType ==
    ASSUME VarsOK, NEW p \in Pools
    PROVE  /\ Load(p)["available"] = size[p] /\ Load(p)["allocated"] = allocated[p]
           /\ Load(p)["acquired"] = acquired[p] /\ Load(p)["returned"] = returned[p]
           /\ Load(p)["cache_hits"] = cache_hits[p]
           /\ size[p] \in Nat /\ allocated[p] \in Nat /\ acquired[p] \in Nat
           /\ returned[p] \in Nat /\ cache_hits[p] \in Nat
           /\ \A f \in Fields : Load(p)[f] \in Nat
  <1>1. /\ size[p] \in Nat /\ allocated[p] \in Nat /\ acquired[p] \in Nat
        /\ returned[p] \in Nat /\ cache_hits[p] \in Nat
    BY PoolSizes DEF VarsOK
  <1> QED BY <1>1 DEF Load, Fields

LEMMA CountersGrow ==
    ASSUME OwnershipInv, [Next]_vars, NEW q \in Pools
    PROVE  /\ allocated[q] =< allocated'[q] /\ acquired[q] =< acquired'[q]
           /\ returned[q] =< returned'[q] /\ cache_hits[q] =< cache_hits'[q]
  BY CountsChange

LEMMA PoolStep == PoolInv /\ [Next]_vars => PoolInv'
  BY CounterStep, CountsStep DEF PoolInv

LEMMA StatsIsNext == [StatsNext]_allVars => [Next]_vars
  BY DEF StatsNext, StatsCall, StatsDone, allVars

LEMMA SnapInit == StatsInit => SnapInv
  <1> SUFFICES ASSUME StatsInit
               PROVE  SnapInv
    OBVIOUS
  <1>1. PoolInv
    BY CounterInit, CountsInit DEF StatsInit, PoolInv
  <1>2. PastType /\ Behind /\ UpToDate
    BY DEF StatsInit, NoPast, PastType, Behind, UpToDate
  <1> QED BY <1>1, <1>2 DEF SnapInv

LEMMA SnapStep == SnapInv /\ [StatsNext]_allVars => SnapInv'
  <1> SUFFICES ASSUME SnapInv, [StatsNext]_allVars
               PROVE  SnapInv'
    OBVIOUS
  <1>1. PoolInv' /\ OwnershipInv /\ VarsOK /\ VarsOK' /\ [Next]_vars
    BY PoolStep, StatsIsNext DEF SnapInv, PoolInv, CounterInv, OwnershipInv, TypeOK
  <1> SUFFICES PastType' /\ Behind' /\ UpToDate'
    BY <1>1 DEF SnapInv
  <1>2. None \notin Pools /\ Watched \subseteq Pools
    BY PoolSizes, WatchedAssumption DEF WatchedAssumption
  <1>3. CASE Next /\ Record
    <2>1. CASE of = None
      BY <1>3, <2>1 DEF Record, SnapInv, PastType, Behind, UpToDate
    <2>2. CASE of # None
      <3>1. of \in Pools /\ of' = of /\ past \in [Fields -> SUBSET Nat]
        BY <1>3, <2>2 DEF Record, SnapInv, PastType
      <3>2. past' = [f \in Fields |-> past[f] \cup {Load(of)'[f]}]
        BY <1>3, <2>2 DEF Record
      <3>3. /\ Load(of)'["allocated"] = allocated'[of] /\ Load(of)'["acquired"] = acquired'[of]
            /\ Load(of)'["returned"] = returned'[of] /\ Load(of)'["cache_hits"] = cache_hits'[of]
            /\ Load(of)'["available"] = size'[of]
        BY <3>1 DEF Load
      <3>4. \A f \in Fields : Load(of)'[f] \in Nat
        BY <1>1, <3>1, <3>3, PoolSizes DEF VarsOK, Fields
      <3>5. PastType'
        BY <3>1, <3>2, <3>4 DEF PastType
      <3>6. UpToDate'
        BY <3>2 DEF UpToDate
      <3>7. /\ allocated[of] =< allocated'[of] /\ acquired[of] =< acquired'[of]
            /\ returned[of] =< returned'[of] /\ cache_hits[of] =< cache_hits'[of]
        BY <1>1, <3>1, CountersGrow
      <3>8. /\ past'["allocated"] = past["allocated"] \cup {allocated'[of]}
            /\ past'["acquired"] = past["acquired"] \cup {acquired'[of]}
            /\ past'["returned"] = past["returned"] \cup {returned'[of]}
            /\ past'["cache_hits"] = past["cache_hits"] \cup {cache_hits'[of]}
        BY <3>2, <3>3 DEF Fields
      <3>9. /\ allocated[of] \in Nat /\ acquired[of] \in Nat /\ returned[of] \in Nat
            /\ cache_hits[of] \in Nat /\ allocated'[of] \in Nat /\ acquired'[of] \in Nat
            /\ returned'[of] \in Nat /\ cache_hits'[of] \in Nat
        BY <1>1, <3>1 DEF VarsOK
      <3>10. /\ past["allocated"] \subseteq Nat /\ past["acquired"] \subseteq Nat
             /\ past["returned"] \subseteq Nat /\ past["cache_hits"] \subseteq Nat
        BY <3>1 DEF Fields
      <3>11. Behind
        BY DEF SnapInv
      <3>12. \E m \in past'["acquired"] : \A n \in past'["acquired"] : m =< n
        <4>1. PICK m \in past["acquired"] : \A n \in past["acquired"] : m =< n
          BY <2>2, <3>11 DEF Behind
        <4>2. m =< acquired[of] /\ m \in Nat
          BY <2>2, <3>10, <3>11, <4>1 DEF Behind
        <4>3. m =< acquired'[of]
          BY <3>7, <3>9, <4>2
        <4> QED BY <3>8, <4>1, <4>3
      <3>13. Behind'
        BY <2>2, <3>1, <3>7, <3>8, <3>9, <3>10, <3>11, <3>12 DEF Behind
      <3> QED BY <3>5, <3>6, <3>13
    <2> QED BY <2>1, <2>2
  <1>4. ASSUME NEW p \in Watched, StatsCall(p)
        PROVE  PastType' /\ Behind' /\ UpToDate'
    <2>1. /\ p \in Pools /\ of' = p /\ past' = [f \in Fields |-> {Load(p)[f]}]
          /\ UNCHANGED <<size, allocated, acquired, returned, cache_hits>>
      BY <1>2, <1>4 DEF StatsCall, vars, stats
    <2>2. /\ past'["allocated"] = {allocated[p]} /\ past'["acquired"] = {acquired[p]}
          /\ past'["returned"] = {returned[p]} /\ past'["cache_hits"] = {cache_hits[p]}
      BY <1>1, <2>1, LoadType DEF Fields
    <2>3. PastType'
      BY <1>1, <2>1, LoadType DEF PastType
    <2>4. Behind'
      <3>1. /\ allocated[p] \in Nat /\ acquired[p] \in Nat /\ returned[p] \in Nat
            /\ cache_hits[p] \in Nat
        BY <1>1, <2>1, LoadType
      <3>2. \E m \in past'["acquired"] : \A n \in past'["acquired"] : m =< n
        BY <2>2, <3>1
      <3>3. /\ allocated'[of'] = allocated[p] /\ acquired'[of'] = acquired[p]
            /\ returned'[of'] = returned[p] /\ cache_hits'[of'] = cache_hits[p]
        BY <2>1
      <3> QED BY <2>2, <3>1, <3>2, <3>3 DEF Behind
    <2>5. UpToDate'
      BY <2>1 DEF UpToDate, Load
    <2> QED BY <2>3, <2>4, <2>5
  <1>5. CASE StatsDone
    BY <1>5 DEF StatsDone, NoPast, PastType, Behind, UpToDate
  <1>6. CASE UNCHANGED allVars
    BY <1>6 DEF allVars, vars, stats, statsVars, SnapInv, PastType, Behind, UpToDate, Load
  <1> QED BY <1>3, <1>4, <1>5, <1>6 DEF StatsNext

LEMMA RateGrows ==
    ASSUME NEW a \in Nat, NEW m \in Nat, NEW n \in Nat, m =< n, n =< a
    PROVE  Stats!Rate(m, a) =< Stats!Rate(n, a) /\ Stats!Rate(n, a) =< 100
  <1>1. CASE a = 0
    BY <1>1 DEF Stats!Rate
  <1>2. CASE a # 0
    <2>1. (100 * m) \div a =< (100 * n) \div a
      <3>1. 100 * m \in Nat /\ 100 * n \in Nat /\ 100 * m =< 100 * n /\ a > 0
        BY <1>2
      <3> QED BY <3>1, DivGrows
    <2>2. (100 * n) \div a =< (100 * a) \div a
      <3>1. 100 * n \in Nat /\ 100 * a \in Nat /\ 100 * n =< 100 * a /\ a > 0
        BY <1>2
      <3> QED BY <3>1, DivGrows
    <2>3. (100 * a) \div a = 100
      BY <1>2
    <2>4. (100 * n) \div a \in Int
      BY <1>2
    <2> QED BY <1>2, <2>1, <2>2, <2>3, <2>4 DEF Stats!Rate
  <1> QED BY <1>1, <1>2

LEMMA PastFields ==
    /\ past.available = past["available"] /\ past.allocated = past["allocated"]
    /\ past.acquired = past["acquired"] /\ past.returned = past["returned"]
    /\ past.cache_hits = past["cache_hits"]
  OBVIOUS

\* What a struct that stats() may return has to do with the pool.
LEMMA SnapFields ==
    ASSUME SnapInv, of # None, NEW s \in Snapshots
    PROVE  /\ of \in Pools /\ VarsOK
           /\ s.available \in past["available"] /\ s.available \in Nat
           /\ s.allocated \in Nat /\ s.allocated =< allocated[of]
           /\ s.acquired \in past["acquired"] /\ s.acquired \in Nat
           /\ s.returned \in Nat /\ s.returned =< returned[of]
           /\ s.cache_hits \in Nat /\ s.cache_hits =< cache_hits[of]
  <1>1. of \in Pools /\ VarsOK /\ past \in [Fields -> SUBSET Nat]
    BY DEF SnapInv, PastType, PoolInv, CounterInv, OwnershipInv, TypeOK
  <1>2. /\ s.available \in past["available"] /\ s.allocated \in past["allocated"]
        /\ s.acquired \in past["acquired"] /\ s.returned \in past["returned"]
        /\ s.cache_hits \in past["cache_hits"]
    BY PastFields DEF Snapshots
  <1>3. /\ past["available"] \subseteq Nat /\ past["allocated"] \subseteq Nat
        /\ past["acquired"] \subseteq Nat /\ past["returned"] \subseteq Nat
        /\ past["cache_hits"] \subseteq Nat
    BY <1>1 DEF Fields
  <1>4. Behind
    BY DEF SnapInv
  <1> QED BY <1>1, <1>2, <1>3, <1>4 DEF Behind

LEMMA PoolCounts ==
    ASSUME SnapInv, of # None
    PROVE  /\ returned[of] + Cardinality(HandlesOf(of)) + Cardinality(Acquiring(of))
                  =< acquired[of]
           /\ allocated[of] + cache_hits[of] + Cardinality(Acquiring(of)) =< acquired[of]
           /\ Cardinality(HandlesOf(of)) \in Nat /\ Cardinality(Acquiring(of)) \in Nat
           /\ acquired[of] \in Nat /\ returned[of] \in Nat
           /\ allocated[of] \in Nat /\ cache_hits[of] \in Nat
  <1>1. of \in Pools /\ VarsOK
    BY DEF SnapInv, PastType, PoolInv, CounterInv, OwnershipInv, TypeOK
  <1>2. InUseCoversHandles /\ AcquiresCoverSources
    BY DEF SnapInv, PoolInv, CountsInv
  <1>3. /\ returned[of] + Cardinality(HandlesOf(of)) + Cardinality(Acquiring(of))
               =< acquired[of]
        /\ allocated[of] + cache_hits[of] + Cardinality(Acquiring(of)) =< acquired[of]
    BY <1>1, <1>2 DEF InUseCoversHandles, AcquiresCoverSources
  <1> QED BY <1>1, <1>3, FiniteCounts

LEMMA OldestIsMin ==
    ASSUME NEW S \in SUBSET Nat, NEW m \in S, \A n \in S : m =< n
    PROVE  Min(S) \in S /\ \A n \in S : Min(S) =< n
  BY DEF Min

\* Whichever of the values since the last synchronisation the loads return, in_use
\* falls short of the handles, and the sources exceed the acquires, by no more than
\* the acquires begun since.
THEOREM SnapsOffByUnseen == StatsSpec => []SnapOffByUnseen
  <1>1. ASSUME SnapInv, of # None, NEW s \in Snapshots
        PROVE  /\ Cardinality(HandlesOf(of)) =< in_use(s) + Unseen
               /\ s.allocated + s.cache_hits =< s.acquired + Unseen
    <2>1. /\ s.allocated \in Nat /\ s.allocated =< allocated[of]
          /\ s.acquired \in past["acquired"] /\ s.acquired \in Nat
          /\ s.returned \in Nat /\ s.returned =< returned[of]
          /\ s.cache_hits \in Nat /\ s.cache_hits =< cache_hits[of]
      BY <1>1, SnapFields
    <2>2. past["acquired"] \in SUBSET Nat
      BY <1>1 DEF SnapInv, PastType, Fields
    <2>3. PICK m \in past["acquired"] : \A n \in past["acquired"] : m =< n
      BY <1>1 DEF SnapInv, Behind
    <2> DEFINE old == Min(past["acquired"])
    <2>4. old \in past["acquired"] /\ old =< s.acquired
      BY <2>1, <2>2, <2>3, OldestIsMin
    <2>5. old \in Nat /\ Unseen = acquired[of] - old
      BY <2>2, <2>4, PastFields DEF Unseen
    <2> HIDE DEF old
    <2>6. acquired[of] =< s.acquired + Unseen
      BY <1>1, <2>1, <2>4, <2>5, PoolCounts
    <2>7. in_use(s) = IF s.acquired < s.returned THEN 0 ELSE s.acquired - s.returned
      BY DEF in_use, Stats!in_use, Stats!saturating_sub
    <2>8. Unseen \in Int
      BY <1>1, <2>5, PoolCounts
    <2> QED BY <1>1, <2>1, <2>6, <2>7, <2>8, PoolCounts
  <1>2. SnapInv => SnapOffByUnseen
    BY <1>1 DEF SnapOffByUnseen
  <1> QED BY <1>2, SnapInit, SnapStep, PTL DEF StatsSpec, allVars

\* A snapshot taken while no counter of the pool has changed tells the truth: its
\* in_use counts every handle, its available is the queue's length outside all
\* operations, and its rates are in order.
THEOREM CalmSnapsAlwaysTrue == StatsSpec => []CalmSnapTrue
  <1>1. ASSUME SnapInv, of # None, past = [f \in Fields |-> {Load(of)[f]}],
               NEW s \in Snapshots
        PROVE  /\ Cardinality(HandlesOf(of)) =< in_use(s)
               /\ (\A t \in Threads : At(t, "idle")) => s.available = Cardinality(items[of])
               /\ cache_hit_rate(s) =< pool_hit_rate(s) /\ pool_hit_rate(s) =< 100
    <2>1. of \in Pools /\ VarsOK
      BY <1>1, SnapFields
    <2>2. /\ s.available = size[of] /\ s.allocated = allocated[of]
          /\ s.acquired = acquired[of] /\ s.returned = returned[of]
          /\ s.cache_hits = cache_hits[of]
      <3>1. /\ past["available"] = {size[of]} /\ past["allocated"] = {allocated[of]}
            /\ past["acquired"] = {acquired[of]} /\ past["returned"] = {returned[of]}
            /\ past["cache_hits"] = {cache_hits[of]}
        BY <1>1, <2>1, LoadType DEF Fields
      <3>2. /\ s.available \in past["available"] /\ s.allocated \in past["allocated"]
            /\ s.acquired \in past["acquired"] /\ s.returned \in past["returned"]
            /\ s.cache_hits \in past["cache_hits"]
        BY PastFields DEF Snapshots
      <3> QED BY <3>1, <3>2
    <2>3. Cardinality(HandlesOf(of)) =< in_use(s)
      BY <1>1, <2>2, PoolCounts DEF in_use, Stats!in_use, Stats!saturating_sub
    <2>4. (\A t \in Threads : At(t, "idle")) => s.available = Cardinality(items[of])
      BY <1>1, <2>1, <2>2, QuietIsExact DEF SnapInv, PoolInv
    <2>5. hits(s) \in Nat /\ cache_hits[of] =< hits(s) /\ hits(s) =< acquired[of]
      BY <1>1, <2>2, PoolCounts DEF hits, Stats!hits, Stats!saturating_sub
    <2>6. /\ Stats!Rate(cache_hits[of], acquired[of]) =< Stats!Rate(hits(s), acquired[of])
          /\ Stats!Rate(hits(s), acquired[of]) =< 100
      BY <1>1, <2>5, PoolCounts, RateGrows
    <2> QED BY <2>2, <2>3, <2>4, <2>6 DEF cache_hit_rate, pool_hit_rate
  <1>2. SnapInv => CalmSnapTrue
    BY <1>1 DEF CalmSnapTrue
  <1> QED BY <1>2, SnapInit, SnapStep, PTL DEF StatsSpec, allVars
=============================================================================
