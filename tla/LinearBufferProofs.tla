------------------------- MODULE LinearBufferProofs -------------------------
(***************************************************************************)
(* The ends of a LinearBuffer stay ordered and everything below the Vec's  *)
(* length is zero or the client's own, for every MaxSize and MaxCap.  The  *)
(* conjunction of the two with the types is inductive as it stands.        *)
(***************************************************************************)
EXTENDS LinearBuffer, TLAPS

IInv == TypeOK /\ EndsOrdered /\ ReachableIsOwn

Stays == mem' \in [Cells -> Source] /\ (ReachableIsOwn)'

\* Writing client bytes over cells keeps what can be reached one's own
\* (Filled, behind put, get_write_ptr and as_mut_slice).
LEMMA FillKeepsOwn ==
    ASSUME TypeOK, ReachableIsOwn, NEW from, NEW to,
           mem' = Filled(from, to, "client"), vec_len' = vec_len
    PROVE  Stays
BY DEF TypeOK, ReachableIsOwn, Stays, Filled, Source, Cells

\* A move shows the Vec's own bytes, and zeroes up to its new length.
LEMMA MovedKeepsOwn ==
    ASSUME TypeOK, ReachableIsOwn, NEW n \in Int, n >= vec_len,
           mem' \in Moved(n), vec_len' = n
    PROVE  Stays
<1>1. PICK rest \in {mem, [i \in Cells |-> "junk"]} :
             mem' = [i \in Cells |-> IF i < vec_len THEN mem[i]
                                      ELSE IF i < n THEN "zero" ELSE rest[i]]
  BY DEF Moved
<1>2. rest \in [Cells -> Source]
  BY DEF TypeOK, Source
<1>3. ASSUME NEW i \in Cells
      PROVE  mem'[i] \in Source /\ (i < n => mem'[i] \in {"zero", "client"})
  BY <1>1, <1>2 DEF TypeOK, ReachableIsOwn, Source
<1>4. mem' \in [Cells -> Source]
  BY <1>1, <1>3
<1> QED
  BY <1>3, <1>4 DEF Stays, ReachableIsOwn

\* Lengthening the Vec, in place or by moving it, shows only zeroes (Vec::resize).
LEMMA LengthenKeepsOwn ==
    ASSUME TypeOK, ReachableIsOwn, vec_len =< capacity, NEW n \in Int, Lengthen(n)
    PROVE  /\ Stays
           /\ capacity' \in 0 .. MaxCap /\ vec_len' \in 0 .. MaxCap
           /\ vec_len' = n /\ vec_len' =< capacity'
<1>1. n > vec_len /\ vec_len' = n
  BY DEF Lengthen
<1>2. CASE n =< capacity /\ mem' = Filled(vec_len, n, "zero") /\ UNCHANGED capacity
  <2>1. Stays
    BY <1>1, <1>2, LinearAssumption DEF TypeOK, ReachableIsOwn, Stays, Filled, Source, Cells
  <2> QED
    BY <1>1, <1>2, <2>1, LinearAssumption DEF TypeOK
<1>3. CASE /\ n > capacity
           /\ capacity' \in n .. MaxCap
           /\ mem' \in Moved(n)
  <2>1. n >= vec_len
    BY <1>1 DEF TypeOK
  <2>2. Stays
    BY <1>1, <1>3, <2>1, MovedKeepsOwn
  <2> QED
    BY <1>1, <1>3, <2>2, LinearAssumption DEF TypeOK
<1> QED
  BY <1>2, <1>3 DEF Lengthen

\* Making room changes the storage only by lengthening (set_len, incr_len,
\* incr_write_pos).
LEMMA RoomKeepsOwn ==
    ASSUME TypeOK, ReachableIsOwn, vec_len =< capacity, NEW n \in Int, Room(n)
    PROVE  /\ Stays
           /\ capacity' \in 0 .. MaxCap /\ vec_len' \in 0 .. MaxCap
           /\ n =< vec_len' /\ vec_len =< vec_len' /\ vec_len' =< capacity'
<1>1. CASE Lengthen(n)
  <2>1. n > vec_len
    BY <1>1 DEF Lengthen
  <2> QED
    BY <1>1, <2>1, LengthenKeepsOwn, LinearAssumption DEF TypeOK
<1>2. CASE n =< vec_len /\ UNCHANGED storage
  BY <1>2 DEF storage, TypeOK, ReachableIsOwn, Stays
<1> QED
  BY <1>1, <1>2 DEF Room

\* A constructor makes a buffer in order (new, with_capacity, from_vec).
LEMMA InitInv == Init => IInv
BY LinearAssumption DEF Init, IInv, TypeOK, EndsOrdered, ReachableIsOwn, Cells, Source

\* Storing at the position, below the Vec's length (put_bytes_unchecked).
LEMMA StoreInv ==
    ASSUME IInv, NEW n \in Nat, pos + n =< vec_len, Store(n)
    PROVE  IInv'
<1>1. Stays
  BY FillKeepsOwn DEF IInv, Store
<1>2. pos' \in Nat /\ len' \in Nat /\ pos' =< len' /\ len' =< vec_len
  BY LinearAssumption DEF IInv, TypeOK, EndsOrdered, Store, Larger
<1> QED
  BY <1>1, <1>2 DEF IInv, TypeOK, EndsOrdered, Stays, Store

\* Every call keeps the invariant (all of Buffer).
LEMMA StepInv == IInv /\ [Next]_vars => IInv'
<1> SUFFICES ASSUME IInv, [Next]_vars PROVE IInv'
  OBVIOUS
<1>t. TypeOK /\ ReachableIsOwn /\ pos =< len /\ len =< vec_len /\ vec_len =< capacity
  BY DEF IInv, EndsOrdered
<1>i. capacity \in Nat /\ vec_len \in Nat /\ pos \in Nat /\ len \in Nat /\ MaxCap \in Nat
      /\ MaxSize \in Nat
  BY <1>t, LinearAssumption DEF TypeOK
<1>s. ASSUME UNCHANGED storage, pos' \in Nat, len' \in Nat, pos' =< len', len' =< vec_len
      PROVE  IInv'
  BY <1>t, <1>s DEF storage, IInv, TypeOK, EndsOrdered, ReachableIsOwn
<1>g. ASSUME Stays, capacity' \in 0 .. MaxCap, vec_len' \in 0 .. MaxCap, pos' \in Nat,
             len' \in Nat, pos' =< len', len' =< vec_len', vec_len' =< capacity'
      PROVE  IInv'
  BY <1>g DEF IInv, TypeOK, EndsOrdered, Stays
<1>1. CASE \E n \in 0 .. MaxCap :
               \/ Put(n) \/ PutStringHalf(n) \/ Get(n) \/ GetWritePtr(n)
               \/ SetPos(n) \/ IncrPos(n) \/ DecrPos(n)
               \/ SetLen(n) \/ IncrLen(n) \/ IncrWritePos(n)
               \/ Resize(n) \/ Reserve(n)
  <2> PICK n \in 0 .. MaxCap :
               \/ Put(n) \/ PutStringHalf(n) \/ Get(n) \/ GetWritePtr(n)
               \/ SetPos(n) \/ IncrPos(n) \/ DecrPos(n)
               \/ SetLen(n) \/ IncrLen(n) \/ IncrWritePos(n)
               \/ Resize(n) \/ Reserve(n)
    BY <1>1
  <2>n. n \in Nat
    BY LinearAssumption
  <2>1. CASE Put(n)
    BY <2>1, <2>n, StoreInv DEF Put
  <2>2. CASE PutStringHalf(n)
    BY <2>2, StoreInv, LinearAssumption DEF PutStringHalf
  <2>3. CASE Get(n) \/ SetPos(n) \/ IncrPos(n) \/ DecrPos(n)
    BY <2>3, <2>n, <1>t, <1>i, <1>s DEF Get, SetPos, IncrPos, DecrPos
  <2>4. CASE GetWritePtr(n)
    <3>1. Stays
      BY <2>4, <1>t, FillKeepsOwn DEF GetWritePtr
    <3> QED
      BY <2>4, <3>1, <1>t, <1>i, <1>g DEF GetWritePtr, TypeOK
  <2>5. CASE SetLen(n)
    <3>1. /\ Stays /\ capacity' \in 0 .. MaxCap /\ vec_len' \in 0 .. MaxCap
          /\ n =< vec_len' /\ vec_len' =< capacity'
      BY <2>5, <2>n, <1>t, RoomKeepsOwn DEF SetLen
    <3>2. len' = n /\ pos' = Lesser(pos, n)
      BY <2>5 DEF SetLen
    <3>3. pos' \in Nat /\ pos' =< len'
      BY <3>2, <2>n, <1>i DEF Lesser
    <3> QED
      BY <3>1, <3>2, <3>3, <2>n, <1>g
  <2>6. CASE IncrLen(n)
    <3>1. /\ Stays /\ capacity' \in 0 .. MaxCap /\ vec_len' \in 0 .. MaxCap
          /\ len + n =< vec_len' /\ vec_len' =< capacity'
      BY <2>6, <2>n, <1>t, <1>i, RoomKeepsOwn DEF IncrLen
    <3>2. len' = len + n /\ pos' = pos
      BY <2>6 DEF IncrLen
    <3> QED
      BY <3>1, <3>2, <2>n, <1>t, <1>i, <1>g
  <2>7. CASE IncrWritePos(n)
    <3>1. /\ Stays /\ capacity' \in 0 .. MaxCap /\ vec_len' \in 0 .. MaxCap
          /\ pos + n =< vec_len' /\ vec_len =< vec_len' /\ vec_len' =< capacity'
      BY <2>7, <2>n, <1>t, <1>i, RoomKeepsOwn DEF IncrWritePos
    <3>2. pos' = pos + n /\ len' = Larger(len, pos + n)
      BY <2>7 DEF IncrWritePos
    <3>3. pos' \in Nat /\ len' \in Nat /\ pos' =< len' /\ len' =< vec_len'
      BY <3>1, <3>2, <2>n, <1>t, <1>i DEF Larger
    <3> QED
      BY <3>1, <3>3, <1>g
  <2>8. CASE Resize(n)
    <3>1. len' = Lesser(len, n) /\ pos' = Lesser(pos, n)
      BY <2>8 DEF Resize
    <3>2. len' \in Nat /\ pos' \in Nat /\ pos' =< len' /\ len' =< n
      BY <3>1, <2>n, <1>t, <1>i DEF Lesser
    <3>3. CASE Lengthen(n)
      <4>1. /\ Stays /\ capacity' \in 0 .. MaxCap /\ vec_len' \in 0 .. MaxCap
            /\ vec_len' = n /\ vec_len' =< capacity'
        BY <3>3, <2>n, <1>t, LengthenKeepsOwn
      <4> QED
        BY <4>1, <3>2, <1>g
    <3>4. CASE Shorten(n)
      <4>1. Stays
        BY <3>4, <2>n, <1>t, <1>i DEF Shorten, Stays, TypeOK, ReachableIsOwn, Cells
      <4> QED
        BY <4>1, <3>2, <3>4, <2>n, <1>t, <1>i, <1>g DEF Shorten, TypeOK
    <3> QED
      BY <2>8, <3>3, <3>4 DEF Resize
  <2>9. CASE Reserve(n)
    <3>1. mem' \in Moved(vec_len) /\ vec_len' = vec_len
      BY <2>9 DEF Reserve
    <3>2. vec_len \in Int /\ vec_len >= vec_len
      BY <1>t, LinearAssumption DEF TypeOK
    <3>3. Stays
      BY <3>1, <3>2, <1>t, <1>i, MovedKeepsOwn
    <3> QED
      BY <2>9, <3>3, <2>n, <1>t, <1>i, <1>g DEF Reserve, TypeOK
  <2> QED
    BY <2>1, <2>2, <2>3, <2>4, <2>5, <2>6, <2>7, <2>8, <2>9
<1>2. CASE AsMutSlice
  <2>1. Stays
    BY <1>2, <1>t, FillKeepsOwn DEF AsMutSlice
  <2> QED
    BY <1>2, <2>1, <1>t, <1>i, <1>g DEF AsMutSlice, TypeOK
<1>3. CASE Reset
  BY <1>3, <1>i, <1>t, <1>s DEF Reset
<1>4. CASE Burn
  <2>1. Stays
    BY <1>4, <1>t, <1>i DEF Burn, Stays, TypeOK, ReachableIsOwn, Cells, Source
  <2> QED
    BY <1>4, <2>1, <1>t, <1>i, <1>g DEF Burn, TypeOK
<1>5. CASE ShrinkToFit
  <2>1. vec_len' = len
    BY <1>5, <1>t, <1>i DEF ShrinkToFit, Lesser
  <2>2. capacity' \in len .. capacity
    BY <1>5, <2>1 DEF ShrinkToFit
  <2>3. Stays
    BY <1>5, <2>1, <2>2, <1>t, <1>i DEF ShrinkToFit, Stays, TypeOK, ReachableIsOwn, Cells, Source
  <2> QED
    BY <1>5, <2>1, <2>2, <2>3, <1>t, <1>i, <1>g DEF ShrinkToFit, TypeOK
<1>6. CASE Clone
  <2>1. Stays
    BY <1>6, <1>t, <1>i DEF Clone, Stays, TypeOK, ReachableIsOwn, Cells, Source
  <2> QED
    BY <1>6, <2>1, <1>t, <1>i, <1>g DEF Clone, TypeOK
<1>7. CASE Rewrap
  <2>1. vec_len' = len /\ len' = len /\ pos' = 0
    BY <1>7, <1>t, <1>i DEF Rewrap, Lesser
  <2>2. Stays
    BY <1>7, <2>1, <1>t, <1>i DEF Rewrap, Stays, TypeOK, ReachableIsOwn, Cells
  <2> QED
    BY <1>7, <2>1, <2>2, <1>t, <1>i, <1>g DEF Rewrap, TypeOK
<1>8. CASE PutByte
  <2>1. pos + 1 =< vec_len /\ Store(1)
    BY <1>8, <1>i DEF PutByte
  <2> QED
    BY <2>1, StoreInv
<1>9. CASE GetByte
  BY <1>9, <1>t, <1>i, <1>s DEF GetByte
<1>10. CASE UNCHANGED vars
  BY <1>10, <1>i, <1>t, <1>s DEF vars
<1> QED
  BY <1>1, <1>2, <1>3, <1>4, <1>5, <1>6, <1>7, <1>8, <1>9, <1>10 DEF Next

\* The invariant of a Buffer, after any sequence of its calls.
LEMMA Invariant == Spec => []IInv
BY InitInv, StepInv, PTL DEF Spec

\* Positions and lengths are natural numbers, the Vec within its allocation.
THEOREM TypeCorrect == Spec => []TypeOK
<1>1. IInv => TypeOK
  BY DEF IInv
<1> QED
  BY <1>1, Invariant, PTL

\* The ends stay ordered, so every checked access is inside the Vec.
THEOREM EndsAlwaysOrdered == Spec => []EndsOrdered
<1>1. IInv => EndsOrdered
  BY DEF IInv
<1> QED
  BY <1>1, Invariant, PTL

\* No checked call reaches a byte from before the last burn, or uninitialised
\* memory (core.rs burn, resize, set_len).
THEOREM ReachableAlwaysOwn == Spec => []ReachableIsOwn
<1>1. IInv => ReachableIsOwn
  BY DEF IInv
<1> QED
  BY <1>1, Invariant, PTL
=============================================================================
