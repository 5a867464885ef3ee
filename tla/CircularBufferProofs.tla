------------------------ MODULE CircularBufferProofs ------------------------
(***************************************************************************)
(* CircularBuffer keeps its cursors consistent and implements a bounded    *)
(* queue of bytes, for every size and every set of byte values.            *)
(***************************************************************************)
EXTENDS CircularBuffer, RecursionTheorems, SequenceTheorems

-----------------------------------------------------------------------------
(* The bit mask.  Masking with 2^k - 1 adds up the k lowest bits of a      *)
(* number; so does the remainder by 2^k, one bit at a time.                *)

LEMMA BitType == \A n, i \in Nat : bit(n, i) \in 0 .. 1
  <1> SUFFICES ASSUME NEW n \in Nat, NEW i \in Nat
               PROVE  bit(n, i) \in 0 .. 1
    OBVIOUS
  <1>1. 2 ^ i \in Nat /\ 2 ^ i > 0
    BY PowerPositive
  <1>2. PICK q \in Int : q = n \div 2 ^ i
    BY <1>1
  <1> QED BY <1>2 DEF bit

\* One more bit in the remainder.
LEMMA NextBit ==
    ASSUME NEW n \in Nat, NEW k \in Nat
    PROVE  n % 2 ^ (k + 1) = (n % 2 ^ k) + 2 ^ k * bit(n, k)
  <1>1. PICK w \in Nat : w = 2 ^ k /\ w > 0 /\ 2 ^ (k + 1) = 2 * w
    BY PowerPositive, PowerNext
  <1>2. PICK q \in Nat, r \in 0 .. w - 1 : q = n \div w /\ r = n % w /\ n = q * w + r
    BY <1>1
  <1>3. PICK h \in Nat, b \in 0 .. 1 : b = q % 2 /\ q = 2 * h + b
    <2>1. q \div 2 \in Nat /\ (q % 2) \in 0 .. 1 /\ q = 2 * (q \div 2) + (q % 2)
      OBVIOUS
    <2> QED BY <2>1
  <1>4. b = bit(n, k)
    BY <1>1, <1>2, <1>3 DEF bit
  <1>5. n = h * (2 * w) + (w * b + r)
    <2>1. (2 * h + b) * w = h * (2 * w) + w * b
      OBVIOUS
    <2>2. q * w = (2 * h + b) * w
      BY <1>3
    <2>3. q * w \in Nat /\ h * (2 * w) \in Nat /\ w * b \in Nat
      OBVIOUS
    <2>4. n = (h * (2 * w) + w * b) + r
      BY <1>2, <2>1, <2>2
    <2> QED BY <2>3, <2>4
  <1>6. w * b + r \in 0 .. 2 * w - 1
    <2>1. w * b = 0 \/ w * b = w
      BY <1>3
    <2> QED BY <1>1, <1>2, <2>1
  <1>7. n % (2 * w) = w * b + r
    <2>1. PICK m \in Nat : m = 2 * w /\ m > 0
      BY <1>1
    <2>2. PICK x \in 0 .. m - 1 : x = w * b + r
      BY <1>6, <2>1
    <2>3. (h * m + x) % m = x
      BY <2>1, Quotient
    <2>4. n = h * m + x
      BY <1>5, <2>1, <2>2
    <2> QED BY <2>1, <2>2, <2>3, <2>4
  <1>8. w * b \in Nat /\ r \in Nat
    BY <1>1
  <1>9. n % 2 ^ (k + 1) = w * b + r
    BY <1>1, <1>7
  <1>10. n % 2 ^ k = r /\ 2 ^ k * bit(n, k) = w * b
    BY <1>1, <1>2, <1>4
  <1> QED BY <1>8, <1>9, <1>10

LEMMA HighBits ==
    ASSUME NEW n \in Nat, NEW k \in Nat, n < 2 ^ k
    PROVE  bit(n, k) = 0 /\ n % 2 ^ k = n
  <1>1. PICK w \in Nat : w = 2 ^ k /\ w > 0 /\ n \in 0 .. w - 1
    BY PowerPositive
  <1>2. (0 * w + n) \div w = 0 /\ (0 * w + n) % w = n
    BY <1>1, Quotient
  <1>3. 0 * w + n = n
    BY <1>1
  <1>4. n \div w = 0 /\ n % w = n
    BY <1>2, <1>3
  <1> QED BY <1>1, <1>4 DEF bit

LEMMA PowerGrows ==
    ASSUME NEW i \in Nat, NEW k \in Nat, i =< k
    PROVE  2 ^ i =< 2 ^ k
  <1>1. PICK d \in Nat : k = i + d
    <2>1. k - i \in Nat /\ k = i + (k - i)
      OBVIOUS
    <2> QED BY <2>1
  <1>2. PICK v, w \in Nat : v = 2 ^ i /\ w = 2 ^ d /\ w >= 1 /\ 2 ^ k = w * v
    BY <1>1, PowerPositive, PowerOfSum
  <1>3. w * v >= 1 * v
    BY <1>2
  <1> QED BY <1>2, <1>3

\* The mask has exactly the k lowest bits.
LEMMA MaskBits ==
    ASSUME NEW k \in Nat, NEW i \in Nat
    PROVE  bit(2 ^ k - 1, i) = IF i < k THEN 1 ELSE 0
  <1>1. 2 ^ k \in Nat /\ 2 ^ k > 0 /\ 2 ^ k - 1 \in Nat
    BY PowerPositive
  <1>2. CASE i < k
    <2>1. PICK d \in Nat : k = (i + d) + 1
      <3>1. k - i - 1 \in Nat /\ k = (i + (k - i - 1)) + 1
        BY <1>2
      <3> QED BY <3>1
    <2>2. PICK w, c \in Nat : w = 2 ^ i /\ c = 2 ^ d /\ w > 0 /\ c > 0
      BY PowerPositive
    <2>3. 2 ^ k = 2 * (c * w)
      <3>1. i + d \in Nat /\ 2 ^ ((i + d) + 1) = 2 * 2 ^ (i + d)
        BY PowerNext
      <3>2. 2 ^ (i + d) = c * w
        BY <2>2, PowerOfSum
      <3> QED BY <2>1, <3>1, <3>2
    <2>4. 2 * c - 1 \in Nat /\ w - 1 \in 0 .. w - 1
      BY <2>2
    <2>5. 2 ^ k - 1 = (2 * c - 1) * w + (w - 1)
      <3>1. (2 * c - 1) * w = 2 * (c * w) - w
        BY <2>2
      <3>2. c * w \in Nat
        BY <2>2
      <3> QED BY <2>2, <2>3, <3>1, <3>2
    <2>6. ((2 * c - 1) * w + (w - 1)) \div w = 2 * c - 1
      BY <2>2, <2>4, Quotient
    <2>7. (2 * c - 1) % 2 = 1
      BY <2>2
    <2> QED BY <1>2, <2>2, <2>5, <2>6, <2>7 DEF bit
  <1>3. CASE ~(i < k)
    <2>1. 2 ^ k =< 2 ^ i /\ 2 ^ i \in Nat
      BY <1>3, PowerGrows, PowerPositive
    <2>2. 2 ^ k - 1 < 2 ^ i
      BY <1>1, <2>1
    <2> QED BY <1>1, <1>3, <2>2, HighBits
  <1> QED BY <1>2, <1>3

\* The values of the k lowest bits of n.
LowBits(n, k) == [i \in 0 .. n |-> IF i < k THEN 2 ^ i * bit(n, i) ELSE 0]

LEMMA LowBitsType ==
    ASSUME NEW n \in Nat, NEW k \in Nat
    PROVE  LowBits(n, k) \in [0 .. n -> Nat] /\ IsFiniteSet(0 .. n)
  <1>1. \A i \in 0 .. n : 2 ^ i \in Nat /\ bit(n, i) \in Nat
    BY PowerPositive, BitType
  <1>2. \A i \in 0 .. n : 2 ^ i * bit(n, i) \in Nat
    BY <1>1
  <1>3. IsFiniteSet(0 .. n)
    BY FS_Interval
  <1> QED BY <1>2, <1>3 DEF LowBits

LEMMA LowBitsSum ==
    ASSUME NEW n \in Nat
    PROVE  \A k \in Nat : Total(LowBits(n, k)) = n % 2 ^ k
  <1> DEFINE T == {k \in Nat : Total(LowBits(n, k)) = n % 2 ^ k}
  <1>1. 0 \in T
    <2>1. \A i \in 0 .. n : LowBits(n, 0)[i] = 0
      BY DEF LowBits
    <2>2. Total(LowBits(n, 0)) = 0
      BY <2>1, LowBitsType, TotalZero
    <2>3. n % 1 = 0
      OBVIOUS
    <2> QED BY <2>2, <2>3, PowerOfZero
  <1>2. ASSUME NEW k \in Nat, k \in T
        PROVE  k + 1 \in T
    <2> DEFINE f == LowBits(n, k)
               g == LowBits(n, k + 1)
    <2>1. f \in [0 .. n -> Nat] /\ g \in [0 .. n -> Nat] /\ IsFiniteSet(0 .. n)
      BY LowBitsType
    <2>2. Total(f) = n % 2 ^ k
      BY <1>2
    <2>3. CASE k \in 0 .. n
      <3>1. \A i \in (0 .. n) \ {k} : g[i] = f[i]
        BY DEF LowBits
      <3>2. f[k] = 0 /\ g[k] = 2 ^ k * bit(n, k)
        BY <2>3 DEF LowBits
      <3> HIDE DEF f, g
      <3>3. Total(g) = Total(f) - f[k] + g[k] /\ Total(f) \in Nat /\ g[k] \in Nat
        <4>1. Total(g) = Total(f) - f[k] + g[k]
          BY <2>1, <2>3, <3>1, TotalChange
        <4>2. Total(f) \in Nat
          BY <2>1, SumIsCount DEF Total
        <4> QED BY <2>1, <2>3, <4>1, <4>2
      <3>4. Total(g) = (n % 2 ^ k) + 2 ^ k * bit(n, k)
        BY <2>2, <3>2, <3>3
      <3> QED BY <3>4, NextBit DEF g
    <2>4. CASE k \notin 0 .. n
      <3>1. f = g
        BY <2>4 DEF LowBits
      <3>2. n < 2 ^ k
        BY <2>4, PowerPositive
      <3>3. 2 ^ k =< 2 ^ (k + 1) /\ 2 ^ k \in Nat /\ 2 ^ (k + 1) \in Nat
        BY PowerGrows, PowerPositive
      <3>4. n % 2 ^ k = n /\ n % 2 ^ (k + 1) = n
        BY <3>2, <3>3, HighBits
      <3> QED BY <2>2, <3>1, <3>4
    <2> QED BY <2>3, <2>4
  <1>3. Nat \subseteq T
    <2> HIDE DEF T
    <2> QED BY <1>1, <1>2, AllNaturals
  <1> QED BY <1>3

LEMMA MaskIsRemainder ==
    ASSUME NEW n \in Nat, NEW k \in Nat
    PROVE  BitAnd(n, 2 ^ k - 1) = n % 2 ^ k
  <1>1. ASSUME NEW i \in 0 .. n
        PROVE  2 ^ i * bit(n, i) * bit(2 ^ k - 1, i) = LowBits(n, k)[i]
    <2>1. PICK v \in Nat : v = 2 ^ i * bit(n, i)
      BY PowerPositive, BitType
    <2>2. v * 1 = v /\ v * 0 = 0
      OBVIOUS
    <2> QED BY <2>1, <2>2, MaskBits DEF LowBits
  <1>2. [i \in 0 .. n |-> 2 ^ i * bit(n, i) * bit(2 ^ k - 1, i)] = LowBits(n, k)
    BY <1>1 DEF LowBits
  <1> QED BY <1>2, LowBitsSum DEF BitAnd, Total

\* Where a cursor goes, by the remainder.
Turn(pos, delta) == (pos + delta) % Size

\* The two ways to wrap agree, if the flag is set for powers of two alone.
LEMMA WrapIsTurn ==
    ASSUME NEW p \in Nat, NEW d \in Nat, NEW flag \in BOOLEAN,
           flag => is_power_of_two(Size)
    PROVE  wrap(p, d, Size, flag) = Turn(p, d)
  <1>1. CASE flag
    <2>1. PICK k \in Nat : Size = 2 ^ k
      BY <1>1 DEF is_power_of_two
    <2>2. BitAnd(p + d, Size - 1) = (p + d) % Size
      BY <2>1, MaskIsRemainder
    <2> QED BY <1>1, <2>2 DEF wrap, Turn
  <1>2. CASE ~flag
    BY <1>2 DEF wrap, Turn
  <1> QED BY <1>1, <1>2

\* In a well-typed ring they are.
LEMMA Turns ==
    ASSUME TypeOK, NEW p \in Nat, NEW d \in Nat
    PROVE  Wrap(p, d) = Turn(p, d)
  BY WrapIsTurn DEF TypeOK, Wrap

-----------------------------------------------------------------------------
(* The ring.                                                               *)

\* Turning by at most the size is one conditional subtraction.
LEMMA TurnOnce ==
    ASSUME NEW p \in Cells, NEW d \in 0 .. Size
    PROVE  /\ Turn(p, d) = IF p + d < Size THEN p + d ELSE p + d - Size
           /\ Turn(p, d) \in Cells
  <1>1. p \in Nat /\ d \in Nat /\ Size \in Nat \ {0}
    BY RingAssumption DEF RingAssumption, Cells
  <1> QED BY <1>1 DEF Turn, Cells

LEMMA StringIsSeq ==
    ASSUME NEW s \in Strings
    PROVE  /\ s \in Seq(Byte)
           /\ Len(s) \in 0 .. Size
           /\ s = [i \in 1 .. Len(s) |-> s[i]]
           /\ \A i \in 1 .. Len(s) : s[i] \in Byte
  <1>1. PICK n \in 0 .. Size : s \in [1 .. n -> Byte]
    BY DEF Strings
  <1>2. s \in Seq(Byte) /\ Len(s) = n
    BY <1>1
  <1> QED BY <1>1, <1>2

\* What makes NonEmptyIsReadable inductive: only storage can be lent.
StagedHasStorage == Len(staged) > 0 => allocated

\* CursorsAgree and StagedKept in terms of Turn, free of the flag.
CursorsTurn == write_pos = Turn(read_pos, used)

StagedTurn == /\ used + Len(staged) =< Size
              /\ \A i \in 1 .. Len(staged) : data[Turn(write_pos, i - 1)] = staged[i]

RingInv == TypeOK /\ CursorsTurn /\ NonEmptyIsReadable /\ StagedTurn /\ StagedHasStorage

LEMMA TurnsToWraps ==
    ASSUME TypeOK
    PROVE  (CursorsTurn <=> CursorsAgree) /\ (StagedTurn <=> StagedKept)
  <1> USE RingAssumption DEF RingAssumption
  <1>1. /\ read_pos \in Nat /\ write_pos \in Nat /\ used \in Nat
        /\ \A i \in 1 .. Len(staged) : i - 1 \in Nat
    BY StringIsSeq DEF TypeOK, Cells
  <1>2. CursorsTurn <=> CursorsAgree
    BY <1>1, Turns DEF CursorsTurn, CursorsAgree
  <1>3. \A i \in 1 .. Len(staged) : Wrap(write_pos, i - 1) = Turn(write_pos, i - 1)
    BY <1>1, Turns
  <1>4. StagedTurn <=> StagedKept
    BY <1>3 DEF StagedTurn, StagedKept
  <1> QED BY <1>2, <1>4

\* Laying a string down writes it from pos on, and nothing else.
LEMMA LaidCells ==
    ASSUME TypeOK, NEW p \in Cells, NEW s \in Strings
    PROVE  /\ Laid(p, s) \in [Cells -> Byte]
           /\ \A i \in 1 .. Len(s) : Laid(p, s)[Turn(p, i - 1)] = s[i]
           /\ \A d \in Len(s) .. Size - 1 : Laid(p, s)[Turn(p, d)] = data[Turn(p, d)]
  <1> USE RingAssumption DEF RingAssumption
  <1>1. /\ s \in Seq(Byte) /\ Len(s) \in 0 .. Size
        /\ \A i \in 1 .. Len(s) : s[i] \in Byte
    BY StringIsSeq
  <1>2. ASSUME NEW i \in Cells
        PROVE  Laid(p, s)[i] = IF i \in p .. p + Len(s) - 1 THEN s[i - p + 1]
                               ELSE IF i < Len(s) - (Size - p) THEN s[Size - p + i + 1]
                               ELSE data[i]
    BY DEF Laid
  <1>3. Laid(p, s) \in [Cells -> Byte]
    BY <1>1 DEF Laid, TypeOK, Cells
  <1>4. ASSUME NEW i \in 1 .. Len(s) PROVE Laid(p, s)[Turn(p, i - 1)] = s[i]
    <2>1. /\ i - 1 \in 0 .. Size
          /\ Turn(p, i - 1) = IF p + (i - 1) < Size THEN p + (i - 1) ELSE p + (i - 1) - Size
          /\ Turn(p, i - 1) \in Cells
      BY <1>1, TurnOnce
    <2>2. CASE p + (i - 1) < Size
      BY <1>1, <1>2, <2>1, <2>2 DEF Cells
    <2>3. CASE ~(p + (i - 1) < Size)
      BY <1>1, <1>2, <2>1, <2>3 DEF Cells
    <2> QED BY <2>2, <2>3
  <1>5. ASSUME NEW d \in Len(s) .. Size - 1 PROVE Laid(p, s)[Turn(p, d)] = data[Turn(p, d)]
    <2>1. /\ d \in 0 .. Size
          /\ Turn(p, d) = IF p + d < Size THEN p + d ELSE p + d - Size
          /\ Turn(p, d) \in Cells
      BY <1>1, TurnOnce
    <2>2. CASE p + d < Size
      BY <1>1, <1>2, <2>1, <2>2 DEF Cells
    <2>3. CASE ~(p + d < Size)
      BY <1>1, <1>2, <2>1, <2>3 DEF Cells
    <2> QED BY <2>2, <2>3
  <1> QED BY <1>3, <1>4, <1>5

\* Front in terms of Turn.
LEMMA FrontCells ==
    ASSUME TypeOK, NEW n \in 0 .. Size
    PROVE  /\ Front(n) \in Strings /\ Len(Front(n)) = n
           /\ \A i \in 1 .. n : Front(n)[i] = data[Turn(read_pos, i - 1)]
  <1> USE RingAssumption DEF RingAssumption
  <1>1. ASSUME NEW i \in 1 .. n
        PROVE  /\ Front(n)[i] = data[Turn(read_pos, i - 1)]
               /\ Front(n)[i] \in Byte
    <2>1. /\ i - 1 \in 0 .. Size /\ read_pos \in Cells
      BY DEF TypeOK
    <2>2. /\ Turn(read_pos, i - 1) = IF read_pos + (i - 1) < Size THEN read_pos + (i - 1)
                                     ELSE read_pos + (i - 1) - Size
          /\ Turn(read_pos, i - 1) \in Cells
      BY <2>1, TurnOnce
    <2>3. Front(n)[i] = IF i =< Size - read_pos THEN data[read_pos + i - 1]
                        ELSE data[i - (Size - read_pos) - 1]
      BY DEF Front
    <2>4. Front(n)[i] = data[Turn(read_pos, i - 1)]
      BY <2>1, <2>2, <2>3 DEF Cells
    <2> QED BY <2>2, <2>4 DEF TypeOK
  <1>2. Front(n) \in [1 .. n -> Byte]
    BY <1>1 DEF Front
  <1> QED BY <1>1, <1>2 DEF Strings

-----------------------------------------------------------------------------
(* The inductive invariant.                                                *)

\* Advancing by a sum is advancing twice.
LEMMA TurnTurn ==
    ASSUME NEW p \in Cells, NEW d \in 0 .. Size, NEW e \in 0 .. Size, d + e =< Size
    PROVE  Turn(Turn(p, d), e) = Turn(p, d + e)
  <1> USE RingAssumption DEF RingAssumption
  <1>1. d + e \in 0 .. Size
    OBVIOUS
  <1>2. /\ Turn(p, d) = IF p + d < Size THEN p + d ELSE p + d - Size
        /\ Turn(p, d) \in Cells
    BY TurnOnce
  <1>3. Turn(p, d + e) = IF p + (d + e) < Size THEN p + (d + e) ELSE p + (d + e) - Size
    BY <1>1, TurnOnce
  <1>4. Turn(Turn(p, d), e) = IF Turn(p, d) + e < Size THEN Turn(p, d) + e
                              ELSE Turn(p, d) + e - Size
    BY <1>2, TurnOnce
  <1> QED BY <1>1, <1>2, <1>3, <1>4 DEF Cells

LEMMA TurnZero ==
    ASSUME NEW p \in Cells
    PROVE  Turn(p, 0) = p
  BY TurnOnce, RingAssumption DEF RingAssumption, Cells

LEMMA Empty == << >> \in Strings /\ Len(<< >>) = 0
  BY RingAssumption DEF RingAssumption, Strings

LEMMA RingInit == Init => RingInv
  <1> SUFFICES ASSUME Init PROVE RingInv
    OBVIOUS
  <1> USE RingAssumption, Empty DEF RingAssumption, Init
  <1>1. TypeOK
    <2>1. is_pow2 \in BOOLEAN /\ (is_pow2 => is_power_of_two(Size))
      BY Zenon DEF New, NewPow2, is_power_of_two
    <2> QED BY <2>1 DEF TypeOK, Cells
  <1>2. CursorsTurn
    BY TurnZero DEF CursorsTurn, Cells
  <1> QED BY <1>1, <1>2 DEF RingInv, NonEmptyIsReadable, StagedTurn, StagedHasStorage

\* The ways the calls change the ring.
Grow(s) ==      \* write
    /\ s \in Strings /\ used + Len(s) =< Size
    /\ allocated' = TRUE
    /\ data' = Laid(write_pos, s)
    /\ write_pos' = Turn(write_pos, Len(s)) /\ used' = used + Len(s)
    /\ staged' = << >>
    /\ UNCHANGED <<read_pos, out, is_pow2>>

Shrink(n) ==    \* read, incr_read
    /\ n \in 0 .. used
    /\ read_pos' = Turn(read_pos, n) /\ used' = used - n
    /\ out' = out \/ out' = Front(n)
    /\ UNCHANGED <<allocated, data, write_pos, staged, is_pow2>>

Show(n) ==      \* read, peek, read_ptrs
    /\ n \in 0 .. used
    /\ out' = Front(n)
    /\ UNCHANGED <<allocated, data, cursors, staged, is_pow2>>

Prepare(s) ==   \* write_ptr, write_slices_mut
    /\ s \in Strings /\ used + Len(s) =< Size
    /\ \/ Lend(s)
       \/ s = << >> /\ staged' = s /\ UNCHANGED <<allocated, data, cursors, out>>
    /\ UNCHANGED is_pow2

Finish ==       \* incr_write
    /\ used + Len(staged) =< Size
    /\ write_pos' = Turn(write_pos, Len(staged)) /\ used' = used + Len(staged)
    /\ staged' = << >>
    /\ UNCHANGED <<allocated, data, read_pos, out, is_pow2>>

Wipe ==         \* clear, free
    /\ used' = 0 /\ read_pos' = 0 /\ write_pos' = 0 /\ staged' = << >>
    /\ allocated' \in BOOLEAN /\ data' \in [Cells -> Byte]
    /\ UNCHANGED <<out, is_pow2>>

LEMMA Ways ==
    ASSUME TypeOK, [Next]_vars
    PROVE  \/ \E s \in Strings : Grow(s) \/ Prepare(s)
           \/ \E n \in 0 .. used : Shrink(n) \/ Show(n)
           \/ Finish \/ Wipe \/ UNCHANGED vars
  <1> USE RingAssumption DEF RingAssumption
  <1>1. /\ used \in 0 .. Size /\ staged \in Strings
        /\ read_pos \in Nat /\ write_pos \in Nat
        /\ \A n \in Nat : /\ Wrap(read_pos, n) = Turn(read_pos, n)
                          /\ Wrap(write_pos, n) = Turn(write_pos, n)
    BY Turns DEF TypeOK, Cells
  <1>2. \A s \in Strings : Len(s) \in Nat
    BY StringIsSeq
  <1>3. ASSUME Next PROVE UNCHANGED is_pow2
    BY <1>3 DEF Next
  <1> SUFFICES ASSUME Call, UNCHANGED is_pow2
               PROVE  \/ \E s \in Strings : Grow(s) \/ Prepare(s)
                      \/ \E n \in 0 .. used : Shrink(n) \/ Show(n)
                      \/ Finish \/ Wipe
    BY DEF Next
  <1>4. ASSUME NEW s \in Strings, Write(s) PROVE Grow(s)
    BY <1>1, <1>2, <1>4 DEF Write, Grow, available
  <1>5. ASSUME NEW s \in Strings, WritePtr(s) PROVE Prepare(s)
    BY <1>1, <1>2, <1>5 DEF WritePtr, Prepare, available
  <1>6. ASSUME NEW s \in Strings, WriteSlicesMut(s) PROVE Prepare(s)
    BY <1>1, <1>2, <1>6, Empty DEF WriteSlicesMut, Prepare, available
  <1>7. ASSUME NEW n \in 0 .. Size
        PROVE  Lesser(n, used) \in 0 .. used /\ Lesser(n, used) \in Nat
    BY <1>1 DEF Lesser
  <1>8. ASSUME NEW n \in 0 .. Size, Read(n) PROVE Shrink(Lesser(n, used))
    BY <1>1, <1>7, <1>8 DEF Read, Shrink
  <1>9. ASSUME NEW n \in 0 .. Size, Peek(n) PROVE Show(Lesser(n, used))
    BY <1>7, <1>9 DEF Peek, Show
  <1>10. ASSUME NEW n \in 0 .. Size, IncrRead(n) PROVE n \in 0 .. used /\ Shrink(n)
    BY <1>1, <1>10 DEF IncrRead, Shrink
  <1>11. ASSUME ReadNothing PROVE 0 \in 0 .. used /\ Show(0)
    <2>1. Front(0) = << >>
      BY DEF Front
    <2> QED BY <1>1, <1>11, <2>1 DEF ReadNothing, Show
  <1>12. ASSUME ReadPtrs PROVE used \in 0 .. used /\ Show(used)
    BY <1>1, <1>12 DEF ReadPtrs, Show
  <1>13. ASSUME IncrWrite(Len(staged)) PROVE Finish
    BY <1>1, <1>2, <1>13 DEF IncrWrite, Finish, available
  <1>14. ASSUME Clear \/ Free PROVE Wipe
    BY <1>14 DEF Clear, Free, Wipe, Cells, TypeOK
  <1> QED
    BY <1>4, <1>5, <1>6, <1>7, <1>8, <1>9, <1>10, <1>11, <1>12, <1>13, <1>14 DEF Call

\* The cursors and the count stay in step through every call, whether or not what is
\* committed was staged.
LEMMA CursorsStep == TypeOK /\ CursorsTurn /\ [Next]_vars => TypeOK' /\ CursorsTurn'
  <1> SUFFICES ASSUME TypeOK, CursorsTurn, [Next]_vars PROVE TypeOK' /\ CursorsTurn'
    OBVIOUS
  <1> USE RingAssumption DEF RingAssumption
  <1>1. ASSUME NEW s \in Strings, Grow(s) PROVE TypeOK' /\ CursorsTurn'
    <2>1. Laid(write_pos, s) \in [Cells -> Byte] /\ Len(s) \in 0 .. Size
      BY LaidCells, StringIsSeq DEF TypeOK
    <2>2. used' \in 0 .. Size /\ write_pos' \in Cells
      BY <1>1, <2>1, TurnOnce DEF Grow, TypeOK
    <2>3. TypeOK'
      BY <1>1, <2>1, <2>2, Empty DEF Grow, TypeOK
    <2>4. CursorsTurn'
      BY <1>1, <2>1, TurnTurn DEF Grow, TypeOK, CursorsTurn
    <2> QED BY <2>3, <2>4
  <1>2. ASSUME NEW s \in Strings, Prepare(s) PROVE TypeOK' /\ CursorsTurn'
    <2>1. Laid(write_pos, s) \in [Cells -> Byte]
      BY LaidCells, StringIsSeq DEF TypeOK
    <2>4. is_pow2' = is_pow2
      BY <1>2 DEF Prepare
    <2>2. CASE Lend(s)
      BY <2>1, <2>2, <2>4 DEF Lend, cursors, TypeOK, CursorsTurn
    <2>3. CASE s = << >> /\ staged' = s /\ UNCHANGED <<allocated, data, cursors, out>>
      BY <2>3, <2>4, Empty DEF cursors, TypeOK, CursorsTurn
    <2> QED BY <1>2, <2>2, <2>3 DEF Prepare
  <1>3. ASSUME NEW n \in 0 .. used, Shrink(n) PROVE TypeOK' /\ CursorsTurn'
    <2>1. n \in 0 .. Size /\ used - n \in 0 .. Size /\ n + (used - n) = used
      BY DEF TypeOK
    <2>2. Front(n) \in Strings /\ read_pos' \in Cells
      BY <1>3, <2>1, FrontCells, TurnOnce DEF Shrink, TypeOK
    <2>3. TypeOK'
      BY <1>3, <2>1, <2>2 DEF Shrink, TypeOK
    <2>4. CursorsTurn'
      BY <1>3, <2>1, TurnTurn DEF Shrink, TypeOK, CursorsTurn
    <2> QED BY <2>3, <2>4
  <1>4. ASSUME NEW n \in 0 .. used, Show(n) PROVE TypeOK' /\ CursorsTurn'
    <2>1. Front(n) \in Strings
      BY FrontCells DEF TypeOK
    <2> QED BY <1>4, <2>1 DEF Show, cursors, TypeOK, CursorsTurn
  <1>5. ASSUME Finish PROVE TypeOK' /\ CursorsTurn'
    <2>1. Len(staged) \in 0 .. Size /\ used + Len(staged) \in 0 .. Size
      BY <1>5, StringIsSeq DEF Finish, TypeOK
    <2>2. TypeOK'
      BY <1>5, <2>1, Empty, TurnOnce DEF Finish, TypeOK
    <2>3. CursorsTurn'
      BY <1>5, <2>1, TurnTurn DEF Finish, TypeOK, CursorsTurn
    <2> QED BY <2>2, <2>3
  <1>6. ASSUME Wipe PROVE TypeOK' /\ CursorsTurn'
    <2>1. TypeOK'
      BY <1>6, Empty DEF Wipe, TypeOK, Cells
    <2>2. CursorsTurn'
      BY <1>6, TurnZero DEF Wipe, CursorsTurn, Cells
    <2> QED BY <2>1, <2>2
  <1>7. ASSUME UNCHANGED vars PROVE TypeOK' /\ CursorsTurn'
    BY <1>7 DEF vars, cursors, TypeOK, CursorsTurn
  <1> QED BY <1>1, <1>2, <1>3, <1>4, <1>5, <1>6, <1>7, Ways

LEMMA RingStep == RingInv /\ [Next]_vars => RingInv'
  <1> SUFFICES ASSUME RingInv, [Next]_vars
               PROVE  NonEmptyIsReadable' /\ StagedTurn' /\ StagedHasStorage'
    BY CursorsStep DEF RingInv
  <1> USE RingAssumption DEF RingAssumption
  <1> DEFINE Rest == NonEmptyIsReadable' /\ StagedTurn' /\ StagedHasStorage'
  <1>1. TypeOK /\ CursorsTurn /\ NonEmptyIsReadable /\ StagedTurn /\ StagedHasStorage
    BY DEF RingInv
  <1>2. ASSUME NEW s \in Strings, Grow(s) PROVE Rest
    <2>1. Len(s) \in 0 .. Size
      BY StringIsSeq
    <2>2. used' \in 0 .. Size
      BY <1>1, <1>2, <2>1 DEF Grow, TypeOK
    <2> QED BY <1>2, <2>2, Empty DEF Grow, NonEmptyIsReadable, StagedTurn, StagedHasStorage
  <1>3. ASSUME NEW s \in Strings, Prepare(s) PROVE Rest
    <2>1. \A i \in 1 .. Len(s) : Laid(write_pos, s)[Turn(write_pos, i - 1)] = s[i]
      BY <1>1, <1>3, LaidCells, StringIsSeq DEF TypeOK, Prepare
    <2>2. CASE Lend(s)
      BY <1>1, <1>3, <2>1, <2>2
         DEF Lend, Prepare, cursors, NonEmptyIsReadable, StagedTurn, StagedHasStorage
    <2>3. CASE s = << >> /\ staged' = s /\ UNCHANGED <<allocated, data, cursors, out>>
      BY <1>1, <2>3, Empty
         DEF cursors, TypeOK, NonEmptyIsReadable, StagedTurn, StagedHasStorage
    <2> QED BY <1>3, <2>2, <2>3 DEF Prepare
  <1>4. ASSUME NEW n \in 0 .. used, Shrink(n) PROVE Rest
    <2>1. n \in 0 .. Size /\ used - n \in 0 .. Size
      BY <1>1 DEF TypeOK
    <2>2. NonEmptyIsReadable' /\ StagedHasStorage'
      BY <1>1, <1>4, <2>1 DEF Shrink, TypeOK, NonEmptyIsReadable, StagedHasStorage
    <2>3. StagedTurn'
      BY <1>1, <1>4, <2>1, StringIsSeq DEF Shrink, TypeOK, StagedTurn
    <2> QED BY <2>2, <2>3
  <1>5. ASSUME NEW n \in 0 .. used, Show(n) PROVE Rest
    BY <1>1, <1>5 DEF Show, cursors, NonEmptyIsReadable, StagedTurn, StagedHasStorage
  <1>6. ASSUME Finish PROVE Rest
    <2>1. Len(staged) \in 0 .. Size /\ used + Len(staged) \in 0 .. Size
      BY <1>1, StringIsSeq DEF TypeOK, StagedTurn
    <2>2. NonEmptyIsReadable' /\ StagedHasStorage'
      BY <1>1, <1>6, <2>1, Empty DEF Finish, TypeOK, NonEmptyIsReadable, StagedHasStorage
    <2>3. StagedTurn'
      BY <1>6, <2>1, Empty DEF Finish, StagedTurn
    <2> QED BY <2>2, <2>3
  <1>7. ASSUME Wipe PROVE Rest
    BY <1>7, Empty DEF Wipe, NonEmptyIsReadable, StagedTurn, StagedHasStorage
  <1>8. ASSUME UNCHANGED vars PROVE Rest
    BY <1>1, <1>8 DEF vars, cursors, NonEmptyIsReadable, StagedTurn, StagedHasStorage
  <1> QED BY <1>1, <1>2, <1>3, <1>4, <1>5, <1>6, <1>7, <1>8, Ways

LEMMA RingInvariant == Spec => []RingInv
  BY RingInit, RingStep, PTL DEF Spec

\* Cursors, count and storage are always well typed: no call indexes outside the ring.
THEOREM TypeCorrect == Spec => []TypeOK
  <1>1. RingInv => TypeOK
    BY DEF RingInv
  <1> QED BY <1>1, RingInvariant, PTL

\* The mask, where the flag chooses it, takes the cursors to where the remainder
\* would: for every size, whichever constructor made the ring.
THEOREM MaskAlwaysAgrees == Spec => []MaskAgrees
  <1>1. TypeOK => MaskAgrees
    <2> SUFFICES ASSUME TypeOK, NEW pos \in {read_pos, write_pos}, NEW n \in 0 .. Size
                 PROVE  Wrap(pos, n) = (pos + n) % Size
      BY DEF MaskAgrees
    <2>1. pos \in Nat /\ n \in Nat
      BY RingAssumption DEF RingAssumption, TypeOK, Cells
    <2> QED BY <2>1, Turns DEF Turn
  <1> QED BY <1>1, TypeCorrect, PTL

\* Write cursor, read cursor and count always describe the same bytes.
THEOREM CursorsAlwaysAgree == Spec => []CursorsAgree
  <1>1. RingInv => CursorsAgree
    BY TurnsToWraps DEF RingInv
  <1> QED BY <1>1, RingInvariant, PTL

\* Even for a client that commits bytes it never staged (incr_write on its own) the
\* cursors stay in the ring and agree with the count.
THEOREM LooseCursorsAgree == LooseSpec => [](TypeOK /\ CursorsAgree)
  <1>1. Init => TypeOK /\ CursorsTurn
    BY RingInit DEF RingInv
  <1>2. ASSUME TypeOK, CursorsTurn, NEW n \in 0 .. Size, IncrWrite(n), UNCHANGED is_pow2
        PROVE  TypeOK' /\ CursorsTurn'
    <2> USE RingAssumption DEF RingAssumption
    <2>1. used + n \in 0 .. Size
      BY <1>2 DEF TypeOK, IncrWrite, available
    <2>2. write_pos' = Turn(write_pos, n)
      BY <1>2, Turns DEF IncrWrite, TypeOK, Cells
    <2>3. TypeOK'
      BY <1>2, <2>1, <2>2, Empty, TurnOnce DEF IncrWrite, TypeOK
    <2>4. CursorsTurn'
      BY <1>2, <2>1, <2>2, TurnTurn DEF IncrWrite, TypeOK, CursorsTurn
    <2> QED BY <2>3, <2>4
  <1>3. TypeOK /\ CursorsTurn /\ [LooseNext]_vars => TypeOK' /\ CursorsTurn'
    BY <1>2, CursorsStep DEF LooseNext, Next
  <1>4. TypeOK /\ CursorsTurn => TypeOK /\ CursorsAgree
    BY TurnsToWraps
  <1> QED BY <1>1, <1>3, <1>4, PTL DEF LooseSpec

\* A ring that is not empty can be read: read never returns 0 for it.
THEOREM NonEmptyAlwaysReadable == Spec => []NonEmptyIsReadable
  <1>1. RingInv => NonEmptyIsReadable
    BY DEF RingInv
  <1> QED BY <1>1, RingInvariant, PTL

\* Staged bytes survive until they are committed, whatever is read meanwhile.
THEOREM StagedAlwaysKept == Spec => []StagedKept
  <1>1. RingInv => StagedKept
    BY TurnsToWraps DEF RingInv
  <1> QED BY <1>1, RingInvariant, PTL

-----------------------------------------------------------------------------
(* The refinement.                                                         *)

\* FrontCells, for the next state.
FrontReads ==
    \A n \in 0 .. Size :
        /\ Front(n) \in Strings /\ Len(Front(n)) = n
        /\ \A i \in 1 .. n : Front(n)[i] = data[Turn(read_pos, i - 1)]

LEMMA FrontReadsNext == TypeOK' => FrontReads'
  <1>1. TypeOK => FrontReads
    BY FrontCells DEF FrontReads
  <1> QED BY <1>1, PTL

\* Two strings of the same length and bytes are equal.
LEMMA SameString ==
    ASSUME NEW s \in Seq(Byte), NEW t \in Seq(Byte), Len(s) = Len(t),
           \A i \in 1 .. Len(s) : s[i] = t[i]
    PROVE  s = t
  BY SeqEqual

\* The first m of the first n bytes.
LEMMA FrontPrefix ==
    ASSUME TypeOK, NEW n \in 0 .. used, NEW m \in 0 .. n
    PROVE  SubSeq(Front(n), 1, m) = Front(m)
  <1> USE RingAssumption DEF RingAssumption
  <1>1. n \in 0 .. Size /\ m \in 0 .. Size
    BY DEF TypeOK
  <1>2. /\ Front(n) \in Seq(Byte) /\ Len(Front(n)) = n
        /\ \A i \in 1 .. n : Front(n)[i] = data[Turn(read_pos, i - 1)] /\ Front(n)[i] \in Byte
    BY <1>1, FrontCells, StringIsSeq
  <1>3. /\ Front(m) \in Seq(Byte) /\ Len(Front(m)) = m
        /\ \A i \in 1 .. m : Front(m)[i] = data[Turn(read_pos, i - 1)]
    BY <1>1, FrontCells, StringIsSeq
  <1>4. /\ SubSeq(Front(n), 1, m) \in Seq(Byte)
        /\ Len(SubSeq(Front(n), 1, m)) = m
        /\ \A i \in 1 .. m : SubSeq(Front(n), 1, m)[i] = Front(n)[i]
    BY <1>1, <1>2
  <1> QED BY <1>1, <1>2, <1>3, <1>4, SameString

\* What remains when the read cursor advances.
LEMMA FrontShrink ==
    ASSUME TypeOK, NEW n \in 0 .. used, Shrink(n)
    PROVE  Front(used)' = SubSeq(Front(used), n + 1, Len(Front(used)))
  <1> USE RingAssumption DEF RingAssumption
  <1>1. n \in 0 .. Size /\ used \in 0 .. Size /\ used' = used - n /\ used' \in 0 .. Size
        /\ read_pos \in Cells /\ read_pos' = Turn(read_pos, n) /\ read_pos' \in Cells
        /\ data' = data
    BY TurnOnce DEF TypeOK, Shrink
  <1>2. TypeOK'
    BY <1>1, FrontCells DEF TypeOK, Shrink
  <1>3. /\ Front(used) \in Seq(Byte) /\ Len(Front(used)) = used
        /\ \A i \in 1 .. used : /\ Front(used)[i] = data[Turn(read_pos, i - 1)]
                                /\ Front(used)[i] \in Byte
    BY <1>1, FrontCells, StringIsSeq
  <1>4. /\ Front(used)' \in Seq(Byte) /\ Len(Front(used)') = used - n
        /\ \A i \in 1 .. used - n : Front(used)'[i] = data[Turn(Turn(read_pos, n), i - 1)]
    <2>1. PICK k \in 0 .. Size : k = used'
      BY <1>1
    <2>2. Front(used)' = Front(k)'
      BY <2>1 DEF Front
    <2>3. /\ Front(k)' \in Strings /\ Len(Front(k)') = k
          /\ \A i \in 1 .. k : Front(k)'[i] = data'[Turn(read_pos', i - 1)]
      BY <1>2, FrontReadsNext DEF FrontReads
    <2>4. Front(k)' \in Seq(Byte)
      BY <2>3, StringIsSeq
    <2> QED BY <1>1, <2>1, <2>2, <2>3, <2>4
  <1>5. /\ SubSeq(Front(used), n + 1, used) \in Seq(Byte)
        /\ Len(SubSeq(Front(used), n + 1, used)) = used - n
        /\ \A i \in 1 .. used - n : SubSeq(Front(used), n + 1, used)[i] = Front(used)[n + i]
    BY <1>1, <1>3
  <1>6. ASSUME NEW i \in 1 .. used - n
        PROVE  Turn(Turn(read_pos, n), i - 1) = Turn(read_pos, n + i - 1)
    BY <1>1, TurnTurn
  <1>7. ASSUME NEW i \in 1 .. used - n
        PROVE  Front(used)'[i] = SubSeq(Front(used), n + 1, used)[i]
    <2>1. n + i \in 1 .. used
      BY <1>1
    <2>2. Front(used)[n + i] = data[Turn(read_pos, n + i - 1)]
      BY <1>3, <2>1
    <2> QED BY <1>4, <1>5, <1>6, <2>2
  <1> QED BY <1>3, <1>4, <1>5, <1>7, SameString

\* A write beyond the buffered bytes leaves them alone.
LEMMA FrontLaid ==
    ASSUME TypeOK, CursorsTurn, TypeOK', NEW s \in Strings, used + Len(s) =< Size,
           data' = Laid(write_pos, s), read_pos' = read_pos,
           NEW i \in 1 .. used
    PROVE  data'[Turn(read_pos, i - 1)] = data[Turn(read_pos, i - 1)]
  <1> USE RingAssumption DEF RingAssumption
  <1>1. /\ used \in 0 .. Size /\ read_pos \in Cells /\ write_pos \in Cells
        /\ Len(s) \in 0 .. Size /\ write_pos = Turn(read_pos, used)
    BY StringIsSeq DEF TypeOK, CursorsTurn
  <1> DEFINE d == Size - used + i - 1
  <1>2. d \in Len(s) .. Size - 1
    BY <1>1
  <1>3. Turn(write_pos, d) = Turn(read_pos, i - 1)
    <2>1. /\ i - 1 \in 0 .. Size /\ d \in 0 .. Size
      BY <1>1, <1>2
    <2>2. Turn(read_pos, i - 1) = IF read_pos + (i - 1) < Size THEN read_pos + (i - 1)
                                  ELSE read_pos + (i - 1) - Size
      BY <1>1, <2>1, TurnOnce
    <2>3. Turn(write_pos, d) = IF write_pos + d < Size THEN write_pos + d
                               ELSE write_pos + d - Size
      BY <1>1, <2>1, TurnOnce
    <2>4. write_pos = IF read_pos + used < Size THEN read_pos + used
                      ELSE read_pos + used - Size
      BY <1>1, TurnOnce
    <2> QED BY <1>1, <2>2, <2>3, <2>4 DEF Cells
  <1> QED BY <1>1, <1>2, <1>3, LaidCells

\* If the bytes at the write cursor are s and the rest is unchanged, counting
\* them in appends s.
LEMMA FrontGrow ==
    ASSUME TypeOK, CursorsTurn, TypeOK', NEW s \in Strings, used + Len(s) =< Size,
           used' = used + Len(s), read_pos' = read_pos,
           \A i \in 1 .. Len(s) : data'[Turn(write_pos, i - 1)] = s[i],
           \A i \in 1 .. used : data'[Turn(read_pos, i - 1)] = data[Turn(read_pos, i - 1)]
    PROVE  Front(used)' = Front(used) \o s
  <1> USE RingAssumption DEF RingAssumption
  <1>1. /\ used \in 0 .. Size /\ used' \in 0 .. Size /\ read_pos \in Cells
        /\ s \in Seq(Byte) /\ Len(s) \in 0 .. Size /\ write_pos = Turn(read_pos, used)
    BY StringIsSeq DEF TypeOK, CursorsTurn
  <1>2. /\ Front(used) \in Seq(Byte) /\ Len(Front(used)) = used
        /\ \A i \in 1 .. used : Front(used)[i] = data[Turn(read_pos, i - 1)]
    BY <1>1, FrontCells, StringIsSeq
  <1>3. PICK k \in 0 .. Size : k = used'
    BY <1>1
  <1>4. Front(used)' = Front(k)'
    BY <1>3 DEF Front
  <1>5. /\ Front(k)' \in Strings /\ Len(Front(k)') = k
        /\ \A i \in 1 .. k : Front(k)'[i] = data'[Turn(read_pos, i - 1)]
    BY <1>1, FrontReadsNext DEF FrontReads
  <1>6. Front(k)' \in Seq(Byte)
    BY <1>5, StringIsSeq
  <1>7. /\ Front(used) \o s \in Seq(Byte) /\ Len(Front(used) \o s) = k
        /\ \A i \in 1 .. k : (Front(used) \o s)[i] = IF i =< used THEN Front(used)[i]
                                                     ELSE s[i - used]
    BY <1>1, <1>2, <1>3, ConcatProperties
  <1>8. ASSUME NEW i \in 1 .. k PROVE Front(k)'[i] = (Front(used) \o s)[i]
    <2>1. CASE i =< used
      <3>1. i \in 1 .. used
        BY <1>1, <2>1
      <3>2. Front(k)'[i] = data'[Turn(read_pos, i - 1)]
        BY <1>5
      <3>3. (Front(used) \o s)[i] = data[Turn(read_pos, i - 1)]
        BY <1>2, <1>7, <2>1, <3>1
      <3> QED BY <3>1, <3>2, <3>3
    <2>2. CASE ~(i =< used)
      <3>1. i - used \in 1 .. Len(s) /\ i - used - 1 \in 0 .. Size
        BY <1>1, <1>3, <2>2
      <3>2. Turn(write_pos, i - used - 1) = Turn(read_pos, used + (i - used - 1))
        BY <1>1, <1>3, <3>1, TurnTurn
      <3>3. used + (i - used - 1) = i - 1
        BY <1>1
      <3>4. data'[Turn(write_pos, i - used - 1)] = s[i - used]
        BY <3>1
      <3>5. Turn(write_pos, i - used - 1) = Turn(read_pos, i - 1)
        BY <3>2, <3>3, Zenon
      <3>6. Front(k)'[i] = data'[Turn(read_pos, i - 1)]
        BY <1>5
      <3>7. (Front(used) \o s)[i] = s[i - used]
        BY <1>7, <2>2
      <3> QED BY <3>4, <3>5, <3>6, <3>7, Zenon
    <2> QED BY <2>1, <2>2
  <1> QED BY <1>4, <1>5, <1>6, <1>7, <1>8, SameString

LEMMA QueueStep ==
    ASSUME RingInv, RingInv', [Next]_vars
    PROVE  [Queue!Next]_(Queue!vars)
  <1> USE RingAssumption DEF RingAssumption
  <1>1. /\ TypeOK /\ CursorsTurn /\ StagedTurn /\ TypeOK'
        /\ used \in 0 .. Size /\ staged \in Strings /\ Len(staged) \in 0 .. Size
        /\ read_pos \in Cells /\ write_pos \in Cells
    BY StringIsSeq DEF RingInv, TypeOK
  <1>2. Len(Front(used)) = used
    BY <1>1, FrontCells
  <1>3. Queue!Strings = Strings
    BY DEF Queue!Strings, Strings
  <1>4. ASSUME NEW s \in Strings, Grow(s) PROVE Queue!Put(s)
    <2>1. Len(s) \in 0 .. Size /\ used + Len(s) =< Size
      BY <1>4, StringIsSeq DEF Grow
    <2>2. \A i \in 1 .. Len(s) : data'[Turn(write_pos, i - 1)] = s[i]
      BY <1>1, <1>4, LaidCells DEF Grow
    <2>3. \A i \in 1 .. used : data'[Turn(read_pos, i - 1)] = data[Turn(read_pos, i - 1)]
      BY <1>1, <1>4, <2>1, FrontLaid DEF Grow
    <2>4. Front(used)' = Front(used) \o s
      BY <1>1, <1>4, <2>1, <2>2, <2>3, FrontGrow DEF Grow
    <2> QED BY <1>2, <1>4, <2>1, <2>4 DEF Grow, Queue!Put, Queue!Fits
  <1>5. ASSUME NEW s \in Strings, Prepare(s) PROVE Queue!Stage(s)
    <2>1. Len(s) \in 0 .. Size /\ used + Len(s) =< Size /\ used' = used /\ read_pos' = read_pos
          /\ staged' = s /\ out' = out
      BY <1>5, StringIsSeq DEF Prepare, Lend, cursors
    <2>2. ASSUME NEW i \in 1 .. used
          PROVE  data'[Turn(read_pos, i - 1)] = data[Turn(read_pos, i - 1)]
      BY <1>1, <1>5, <2>1, FrontLaid DEF Prepare, Lend
    <2>3. Front(used)' = Front(used)
      <3>1. PICK e \in Strings : e = << >> /\ Len(e) = 0
        BY Empty
      <3>2. /\ used' = used + Len(e) /\ used + Len(e) =< Size
            /\ \A i \in 1 .. Len(e) : data'[Turn(write_pos, i - 1)] = e[i]
            /\ \A i \in 1 .. used :
                   data'[Turn(read_pos, i - 1)] = data[Turn(read_pos, i - 1)]
        BY <1>1, <2>1, <2>2, <3>1
      <3>4. Front(used)' = Front(used) \o e
        BY <1>1, <2>1, <3>2, FrontGrow
      <3>3. Front(used) \in Seq(Byte)
        BY <1>1, FrontCells, StringIsSeq
      <3> QED BY <3>1, <3>3, <3>4
    <2> QED BY <1>2, <2>1, <2>3 DEF Queue!Stage, Queue!Fits
  <1>6. ASSUME NEW n \in 0 .. used, Shrink(n)
        PROVE  Queue!Skip(n) \/ Queue!Take(n)
    <2>1. n \in 0 .. used /\ used \in 0 .. used
      BY <1>1
    <2>2. SubSeq(Front(used), 1, n) = Front(n)
      BY <1>1, <2>1, FrontPrefix
    <2>3. Front(used)' = SubSeq(Front(used), n + 1, Len(Front(used)))
      BY <1>1, <1>6, FrontShrink
    <2> QED BY <1>6, <2>2, <2>3 DEF Shrink, Queue!Skip, Queue!Take
  <1>7. ASSUME NEW n \in 0 .. used, Show(n) PROVE Queue!Look(n)
    <2>1. used \in 0 .. used
      BY <1>1
    <2>2. SubSeq(Front(used), 1, n) = Front(n)
      BY <1>1, <2>1, FrontPrefix
    <2>3. Front(used)' = Front(used)
      BY <1>7 DEF Show, cursors, Front
    <2> QED BY <1>7, <2>2, <2>3 DEF Show, Queue!Look
  <1>8. ASSUME Finish PROVE Queue!Commit
    <2>1. /\ used + Len(staged) =< Size
          /\ \A i \in 1 .. Len(staged) : data'[Turn(write_pos, i - 1)] = staged[i]
      BY <1>1, <1>8 DEF Finish, StagedTurn
    <2>2. Front(used)' = Front(used) \o staged
      BY <1>1, <1>8, <2>1, FrontGrow DEF Finish
    <2> QED BY <1>2, <1>8, <2>1, <2>2 DEF Finish, Queue!Commit, Queue!Fits
  <1>9. ASSUME Wipe PROVE Queue!Discard
    <2>1. Front(used)' = << >>
      BY <1>9 DEF Wipe, Front
    <2> QED BY <1>9, <2>1 DEF Wipe, Queue!Discard
  <1>10. ASSUME UNCHANGED vars PROVE UNCHANGED Queue!vars
    BY <1>10 DEF vars, cursors, Queue!vars, Front
  <1> QED
    BY <1>1, <1>2, <1>3, <1>4, <1>5, <1>6, <1>7, <1>8, <1>9, <1>10, Ways DEF Queue!Next

\* The ring implements a bounded first-in first-out queue of bytes.
THEOREM ImplementsByteQueue == Spec => FifoSpec
  <1>1. Init => Queue!Init
    BY DEF Init, Queue!Init, Front
  <1>2. RingInv /\ RingInv' /\ [Next]_vars => [Queue!Next]_(Queue!vars)
    BY QueueStep
  <1> QED
    BY <1>1, <1>2, RingInvariant, PTL DEF Spec, FifoSpec, Queue!Spec
=============================================================================
