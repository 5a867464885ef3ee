--------------------------- MODULE FramingProofs ---------------------------
(***************************************************************************)
(* Strings in a Buffer, for every size, base and greatest string: the      *)
(* buffer is typed, and what the k-th put_string left is what the k-th     *)
(* get_string finds, past every call that failed half done.                *)
(*                                                                         *)
(* The argument is about where the strings lie: there are places, one      *)
(* before each string and one behind the last, between which the memory    *)
(* holds what the writes returned; a reader is always at such a place.     *)
(***************************************************************************)
EXTENDS Framing, SequenceTheorems, RecursionTheorems, TLAPS

Result == String \cup {Err}

\* A string is a sequence of at most MaxString bytes.
LEMMA StringIsSeq ==
    ASSUME NEW s \in String
    PROVE  /\ s \in Seq(Byte) /\ Len(s) \in 0 .. MaxString /\ Len(s) \in Nat
           /\ s \in [1 .. Len(s) -> Byte]
  <1>1. PICK n \in 0 .. MaxString : s \in [1 .. n -> Byte]
    BY DEF String
  <1>2. n \in Nat
    BY <1>1, FramingAssumption
  <1>3. s \in Seq(Byte) /\ Len(s) = n
    BY <1>1, <1>2
  <1> QED BY <1>1, <1>2, <1>3

\* n bytes of memory, as get_string returns them, are a string.
LEMMA BytesAreString ==
    ASSUME NEW n \in 0 .. MaxString, NEW s \in [1 .. n -> Byte]
    PROVE  s \in String
  BY DEF String

\* The prefix is two bytes, and stands for the number it was made of.
LEMMA EncodeDecodes ==
    ASSUME NEW n \in 0 .. MaxString
    PROVE  /\ Encode(n) \in Seq(Byte) /\ Len(Encode(n)) = Prefix
           /\ Encode(n)[1] * Base + Encode(n)[2] = n
  <1>1. n \in Nat /\ Base \in Nat /\ Base > 0 /\ n < Base * Base
    BY FramingAssumption
  <1>2. n = Base * (n \div Base) + (n % Base) /\ n % Base \in 0 .. Base - 1 /\ n \div Base \in Nat
    BY <1>1
  <1>3. n \div Base \in 0 .. Base - 1
    <2> DEFINE q == n \div Base
               r == n % Base
    <2>1. q \in Nat /\ r \in Nat /\ Base * q + r < Base * Base
      BY <1>1, <1>2
    <2> HIDE DEF q, r
    <2>2. ~(q >= Base)
      BY <2>1, <1>1
    <2>3. q \in 0 .. Base - 1
      BY <2>1, <2>2, <1>1
    <2> QED BY <2>3 DEF q
  <1>4. Encode(n)[1] = n \div Base /\ Encode(n)[2] = n % Base /\ Len(Encode(n)) = 2
    BY DEF Encode
  <1>5. Encode(n) \in Seq(Byte)
    BY <1>2, <1>3 DEF Encode, Byte
  <1>6. (n \div Base) * Base = Base * (n \div Base)
    BY <1>1, <1>2
  <1> QED BY <1>1, <1>2, <1>4, <1>5, <1>6 DEF Prefix

\* A copy puts the bytes where it is told to and nothing elsewhere.
LEMMA CopiedCells ==
    ASSUME NEW mem \in [Cells -> Byte], NEW at \in Nat, NEW s \in Seq(Byte),
           at + Len(s) =< Size
    PROVE  /\ Copied(mem, at, s) \in [Cells -> Byte]
           /\ \A i \in 1 .. Len(s) : Copied(mem, at, s)[at + i - 1] = s[i]
           /\ \A i \in Cells : i < at => Copied(mem, at, s)[i] = mem[i]
  <1>1. Size \in Nat /\ Len(s) \in Nat
    BY FramingAssumption
  <1>2. ASSUME NEW i \in Cells, i \in at .. at + Len(s) - 1
        PROVE  i - at + 1 \in 1 .. Len(s) /\ s[i - at + 1] \in Byte
    BY <1>1, <1>2 DEF Cells
  <1>3. Copied(mem, at, s) \in [Cells -> Byte]
    BY <1>2 DEF Copied
  <1>4. ASSUME NEW i \in 1 .. Len(s)
        PROVE  Copied(mem, at, s)[at + i - 1] = s[i]
    <2>1. at + i - 1 \in Cells /\ at + i - 1 \in at .. at + Len(s) - 1
      BY <1>1 DEF Cells
    <2>2. (at + i - 1) - at + 1 = i
      BY <1>1
    <2> QED BY <2>1, <2>2 DEF Copied
  <1>5. ASSUME NEW i \in Cells, i < at
        PROVE  Copied(mem, at, s)[i] = mem[i]
    <2>1. i \notin at .. at + Len(s) - 1
      BY <1>1, <1>5 DEF Cells
    <2> QED BY <2>1 DEF Copied
  <1> QED BY <1>3, <1>4, <1>5

-----------------------------------------------------------------------------
(* Type correctness.                                                       *)

\* A put of bytes that fit.
LEMMA PutType ==
    ASSUME TypeOK, NEW s \in Seq(Byte), HasSpace(Len(s)), Put(s)
    PROVE  /\ data' \in [Cells -> Byte] /\ vec_len' \in 0 .. Size
           /\ pos' \in 0 .. len' /\ len' \in 0 .. vec_len'
  <1>1. Size \in Nat /\ Len(s) \in Nat
    BY FramingAssumption
  <1>2. pos \in Nat /\ len \in Nat /\ vec_len \in Nat /\ pos =< len /\ len =< vec_len
        /\ vec_len =< Size /\ pos + Len(s) =< vec_len
    BY <1>1 DEF TypeOK, HasSpace
  <1>3. data' \in [Cells -> Byte]
    BY <1>1, <1>2, CopiedCells DEF TypeOK, Put
  <1>4. pos' = pos + Len(s) /\ vec_len' = vec_len /\ len' = Larger(len, pos + Len(s))
    BY DEF Put
  <1> QED BY <1>1, <1>2, <1>3, <1>4 DEF Larger, TypeOK

\* What put_string writes: the prefix, alone or with the bytes.
LEMMA PutBytes ==
    ASSUME NEW s \in String
    PROVE  /\ Encode(Len(s)) \in Seq(Byte) /\ Len(Encode(Len(s))) = Prefix
           /\ Encode(Len(s)) \o s \in Seq(Byte)
           /\ Len(Encode(Len(s)) \o s) = Prefix + Len(s)
  <1>1. s \in Seq(Byte) /\ Len(s) \in 0 .. MaxString
    BY StringIsSeq
  <1>2. Encode(Len(s)) \in Seq(Byte) /\ Len(Encode(Len(s))) = Prefix
    BY <1>1, EncodeDecodes
  <1> QED BY <1>1, <1>2

\* The types of the results.
LEMMA AppendResult ==
    ASSUME NEW w \in Seq(Result), NEW r \in Result
    PROVE  Append(w, r) \in Seq(Result)
  OBVIOUS

\* A read that gets its bytes, or only its prefix.
LEMMA ReadType ==
    ASSUME TypeOK, GetString \/ GetStringHalf
    PROVE  TypeOK'
  <1>1. Size \in Nat /\ MaxString \in Nat /\ Base \in Nat
    BY FramingAssumption
  <1>2. /\ pos \in Nat /\ len \in Nat /\ vec_len \in Nat /\ len =< vec_len /\ vec_len =< Size
        /\ data \in [Cells -> Byte] /\ pos + Prefix =< len
    BY <1>1 DEF TypeOK, GetString, GetStringHalf, HasBytes
  <1>3. pos \in Cells /\ pos + 1 \in Cells
    BY <1>1, <1>2 DEF Cells, Prefix
  <1>4. data[pos] \in Nat /\ data[pos + 1] \in Nat
    BY <1>1, <1>2, <1>3 DEF Byte
  <1>5. Decode(pos) \in Nat
    BY <1>1, <1>4 DEF Decode
  <1>6. PICK n \in Nat, r \in Result : Advance(n, r) /\ pos + n =< len
    <2>1. CASE GetString
      <3> DEFINE n == Decode(pos)
      <3>1. n \in 0 .. MaxString /\ pos + (Prefix + n) =< len /\ Prefix + n \in Nat
        BY <2>1, <1>1, <1>5 DEF GetString, HasBytes, Prefix
      <3>2. ASSUME NEW i \in 1 .. n
            PROVE  data[pos + Prefix + i - 1] \in Byte
        <4>1. pos + Prefix + i - 1 \in Cells
          BY <3>1, <1>1, <1>2 DEF Cells, Prefix
        <4> QED BY <4>1, <1>2
      <3>3. Slice(pos + Prefix, n) \in [1 .. n -> Byte]
        BY <3>2 DEF Slice
      <3>4. Slice(pos + Prefix, n) \in Result
        BY <3>1, <3>3, BytesAreString DEF Result
      <3> QED BY <2>1, <3>1, <3>4 DEF GetString
    <2>2. CASE GetStringHalf
      BY <2>2, <1>2 DEF GetStringHalf, Prefix, Result
    <2> QED BY <2>1, <2>2
  <1>7. pos' \in 0 .. len /\ reads' \in Seq(Result)
    BY <1>2, <1>6 DEF Advance, TypeOK, Result
  <1> QED BY <1>6, <1>7 DEF Advance, TypeOK, Result

\* All calls but TakeBack, which needs to know that there is a prefix to take back.
LEMMA TypeStep ==
    ASSUME TypeOK, Next, ~TakeBack
    PROVE  TypeOK'
  <1>0. Size \in Nat /\ MaxString \in Nat /\ Base \in Nat /\ Base > 0
    BY FramingAssumption
  <1>1. /\ pos \in Nat /\ len \in Nat /\ vec_len \in Nat
        /\ pos =< len /\ len =< vec_len /\ vec_len =< Size
    BY <1>0 DEF TypeOK
  <1>2. ASSUME NEW s \in String, PutString(s)
        PROVE  TypeOK'
    <2>1. writes' \in Seq(Result)
      BY <1>2, AppendResult DEF PutString, Wrote, TypeOK, Result
    <2>2. HasSpace(Len(Encode(Len(s)) \o s)) /\ Put(Encode(Len(s)) \o s)
      BY <1>2, PutBytes DEF PutString
    <2> QED BY <1>2, <2>1, <2>2, PutBytes, PutType DEF PutString, Wrote, TypeOK, Result
  <1>3. ASSUME NEW s \in String, PutStringHalf(s)
        PROVE  TypeOK'
    <2>1. writes' \in Seq(Result)
      BY <1>3, AppendResult DEF PutStringHalf, Wrote, TypeOK, Result
    <2>2. HasSpace(Len(Encode(Len(s)))) /\ Put(Encode(Len(s)))
      BY <1>3, PutBytes DEF PutStringHalf
    <2> QED BY <1>3, <2>1, <2>2, PutBytes, PutType DEF PutStringHalf, Wrote, TypeOK, Result
  <1>4. ASSUME NEW n \in 0 .. Size, Grow(n)
        PROVE  TypeOK'
    <2>1. data' \in [Cells -> Byte]
      <3>1. 0 \in Byte
        BY <1>0 DEF Byte
      <3> QED BY <1>4, <3>1 DEF Grow, TypeOK
    <2> QED BY <1>0, <1>1, <1>4, <2>1 DEF Grow, TypeOK
  <1>6. CASE Rewind
    BY <1>1, <1>6 DEF Rewind, TypeOK
  <1>7. CASE GetString \/ GetStringHalf
    BY <1>7, ReadType
  <1>8. CASE Reset
    <2>1. 0 \in 0 .. 0 /\ 0 \in 0 .. vec_len /\ << >> \in Seq(Result)
      BY <1>1
    <2> QED BY <1>8, <2>1 DEF Reset, TypeOK, Result
  <1> QED BY <1>2, <1>3, <1>4, <1>6, <1>7, <1>8 DEF Next

-----------------------------------------------------------------------------
(* Where the strings lie.                                                  *)

\* The number that the prefix at a stands for.
Num(mem, a) == mem[a] * Base + mem[a + 1]

\* Between a and b lies what a write left that returned w: the string behind its
\* prefix, or a prefix whose bytes did not fit in the Vec.
FrameIn(mem, vl, a, b, w) ==
    IF w = Err THEN b = a + Prefix /\ a + Prefix + Num(mem, a) > vl
    ELSE /\ b = a + Prefix + Len(w) /\ Num(mem, a) = Len(w)
         /\ \A i \in 1 .. Len(w) : mem[a + Prefix + i - 1] = w[i]

\* The writes that returned w lie one behind the other, from 0 to l.
LayoutOf(at, w, mem, vl, l) ==
    /\ at \in [0 .. Len(w) -> Nat] /\ at[0] = 0 /\ at[Len(w)] = l
    /\ \A i, j \in 0 .. Len(w) : i < j => at[i] + Prefix =< at[j]
    /\ \A k \in 1 .. Len(w) : FrameIn(mem, vl, at[k - 1], at[k], w[k])

\* Who has read r is behind as many writes, and read what they returned.
ReadUpTo(at, w, r, p) ==
    /\ Len(r) =< Len(w) /\ p = at[Len(r)]
    /\ \A j \in 1 .. Len(r) : r[j] = w[j]

\* A frame stays one when the memory before c does, where it lies; and a whole
\* string does not depend on the length of the Vec.
LEMMA FrameKept ==
    ASSUME NEW mem, NEW mem2, NEW vl, NEW vl2, NEW a \in Nat, NEW b \in Nat, NEW c \in Nat,
           NEW w \in Result, c =< Size, b =< c, a + Prefix =< b,
           FrameIn(mem, vl, a, b, w),
           \A i \in Cells : i < c => mem2[i] = mem[i],
           vl2 = vl \/ w # Err
    PROVE  FrameIn(mem2, vl2, a, b, w)
  <1>1. Size \in Nat
    BY FramingAssumption
  <1>2. mem2[a] = mem[a] /\ mem2[a + 1] = mem[a + 1]
    <2>1. a \in Cells /\ a + 1 \in Cells /\ a < c /\ a + 1 < c
      BY <1>1 DEF Cells, Prefix
    <2> QED BY <2>1
  <1>3. Num(mem2, a) = Num(mem, a)
    BY <1>2 DEF Num
  <1>4. CASE w = Err
    BY <1>3, <1>4 DEF FrameIn
  <1>5. CASE w # Err
    <2>1. Len(w) \in Nat
      BY <1>5, StringIsSeq DEF Result
    <2>2. b = a + Prefix + Len(w)
      BY <1>5 DEF FrameIn
    <2>3. ASSUME NEW i \in 1 .. Len(w)
          PROVE  mem2[a + Prefix + i - 1] = w[i]
      <3>1. a + Prefix + i - 1 \in Cells /\ a + Prefix + i - 1 < c
        BY <2>1, <2>2, <1>1 DEF Cells, Prefix
      <3>2. mem[a + Prefix + i - 1] = w[i]
        BY <1>5 DEF FrameIn
      <3> QED BY <3>1, <3>2
    <2> QED BY <1>3, <1>5, <2>2, <2>3 DEF FrameIn
  <1> QED BY <1>4, <1>5

\* A sequence of two elements before another.
LEMMA TwoBefore ==
    ASSUME NEW S, NEW e \in Seq(S), NEW s \in Seq(S), Len(e) = 2
    PROVE  /\ e \o s \in Seq(S) /\ Len(e \o s) = 2 + Len(s)
           /\ (e \o s)[1] = e[1] /\ (e \o s)[2] = e[2]
           /\ \A i \in 1 .. Len(s) : (e \o s)[2 + i] = s[i]
  <1> DEFINE c == e \o s
  <1>1. /\ c \in Seq(S) /\ Len(c) = 2 + Len(s) /\ Len(s) \in Nat
        /\ \A i \in 1 .. 2 + Len(s) : c[i] = IF i =< 2 THEN e[i] ELSE s[i - 2]
    <2>1. /\ e \o s \in Seq(S) /\ Len(e \o s) = Len(e) + Len(s)
          /\ \A i \in 1 .. Len(e) + Len(s) :
                 (e \o s)[i] = IF i <= Len(e) THEN e[i] ELSE s[i - Len(e)]
      BY ConcatProperties, Zenon
    <2>2. Len(s) \in Nat
      OBVIOUS
    <2> QED BY <2>1, <2>2, Len(e) = 2, Zenon
  <1> HIDE DEF c
  <1>2. c[1] = e[1] /\ c[2] = e[2]
    BY <1>1
  <1>3. ASSUME NEW i \in 1 .. Len(s)
        PROVE  c[2 + i] = s[i]
    <2>1. 2 + i \in 1 .. 2 + Len(s) /\ ~(2 + i =< 2) /\ (2 + i) - 2 = i
      BY <1>1
    <2> QED BY <1>1, <2>1
  <1> QED BY <1>1, <1>2, <1>3 DEF c

\* put_string leaves a frame.
LEMMA FrameWritten ==
    ASSUME NEW mem \in [Cells -> Byte], NEW vl, NEW a \in Nat, NEW s \in String,
           a + Prefix + Len(s) =< Size
    PROVE  FrameIn(Copied(mem, a, Encode(Len(s)) \o s), vl, a, a + Prefix + Len(s), s)
  <1> DEFINE e == Encode(Len(s))
             m == Copied(mem, a, e \o s)
  <1>1. s \in Seq(Byte) /\ Len(s) \in 0 .. MaxString /\ Len(s) \in Nat
    BY StringIsSeq
  <1>2. e \in Seq(Byte) /\ Len(e) = Prefix /\ e[1] * Base + e[2] = Len(s)
    BY <1>1, EncodeDecodes
  <1> HIDE DEF e
  <1>3. /\ e \o s \in Seq(Byte) /\ Len(e \o s) = Prefix + Len(s)
        /\ (e \o s)[1] = e[1] /\ (e \o s)[2] = e[2]
        /\ \A i \in 1 .. Len(s) : (e \o s)[Prefix + i] = s[i]
    BY <1>1, <1>2, TwoBefore DEF Prefix
  <1>4. \A i \in 1 .. Len(e \o s) : m[a + i - 1] = (e \o s)[i]
    <2>1. a + Len(e \o s) =< Size
      BY <1>1, <1>3 DEF Prefix
    <2> QED BY <1>3, <2>1, CopiedCells
  <1> HIDE DEF m
  <1>5. m[a] = e[1] /\ m[a + 1] = e[2]
    <2>1. 1 \in 1 .. Len(e \o s) /\ 2 \in 1 .. Len(e \o s) /\ a + 1 - 1 = a /\ a + 2 - 1 = a + 1
      BY <1>1, <1>3 DEF Prefix
    <2> QED BY <1>3, <1>4, <2>1
  <1>6. ASSUME NEW i \in 1 .. Len(s)
        PROVE  m[a + Prefix + i - 1] = s[i]
    <2>1. Prefix + i \in 1 .. Len(e \o s) /\ a + (Prefix + i) - 1 = a + Prefix + i - 1
      BY <1>1, <1>3 DEF Prefix
    <2> QED BY <1>3, <1>4, <2>1
  <1>7. s # Err
    BY FramingAssumption
  <1>8. FrameIn(m, vl, a, a + Prefix + Len(s), s)
    BY <1>2, <1>5, <1>6, <1>7 DEF FrameIn, Num
  <1> QED BY <1>8 DEF m, e

\* A put_string that fails half way leaves a prefix whose bytes do not fit.
LEMMA FrameHalfWritten ==
    ASSUME NEW mem \in [Cells -> Byte], NEW vl \in Nat, NEW a \in Nat, NEW s \in String,
           a + Prefix =< Size, a + Prefix + Len(s) > vl
    PROVE  FrameIn(Copied(mem, a, Encode(Len(s))), vl, a, a + Prefix, Err)
  <1> DEFINE e == Encode(Len(s))
             m == Copied(mem, a, e)
  <1>1. Len(s) \in 0 .. MaxString /\ Len(s) \in Nat
    BY StringIsSeq
  <1>2. e \in Seq(Byte) /\ Len(e) = Prefix /\ e[1] * Base + e[2] = Len(s)
    BY <1>1, EncodeDecodes
  <1> HIDE DEF e
  <1>3. \A i \in 1 .. Len(e) : m[a + i - 1] = e[i]
    BY <1>2, CopiedCells
  <1> HIDE DEF m
  <1>4. m[a] = e[1] /\ m[a + 1] = e[2]
    <2>1. 1 \in 1 .. Len(e) /\ 2 \in 1 .. Len(e) /\ a + 1 - 1 = a /\ a + 2 - 1 = a + 1
      BY <1>2 DEF Prefix
    <2> QED BY <1>3, <2>1
  <1>5. FrameIn(m, vl, a, a + Prefix, Err)
    BY <1>2, <1>4 DEF FrameIn, Num
  <1> QED BY <1>5 DEF m, e

\* No write has returned.
LEMMA EmptyLayout ==
    ASSUME NEW mem, NEW vl
    PROVE  \E at : LayoutOf(at, << >>, mem, vl, 0) /\ at[0] = 0
  <1> DEFINE at == [i \in {0} |-> 0]
  <1>1. 0 .. 0 = {0} /\ 1 .. 0 = {} /\ Len(<< >>) = 0
    OBVIOUS
  <1>2. /\ at \in [{0} -> Nat] /\ at[0] = 0
        /\ \A i, j \in {0} : ~(i < j)
    OBVIOUS
  <1> HIDE DEF at
  <1>3. LayoutOf(at, << >>, mem, vl, 0)
    BY <1>1, <1>2 DEF LayoutOf
  <1> QED BY <1>2, <1>3

\* A write that returned r, behind the others.
LEMMA LayoutAppended ==
    ASSUME NEW mem, NEW mem2, NEW vl, NEW at, NEW w \in Seq(Result), NEW l \in Nat,
           LayoutOf(at, w, mem, vl, l),
           NEW r \in Result, NEW b \in Nat, l + Prefix =< b, l =< Size,
           \A i \in Cells : i < l => mem2[i] = mem[i],
           FrameIn(mem2, vl, l, b, r)
    PROVE  \E at2 : LayoutOf(at2, Append(w, r), mem2, vl, b)
  <1> DEFINE n == Len(w)
             at2 == [i \in 0 .. n + 1 |-> IF i = n + 1 THEN b ELSE at[i]]
  <1>1. n \in Nat /\ Append(w, r) \in Seq(Result) /\ Len(Append(w, r)) = n + 1
        /\ Append(w, r)[n + 1] = r /\ \A k \in 1 .. n : Append(w, r)[k] = w[k] /\ w[k] \in Result
    OBVIOUS
  <1> HIDE DEF n
  <1>2. /\ at \in [0 .. n -> Nat] /\ at[0] = 0 /\ at[n] = l
        /\ \A i, j \in 0 .. n : i < j => at[i] + Prefix =< at[j]
        /\ \A k \in 1 .. n : FrameIn(mem, vl, at[k - 1], at[k], w[k])
    BY DEF LayoutOf, n
  <1>3. \A i \in 0 .. n + 1 : i \in 0 .. n \/ i = n + 1
    BY <1>1
  <1>4. /\ at2 \in [0 .. n + 1 -> Nat] /\ at2[0] = 0 /\ at2[n + 1] = b
        /\ \A i \in 0 .. n : at2[i] = at[i]
    BY <1>1, <1>2, <1>3
  <1> HIDE DEF at2
  <1>5. \A i \in 0 .. n : at[i] \in Nat /\ at[i] =< l
    <2>1. ASSUME NEW i \in 0 .. n
          PROVE  at[i] =< l
      <3>1. CASE i = n
        BY <3>1, <1>1, <1>2
      <3>2. CASE i # n
        <4>1. n \in 0 .. n /\ i < n
          BY <3>2, <1>1
        <4>2. at[i] + Prefix =< l /\ at[i] \in Nat
          BY <4>1, <1>2
        <4> QED BY <4>2 DEF Prefix
      <3> QED BY <3>1, <3>2
    <2> QED BY <2>1, <1>2
  <1>6. ASSUME NEW i \in 0 .. n + 1, NEW j \in 0 .. n + 1, i < j
        PROVE  at2[i] + Prefix =< at2[j]
    <2>1. i \in 0 .. n
      BY <1>1, <1>6
    <2>2. CASE j \in 0 .. n
      BY <2>1, <2>2, <1>2, <1>4, <1>6
    <2>3. CASE j = n + 1
      <3>1. at2[i] = at[i] /\ at[i] \in Nat /\ at[i] =< l /\ at2[j] = b
        BY <2>1, <2>3, <1>4, <1>5
      <3> QED BY <3>1 DEF Prefix
    <2> QED BY <2>2, <2>3, <1>3
  <1>7. ASSUME NEW k \in 1 .. n + 1
        PROVE  FrameIn(mem2, vl, at2[k - 1], at2[k], Append(w, r)[k])
    <2>1. CASE k = n + 1
      <3>1. k - 1 = n /\ n \in 0 .. n
        BY <2>1, <1>1
      <3> QED BY <2>1, <3>1, <1>1, <1>2, <1>4
    <2>2. CASE k # n + 1
      <3>1. k \in 1 .. n /\ k \in 0 .. n /\ k - 1 \in 0 .. n /\ k - 1 < k
        BY <2>2, <1>1
      <3>2. /\ at[k - 1] \in Nat /\ at[k] \in Nat /\ at[k] =< l /\ at[k - 1] + Prefix =< at[k]
            /\ FrameIn(mem, vl, at[k - 1], at[k], w[k]) /\ w[k] \in Result
        BY <3>1, <1>1, <1>2, <1>5
      <3>3. FrameIn(mem2, vl, at[k - 1], at[k], w[k])
        BY <3>2, FrameKept
      <3> QED BY <3>1, <3>3, <1>1, <1>4
    <2> QED BY <2>1, <2>2
  <1>8. LayoutOf(at2, Append(w, r), mem2, vl, b)
    BY <1>1, <1>4, <1>6, <1>7 DEF LayoutOf
  <1> QED BY <1>8

\* The last write, which failed half way, is taken back.
LEMMA LayoutDropped ==
    ASSUME NEW mem, NEW vl, NEW at, NEW w \in Seq(Result), NEW l \in Nat,
           LayoutOf(at, w, mem, vl, l), w # << >>, w[Len(w)] = Err
    PROVE  /\ l - Prefix \in Nat
           /\ \E at2 : LayoutOf(at2, SubSeq(w, 1, Len(w) - 1), mem, vl, l - Prefix)
  <1> DEFINE n == Len(w) - 1
             at2 == [i \in 0 .. n |-> at[i]]
             v == SubSeq(w, 1, n)
  <1>1. n \in Nat /\ Len(w) = n + 1 /\ v \in Seq(Result) /\ Len(v) = n
        /\ \A k \in 1 .. n : v[k] = w[k]
    <2>1. n \in Nat /\ Len(w) = n + 1 /\ \A k \in 1 .. n : w[k] \in Result
      OBVIOUS
    <2> HIDE DEF n
    <2>2. /\ v \in Seq(Result) /\ Len(v) = IF 1 =< n THEN n - 1 + 1 ELSE 0
          /\ \A k \in 1 .. n - 1 + 1 : v[k] = w[1 + k - 1]
      BY <2>1, SubSeqProperties
    <2> HIDE DEF v
    <2> QED BY <2>1, <2>2
  <1> HIDE DEF n, v
  <1>2. /\ at \in [0 .. n + 1 -> Nat] /\ at[0] = 0 /\ at[n + 1] = l
        /\ \A i, j \in 0 .. n + 1 : i < j => at[i] + Prefix =< at[j]
        /\ \A k \in 1 .. n + 1 : FrameIn(mem, vl, at[k - 1], at[k], w[k])
    BY <1>1 DEF LayoutOf
  <1>3. /\ \A i \in 0 .. n : i \in 0 .. n + 1
        /\ \A k \in 1 .. n : k \in 1 .. n + 1 /\ k - 1 \in 0 .. n /\ k \in 0 .. n
        /\ 0 \in 0 .. n /\ n \in 0 .. n /\ n + 1 \in 1 .. n + 1 /\ (n + 1) - 1 = n
    BY <1>1
  <1>4. /\ at2 \in [0 .. n -> Nat]
        /\ \A i \in 0 .. n : at2[i] = at[i]
    BY <1>2, <1>3
  <1> HIDE DEF at2
  <1>5. at[n] = l - Prefix /\ at[n] \in Nat
    <2>1. FrameIn(mem, vl, at[n], l, Err) /\ at[n] \in Nat
      BY <1>1, <1>2, <1>3
    <2> QED BY <2>1 DEF FrameIn, Prefix
  <1>6. \A i, j \in 0 .. n : i < j => at2[i] + Prefix =< at2[j]
    BY <1>2, <1>3, <1>4
  <1>7. \A k \in 1 .. n : FrameIn(mem, vl, at2[k - 1], at2[k], v[k])
    BY <1>1, <1>2, <1>3, <1>4
  <1>8. LayoutOf(at2, v, mem, vl, l - Prefix)
    BY <1>1, <1>2, <1>3, <1>4, <1>5, <1>6, <1>7 DEF LayoutOf
  <1> QED BY <1>5, <1>8 DEF v, n

\* The Vec is lengthened, with no half-written string in it.
LEMMA LayoutGrown ==
    ASSUME NEW mem, NEW mem2, NEW vl, NEW vl2, NEW at, NEW w \in Seq(Result), NEW l \in Nat,
           LayoutOf(at, w, mem, vl, l), l =< Size,
           \A k \in 1 .. Len(w) : w[k] # Err,
           \A i \in Cells : i < l => mem2[i] = mem[i]
    PROVE  LayoutOf(at, w, mem2, vl2, l)
  <1> DEFINE n == Len(w)
  <1>1. n \in Nat /\ \A k \in 1 .. n : w[k] \in Result
    OBVIOUS
  <1>2. /\ at \in [0 .. n -> Nat] /\ at[0] = 0 /\ at[n] = l
        /\ \A i, j \in 0 .. n : i < j => at[i] + Prefix =< at[j]
        /\ \A k \in 1 .. n : FrameIn(mem, vl, at[k - 1], at[k], w[k])
    BY DEF LayoutOf
  <1> HIDE DEF n
  <1>3. ASSUME NEW k \in 1 .. n
        PROVE  FrameIn(mem2, vl2, at[k - 1], at[k], w[k])
    <2>1. k \in 0 .. n /\ k - 1 \in 0 .. n /\ k - 1 < k /\ n \in 0 .. n /\ (k < n \/ k = n)
      BY <1>1
    <2>2. at[k - 1] \in Nat /\ at[k] \in Nat /\ at[k - 1] + Prefix =< at[k]
      BY <2>1, <1>2
    <2>3. at[k] =< l
      <3>1. CASE k = n
        BY <3>1, <1>2
      <3>2. CASE k < n
        <4>1. at[k] + Prefix =< at[n]
          BY <3>2, <2>1, <1>2
        <4> QED BY <4>1, <2>2, <1>2 DEF Prefix
      <3> QED BY <2>1, <3>1, <3>2
    <2>4. FrameIn(mem, vl, at[k - 1], at[k], w[k]) /\ w[k] \in Result /\ w[k] # Err
      BY <1>1, <1>2 DEF n
    <2> QED BY <2>2, <2>3, <2>4, FrameKept
  <1> QED BY <1>2, <1>3 DEF LayoutOf, n

\* A reader in front of a prefix is in front of a frame, whose end is not past l.
LEMMA NextFrame ==
    ASSUME NEW mem, NEW vl, NEW at, NEW w \in Seq(Result), NEW r \in Seq(Result), NEW l \in Nat,
           NEW p \in Nat, LayoutOf(at, w, mem, vl, l), ReadUpTo(at, w, r, p), p + Prefix =< l
    PROVE  /\ Len(r) + 1 \in 1 .. Len(w)
           /\ FrameIn(mem, vl, p, at[Len(r) + 1], w[Len(r) + 1])
           /\ at[Len(r) + 1] \in Nat /\ at[Len(r) + 1] =< l
  <1> DEFINE n == Len(w)
             m == Len(r)
  <1>1. n \in Nat /\ m \in Nat
    OBVIOUS
  <1>2. /\ at \in [0 .. n -> Nat] /\ at[n] = l
        /\ \A i, j \in 0 .. n : i < j => at[i] + Prefix =< at[j]
        /\ \A k \in 1 .. n : FrameIn(mem, vl, at[k - 1], at[k], w[k])
        /\ m =< n /\ p = at[m]
    BY DEF LayoutOf, ReadUpTo
  <1> HIDE DEF n, m
  <1>3. m # n
    BY <1>2 DEF Prefix
  <1>4. m + 1 \in 1 .. n /\ m + 1 \in 0 .. n /\ n \in 0 .. n /\ (m + 1) - 1 = m
        /\ (m + 1 < n \/ m + 1 = n)
    BY <1>1, <1>2, <1>3
  <1>5. at[m + 1] \in Nat /\ FrameIn(mem, vl, p, at[m + 1], w[m + 1])
    BY <1>2, <1>4
  <1>6. at[m + 1] =< l
    <2>1. CASE m + 1 = n
      BY <2>1, <1>2
    <2>2. CASE m + 1 < n
      <3>1. at[m + 1] + Prefix =< at[n]
        BY <2>2, <1>2, <1>4
      <3> QED BY <3>1, <1>2, <1>5 DEF Prefix
    <2> QED BY <2>1, <2>2, <1>4
  <1> QED BY <1>4, <1>5, <1>6 DEF n, m

\* The reader has read one more.
LEMMA ReadOne ==
    ASSUME NEW at, NEW w \in Seq(Result), NEW r \in Seq(Result), NEW p,
           ReadUpTo(at, w, r, p), Len(r) + 1 \in 1 .. Len(w)
    PROVE  ReadUpTo(at, w, Append(r, w[Len(r) + 1]), at[Len(r) + 1])
  <1> DEFINE m == Len(r)
             s == Append(r, w[m + 1])
  <1>1. m \in Nat /\ w[m + 1] \in Result
    OBVIOUS
  <1>2. Len(s) = m + 1 /\ s[m + 1] = w[m + 1] /\ \A j \in 1 .. m : s[j] = r[j]
    BY <1>1
  <1> HIDE DEF s
  <1>3. \A j \in 1 .. m : r[j] = w[j]
    BY DEF ReadUpTo
  <1>4. \A j \in 1 .. m + 1 : j \in 1 .. m \/ j = m + 1
    BY <1>1
  <1>5. m + 1 =< Len(w)
    OBVIOUS
  <1>6. ReadUpTo(at, w, s, at[m + 1])
    BY <1>2, <1>3, <1>4, <1>5 DEF ReadUpTo
  <1> QED BY <1>6 DEF s

-----------------------------------------------------------------------------
(* The invariant.                                                          *)

Behind(at) == IF reading THEN ReadUpTo(at, writes, reads, pos) ELSE pos = len /\ reads = << >>

Framed == ~foreign => \E at : LayoutOf(at, writes, data, vec_len, len) /\ Behind(at)

IInv == TypeOK /\ (foreign => reading) /\ Framed

\* Nothing is read yet.
LEMMA ReadNothing ==
    ASSUME NEW at, NEW w \in Seq(Result)
    PROVE  ReadUpTo(at, w, << >>, at[0])
  BY DEF ReadUpTo

LEMMA Started == Init => IInv
  <1> SUFFICES ASSUME Init
               PROVE  IInv
    OBVIOUS
  <1>1. Size \in Nat /\ Base \in Nat /\ Base > 0
    BY FramingAssumption
  <1>2. 0 \in Byte /\ << >> \in Seq(Result) /\ 0 \in 0 .. len
    BY <1>1 DEF Byte, Init
  <1>3. /\ data \in [Cells -> Byte] /\ vec_len \in 0 .. Size /\ len \in 0 .. vec_len
        /\ reading \in BOOLEAN /\ foreign \in BOOLEAN
    <2>1. reading \in BOOLEAN /\ foreign \in BOOLEAN
      BY Zenon DEF Init
    <2>2. \/ len = Size /\ vec_len = Size /\ data \in [Cells -> Byte]
          \/ len = 0 /\ vec_len \in 0 .. Size /\ data = [i \in Cells |-> 0]
      BY DEF Init
    <2>3. [i \in Cells |-> 0] \in [Cells -> Byte]
      BY <1>2
    <2>4. len \in 0 .. vec_len /\ vec_len \in 0 .. Size
      BY <1>1, <2>2
    <2> QED BY <2>1, <2>2, <2>3, <2>4
  <1>4. TypeOK
    BY <1>2, <1>3 DEF Init, TypeOK, Result
  <1>5. (foreign => reading) /\ (~foreign => ~reading /\ len = 0)
    BY DEF Init
  <1>6. ASSUME ~foreign
        PROVE  \E at : LayoutOf(at, writes, data, vec_len, len) /\ Behind(at)
    <2>1. PICK at : LayoutOf(at, << >>, data, vec_len, 0)
      BY EmptyLayout
    <2> QED BY <2>1, <1>5, <1>6 DEF Init, Behind
  <1> QED BY <1>4, <1>5, <1>6 DEF IInv, Framed

\* The client that writes is behind all that is written: a put appends a frame.
LEMMA PutStep ==
    ASSUME IInv, NEW s \in String, PutString(s) \/ PutStringHalf(s), TypeOK'
    PROVE  IInv'
  <1>1. ~reading /\ ~foreign /\ UNCHANGED <<reading, foreign, reads, vec_len>>
    BY DEF IInv, PutString, PutStringHalf, Put, Wrote
  <1>2. PICK at : LayoutOf(at, writes, data, vec_len, len) /\ pos = len /\ reads = << >>
    BY <1>1 DEF IInv, Framed, Behind
  <1>3. /\ Size \in Nat /\ len \in Nat /\ vec_len \in Nat /\ len =< vec_len /\ vec_len =< Size
        /\ data \in [Cells -> Byte] /\ writes \in Seq(Result) /\ s \in Result
        /\ Len(s) \in Nat /\ Err \in Result
    <2>1. Size \in Nat
      BY FramingAssumption
    <2>2. Len(s) \in Nat
      BY StringIsSeq
    <2> QED BY <2>1, <2>2 DEF IInv, TypeOK, Result
  <1>4. PICK r \in Result, b \in Nat :
            /\ writes' = Append(writes, r) /\ len' = b /\ pos' = b /\ len + Prefix =< b
            /\ FrameIn(data', vec_len, len, b, r)
            /\ \A i \in Cells : i < len => data'[i] = data[i]
    <2>1. CASE PutString(s)
      <3> DEFINE e == Encode(Len(s)) \o s
      <3>1. /\ e \in Seq(Byte) /\ Len(e) = Prefix + Len(s)
            /\ len + (Prefix + Len(s)) =< vec_len
        BY <2>1, <1>2, PutBytes DEF PutString, HasSpace
      <3> HIDE DEF e
      <3>2. data' = Copied(data, len, e) /\ pos' = len + Len(e) /\ len' = Larger(len, len + Len(e))
            /\ writes' = Append(writes, s)
        BY <2>1, <1>2 DEF PutString, Put, Wrote, e
      <3>3. /\ len + Prefix + Len(s) =< Size /\ len + Len(e) =< Size
            /\ len' = len + Prefix + Len(s) /\ pos' = len + Prefix + Len(s)
            /\ len + Prefix + Len(s) \in Nat /\ len + Prefix =< len + Prefix + Len(s)
        BY <3>1, <3>2, <1>3 DEF Larger, Prefix
      <3>4. FrameIn(data', vec_len, len, len + Prefix + Len(s), s)
        BY <3>2, <3>3, <1>3, FrameWritten DEF e
      <3>5. \A i \in Cells : i < len => data'[i] = data[i]
        BY <3>1, <3>2, <3>3, <1>3, CopiedCells
      <3> QED BY <3>2, <3>3, <3>4, <3>5, <1>3
    <2>2. CASE PutStringHalf(s)
      <3> DEFINE e == Encode(Len(s))
      <3>1. /\ e \in Seq(Byte) /\ Len(e) = Prefix
            /\ len + Prefix =< vec_len /\ ~(len + (Prefix + Len(s)) =< vec_len)
        BY <2>2, <1>2, PutBytes DEF PutStringHalf, HasSpace
      <3> HIDE DEF e
      <3>2. data' = Copied(data, len, e) /\ pos' = len + Len(e) /\ len' = Larger(len, len + Len(e))
            /\ writes' = Append(writes, Err)
        BY <2>2, <1>2 DEF PutStringHalf, Put, Wrote, e
      <3>3. /\ len + Prefix =< Size /\ len + Prefix + Len(s) > vec_len /\ len + Len(e) =< Size
            /\ len' = len + Prefix /\ pos' = len + Prefix /\ len + Prefix \in Nat
        BY <3>1, <3>2, <1>3 DEF Larger, Prefix
      <3>4. FrameIn(data', vec_len, len, len + Prefix, Err)
        BY <3>2, <3>3, <1>3, FrameHalfWritten DEF e
      <3>5. \A i \in Cells : i < len => data'[i] = data[i]
        BY <3>1, <3>2, <3>3, <1>3, CopiedCells
      <3> QED BY <3>2, <3>3, <3>4, <3>5, <1>3
    <2> QED BY <2>1, <2>2
  <1>5. PICK at2 : LayoutOf(at2, Append(writes, r), data', vec_len, b)
    <2>1. len =< Size
      BY <1>3
    <2> QED BY <2>1, <1>2, <1>3, <1>4, LayoutAppended
  <1>6. LayoutOf(at2, writes', data', vec_len', len') /\ ~reading' /\ pos' = len' /\ reads' = << >>
    BY <1>1, <1>2, <1>4, <1>5
  <1> QED BY <1>1, <1>6 DEF IInv, Framed, Behind

LEMMA TakeBackStep ==
    ASSUME IInv, TakeBack
    PROVE  IInv'
  <1>1. ~reading /\ ~foreign
    BY DEF IInv, TakeBack
  <1>2. PICK at : LayoutOf(at, writes, data, vec_len, len) /\ pos = len /\ reads = << >>
    BY <1>1 DEF IInv, Framed, Behind
  <1>3. len \in Nat /\ vec_len \in Nat /\ len =< vec_len /\ writes \in Seq(Result)
    BY FramingAssumption DEF IInv, TypeOK, Result
  <1>4. /\ writes # << >> /\ writes[Len(writes)] = Err
        /\ writes' = SubSeq(writes, 1, Len(writes) - 1)
        /\ UNCHANGED <<data, vec_len, reading, foreign, reads>>
        /\ len' = len - Prefix /\ pos' = Lesser(pos, len - Prefix)
    BY DEF TakeBack
  <1>5. /\ len - Prefix \in Nat
        /\ \E at2 : LayoutOf(at2, SubSeq(writes, 1, Len(writes) - 1), data, vec_len, len - Prefix)
    BY <1>2, <1>3, <1>4, LayoutDropped
  <1>6. pos' = len' /\ len' \in 0 .. vec_len' /\ pos' \in 0 .. len'
    BY <1>2, <1>3, <1>4, <1>5 DEF Lesser, Prefix
  <1>7. writes' \in Seq(Result)
    BY <1>3, <1>4
  <1>8. TypeOK'
    BY <1>4, <1>6, <1>7 DEF IInv, TypeOK, Result
  <1>9. \E at2 : LayoutOf(at2, writes', data', vec_len', len')
    BY <1>4, <1>5
  <1> QED BY <1>1, <1>2, <1>4, <1>6, <1>8, <1>9 DEF IInv, Framed, Behind

LEMMA GrowStep ==
    ASSUME IInv, NEW n \in 0 .. Size, Grow(n), TypeOK'
    PROVE  IInv'
  <1>1. /\ UNCHANGED <<pos, len, reading, foreign, writes, reads>>
        /\ data' = [i \in Cells |-> IF i < vec_len THEN data[i] ELSE 0]
        /\ Err \notin {writes[k] : k \in DOMAIN writes}
    BY DEF Grow
  <1>2. ASSUME ~foreign
        PROVE  \E at : LayoutOf(at, writes', data', vec_len', len') /\ Behind(at)'
    <2>1. PICK at : LayoutOf(at, writes, data, vec_len, len) /\ Behind(at)
      BY <1>2 DEF IInv, Framed
    <2>2. /\ Size \in Nat /\ len \in Nat /\ vec_len \in Nat /\ len =< vec_len /\ vec_len =< Size
          /\ writes \in Seq(Result)
      BY FramingAssumption DEF IInv, TypeOK, Result
    <2>3. \A i \in Cells : i < len => data'[i] = data[i]
      <3>1. ASSUME NEW i \in Cells, i < len
            PROVE  i < vec_len
        BY <2>2, <3>1 DEF Cells
      <3> QED BY <3>1, <1>1
    <2>4. \A k \in 1 .. Len(writes) : writes[k] # Err
      BY <1>1, <2>2
    <2>5. len =< Size
      BY <2>2
    <2>6. LayoutOf(at, writes, data', vec_len', len)
      BY <2>1, <2>2, <2>3, <2>4, <2>5, LayoutGrown
    <2>7. Behind(at)'
      BY <2>1, <1>1 DEF Behind
    <2> QED BY <2>6, <2>7, <1>1
  <1> QED BY <1>1, <1>2 DEF IInv, Framed

\* A read, whole or half, of bytes that put_string left, returns what the write did.
LEMMA ReadStep ==
    ASSUME IInv, ~foreign, GetString \/ GetStringHalf,
           NEW at, LayoutOf(at, writes, data, vec_len, len), Behind(at)
    PROVE  /\ Len(reads) + 1 \in 1 .. Len(writes)
           /\ reads' = Append(reads, writes[Len(reads) + 1])
           /\ pos' = at[Len(reads) + 1]
  <1> DEFINE m == Len(reads) + 1
             w == writes[m]
             b == at[m]
  <1>1. /\ pos \in Nat /\ len \in Nat /\ vec_len \in Nat /\ len =< vec_len
        /\ writes \in Seq(Result) /\ reads \in Seq(Result)
    BY FramingAssumption DEF IInv, TypeOK, Result
  <1>2. reading /\ pos + Prefix =< len /\ ReadUpTo(at, writes, reads, pos)
    BY DEF GetString, GetStringHalf, HasBytes, Behind
  <1>3. /\ m \in 1 .. Len(writes) /\ FrameIn(data, vec_len, pos, b, w)
        /\ b \in Nat /\ b =< len
    BY <1>1, <1>2, NextFrame
  <1>4. w \in Result
    BY <1>1, <1>3
  <1> HIDE DEF m, w, b
  <1>5. Num(data, pos) = Decode(pos)
    BY DEF Num, Decode
  <1>6. CASE w = Err
    <2>1. b = pos + Prefix /\ pos + Prefix + Decode(pos) > vec_len
      BY <1>3, <1>5, <1>6 DEF FrameIn
    <2>2. ~GetString
      <3>1. SUFFICES ASSUME GetString
                     PROVE  FALSE
        OBVIOUS
      <3>2. pos + (Prefix + Decode(pos)) =< len /\ Decode(pos) \in Nat
        <4>1. Decode(pos) \in Nat
          <5>1. Size \in Nat /\ Base \in Nat /\ vec_len =< Size
            BY FramingAssumption DEF IInv, TypeOK
          <5>2. pos \in Cells /\ pos + 1 \in Cells
            BY <5>1, <1>1, <1>2 DEF Cells, Prefix
          <5>3. data[pos] \in Nat /\ data[pos + 1] \in Nat
            BY <5>1, <5>2 DEF IInv, TypeOK, Byte
          <5> QED BY <5>1, <5>3 DEF Decode
        <4> QED BY <3>1, <4>1 DEF GetString, HasBytes
      <3> QED BY <2>1, <3>2, <1>1 DEF Prefix
    <2>3. pos' = pos + Prefix /\ reads' = Append(reads, Err)
      BY <2>2 DEF GetStringHalf, Advance
    <2> QED BY <2>1, <2>3, <1>3, <1>6 DEF m, w, b
  <1>7. CASE w # Err
    <2>1. /\ b = pos + Prefix + Len(w) /\ Decode(pos) = Len(w)
          /\ \A i \in 1 .. Len(w) : data[pos + Prefix + i - 1] = w[i]
      BY <1>3, <1>5, <1>7 DEF FrameIn
    <2>2. Len(w) \in 0 .. MaxString /\ Len(w) \in Nat /\ w \in [1 .. Len(w) -> Byte]
      BY <1>4, <1>7, StringIsSeq DEF Result
    <2>3. ~GetStringHalf
      <3>1. Decode(pos) =< MaxString /\ pos + (Prefix + Decode(pos)) =< len
        BY <2>1, <2>2, <1>1, <1>3, FramingAssumption DEF Prefix
      <3> QED BY <3>1, <2>1, <2>2, FramingAssumption DEF GetStringHalf, HasBytes
    <2>4. Slice(pos + Prefix, Len(w)) = w
      BY <2>1, <2>2 DEF Slice
    <2>5. pos' = pos + (Prefix + Len(w)) /\ reads' = Append(reads, w)
      BY <2>1, <2>3, <2>4 DEF GetString, Advance
    <2>6. pos' = b
      BY <2>1, <2>2, <2>5, <1>1 DEF Prefix
    <2> QED BY <2>5, <2>6, <1>3 DEF m, w, b
  <1> QED BY <1>6, <1>7

LEMMA GetStep ==
    ASSUME IInv, GetString \/ GetStringHalf, TypeOK'
    PROVE  IInv'
  <1>1. UNCHANGED <<data, vec_len, len, reading, foreign, writes>> /\ reading
    BY DEF GetString, GetStringHalf, Advance
  <1>2. ASSUME ~foreign
        PROVE  \E at : LayoutOf(at, writes, data, vec_len, len) /\ Behind(at)'
    <2>1. PICK at : LayoutOf(at, writes, data, vec_len, len) /\ Behind(at)
      BY <1>2 DEF IInv, Framed
    <2>2. /\ Len(reads) + 1 \in 1 .. Len(writes)
          /\ reads' = Append(reads, writes[Len(reads) + 1]) /\ pos' = at[Len(reads) + 1]
      BY <2>1, <1>2, ReadStep
    <2>3. ReadUpTo(at, writes, reads, pos) /\ writes \in Seq(Result) /\ reads \in Seq(Result)
      BY <2>1, <1>1 DEF Behind, IInv, TypeOK, Result
    <2>4. ReadUpTo(at, writes, reads', pos')
      BY <2>2, <2>3, ReadOne
    <2>5. Behind(at)'
      BY <2>4, <1>1 DEF Behind
    <2> QED BY <2>1, <2>5
  <1> QED BY <1>1, <1>2 DEF IInv, Framed

LEMMA RewindStep ==
    ASSUME IInv, Rewind, TypeOK'
    PROVE  IInv'
  <1>1. /\ UNCHANGED <<data, vec_len, len, foreign, writes>>
        /\ reading' /\ reads' = << >> /\ pos' = 0
    BY DEF Rewind
  <1>2. ASSUME ~foreign
        PROVE  \E at : LayoutOf(at, writes, data, vec_len, len) /\ Behind(at)'
    <2>1. PICK at : LayoutOf(at, writes, data, vec_len, len)
      BY <1>2 DEF IInv, Framed
    <2>2. writes \in Seq(Result) /\ at[0] = 0
      BY <2>1 DEF IInv, TypeOK, Result, LayoutOf
    <2>3. ReadUpTo(at, writes, << >>, 0)
      BY <2>2, ReadNothing
    <2>4. Behind(at)'
      BY <2>3, <1>1 DEF Behind
    <2> QED BY <2>1, <2>4
  <1> QED BY <1>1, <1>2 DEF IInv, Framed

LEMMA ResetStep ==
    ASSUME IInv, Reset, TypeOK'
    PROVE  IInv'
  <1>1. /\ writes' = << >> /\ reads' = << >> /\ pos' = 0 /\ len' = 0
        /\ ~reading' /\ ~foreign'
    BY DEF Reset
  <1>2. \E at : LayoutOf(at, << >>, data', vec_len', 0)
    BY EmptyLayout
  <1> QED BY <1>1, <1>2 DEF IInv, Framed, Behind

LEMMA Inductive == IInv /\ [Next]_vars => IInv'
  <1> SUFFICES ASSUME IInv, [Next]_vars
               PROVE  IInv'
    OBVIOUS
  <1>1. CASE TakeBack
    BY <1>1, TakeBackStep
  <1>2. CASE Next /\ ~TakeBack
    <2>1. TypeOK'
      BY <1>2, TypeStep DEF IInv
    <2>2. ASSUME NEW s \in String, PutString(s) \/ PutStringHalf(s)
          PROVE  IInv'
      BY <2>1, <2>2, PutStep
    <2>3. ASSUME NEW n \in 0 .. Size, Grow(n)
          PROVE  IInv'
      BY <2>1, <2>3, GrowStep
    <2>4. CASE GetString \/ GetStringHalf
      BY <2>1, <2>4, GetStep
    <2>5. CASE Rewind
      BY <2>1, <2>5, RewindStep
    <2>6. CASE Reset
      BY <2>1, <2>6, ResetStep
    <2> QED BY <1>2, <2>2, <2>3, <2>4, <2>5, <2>6 DEF Next
  <1>3. CASE UNCHANGED vars
    BY <1>3 DEF IInv, TypeOK, Framed, Behind, vars
  <1> QED BY <1>1, <1>2, <1>3

LEMMA Invariant == Spec => []IInv
  BY Started, Inductive, PTL DEF Spec

\* Every reachable state is well typed; in particular no call takes the position or
\* the length past the bytes there are.
THEOREM TypeCorrect == Spec => []TypeOK
  <1>1. IInv => TypeOK
    BY DEF IInv
  <1> QED BY <1>1, Invariant, PTL

\* A reader who went on to the end got what every put_string returned, past all the
\* calls that failed half done.
THEOREM NothingEverLost == Spec => []NothingLost
  <1>1. IInv => NothingLost
    <2> SUFFICES ASSUME IInv, reading, ~foreign, Exhausted
                 PROVE  reads = writes
      BY DEF NothingLost
    <2>1. PICK at : LayoutOf(at, writes, data, vec_len, len) /\ ReadUpTo(at, writes, reads, pos)
      BY DEF IInv, Framed, Behind
    <2>2. /\ writes \in Seq(Result) /\ reads \in Seq(Result) /\ pos \in Nat /\ len \in Nat
          /\ Len(writes) \in Nat /\ Len(reads) \in Nat
      BY FramingAssumption DEF IInv, TypeOK, Result
    <2>3. Len(reads) =< Len(writes) /\ pos = at[Len(reads)]
          /\ \A j \in 1 .. Len(reads) : reads[j] = writes[j]
      BY <2>1 DEF ReadUpTo
    <2>4. Len(reads) = Len(writes)
      <3>1. SUFFICES ASSUME Len(reads) < Len(writes)
                     PROVE  FALSE
        BY <2>2, <2>3
      <3>2. Len(reads) \in 0 .. Len(writes) /\ Len(writes) \in 0 .. Len(writes)
        BY <2>2, <3>1
      <3>3. at[Len(reads)] + Prefix =< at[Len(writes)] /\ at[Len(writes)] = len
        BY <2>1, <3>1, <3>2 DEF LayoutOf
      <3> QED BY <2>2, <2>3, <3>3 DEF Exhausted, Prefix
    <2> QED BY <2>2, <2>3, <2>4
  <1> QED BY <1>1, Invariant, PTL

\* Each call is a step of StringStream, or changes neither writes nor reads.
LEMMA StreamStep == IInv /\ IInv' /\ [Next]_vars => [Stream!Next]_(Stream!vars)
  <1> SUFFICES ASSUME IInv, IInv', [Next]_vars
               PROVE  Stream!Next \/ UNCHANGED Stream!vars
    BY DEF Stream!vars
  <1>1. ASSUME NEW s \in String, PutString(s) \/ PutStringHalf(s)
        PROVE  Stream!Next
    <2>1. PICK r \in Result : Wrote(r) /\ ~foreign /\ ~foreign'
      BY <1>1 DEF PutString, PutStringHalf, IInv, Wrote, Result
    <2>2. Stream!Write(r)
      BY <2>1 DEF Wrote, Stream!Write
    <2> QED BY <2>2 DEF Stream!Next, Result
  <1>2. CASE TakeBack
    <2>1. ~foreign /\ ~foreign'
      BY <1>2 DEF TakeBack, IInv
    <2>2. Stream!TakeBack
      BY <1>2, <2>1 DEF TakeBack, Stream!TakeBack
    <2> QED BY <2>2 DEF Stream!Next
  <1>3. ASSUME NEW n \in 0 .. Size, Grow(n)
        PROVE  UNCHANGED Stream!vars
    BY <1>3 DEF Grow, Stream!vars
  <1>4. CASE Rewind
    <2>1. CASE foreign
      BY <1>4, <2>1 DEF Rewind, Stream!vars
    <2>2. CASE ~foreign
      <3>1. Stream!Rewind
        BY <1>4, <2>2 DEF Rewind, Stream!Rewind
      <3> QED BY <3>1 DEF Stream!Next
    <2> QED BY <2>1, <2>2
  <1>5. CASE GetString \/ GetStringHalf
    <2>0. UNCHANGED <<foreign, writes>>
      BY <1>5 DEF GetString, GetStringHalf, Advance
    <2>1. CASE foreign
      BY <2>0, <2>1 DEF Stream!vars
    <2>2. CASE ~foreign
      <3>1. PICK at : LayoutOf(at, writes, data, vec_len, len) /\ Behind(at)
        BY <2>2 DEF IInv, Framed
      <3>2. /\ Len(reads) + 1 \in 1 .. Len(writes)
            /\ reads' = Append(reads, writes[Len(reads) + 1])
        BY <1>5, <2>2, <3>1, ReadStep
      <3>3. Len(reads) \in Nat /\ Len(writes) \in Nat
        BY DEF IInv, TypeOK
      <3>4. Len(reads) < Len(writes)
        BY <3>2, <3>3
      <3>5. Stream!Read
        BY <2>0, <2>2, <3>2, <3>4 DEF Stream!Read
      <3> QED BY <3>5 DEF Stream!Next
    <2> QED BY <2>1, <2>2
  <1>6. CASE Reset
    <2>1. Stream!Reset
      BY <1>6 DEF Reset, Stream!Reset
    <2> QED BY <2>1 DEF Stream!Next
  <1>7. CASE UNCHANGED vars
    BY <1>7 DEF vars, Stream!vars
  <1> QED BY <1>1, <1>2, <1>3, <1>4, <1>5, <1>6, <1>7 DEF Next

\* The buffer implements StringStream: the k-th read returns what the k-th write did.
THEOREM ImplementsStringStream == Spec => StreamSpec
  <1>1. Init => Stream!Init
    BY DEF Init, Stream!Init
  <1> QED
    BY <1>1, StreamStep, Invariant, PTL DEF Spec, StreamSpec, Stream!Spec

-----------------------------------------------------------------------------
(* The vectorised copy.                                                    *)

\* A copy of nothing.
LEMMA NothingCopied ==
    ASSUME NEW mem \in [Cells -> Byte], NEW at \in Nat, NEW s, Len(s) = 0
    PROVE  Copied(mem, at, s) = mem
  <1>1. \A i \in Cells : i \notin at .. at + Len(s) - 1
    BY FramingAssumption DEF Cells
  <1> QED BY <1>1 DEF Copied

\* Two copies, one behind the other, of the bytes up to a and of those from a to b.
LEMMA CopiesMeet ==
    ASSUME NEW mem \in [Cells -> Byte], NEW at \in Nat, NEW s \in Seq(Byte),
           NEW a \in Nat, NEW b \in Nat, a =< b, b =< Len(s)
    PROVE  Copied(Copied(mem, at, SubSeq(s, 1, a)), at + a, SubSeq(s, a + 1, b))
               = Copied(mem, at, SubSeq(s, 1, b))
  <1> DEFINE first == SubSeq(s, 1, a)
             second == SubSeq(s, a + 1, b)
             both == SubSeq(s, 1, b)
             one == Copied(mem, at, first)
  <1>1. Size \in Nat /\ Len(s) \in Nat
    BY FramingAssumption
  <1>2. /\ Len(first) = a /\ \A i \in 1 .. a : first[i] = s[i]
        /\ Len(both) = b /\ \A i \in 1 .. b : both[i] = s[i]
    BY <1>1, SubSeqProperties
  <1>3. Len(second) = b - a /\ \A i \in 1 .. b - a : second[i] = s[a + i]
    <2>1. CASE a + 1 =< b
      BY <1>1, <2>1, SubSeqProperties
    <2>2. CASE ~(a + 1 =< b)
      <3>1. a = b
        BY <2>2
      <3>2. Len(SubSeq(s, a + 1, a)) = 0
        BY SubSeqProperties
      <3> QED BY <3>1, <3>2
    <2> QED BY <2>1, <2>2
  <1> HIDE DEF first, second, both
  <1>4. ASSUME NEW i \in Cells
        PROVE  Copied(one, at + a, second)[i] = Copied(mem, at, both)[i]
    <2>1. i \in Nat
      BY <1>1 DEF Cells
    <2>2. Copied(mem, at, both)[i]
              = IF i \in at .. at + b - 1 THEN both[i - at + 1] ELSE mem[i]
      BY <1>2 DEF Copied
    <2>3. one[i] = IF i \in at .. at + a - 1 THEN first[i - at + 1] ELSE mem[i]
      BY <1>2 DEF Copied
    <2>4. Copied(one, at + a, second)[i]
              = IF i \in (at + a) .. (at + a) + (b - a) - 1 THEN second[i - (at + a) + 1]
                ELSE one[i]
      BY <1>3 DEF Copied
    <2> HIDE DEF one
    <2>5. CASE i \in at .. at + a - 1
      <3>1. i - at + 1 \in 1 .. a /\ i - at + 1 \in 1 .. b /\ i \in at .. at + b - 1
            /\ i \notin (at + a) .. (at + a) + (b - a) - 1
        BY <2>1, <2>5
      <3> QED BY <1>2, <2>2, <2>3, <2>4, <2>5, <3>1
    <2>6. CASE i \in (at + a) .. (at + a) + (b - a) - 1
      <3>1. /\ i - (at + a) + 1 \in 1 .. b - a /\ a + (i - (at + a) + 1) = i - at + 1
            /\ i - at + 1 \in 1 .. b /\ i \in at .. at + b - 1
        BY <2>1, <2>6
      <3> QED BY <1>2, <1>3, <2>2, <2>4, <2>6, <3>1
    <2>7. CASE i \notin at .. at + b - 1
      <3>1. i \notin at .. at + a - 1 /\ i \notin (at + a) .. (at + a) + (b - a) - 1
        BY <2>1, <2>7
      <3> QED BY <2>2, <2>3, <2>4, <2>7, <3>1
    <2>8. i \in at .. at + b - 1 => \/ i \in at .. at + a - 1
                                   \/ i \in (at + a) .. (at + a) + (b - a) - 1
      BY <2>1
    <2> QED BY <2>5, <2>6, <2>7, <2>8
  <1>5. /\ DOMAIN Copied(one, at + a, second) = Cells
        /\ DOMAIN Copied(mem, at, both) = Cells
    BY DEF Copied
  <1>6. Copied(one, at + a, second) = Copied(mem, at, both)
    BY <1>4, <1>5 DEF Copied
  <1> QED BY <1>6 DEF first, second, both

\* The loop of put_bytes_avx2_impl and the copy of the rest leave what one copy does.
LEMMA ChunksMeet ==
    ASSUME NEW mem \in [Cells -> Byte], NEW at \in Nat, NEW s \in Seq(Byte),
           at + Len(s) =< Size
    PROVE  Chunked(mem, at, s) = Copied(mem, at, s)
  <1> DEFINE whole == Len(s) \div Lane
             upTo(k) == Copied(mem, at, SubSeq(s, 1, k * Lane))
             copies == [k \in 0 .. whole |-> upTo(k)]
             Loop(l) == l = [k \in 0 .. whole |->
                                 IF k = 0 THEN mem ELSE LaneCopied(l[k - 1], at, s, k - 1)]
             lanes == CHOOSE l : Loop(l)
  <1>1. Lane \in Nat /\ Lane > 0 /\ Len(s) \in Nat /\ Size \in Nat
    BY FramingAssumption
  <1>2. whole \in Nat /\ whole * Lane =< Len(s)
    <2>1. whole \in Nat /\ Len(s) = Lane * whole + (Len(s) % Lane) /\ Len(s) % Lane \in Nat
      BY <1>1
    <2>2. Lane * whole = whole * Lane
      BY <1>1, <2>1
    <2> HIDE DEF whole
    <2>3. whole * Lane \in Nat
      BY <1>1, <2>1
    <2> QED BY <2>1, <2>2, <2>3
  <1> HIDE DEF whole
  <1>3. ASSUME NEW k \in 0 .. whole
        PROVE  k * Lane \in Nat /\ k * Lane =< Len(s)
    <2>1. k \in Nat /\ k =< whole
      BY <1>2
    <2>2. k * Lane =< whole * Lane /\ k * Lane \in Nat /\ whole * Lane \in Nat
      BY <1>1, <1>2, <2>1
    <2> QED BY <1>1, <1>2, <2>2
  <1>4. upTo(0) = mem
    <2>1. 0 * Lane = 0 /\ Len(SubSeq(s, 1, 0)) = 0
      BY <1>1, SubSeqProperties
    <2> QED BY <2>1, NothingCopied
  <1>5. ASSUME NEW k \in 0 .. whole, k # 0
        PROVE  LaneCopied(upTo(k - 1), at, s, k - 1) = upTo(k)
    <2>1. k - 1 \in 0 .. whole /\ k \in Nat
      BY <1>2, <1>5
    <2>2. (k - 1) * Lane \in Nat /\ k * Lane \in Nat /\ k * Lane =< Len(s)
      BY <1>3, <2>1
    <2>3. k * Lane = (k - 1) * Lane + Lane /\ ((k - 1) + 1) * Lane = k * Lane
      BY <1>1, <2>1
    <2>4. (k - 1) * Lane =< k * Lane
      BY <1>1, <2>2, <2>3
    <2>5. Copied(upTo(k - 1), at + (k - 1) * Lane, SubSeq(s, (k - 1) * Lane + 1, k * Lane))
              = upTo(k)
      BY <2>2, <2>4, CopiesMeet
    <2> QED BY <2>3, <2>5 DEF LaneCopied
  <1> HIDE DEF upTo
  <1>6. Loop(copies)
    <2>1. ASSUME NEW k \in 0 .. whole
          PROVE  copies[k] = IF k = 0 THEN mem ELSE LaneCopied(copies[k - 1], at, s, k - 1)
      <3>1. CASE k = 0
        BY <1>4, <3>1
      <3>2. CASE k # 0
        <4>1. k - 1 \in 0 .. whole
          BY <1>2, <3>2
        <4> QED BY <1>5, <3>2, <4>1
      <3> QED BY <3>1, <3>2
    <2> QED BY <2>1
  <1> HIDE DEF copies
  <1>7. Loop(lanes)
    <2> HIDE DEF Loop
    <2> QED BY <1>6
  <1> HIDE DEF lanes
  <1>8. lanes[whole] = copies[whole]
    <2> DEFINE T == {k \in Nat : k \in 0 .. whole => lanes[k] = copies[k]}
    <2>1. 0 \in T
      <3>1. 0 \in 0 .. whole
        BY <1>2
      <3> QED BY <1>6, <1>7, <3>1
    <2>2. ASSUME NEW k \in Nat, k \in T
          PROVE  k + 1 \in T
      <3> SUFFICES ASSUME k + 1 \in 0 .. whole
                   PROVE  lanes[k + 1] = copies[k + 1]
        OBVIOUS
      <3>1. k \in 0 .. whole /\ (k + 1) - 1 = k /\ k + 1 # 0
        BY <1>2
      <3>2. lanes[k] = copies[k]
        BY <2>2, <3>1
      <3>3. /\ lanes[k + 1] = LaneCopied(lanes[k], at, s, k)
            /\ copies[k + 1] = LaneCopied(copies[k], at, s, k)
        BY <1>6, <1>7, <3>1
      <3> QED BY <3>2, <3>3
    <2> HIDE DEF T
    <2>3. whole \in T
      BY <1>2, <2>1, <2>2, AllNaturals
    <2> QED BY <1>2, <2>3 DEF T
  <1>9. copies[whole] = Copied(mem, at, SubSeq(s, 1, whole * Lane))
    BY <1>2 DEF copies, upTo
  <1>10. Chunked(mem, at, s)
             = Copied(lanes[whole], at + whole * Lane, SubSeq(s, whole * Lane + 1, Len(s)))
    BY DEF Chunked, whole, lanes
  <1>11. SubSeq(s, 1, Len(s)) = s
    BY <1>1, SubSeqProperties
  <1>12. whole * Lane \in Nat
    BY <1>1, <1>2
  <1>13. Copied(Copied(mem, at, SubSeq(s, 1, whole * Lane)), at + whole * Lane,
                SubSeq(s, whole * Lane + 1, Len(s))) = Copied(mem, at, SubSeq(s, 1, Len(s)))
    BY <1>1, <1>2, <1>12, CopiesMeet
  <1> QED BY <1>8, <1>9, <1>10, <1>11, <1>13

\* put_bytes_fast, with vector registers of any width, writes what put_bytes writes.
THEOREM LanesAlwaysAgree == Spec => []LanesAgree
  <1>1. IInv => LanesAgree
    <2> SUFFICES ASSUME IInv, NEW n \in 0 .. vec_len - pos
                 PROVE  LET s == [i \in 1 .. n |-> i % Base]
                        IN  FastCopied(data, pos, s) = Copied(data, pos, s)
      BY DEF LanesAgree
    <2> DEFINE s == [i \in 1 .. n |-> i % Base]
    <2>1. /\ pos \in Nat /\ vec_len \in Nat /\ vec_len =< Size /\ Size \in Nat
          /\ pos + n =< Size /\ n \in Nat /\ data \in [Cells -> Byte]
      BY FramingAssumption DEF IInv, TypeOK
    <2>2. \A i \in 1 .. n : i % Base \in Byte
      BY FramingAssumption DEF Byte
    <2>3. s \in Seq(Byte) /\ Len(s) = n
      BY <2>1, <2>2
    <2> HIDE DEF s
    <2>4. Chunked(data, pos, s) = Copied(data, pos, s)
      BY <2>1, <2>3, ChunksMeet
    <2>5. FastCopied(data, pos, s) = Copied(data, pos, s)
      BY <2>4 DEF FastCopied
    <2> QED BY <2>5 DEF s
  <1> QED BY <1>1, Invariant, PTL
=============================================================================
