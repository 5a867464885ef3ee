------------------------------ MODULE Framing ------------------------------
(***************************************************************************)
(* Strings in a Buffer (src/src/buffer/ops.rs, unsafe_ops.rs): put_string  *)
(* writes a length prefix and then the bytes, get_string and eat_string    *)
(* read the prefix and then the bytes.  Each is two calls with a check of  *)
(* its own, so that either can fail half done, the position already past   *)
(* the prefix.                                                             *)
(*                                                                         *)
(* Here bytes have values.  The buffer comes from Buffer::new, or from     *)
(* Buffer::from_vec with bytes from elsewhere.  Its client writes strings, *)
(* rewinds with set_pos(0), reads strings and goes on after errors.  It    *)
(* may resize the buffer to a greater length, but not with a half-written  *)
(* string in it, whose prefix could then claim the bytes of the next; it   *)
(* may take such a prefix back first.  A call that fails without a change  *)
(* has no action.                                                          *)
(***************************************************************************)
EXTENDS Integers, Sequences

CONSTANTS Size,         \* bound on the Vec's length
          Base,         \* a byte is 0 .. Base - 1
          MaxString,    \* MAX_STRING_LEN
          Lane,         \* the bytes of one vector register (32)
          Err           \* the result of a call that failed

Byte == 0 .. Base - 1

\* The bytes of a length prefix; the code has four.
Prefix == 2

String == UNION {[1 .. n -> Byte] : n \in 0 .. MaxString}

ASSUME FramingAssumption ==
    /\ Size \in Nat /\ Base \in Nat \ {0} /\ MaxString \in Nat
    /\ MaxString < Base * Base
    /\ Lane \in Nat \ {0}
    /\ Err \notin String

VARIABLES data,         \* [0..Size-1 -> Byte], zero from vec_len on
          vec_len,      \* data.len()
          pos, len,
          reading,      \* the client has rewound the buffer
          foreign,      \* the bytes come from elsewhere
          writes,       \* what the put_string calls returned that left bytes
          reads         \* what the get_string calls returned since the rewind

vars == <<data, vec_len, pos, len, reading, foreign, writes, reads>>

Cells == 0 .. Size - 1

Lesser(m, n) == IF m < n THEN m ELSE n

Larger(m, n) == IF m > n THEN m ELSE n

\* The big-endian prefix, and the number it stands for.
Encode(n) == <<n \div Base, n % Base>>

\* Mutant: the bytes in the wrong order.
Decode_Little(at) == data[at + 1] * Base + data[at]

Decode(at) == data[at] * Base + data[at + 1]

\* The n bytes from at on.
Slice(at, n) == [i \in 1 .. n |-> data[at + i - 1]]

-----------------------------------------------------------------------------
(* Copies: put_bytes_unchecked with one copy, put_bytes_avx2_impl in whole *)
(* lanes and a rest.                                                       *)

Copied(mem, at, s) ==
    [i \in Cells |-> IF i \in at .. at + Len(s) - 1 THEN s[i - at + 1] ELSE mem[i]]

\* Mutant: the source is not advanced.
LaneCopied_SameSource(mem, at, s, k) == Copied(mem, at + k * Lane, SubSeq(s, 1, Lane))

\* One turn of the loop, with source and destination k lanes in.
LaneCopied(mem, at, s, k) ==
    Copied(mem, at + k * Lane, SubSeq(s, k * Lane + 1, (k + 1) * Lane))

Chunked(mem, at, s) ==
    LET whole == Len(s) \div Lane
        lanes[k \in 0 .. whole] ==
            IF k = 0 THEN mem ELSE LaneCopied(lanes[k - 1], at, s, k - 1)
    IN  Copied(lanes[whole], at + whole * Lane, SubSeq(s, whole * Lane + 1, Len(s)))

\* put_bytes_fast takes the lanes from two of them on.
FastCopied(mem, at, s) ==
    IF Len(s) < 2 * Lane THEN Copied(mem, at, s) ELSE Chunked(mem, at, s)

-----------------------------------------------------------------------------
Init == /\ pos = 0 /\ writes = << >> /\ reads = << >>
        /\ \/ /\ vec_len \in 0 .. Size /\ data = [i \in Cells |-> 0] /\ len = 0
              /\ reading = FALSE /\ foreign = FALSE
           \/ /\ vec_len = Size /\ data \in [Cells -> Byte] /\ len = Size
              /\ reading = TRUE /\ foreign = TRUE

\* The checked puts that succeed.
Put(s) == /\ data' = Copied(data, pos, s)
          /\ pos' = pos + Len(s)
          /\ len' = Larger(len, pos + Len(s))
          /\ UNCHANGED vec_len

Wrote(r) == writes' = Append(writes, r) /\ UNCHANGED <<reading, foreign, reads>>

\* put_u32 and put_bytes compare with the Vec's length.
HasSpace(n) == pos + n =< vec_len

PutString(s) ==
    /\ ~reading /\ HasSpace(Prefix + Len(s))
    /\ Put(Encode(Len(s)) \o s)
    /\ Wrote(s)

\* The prefix is in by the time the bytes are found not to fit.
PutStringHalf(s) ==
    /\ ~reading /\ HasSpace(Prefix) /\ ~HasSpace(Prefix + Len(s))
    /\ Put(Encode(Len(s)))
    /\ Wrote(Err)

\* set_len, back to where the half-written string began: pos comes along.
TakeBack == /\ ~reading /\ writes # << >> /\ writes[Len(writes)] = Err
            /\ len' = len - Prefix /\ pos' = Lesser(pos, len - Prefix)
            /\ writes' = SubSeq(writes, 1, Len(writes) - 1)
            /\ UNCHANGED <<data, vec_len, reading, foreign, reads>>

\* resize, to a greater length.
Grow(n) == /\ n > vec_len /\ Err \notin {writes[k] : k \in DOMAIN writes}
           /\ vec_len' = n
           /\ data' = [i \in Cells |-> IF i < vec_len THEN data[i] ELSE 0]
           /\ UNCHANGED <<pos, len, reading, foreign, writes, reads>>

\* set_pos(0), by a client that has written, or has read all there is.
Rewind == /\ ~reading \/ pos + Prefix > len
          /\ pos' = 0 /\ reading' = TRUE /\ reads' = << >>
          /\ UNCHANGED <<data, vec_len, len, foreign, writes>>

\* Mutant: the prefix may be read up to the end of the Vec.
HasBytes_Vec(n) == pos + n =< vec_len

\* get_u32, get_bytes and incr_pos compare with the valid length.
HasBytes(n) == pos + n =< len

Advance(n, r) == /\ pos' = pos + n
                 /\ reads' = Append(reads, r)
                 /\ UNCHANGED <<data, vec_len, len, reading, foreign, writes>>

\* get_string, or eat_string, which passes over the same bytes.
GetString ==
    LET n == Decode(pos) IN
    /\ reading /\ HasBytes(Prefix)
    /\ n =< MaxString /\ HasBytes(Prefix + n)
    /\ Advance(Prefix + n, Slice(pos + Prefix, n))

\* Mutant: a failed read moves the position back.
GetStringHalf_Undone == reading /\ HasBytes(Prefix) /\ UNCHANGED vars

\* Mutant: a failed read drops whatever is left.
GetStringHalf_Drains ==
    /\ reading /\ HasBytes(Prefix)
    /\ Decode(pos) > MaxString \/ ~HasBytes(Prefix + Decode(pos))
    /\ Advance(len - pos, Err)

\* The prefix is gone by the time its number is found too large.
GetStringHalf ==
    /\ reading /\ HasBytes(Prefix)
    /\ Decode(pos) > MaxString \/ ~HasBytes(Prefix + Decode(pos))
    /\ Advance(Prefix, Err)

Reset == /\ pos' = 0 /\ len' = 0
         /\ reading' = FALSE /\ foreign' = FALSE
         /\ writes' = << >> /\ reads' = << >>
         /\ UNCHANGED <<data, vec_len>>

Next == \/ \E s \in String : PutString(s) \/ PutStringHalf(s)
        \/ \E n \in 0 .. Size : Grow(n)
        \/ TakeBack \/ Rewind \/ GetString \/ GetStringHalf \/ Reset

Spec == Init /\ [][Next]_vars

\* A client that reads goes on until no prefix is left; it need not write, rewind
\* or reset.
FairSpec == Spec /\ WF_vars(GetString \/ GetStringHalf)

-----------------------------------------------------------------------------
TypeOK == /\ data \in [Cells -> Byte]
          /\ pos \in 0 .. len /\ len \in 0 .. vec_len /\ vec_len \in 0 .. Size
          /\ reading \in BOOLEAN /\ foreign \in BOOLEAN
          /\ writes \in Seq(String \cup {Err}) /\ reads \in Seq(String \cup {Err})

Exhausted == pos + Prefix > len

\* A string that put_string accepted is not lost behind one that it refused half
\* way: the client that reads on after the error gets every one of them, and
\* exactly one error for each that was refused.
NothingLost == reading /\ ~foreign /\ Exhausted => reads = writes

\* The vectorised copy writes what a plain copy writes, for every length and from
\* every position: its lanes and its rest meet without gap or overlap.
LanesAgree ==
    \A n \in 0 .. vec_len - pos :
        LET s == [i \in 1 .. n |-> i % Base]
        IN  FastCopied(data, pos, s) = Copied(data, pos, s)

\* The k-th read returns what the k-th write returned, also past half-written
\* strings, whose prefix the reader finds without its bytes.
Stream == INSTANCE StringStream WITH writes <- IF foreign THEN << >> ELSE writes,
                                     reads <- IF foreign THEN << >> ELSE reads
StreamSpec == Stream!Spec

\* No bytes, whoever wrote them, hold a reader up: a read that fails has consumed
\* a prefix, so that reading on comes to the end.
ReaderEnds == reading ~> Exhausted \/ ~reading
=============================================================================
