--------------------------- MODULE CircularBuffer ---------------------------
(***************************************************************************)
(* CircularBuffer (src/src/circular/buffer.rs): a ring of bytes with a     *)
(* read and a write cursor and lazily allocated storage.  It is one        *)
(* object behind &mut: an action is a whole call.                          *)
(*                                                                         *)
(* The clients are the documented ones: incr_write follows write_ptr or    *)
(* write_slices_mut with the same length.  Between the two a client may    *)
(* read, or give the staged bytes up by writing, clearing or freeing.      *)
(* Calls that return an error change nothing and have no action.  A ring   *)
(* that is dropped or burn_freed ends like one that is freed.              *)
(***************************************************************************)
EXTENDS Integers, Sequences, RingWrap

CONSTANTS Byte,         \* byte values
          Zero,         \* the value of zeroed memory
          Size          \* the ring's size

ASSUME RingAssumption == Size \in Nat \ {0} /\ Zero \in Byte

VARIABLES allocated,    \* data.is_some()
          data,         \* [0..Size-1 -> Byte]; zeroes when not allocated
          used, read_pos, write_pos,
          staged,       \* the bytes a client has put into lent slices
          out,          \* the bytes the last read gave to a client
          is_pow2       \* the flag the constructor set

cursors == <<used, read_pos, write_pos>>

vars == <<allocated, data, cursors, staged, out, is_pow2>>

Cells == 0 .. Size - 1

Strings == UNION {[1 .. n -> Byte] : n \in 0 .. Size}

available == Size - used

Wrap(pos, delta) == wrap(pos, delta, Size, is_pow2)

\* The storage after s is copied to pos, in two segments if it passes the end.
Laid(pos, s) ==
    LET space_to_end == Size - pos IN
    [i \in Cells |-> IF i \in pos .. pos + Len(s) - 1 THEN s[i - pos + 1]
                     ELSE IF i < Len(s) - space_to_end THEN s[space_to_end + i + 1]
                     ELSE data[i]]

\* The first n buffered bytes, likewise.
Front(n) ==
    LET space_to_end == Size - read_pos IN
    [i \in 1 .. n |-> IF i =< space_to_end THEN data[read_pos + i - 1]
                      ELSE data[i - space_to_end - 1]]

Lesser(m, n) == IF m < n THEN m ELSE n

-----------------------------------------------------------------------------
\* The two constructors, each with its own way to set the flag.
New == is_pow2 = is_power_of_two(Size)

NewPow2 == is_power_of_two(Size) /\ is_pow2 = TRUE

Init == /\ New \/ NewPow2
        /\ allocated = FALSE
        /\ data = [i \in Cells |-> Zero]
        /\ used = 0 /\ read_pos = 0 /\ write_pos = 0
        /\ staged = << >> /\ out = << >>

Write(s) ==
    /\ s # << >> /\ Len(s) =< available
    /\ allocated' = TRUE
    /\ data' = Laid(write_pos, s)
    /\ write_pos' = Wrap(write_pos, Len(s))
    /\ used' = used + Len(s)
    /\ staged' = << >>
    /\ UNCHANGED <<read_pos, out>>

\* read, peek and read_ptrs find nothing.
Nothing == used = 0 \/ ~allocated

Read(n) ==
    LET to_read == Lesser(n, used) IN
    /\ ~Nothing
    /\ out' = Front(to_read)
    /\ read_pos' = Wrap(read_pos, to_read)
    /\ used' = used - to_read
    /\ UNCHANGED <<allocated, data, write_pos, staged>>

\* Mutant: the length asked for is not capped to what is buffered.
Peek_Uncapped(n) ==
    /\ ~Nothing
    /\ out' = Front(n)
    /\ UNCHANGED <<allocated, data, cursors, staged>>

Peek(n) ==
    /\ ~Nothing
    /\ out' = Front(Lesser(n, used))
    /\ UNCHANGED <<allocated, data, cursors, staged>>

ReadNothing ==
    /\ Nothing
    /\ out' = << >>
    /\ UNCHANGED <<allocated, data, cursors, staged>>

ReadPtrs ==
    /\ ~Nothing
    /\ out' = Front(used)
    /\ UNCHANGED <<allocated, data, cursors, staged>>

\* Mutant: more may be consumed than is buffered.
IncrRead_Unchecked(n) ==
    /\ read_pos' = Wrap(read_pos, n)
    /\ used' = used - n
    /\ UNCHANGED <<allocated, data, write_pos, staged, out>>

IncrRead(n) ==
    /\ n =< used
    /\ read_pos' = Wrap(read_pos, n)
    /\ used' = used - n
    /\ UNCHANGED <<allocated, data, write_pos, staged, out>>

Lend(s) ==
    /\ allocated' = TRUE
    /\ data' = Laid(write_pos, s)
    /\ staged' = s
    /\ UNCHANGED <<cursors, out>>

\* Mutant: the availability check is forgotten.
WritePtr_Unchecked(s) == write_pos + Len(s) =< Size /\ Lend(s)

\* write_ptr, and the client fills the slice with s.
WritePtr(s) ==
    /\ Len(s) =< available
    /\ write_pos + Len(s) =< Size
    /\ Lend(s)

\* write_slices_mut, and the client fills both slices with s.
WriteSlicesMut(s) ==
    \/ /\ s = << >>
       /\ staged' = s
       /\ UNCHANGED <<allocated, data, cursors, out>>
    \/ /\ s # << >> /\ Len(s) =< available
       /\ Lend(s)

IncrWrite(n) ==
    /\ n =< available
    /\ write_pos' = Wrap(write_pos, n)
    /\ used' = used + n
    /\ staged' = << >>
    /\ UNCHANGED <<allocated, data, read_pos, out>>

\* Mutant: the read cursor is not reset.
Clear_ReadKept ==
    /\ used' = 0 /\ write_pos' = 0
    /\ staged' = << >>
    /\ UNCHANGED <<allocated, data, read_pos, out>>

Clear ==
    /\ used' = 0 /\ read_pos' = 0 /\ write_pos' = 0
    /\ staged' = << >>
    /\ UNCHANGED <<allocated, data, out>>

\* Mutant: the storage goes, the cursors stay.
Free_CursorsKept ==
    /\ allocated' = FALSE
    /\ data' = [i \in Cells |-> Zero]
    /\ staged' = << >>
    /\ UNCHANGED <<cursors, out>>

Free ==
    /\ allocated' = FALSE
    /\ data' = [i \in Cells |-> Zero]
    /\ used' = 0 /\ read_pos' = 0 /\ write_pos' = 0
    /\ staged' = << >>
    /\ UNCHANGED out

Call == \/ \E s \in Strings : Write(s) \/ WritePtr(s) \/ WriteSlicesMut(s)
        \/ \E n \in 0 .. Size : Read(n) \/ Peek(n) \/ IncrRead(n)
        \/ ReadNothing \/ ReadPtrs \/ IncrWrite(Len(staged)) \/ Clear \/ Free

Next == Call /\ UNCHANGED is_pow2

Spec == Init /\ [][Next]_vars

\* A client that may also commit bytes it never staged; incr_write cannot tell.
LooseNext == (Call \/ \E n \in 0 .. Size : IncrWrite(n)) /\ UNCHANGED is_pow2

LooseSpec == Init /\ [][LooseNext]_vars

-----------------------------------------------------------------------------
TypeOK == /\ allocated \in BOOLEAN
          /\ data \in [Cells -> Byte]
          /\ used \in 0 .. Size
          /\ read_pos \in Cells /\ write_pos \in Cells
          /\ staged \in Strings /\ out \in Strings
          /\ is_pow2 \in BOOLEAN /\ (is_pow2 => is_power_of_two(Size))

\* From wherever the calls have taken the two cursors, the mask moves them to where
\* the remainder would, also onto and past the end of the ring: the flag, which two
\* constructors set and wrap only reads, chooses the mask for powers of two alone.
MaskAgrees ==
    \A pos \in {read_pos, write_pos}, n \in 0 .. Size :
        Wrap(pos, n) = (pos + n) % Size

\* The two cursors and the count are kept separately by eight operations; they
\* must always describe the same stretch of the ring, or full and empty, which
\* leave the cursors equal, are confused.
CursorsAgree == write_pos = Wrap(read_pos, used)

\* read returns Ok(0) when the storage was never allocated, whatever used says:
\* a client looping until is_empty would never end.  For clients that follow
\* the protocol that cannot be: bytes counted as buffered have storage.
NonEmptyIsReadable == used > 0 => allocated

\* Bytes staged in place stay where incr_write will count them, and there is
\* room for them, whatever is read between the two calls.
StagedKept == /\ used + Len(staged) =< Size
              /\ \A i \in 1 .. Len(staged) : data[Wrap(write_pos, i - 1)] = staged[i]

\* The ring is a bounded queue of bytes: what is read is what was written, in
\* order, across the wrap of the ring, for copying and zero-copy clients alike.
Queue == INSTANCE ByteQueue WITH Capacity <- Size, queue <- Front(used)
FifoSpec == Queue!Spec
=============================================================================
