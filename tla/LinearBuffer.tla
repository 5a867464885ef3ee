---------------------------- MODULE LinearBuffer ----------------------------
(***************************************************************************)
(* Buffer (src/src/buffer/core.rs, ops.rs, unsafe_ops.rs): a Vec<u8> with  *)
(* a position and a length of its own, behind &mut: an action is a whole   *)
(* call.                                                                   *)
(*                                                                         *)
(* There are three ends to keep apart: len (what a reader may see), the    *)
(* Vec's own length vec_len (what a writer may touch) and its capacity.    *)
(* Of a byte the model keeps only where it comes from.  A call that fails  *)
(* without a change has no action; put_string can fail half done.          *)
(***************************************************************************)
EXTENDS Integers

CONSTANTS MaxSize,      \* BUF_MAX_SIZE
          MaxCap,       \* bound on the allocations made for the Vec
          Prefix        \* the bytes of a string's length prefix

ASSUME LinearAssumption ==
    MaxSize \in Nat /\ MaxCap \in Nat /\ MaxSize =< MaxCap /\ Prefix \in Nat

VARIABLES mem,          \* [0..MaxCap-1 -> Source], by the cell
          capacity,     \* data.capacity()
          vec_len,      \* data.len()
          pos, len

storage == <<mem, capacity, vec_len>>

vars == <<storage, pos, len>>

Cells == 0 .. MaxCap - 1

\* Zeroed; put there by the client; put there before the last burn; neither,
\* memory as the allocator left it.
Source == {"zero", "client", "burned", "junk"}

Lesser(m, n) == IF m < n THEN m ELSE n

Larger(m, n) == IF m > n THEN m ELSE n

Filled(from, to, s) == [i \in Cells |-> IF i \in from .. to - 1 THEN s ELSE mem[i]]

-----------------------------------------------------------------------------
(* The Vec: external, as this code uses it.                                *)

\* Memory for a larger allocation, where the cells up to n are then zeroed: the Vec's
\* own bytes move, and with them the spare part where the allocator copies it too.
Moved(n) ==
    {[i \in Cells |-> IF i < vec_len THEN mem[i] ELSE IF i < n THEN "zero" ELSE rest[i]] :
         rest \in {mem, [i \in Cells |-> "junk"]}}

\* Mutant: the Vec is lengthened without filling.
Lengthen_Unfilled(n) ==
    /\ n > vec_len
    /\ vec_len' = n
    /\ \/ n =< capacity /\ UNCHANGED <<mem, capacity>>
       \/ /\ n > capacity
          /\ capacity' \in n .. MaxCap
          /\ mem' \in Moved(vec_len)

\* resize(n, 0) to a greater length: in place, or in a new allocation.
Lengthen(n) ==
    /\ n > vec_len
    /\ vec_len' = n
    /\ \/ n =< capacity /\ mem' = Filled(vec_len, n, "zero") /\ UNCHANGED capacity
       \/ /\ n > capacity
          /\ capacity' \in n .. MaxCap
          /\ mem' \in Moved(n)

\* truncate(n), or resize to a smaller length: the bytes stay in the spare part.
Shorten(n) == n =< vec_len /\ vec_len' = n /\ UNCHANGED <<mem, capacity>>

\* Room for n bytes, as set_len, incr_len and incr_write_pos make it.
Room(n) == Lengthen(n) \/ (n =< vec_len /\ UNCHANGED storage)

-----------------------------------------------------------------------------
\* new, with_capacity and from_vec.
Init == /\ capacity \in 0 .. MaxCap
        /\ pos = 0
        /\ \/ /\ capacity =< MaxSize /\ vec_len = capacity /\ len = 0
              /\ mem = [i \in Cells |-> IF i < capacity THEN "zero" ELSE "junk"]
           \/ /\ capacity =< MaxSize /\ vec_len = 0 /\ len = 0
              /\ mem = [i \in Cells |-> "junk"]
           \/ /\ vec_len \in 0 .. capacity /\ len = vec_len
              /\ mem = [i \in Cells |-> IF i < vec_len THEN "client" ELSE "junk"]

Store(n) ==
    /\ mem' = Filled(pos, pos + n, "client")
    /\ pos' = pos + n
    /\ len' = Larger(len, pos + n)
    /\ UNCHANGED <<capacity, vec_len>>

\* put_u32, put_u64, put_bytes, put_bytes_fast, put_string that fits.
Put(n) == pos + n =< vec_len /\ Store(n)

PutByte == pos < vec_len /\ Store(1)

\* put_string writes the prefix, then finds no room for the n bytes.
PutStringHalf(n) == /\ pos + Prefix =< vec_len /\ pos + Prefix + n > vec_len
                    /\ Store(Prefix)

\* The get functions, checked or not, a string that is eaten, and one whose
\* prefix is read and whose bytes are not there.
Get(n) == /\ pos + n =< len
          /\ pos' = pos + n
          /\ UNCHANGED <<storage, len>>

\* get_byte, get_bool.
GetByte == pos < len /\ pos' = pos + 1 /\ UNCHANGED <<storage, len>>

\* get_write_ptr, and the client fills the slice.
GetWritePtr(n) == /\ pos + n =< vec_len
                  /\ mem' = Filled(pos, pos + n, "client")
                  /\ UNCHANGED <<capacity, vec_len, pos, len>>

\* as_mut_slice, likewise.  Slicing data[..len] panics if there is less.
AsMutSlice == /\ len =< vec_len
              /\ mem' = Filled(0, len, "client")
              /\ UNCHANGED <<capacity, vec_len, pos, len>>

SetPos(p) == p =< len /\ pos' = p /\ UNCHANGED <<storage, len>>

IncrPos(n) == pos + n =< len /\ pos' = pos + n /\ UNCHANGED <<storage, len>>

\* Mutant: the position may go below zero.
DecrPos_Unchecked(n) == pos' = pos - n /\ UNCHANGED <<storage, len>>

DecrPos(n) == n =< pos /\ pos' = pos - n /\ UNCHANGED <<storage, len>>

\* Mutant: the position is left beyond a shorter length.
SetLen_PosKept(n) == n =< MaxSize /\ Room(n) /\ len' = n /\ UNCHANGED pos

SetLen(n) == n =< MaxSize /\ Room(n) /\ len' = n /\ pos' = Lesser(pos, n)

IncrLen(n) == len + n =< MaxSize /\ Room(len + n) /\ len' = len + n /\ UNCHANGED pos

IncrWritePos(n) ==
    /\ pos + n =< MaxSize
    /\ Room(pos + n)
    /\ pos' = pos + n
    /\ len' = Larger(len, pos + n)

Reset == pos' = 0 /\ len' = 0 /\ UNCHANGED storage

\* Mutant: only the valid bytes are zeroed.
Burn_ValidOnly ==
    /\ mem' = [i \in Cells |-> IF i < len THEN "zero"
                               ELSE IF mem[i] = "client" THEN "burned" ELSE mem[i]]
    /\ pos' = 0 /\ len' = 0
    /\ UNCHANGED <<capacity, vec_len>>

Burn ==
    /\ mem' = [i \in Cells |-> IF i < vec_len THEN "zero"
                               ELSE IF mem[i] = "client" THEN "burned" ELSE mem[i]]
    /\ pos' = 0 /\ len' = 0
    /\ UNCHANGED <<capacity, vec_len>>

Resize(n) ==
    /\ n =< MaxSize
    /\ Lengthen(n) \/ Shorten(n)
    /\ len' = Lesser(len, n) /\ pos' = Lesser(pos, n)

Reserve(n) ==
    /\ vec_len + n > capacity
    /\ capacity' \in vec_len + n .. MaxCap
    /\ mem' \in Moved(vec_len)
    /\ UNCHANGED <<vec_len, pos, len>>

ShrinkToFit ==
    /\ vec_len' = Lesser(vec_len, len)
    /\ capacity' \in vec_len' .. capacity
    /\ mem' = [i \in Cells |-> IF i < capacity' THEN mem[i] ELSE "junk"]
    /\ UNCHANGED <<pos, len>>

\* The client goes on with the clone: the bytes below vec_len in an allocation of
\* its own.
Clone ==
    /\ capacity' \in vec_len .. MaxCap
    /\ mem' = [i \in Cells |-> IF i < vec_len THEN mem[i] ELSE "junk"]
    /\ UNCHANGED <<vec_len, pos, len>>

\* into_vec, and the client makes a buffer of the Vec again: nothing is zeroed.
Rewrap ==
    /\ vec_len' = Lesser(vec_len, len)
    /\ len' = vec_len' /\ pos' = 0
    /\ UNCHANGED <<mem, capacity>>

Next == \/ \E n \in 0 .. MaxCap : \/ Put(n) \/ PutStringHalf(n) \/ Get(n) \/ GetWritePtr(n)
                                  \/ SetPos(n) \/ IncrPos(n) \/ DecrPos(n)
                                  \/ SetLen(n) \/ IncrLen(n) \/ IncrWritePos(n)
                                  \/ Resize(n) \/ Reserve(n)
        \/ PutByte \/ GetByte \/ AsMutSlice
        \/ Reset \/ Burn \/ ShrinkToFit \/ Clone \/ Rewrap

Spec == Init /\ [][Next]_vars

\* A client that also writes with the unchecked functions, where their Safety
\* sections allow it.
PutUnchecked(n) == pos + n =< capacity /\ Store(n)

SpecUnchecked == Init /\ [][Next \/ \E n \in 0 .. MaxCap : PutUnchecked(n)]_vars

-----------------------------------------------------------------------------
TypeOK == /\ mem \in [Cells -> Source]
          /\ capacity \in 0 .. MaxCap /\ vec_len \in 0 .. MaxCap
          /\ pos \in Nat /\ len \in Nat

\* The order of the ends that makes every access the checked calls make through
\* a raw pointer (ops.rs) an access inside the Vec, after any sequence of calls.
EndsOrdered == pos =< len /\ len =< vec_len /\ vec_len =< capacity

\* No safe call can reach a byte from before the last burn, nor memory as the
\* allocator left it: not by lengthening, not by the write pointer, not by growing
\* back over what was cut off.  The pools hand buffers on after a burn.
ReachableIsOwn == \A i \in Cells : i < vec_len => mem[i] \in {"zero", "client"}

\* unsafe_ops.rs:11 "Caller MUST guarantee: `self.pos + 4 <= self.capacity()`":
\* a client that does gets a buffer whose slices exist.
SliceInBounds == len =< vec_len

\* core.rs:461 burn "Securely zeros all buffer memory and resets position and
\* length": no client byte is left in the allocation.
BurnWipesAll == \A i \in Cells : mem[i] # "burned"
=============================================================================
