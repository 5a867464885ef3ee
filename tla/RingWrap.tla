------------------------------ MODULE RingWrap ------------------------------
(***************************************************************************)
(* How CircularBuffer wraps a cursor (circular/buffer.rs, wrap): with a    *)
(* bit mask if the ring says it is a power of two, with a remainder        *)
(* otherwise.                                                              *)
(***************************************************************************)
EXTENDS Integers, Functions

is_power_of_two(n) == \E k \in 0 .. n : n = 2 ^ k

bit(n, i) == (n \div 2 ^ i) % 2

\* n & m, bit by bit: n has no bits from position n on.
BitAnd(n, m) == FoldFunction(+, 0, [i \in 0 .. n |-> 2 ^ i * bit(n, i) * bit(m, i)])

\* Mutant: the mask keeps the bit of the size itself.
wrap_FullMask(pos, delta, size, is_pow2) ==
    LET new == pos + delta IN
    IF is_pow2 THEN BitAnd(new, size) ELSE new % size

wrap(pos, delta, size, is_pow2) ==
    LET new == pos + delta IN
    IF is_pow2 THEN BitAnd(new, size - 1) ELSE new % size
=============================================================================
