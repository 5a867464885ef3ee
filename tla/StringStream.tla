---------------------------- MODULE StringStream ----------------------------
(***************************************************************************)
(* What put_string and get_string promise together: the k-th read returns  *)
(* what the k-th write returned, the string or an error.  Where the bytes  *)
(* lie, and that a string takes two steps to write, is not said here.      *)
(***************************************************************************)
EXTENDS Naturals, Sequences

CONSTANTS String,       \* the strings that can be written
          Err           \* the result of a call that failed

VARIABLES writes,       \* the results of the writes
          reads         \* the results of the reads

vars == <<writes, reads>>

Init == writes = << >> /\ reads = << >>

Write(r) == writes' = Append(writes, r) /\ UNCHANGED reads

Read == /\ Len(reads) < Len(writes)
        /\ reads' = Append(reads, writes[Len(reads) + 1])
        /\ UNCHANGED writes

\* The writer takes a failed write back, so that the reader does not meet it.
TakeBack == /\ writes # << >> /\ writes[Len(writes)] = Err
            /\ writes' = SubSeq(writes, 1, Len(writes) - 1)
            /\ UNCHANGED reads

Rewind == reads' = << >> /\ UNCHANGED writes

Reset == writes' = << >> /\ reads' = << >>

Next == (\E r \in String \cup {Err} : Write(r)) \/ TakeBack \/ Read \/ Rewind \/ Reset

Spec == Init /\ [][Next]_vars
=============================================================================
