----------------------------- MODULE ByteQueue -----------------------------
(***************************************************************************)
(* What a CircularBuffer promises: a first-in first-out queue of at most   *)
(* Capacity bytes.  A client may also stage bytes, written in place and    *)
(* not yet part of the queue, and commit them later; reads in between do   *)
(* not disturb them.  Where the bytes lie is not said here.                *)
(***************************************************************************)
EXTENDS Integers, Sequences

CONSTANTS Byte,         \* byte values
          Capacity      \* the most bytes the queue holds

VARIABLES queue,        \* the bytes written and not yet read
          staged,       \* the bytes written in place and not yet committed
          out           \* what the last read delivered

vars == <<queue, staged, out>>

Strings == UNION {[1 .. n -> Byte] : n \in 0 .. Capacity}

Init == queue = << >> /\ staged = << >> /\ out = << >>

Fits(s) == Len(queue) + Len(s) =< Capacity

\* A copying write; it overwrites whatever was staged.
Put(s) == /\ Fits(s)
          /\ queue' = queue \o s
          /\ staged' = << >>
          /\ UNCHANGED out

Stage(s) == /\ Fits(s)
            /\ staged' = s
            /\ UNCHANGED <<queue, out>>

Commit == /\ Fits(staged)
          /\ queue' = queue \o staged
          /\ staged' = << >>
          /\ UNCHANGED out

\* Deliver the first n bytes, without removing them.
Look(n) == /\ out' = SubSeq(queue, 1, n)
           /\ UNCHANGED <<queue, staged>>

Skip(n) == /\ queue' = SubSeq(queue, n + 1, Len(queue))
           /\ UNCHANGED <<staged, out>>

Take(n) == /\ out' = SubSeq(queue, 1, n)
           /\ queue' = SubSeq(queue, n + 1, Len(queue))
           /\ UNCHANGED staged

Discard == queue' = << >> /\ staged' = << >> /\ UNCHANGED out

Next == \/ \E s \in Strings : Put(s) \/ Stage(s)
        \/ \E n \in 0 .. Len(queue) : Look(n) \/ Skip(n) \/ Take(n)
        \/ Commit
        \/ Discard

Spec == Init /\ [][Next]_vars
=============================================================================
