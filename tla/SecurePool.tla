----------------------------- MODULE SecurePool -----------------------------
(***************************************************************************)
(* What both buffer pools of secbuf promise their clients, whatever the    *)
(* caches, queues and counters behind it: a client's bytes live only in a  *)
(* buffer that some client holds.  FastPool and BufferPool implement this  *)
(* module; it says nothing of how many buffers are kept or where.          *)
(***************************************************************************)
CONSTANT Buffers        \* the buffers that can ever exist

VARIABLES place,        \* "none" (not allocated), "idle" (kept) or "held"
          dirty         \* the buffers whose visible bytes hold client data

vars == <<place, dirty>>

Init == /\ place \in [Buffers -> {"none", "idle"}]
        /\ dirty = {}

\* A client is given a buffer, kept or fresh: it finds no one's bytes in it.
Acquire(b) == /\ place[b] # "held"
              /\ b \notin dirty
              /\ place' = [place EXCEPT ![b] = "held"]
              /\ UNCHANGED dirty

Write(b) == /\ place[b] = "held"
            /\ dirty' = dirty \cup {b}
            /\ UNCHANGED place

\* The client lets go: the buffer is kept, or destroyed, without its bytes.
Release(b) == /\ place[b] = "held"
              /\ \E kept \in {"idle", "none"} :
                    place' = [place EXCEPT ![b] = kept]
              /\ dirty' = dirty \ {b}

\* Kept buffers are destroyed (clear, a thread's exit, a full pool).
Reclaim(S) == /\ \A b \in S : place[b] = "idle"
              /\ place' = [b \in Buffers |-> IF b \in S THEN "none" ELSE place[b]]
              /\ UNCHANGED dirty

\* Fresh buffers are made ahead of their use (new, warm, grow).
Stock(S) == /\ \A b \in S : place[b] = "none"
            /\ place' = [b \in Buffers |-> IF b \in S THEN "idle" ELSE place[b]]
            /\ UNCHANGED dirty

Next == \/ \E b \in Buffers : Acquire(b) \/ Write(b) \/ Release(b)
        \/ \E S \in SUBSET Buffers : Reclaim(S) \/ Stock(S)

Spec == Init /\ [][Next]_vars
=============================================================================
