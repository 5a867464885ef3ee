------------------------- MODULE ConnectionBuffers -------------------------
(***************************************************************************)
(* ConnectionBuffers and PooledConnectionBuffers (src/src/connection.rs):  *)
(* the buffers of one connection, the queue of packets to send, and their  *)
(* cleanup.  One object behind &mut: an action is a whole call.            *)
(*                                                                         *)
(* Of a buffer the model keeps whether client bytes are in its memory, and *)
(* whether they were there before the last burn was called; of a packet    *)
(* its length.  A Buffer has bytes in data, which its calls can reach, and *)
(* in the spare part a shorter data leaves behind (LinearBuffer has the    *)
(* details).  read_buf, write_buf and stream_bufs are public fields, used  *)
(* directly; the queue is used through its methods.                        *)
(***************************************************************************)
EXTENDS Integers, Sequences, SequencesExt

CONSTANTS MaxPackets,   \* config.max_packet_queue_size
          MaxBytes,     \* config.max_packet_queue_bytes
          Lengths,      \* the lengths of packets
          MaxStreams,   \* bound on the stream buffers
          UseBurned,    \* do clients use a burned connection before a reset?
          None          \* Option::None

Ages == {"own", "burned"}

Buffer == [data : SUBSET Ages, spare : SUBSET Ages]

ASSUME ConnectionAssumption ==
    /\ MaxPackets \in Nat /\ MaxBytes \in Nat /\ MaxStreams \in Nat
    /\ Lengths \subseteq Nat /\ UseBurned \in BOOLEAN
    /\ None \notin Buffer

VARIABLES read_buf, write_buf,      \* Option<Buffer>
          stream_bufs,              \* Seq of the ages of the bytes in a ring
          packet_queue,             \* Seq of packet lengths
          packet_queue_bytes,
          burned,
          pool,                     \* PooledConnectionBuffers.pool.is_some()
          burn_returned             \* the last call was burn

buffers == <<read_buf, write_buf, stream_bufs>>

vars == <<buffers, packet_queue, packet_queue_bytes, burned, pool, burn_returned>>

Bytes(queue) == FoldSeq(+, 0, queue)

WithConfig == /\ read_buf = None /\ write_buf = None /\ stream_bufs = << >>
              /\ packet_queue = << >> /\ packet_queue_bytes = 0
              /\ burned = FALSE
              /\ burn_returned = FALSE

\* A connection on its own, or in a PooledConnectionBuffers.
Init == WithConfig /\ pool \in BOOLEAN

\* Clients with UseBurned go on after a burn as if nothing had happened.
Ready == (UseBurned \/ ~burn_returned) /\ burn_returned' = FALSE

Empty == [data |-> {}, spare |-> {}]

InitReadBuf ==
    /\ Ready
    /\ read_buf' = Empty
    /\ UNCHANGED <<write_buf, stream_bufs, packet_queue, packet_queue_bytes, burned, pool>>

InitWriteBuf ==
    /\ Ready
    /\ write_buf' = Empty
    /\ UNCHANGED <<read_buf, stream_bufs, packet_queue, packet_queue_bytes, burned, pool>>

AddStreamBuf ==
    /\ Ready /\ Len(stream_bufs) < MaxStreams
    /\ stream_bufs' = Append(stream_bufs, {})
    /\ UNCHANGED <<read_buf, write_buf, packet_queue, packet_queue_bytes, burned, pool>>

Filled(buf) == {[buf EXCEPT !.data = @ \cup {"own"}]}

\* resize to a shorter length: bytes pass from data to the spare part.
Shortened(buf) ==
    {b \in Buffer : /\ b.data \subseteq buf.data /\ buf.spare \subseteq b.spare
                    /\ b.data \cup b.spare = buf.data \cup buf.spare}

\* resize to a greater length zeroes what becomes data again, or moves data alone.
Lengthened(buf) == {b \in Buffer : b.data = buf.data /\ b.spare \subseteq buf.spare}

Changed(buf) == Filled(buf) \cup Shortened(buf) \cup Lengthened(buf)

\* A client uses one of the buffers.
Use ==
    /\ Ready
    /\ \/ /\ read_buf # None /\ read_buf' \in Changed(read_buf)
          /\ UNCHANGED <<write_buf, stream_bufs>>
       \/ /\ write_buf # None /\ write_buf' \in Changed(write_buf)
          /\ UNCHANGED <<read_buf, stream_bufs>>
       \/ /\ \E i \in DOMAIN stream_bufs :
                 stream_bufs' = [stream_bufs EXCEPT ![i] = @ \cup {"own"}]
          /\ UNCHANGED <<read_buf, write_buf>>
    /\ UNCHANGED <<packet_queue, packet_queue_bytes, burned, pool>>

\* Mutant: the packet itself is not counted in.
QueueHasRoom_Before(n) ==
    Len(packet_queue) < MaxPackets /\ packet_queue_bytes =< MaxBytes

QueueHasRoom(n) ==
    Len(packet_queue) < MaxPackets /\ packet_queue_bytes + n =< MaxBytes

\* Mutant: both limits have to be close.
IsQueueNearFull_Both ==
    /\ Len(packet_queue) > (MaxPackets * 80) \div 100
    /\ packet_queue_bytes > (MaxBytes * 80) \div 100

IsQueueNearFull ==
    \/ Len(packet_queue) > (MaxPackets * 80) \div 100
    \/ packet_queue_bytes > (MaxBytes * 80) \div 100

\* A packet that is refused is dropped, which changes nothing here.
QueuePacket(n) ==
    /\ Ready /\ QueueHasRoom(n)
    /\ packet_queue' = Append(packet_queue, n)
    /\ packet_queue_bytes' = packet_queue_bytes + n
    /\ UNCHANGED <<buffers, burned, pool>>

\* Mutant: a plain subtraction, of more than the packet counted for.
DequeuePacket_Plain ==
    /\ Ready /\ packet_queue # << >>
    /\ packet_queue' = Tail(packet_queue)
    /\ packet_queue_bytes' = packet_queue_bytes - 2 * Head(packet_queue)
    /\ UNCHANGED <<buffers, burned, pool>>

DequeuePacket ==
    /\ Ready /\ packet_queue # << >>
    /\ packet_queue' = Tail(packet_queue)
    /\ packet_queue_bytes' = Max({0, packet_queue_bytes - Head(packet_queue)})
    /\ UNCHANGED <<buffers, burned, pool>>

\* Mutant: the packets go, their count stays.
Reset_CountKept ==
    /\ packet_queue' = << >>
    /\ burned' = FALSE
    /\ burn_returned' = FALSE
    /\ UNCHANGED <<buffers, packet_queue_bytes, pool>>

\* Mutant: the flag stays.
Reset_FlagKept ==
    /\ packet_queue' = << >> /\ packet_queue_bytes' = 0
    /\ burn_returned' = FALSE
    /\ UNCHANGED <<buffers, burned, pool>>

\* Positions and cursors are reset; the bytes stay in memory.
Reset ==
    /\ packet_queue' = << >> /\ packet_queue_bytes' = 0
    /\ burned' = FALSE
    /\ burn_returned' = FALSE
    /\ UNCHANGED <<buffers, pool>>

\* From now on these are bytes from before a burn.
Old(ages) == {"burned" : a \in ages}

Aged(buf) == IF buf = None THEN None
             ELSE [data |-> Old(buf.data), spare |-> Old(buf.spare)]

\* Buffer::burn zeroes data, not the spare part.
Zeroed(buf) == IF buf = None THEN None ELSE [buf EXCEPT !.data = {}]

Wipe ==
    /\ read_buf' = Aged(Zeroed(read_buf)) /\ write_buf' = Aged(Zeroed(write_buf))
    /\ stream_bufs' = [i \in DOMAIN stream_bufs |-> {}]
    /\ packet_queue' = << >> /\ packet_queue_bytes' = 0
    /\ burned' = TRUE

Skip ==
    /\ read_buf' = Aged(read_buf) /\ write_buf' = Aged(write_buf)
    /\ stream_bufs' = [i \in DOMAIN stream_bufs |-> Old(stream_bufs[i])]
    /\ UNCHANGED <<packet_queue, packet_queue_bytes, burned>>

BurnBuffers ==
    /\ \/ ~burned /\ Wipe
       \/ burned /\ Skip
    /\ burn_returned' = TRUE

Burn == BurnBuffers /\ UNCHANGED pool

\* Only PooledConnectionBuffers has the call.
BurnAndRelease == BurnBuffers /\ pool' = FALSE

Next == \/ InitReadBuf \/ InitWriteBuf \/ AddStreamBuf \/ Use
        \/ \E n \in Lengths : QueuePacket(n)
        \/ DequeuePacket
        \/ Reset \/ Burn \/ BurnAndRelease

Spec == Init /\ [][Next]_vars

-----------------------------------------------------------------------------
TypeOK == /\ read_buf \in Buffer \cup {None} /\ write_buf \in Buffer \cup {None}
          /\ stream_bufs \in Seq(SUBSET Ages)
          /\ packet_queue \in Seq(Lengths)
          /\ packet_queue_bytes \in Nat
          /\ burned \in BOOLEAN /\ pool \in BOOLEAN /\ burn_returned \in BOOLEAN

\* The count of bytes, kept beside the queue by five calls, is the queue's: the
\* saturating subtraction in dequeue_packet never hides a difference.
BytesExact == packet_queue_bytes = Bytes(packet_queue)

\* queue_packet keeps both of the configured limits.
LimitsKept == Len(packet_queue) =< MaxPackets /\ Bytes(packet_queue) =< MaxBytes

\* A refusal is announced: before queue_packet turns down a packet of at most a fifth
\* of the byte limit, is_queue_near_full is true, with its thresholds rounded down.
RefusalAnnounced ==
    \A n \in Lengths :
        MaxPackets > 0 /\ 5 * n =< MaxBytes /\ ~QueueHasRoom(n) => IsQueueNearFull

\* The ages of the bytes that the calls of the buffers can reach.
Reachable == UNION ({buf.data : buf \in {read_buf, write_buf} \ {None}} \cup
                    {stream_bufs[i] : i \in DOMAIN stream_bufs})

\* Burn and reset separate sessions, for clients that reset a burned connection
\* before they use it again: no session reaches bytes from before the burn, though
\* some stay in spare parts that lengthening brings back, and a burn that was skipped
\* because of the flag of an earlier one left no packet behind.
SessionsApart == /\ "burned" \notin Reachable
                 /\ burn_returned => packet_queue = << >>

\* connection.rs:189 burn "Securely zeros all sensitive data in every buffer."
BurnZeroesAll == burn_returned => Reachable = {} /\ packet_queue = << >>
=============================================================================
