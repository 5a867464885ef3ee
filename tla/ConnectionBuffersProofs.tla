---------------------- MODULE ConnectionBuffersProofs ----------------------
(***************************************************************************)
(* The buffers of a connection, for every configuration, any packets and   *)
(* any number of streams: the byte count is that of the queue, its limits  *)
(* hold, refusals are announced, and the sessions that burn and reset      *)
(* separate see nothing of each other.                                     *)
(***************************************************************************)
EXTENDS ConnectionBuffers, RecursionTheorems, TLAPS

\* The greater of zero and an integer, as dequeue_packet's saturating_sub has it.
LEMMA Saturates ==
    ASSUME NEW m \in Int
    PROVE  Max({0, m}) = IF m < 0 THEN 0 ELSE m
  <1>1. Max({0, m}) \in {0, m} /\ \A x \in {0, m} : Max({0, m}) >= x
    BY DEF Max
  <1> QED BY <1>1

-----------------------------------------------------------------------------
(* The queue and its count.                                                *)

LEMMA BytesIsTotal ==
    ASSUME NEW q
    PROVE  Bytes(q) = Total(q)
  BY DEF Bytes, FoldSeq, Total

LEMMA LengthsAreNumbers ==
    ASSUME NEW q \in Seq(Lengths)
    PROVE  q \in Seq(Nat)
  <1>1. q \in [1 .. Len(q) -> Lengths] /\ Len(q) \in Nat
    OBVIOUS
  <1>2. q \in [1 .. Len(q) -> Nat]
    BY <1>1, ConnectionAssumption
  <1> QED BY <1>1, <1>2

QueueOK == /\ packet_queue \in Seq(Lengths) /\ packet_queue_bytes \in Nat
           /\ BytesExact /\ LimitsKept

\* A queue that was just emptied, by new, reset or burn.
LEMMA EmptyQueue ==
    ASSUME NEW q, NEW n, q = << >>, n = 0
    PROVE  /\ q \in Seq(Lengths) /\ n \in Nat
           /\ n = Bytes(q)
           /\ Len(q) =< MaxPackets /\ Bytes(q) =< MaxBytes
  <1>1. Bytes(q) = 0
    BY BytesIsTotal, TotalEmpty
  <1>2. q \in Seq(Lengths) /\ Len(q) = 0
    OBVIOUS
  <1> QED BY <1>1, <1>2, ConnectionAssumption

\* queue_packet adds a packet and its bytes.
LEMMA QueuePacketStep ==
    ASSUME QueueOK, NEW n \in Lengths, QueuePacket(n)
    PROVE  QueueOK'
  <1> DEFINE q == packet_queue
  <1>1. n \in Nat /\ packet_queue_bytes \in Nat /\ packet_queue_bytes = Bytes(q)
        /\ q \in Seq(Lengths) /\ Len(q) \in Nat
    BY ConnectionAssumption DEF QueueOK, BytesExact
  <1>2. q \in Seq(Nat)
    BY <1>1, LengthsAreNumbers
  <1>3. packet_queue' = Append(q, n) /\ packet_queue_bytes' = packet_queue_bytes + n
    BY DEF QueuePacket
  <1>4. Len(q) < MaxPackets /\ packet_queue_bytes + n =< MaxBytes
    BY DEF QueuePacket, QueueHasRoom
  <1>5. Bytes(Append(q, n)) = Bytes(q) + n
    BY <1>1, <1>2, BytesIsTotal, TotalAppend
  <1>6. Append(q, n) \in Seq(Lengths) /\ Len(Append(q, n)) = Len(q) + 1
    BY <1>1
  <1> HIDE DEF q
  <1>7. /\ packet_queue' \in Seq(Lengths) /\ Len(packet_queue') =< MaxPackets
        /\ packet_queue_bytes' \in Nat /\ packet_queue_bytes' = Bytes(packet_queue')
        /\ Bytes(packet_queue') =< MaxBytes
    BY <1>1, <1>3, <1>4, <1>5, <1>6, ConnectionAssumption
  <1> QED BY <1>7 DEF QueueOK, BytesExact, LimitsKept

\* dequeue_packet takes off the bytes of the packet it returns: they are among those
\* counted, so that the subtraction does not saturate.
LEMMA DequeuePacketStep ==
    ASSUME QueueOK, DequeuePacket
    PROVE  QueueOK'
  <1> DEFINE q == packet_queue
  <1>1. /\ packet_queue_bytes \in Nat /\ packet_queue_bytes = Bytes(q)
        /\ q \in Seq(Lengths) /\ Len(q) \in Nat /\ q # << >>
        /\ Len(q) =< MaxPackets /\ Bytes(q) =< MaxBytes
    BY DEF QueueOK, BytesExact, LimitsKept, DequeuePacket
  <1>2. q \in Seq(Nat)
    BY <1>1, LengthsAreNumbers
  <1>3. /\ packet_queue' = Tail(q)
        /\ packet_queue_bytes' = Max({0, packet_queue_bytes - q[1]})
    <2>1. Head(q) = q[1]
      BY <1>1
    <2> QED BY <2>1 DEF DequeuePacket
  <1>4. Bytes(q) = q[1] + Bytes(Tail(q)) /\ Bytes(Tail(q)) \in Nat
    BY <1>1, <1>2, BytesIsTotal, TotalTail
  <1>5. Tail(q) \in Seq(Lengths) /\ Len(Tail(q)) = Len(q) - 1 /\ q[1] \in Nat
    BY <1>1, <1>2
  <1> HIDE DEF q
  <1>6. packet_queue_bytes - q[1] = Bytes(Tail(q)) /\ packet_queue_bytes - q[1] \in Int
    BY <1>1, <1>4, <1>5
  <1>7. packet_queue_bytes' = Bytes(Tail(q))
    BY <1>3, <1>4, <1>6, Saturates
  <1>8. /\ packet_queue' \in Seq(Lengths) /\ Len(packet_queue') =< MaxPackets
        /\ packet_queue_bytes' \in Nat /\ packet_queue_bytes' = Bytes(packet_queue')
        /\ Bytes(packet_queue') =< MaxBytes
    BY <1>1, <1>3, <1>4, <1>5, <1>7, ConnectionAssumption
  <1> QED BY <1>8 DEF QueueOK, BytesExact, LimitsKept

-----------------------------------------------------------------------------
(* The invariant.                                                          *)

Option == Buffer \cup {None}

BuffersOK == /\ read_buf \in Option /\ write_buf \in Option
             /\ stream_bufs \in Seq(SUBSET Ages)
             /\ burned \in BOOLEAN /\ pool \in BOOLEAN /\ burn_returned \in BOOLEAN

IInv == BuffersOK /\ QueueOK

\* What clients and burns make of a Buffer is one.
LEMMA BufferTypes ==
    /\ Empty \in Buffer
    /\ \A buf \in Buffer : Changed(buf) \subseteq Buffer
    /\ \A buf \in Option : Aged(buf) \in Option /\ Zeroed(buf) \in Option
    /\ \A ages \in SUBSET Ages : Old(ages) \in SUBSET Ages
  <1>1. \A ages \in SUBSET Ages : Old(ages) \in SUBSET Ages
    BY DEF Old, Ages
  <1>2. Empty \in Buffer
    BY DEF Empty, Buffer
  <1>3. ASSUME NEW buf \in Buffer PROVE Changed(buf) \subseteq Buffer
    <2>1. Filled(buf) \subseteq Buffer
      BY DEF Filled, Buffer, Ages
    <2> QED BY <2>1 DEF Changed, Shortened, Lengthened
  <1>4. ASSUME NEW buf \in Option PROVE Aged(buf) \in Option /\ Zeroed(buf) \in Option
    BY <1>1 DEF Aged, Zeroed, Option, Buffer
  <1> QED BY <1>1, <1>2, <1>3, <1>4

\* The rings after a burn, made (freed) or skipped, are still rings.
LEMMA RingsAfterBurn ==
    ASSUME BuffersOK
    PROVE  /\ [i \in DOMAIN stream_bufs |-> {}] \in Seq(SUBSET Ages)
           /\ [i \in DOMAIN stream_bufs |-> Old(stream_bufs[i])] \in Seq(SUBSET Ages)
  <1>1. Len(stream_bufs) \in Nat /\ DOMAIN stream_bufs = 1 .. Len(stream_bufs)
        /\ \A i \in DOMAIN stream_bufs : stream_bufs[i] \in SUBSET Ages
    BY DEF BuffersOK
  <1>2. \A i \in DOMAIN stream_bufs : Old(stream_bufs[i]) \in SUBSET Ages
    BY <1>1, BufferTypes
  <1>3. {} \in SUBSET Ages
    OBVIOUS
  <1>4. [i \in 1 .. Len(stream_bufs) |-> {}] \in Seq(SUBSET Ages)
    BY <1>1, <1>3
  <1>5. [i \in 1 .. Len(stream_bufs) |-> Old(stream_bufs[i])] \in Seq(SUBSET Ages)
    BY <1>1, <1>2
  <1> QED BY <1>1, <1>4, <1>5

\* The buffers that a client's use or a burn leaves are well typed.
LEMMA UseTypes ==
    ASSUME BuffersOK, Use
    PROVE  read_buf' \in Option /\ write_buf' \in Option /\ stream_bufs' \in Seq(SUBSET Ages)
  <1>1. ASSUME NEW buf \in Option, buf # None PROVE Changed(buf) \subseteq Option
    BY <1>1, BufferTypes DEF Option
  <1>2. ASSUME NEW i \in DOMAIN stream_bufs
        PROVE  [stream_bufs EXCEPT ![i] = @ \cup {"own"}] \in Seq(SUBSET Ages)
    <2>1. stream_bufs[i] \cup {"own"} \in SUBSET Ages
      BY DEF BuffersOK, Ages
    <2> QED BY <2>1 DEF BuffersOK
  <1>3. CASE read_buf # None /\ read_buf' \in Changed(read_buf)
             /\ UNCHANGED <<write_buf, stream_bufs>>
    BY <1>1, <1>3 DEF BuffersOK
  <1>4. CASE write_buf # None /\ write_buf' \in Changed(write_buf)
             /\ UNCHANGED <<read_buf, stream_bufs>>
    BY <1>1, <1>4 DEF BuffersOK
  <1>5. CASE /\ \E i \in DOMAIN stream_bufs :
                    stream_bufs' = [stream_bufs EXCEPT ![i] = @ \cup {"own"}]
             /\ UNCHANGED <<read_buf, write_buf>>
    BY <1>2, <1>5 DEF BuffersOK
  <1> QED BY <1>3, <1>4, <1>5 DEF Use

LEMMA BurnTypes ==
    ASSUME BuffersOK, Wipe \/ Skip
    PROVE  read_buf' \in Option /\ write_buf' \in Option /\ stream_bufs' \in Seq(SUBSET Ages)
           /\ burned' \in BOOLEAN
  <1>1. \A buf \in Option : Aged(buf) \in Option /\ Aged(Zeroed(buf)) \in Option
    BY BufferTypes
  <1>2. CASE Wipe
    BY <1>1, <1>2, RingsAfterBurn DEF Wipe, BuffersOK
  <1>3. CASE Skip
    BY <1>1, <1>3, RingsAfterBurn DEF Skip, BuffersOK
  <1> QED BY <1>2, <1>3

\* Each call keeps the count, the limits and the types.
LEMMA StepInv == IInv /\ [Next]_vars => IInv'
  <1> SUFFICES ASSUME IInv, [Next]_vars PROVE IInv'
    OBVIOUS
  <1>q. UNCHANGED <<packet_queue, packet_queue_bytes>> => QueueOK'
    BY DEF IInv, QueueOK, BytesExact, LimitsKept
  <1>b. UNCHANGED <<buffers, pool>> /\ burned' \in BOOLEAN /\ burn_returned' \in BOOLEAN
            => BuffersOK'
    BY DEF IInv, BuffersOK, buffers
  <1>e. packet_queue' = << >> /\ packet_queue_bytes' = 0 => QueueOK'
    BY EmptyQueue DEF QueueOK, BytesExact, LimitsKept
  <1>1. CASE InitReadBuf \/ InitWriteBuf
    <2>1. Empty \in Option
      BY BufferTypes DEF Option
    <2> QED BY <1>1, <1>q, <2>1 DEF InitReadBuf, InitWriteBuf, Ready, IInv, BuffersOK
  <1>2. CASE AddStreamBuf
    <2>1. stream_bufs' \in Seq(SUBSET Ages)
      <3>1. {} \in SUBSET Ages
        OBVIOUS
      <3> QED BY <1>2, <3>1 DEF AddStreamBuf, IInv, BuffersOK
    <2> QED BY <1>2, <1>q, <2>1 DEF AddStreamBuf, Ready, IInv, BuffersOK
  <1>3. CASE Use
    <2>1. read_buf' \in Option /\ write_buf' \in Option /\ stream_bufs' \in Seq(SUBSET Ages)
      BY <1>3, UseTypes DEF IInv
    <2> QED BY <1>3, <1>q, <2>1 DEF Use, Ready, IInv, BuffersOK
  <1>4. ASSUME NEW n \in Lengths, QueuePacket(n) PROVE IInv'
    <2>1. QueueOK'
      BY <1>4, QueuePacketStep DEF IInv
    <2> QED BY <1>4, <1>b, <2>1 DEF QueuePacket, Ready, IInv, BuffersOK
  <1>5. CASE DequeuePacket
    <2>1. QueueOK'
      BY <1>5, DequeuePacketStep DEF IInv
    <2> QED BY <1>5, <1>b, <2>1 DEF DequeuePacket, Ready, IInv, BuffersOK
  <1>6. CASE Reset
    BY <1>6, <1>b, <1>e DEF Reset, IInv
  <1>7. CASE Burn \/ BurnAndRelease
    <2>1. Wipe \/ Skip
      BY <1>7 DEF Burn, BurnAndRelease, BurnBuffers
    <2>2. BuffersOK'
      <3>1. read_buf' \in Option /\ write_buf' \in Option /\ stream_bufs' \in Seq(SUBSET Ages)
            /\ burned' \in BOOLEAN
        BY <2>1, BurnTypes DEF IInv
      <3>2. pool' \in BOOLEAN /\ burn_returned' \in BOOLEAN
        BY <1>7 DEF Burn, BurnAndRelease, BurnBuffers, IInv, BuffersOK
      <3> QED BY <3>1, <3>2 DEF BuffersOK
    <2>3. QueueOK'
      BY <2>1, <1>q, <1>e DEF Wipe, Skip
    <2> QED BY <2>2, <2>3 DEF IInv
  <1>8. CASE UNCHANGED vars
    BY <1>8, <1>q, <1>b DEF vars, IInv, BuffersOK
  <1> QED BY <1>1, <1>2, <1>3, <1>4, <1>5, <1>6, <1>7, <1>8 DEF Next

\* The invariant holds in every reachable state of a connection.
LEMMA Invariant == Spec => []IInv
  <1>1. Init => IInv
    <2> SUFFICES ASSUME Init PROVE BuffersOK /\ QueueOK
      BY DEF IInv
    <2>1. QueueOK
      BY EmptyQueue DEF Init, WithConfig, QueueOK, BytesExact, LimitsKept
    <2>2. << >> \in Seq(SUBSET Ages)
      OBVIOUS
    <2> QED BY <2>1, <2>2 DEF Init, WithConfig, BuffersOK, Option
  <1> QED BY <1>1, StepInv, PTL DEF Spec

\* Every state of a connection is well typed; the byte count is never negative.
THEOREM TypeCorrect == Spec => []TypeOK
  <1>1. IInv => TypeOK
    BY DEF IInv, BuffersOK, QueueOK, TypeOK, Option
  <1> QED BY <1>1, Invariant, PTL

\* The byte count kept by queue_packet, dequeue_packet, reset and burn is the sum of
\* the lengths of the queued packets: dequeue_packet never saturates.
THEOREM BytesAlwaysExact == Spec => []BytesExact
  <1>1. IInv => BytesExact
    BY DEF IInv, QueueOK
  <1> QED BY <1>1, Invariant, PTL

\* Neither the number of queued packets nor that of their bytes exceeds its limit.
THEOREM LimitsAlwaysKept == Spec => []LimitsKept
  <1>1. IInv => LimitsKept
    BY DEF IInv, QueueOK
  <1> QED BY <1>1, Invariant, PTL

\* No packet of at most a fifth of the byte limit is refused by queue_packet while
\* is_queue_near_full says otherwise.
THEOREM RefusalAlwaysAnnounced == Spec => []RefusalAnnounced
  <1>1. ASSUME IInv, NEW n \in Lengths, MaxPackets > 0, 5 * n =< MaxBytes, ~QueueHasRoom(n)
        PROVE  IsQueueNearFull
    <2> DEFINE l == Len(packet_queue)
    <2>1. /\ n \in Nat /\ l \in Nat /\ packet_queue_bytes \in Nat
          /\ MaxPackets \in Nat /\ MaxBytes \in Nat
      BY <1>1, ConnectionAssumption DEF IInv, QueueOK
    <2>2. l >= MaxPackets \/ packet_queue_bytes + n > MaxBytes
      BY <1>1, <2>1 DEF QueueHasRoom
    <2> HIDE DEF l
    <2>3. CASE l >= MaxPackets
      <3>1. (MaxPackets * 80) \div 100 < MaxPackets
        BY <1>1, <2>1
      <3> QED BY <3>1, <2>1, <2>3 DEF IsQueueNearFull, l
    <2>4. CASE packet_queue_bytes + n > MaxBytes
      <3>1. (MaxBytes * 80) \div 100 < packet_queue_bytes
        BY <1>1, <2>1, <2>4
      <3> QED BY <3>1 DEF IsQueueNearFull
    <2> QED BY <2>2, <2>3, <2>4
  <1>2. IInv => RefusalAnnounced
    BY <1>1 DEF RefusalAnnounced
  <1> QED BY <1>2, Invariant, PTL

-----------------------------------------------------------------------------
(* The sessions.                                                           *)

\* No buffer reaches bytes from before a burn.
Apart == /\ read_buf # None => "burned" \notin read_buf.data
         /\ write_buf # None => "burned" \notin write_buf.data
         /\ \A i \in DOMAIN stream_bufs : "burned" \notin stream_bufs[i]

\* Nor any others.
Unreached == /\ read_buf # None => read_buf.data = {}
             /\ write_buf # None => write_buf.data = {}
             /\ \A i \in DOMAIN stream_bufs : stream_bufs[i] = {}
             /\ packet_queue = << >>

\* The flag of an earlier burn is only seen by burn and drop while there is nothing
\* to burn: reset takes it back before the next session begins.
SessionInv == Apart /\ burned = burn_returned /\ (burned => Unreached)

\* Filling, shortening and lengthening reach no byte from before a burn.
LEMMA ChangeApart ==
    ASSUME NEW buf \in Buffer, "burned" \notin buf.data, NEW new \in Changed(buf)
    PROVE  "burned" \notin new.data
  <1>1. CASE new \in Filled(buf)
    BY <1>1 DEF Filled, Buffer
  <1>2. CASE new \in Shortened(buf) \cup Lengthened(buf)
    BY <1>2 DEF Shortened, Lengthened
  <1> QED BY <1>1, <1>2 DEF Changed

LEMMA UseApart ==
    ASSUME BuffersOK, Apart, Use
    PROVE  Apart'
  <1>1. CASE read_buf # None /\ read_buf' \in Changed(read_buf)
             /\ UNCHANGED <<write_buf, stream_bufs>>
    <2>1. read_buf \in Buffer /\ "burned" \notin read_buf.data
      BY <1>1 DEF BuffersOK, Option, Apart
    <2>2. "burned" \notin read_buf'.data
      BY <1>1, <2>1, ChangeApart
    <2> QED BY <1>1, <2>2 DEF Apart
  <1>2. CASE write_buf # None /\ write_buf' \in Changed(write_buf)
             /\ UNCHANGED <<read_buf, stream_bufs>>
    <2>1. write_buf \in Buffer /\ "burned" \notin write_buf.data
      BY <1>2 DEF BuffersOK, Option, Apart
    <2>2. "burned" \notin write_buf'.data
      BY <1>2, <2>1, ChangeApart
    <2> QED BY <1>2, <2>2 DEF Apart
  <1>3. CASE /\ \E i \in DOMAIN stream_bufs :
                    stream_bufs' = [stream_bufs EXCEPT ![i] = @ \cup {"own"}]
             /\ UNCHANGED <<read_buf, write_buf>>
    <2>1. PICK i \in DOMAIN stream_bufs :
                   stream_bufs' = [stream_bufs EXCEPT ![i] = @ \cup {"own"}]
      BY <1>3
    <2>2. ASSUME NEW j \in DOMAIN stream_bufs' PROVE "burned" \notin stream_bufs'[j]
      BY <2>1, <2>2 DEF BuffersOK, Apart
    <2> QED BY <1>3, <2>2 DEF Apart
  <1> QED BY <1>1, <1>2, <1>3 DEF Use

\* A burn, made or skipped while nothing is reached, leaves nothing to reach.
LEMMA BurnUnreaches ==
    ASSUME BuffersOK, Wipe \/ (Skip /\ Unreached)
    PROVE  Unreached' /\ Apart'
  <1>1. ASSUME NEW buf \in Option, Aged(Zeroed(buf)) # None
        PROVE  Aged(Zeroed(buf)).data = {}
    BY <1>1 DEF Aged, Zeroed, Old, Option, Buffer
  <1>2. ASSUME NEW buf \in Option, buf # None => buf.data = {}, Aged(buf) # None
        PROVE  Aged(buf).data = {}
    BY <1>2 DEF Aged, Old, Option, Buffer
  <1>3. Old({}) = {}
    BY DEF Old
  <1>4. CASE Wipe
    BY <1>1, <1>4 DEF Wipe, Unreached, Apart, BuffersOK
  <1>5. CASE Skip /\ Unreached
    BY <1>2, <1>3, <1>5 DEF Skip, Unreached, Apart, BuffersOK
  <1> QED BY <1>4, <1>5

\* Burn and reset keep sessions apart, if clients reset a burned connection before
\* they use it again: nothing of an earlier session is reached in the next, and a
\* burn that the flag skipped had nothing to zero and no packet to drop.
THEOREM SessionsStayApart == ASSUME ~UseBurned PROVE Spec => []SessionsApart
  <1>1. Init => SessionInv
    <2> SUFFICES ASSUME Init PROVE SessionInv
      OBVIOUS
    <2>1. Apart
      BY DEF Init, WithConfig, Apart
    <2>2. burned = FALSE /\ burn_returned = FALSE
      BY DEF Init, WithConfig
    <2> QED BY <2>1, <2>2, Zenon DEF SessionInv
  <1>2. IInv /\ SessionInv /\ [Next]_vars => SessionInv'
    <2> SUFFICES ASSUME IInv, SessionInv, [Next]_vars PROVE SessionInv'
      OBVIOUS
    <2>1. BuffersOK /\ Apart /\ burned = burn_returned /\ (burned => Unreached)
      BY DEF IInv, SessionInv
    <2>2. ASSUME Ready, Apart', burned' = burned PROVE SessionInv'
      <3>1. burned = FALSE /\ burn_returned = FALSE
        BY <2>1, <2>2 DEF Ready, BuffersOK
      <3>2. burn_returned' = FALSE
        BY <2>2 DEF Ready
      <3> QED BY <2>2, <3>1, <3>2, Zenon DEF SessionInv
    <2>3. CASE InitReadBuf
      <3>1. Apart'
        BY <2>1, <2>3 DEF InitReadBuf, Empty, Apart
      <3> QED BY <2>2, <2>3, <3>1 DEF InitReadBuf
    <2>4. CASE InitWriteBuf
      <3>1. Apart'
        BY <2>1, <2>4 DEF InitWriteBuf, Empty, Apart
      <3> QED BY <2>2, <2>4, <3>1 DEF InitWriteBuf
    <2>5. CASE AddStreamBuf
      <3>1. ASSUME NEW i \in DOMAIN stream_bufs' PROVE "burned" \notin stream_bufs'[i]
        BY <2>1, <2>5 DEF AddStreamBuf, BuffersOK, Apart
      <3>2. Apart'
        BY <2>1, <2>5, <3>1 DEF AddStreamBuf, Apart
      <3> QED BY <2>2, <2>5, <3>2 DEF AddStreamBuf
    <2>6. CASE Use
      <3>1. Apart'
        BY <2>1, <2>6, UseApart
      <3> QED BY <2>2, <2>6, <3>1 DEF Use
    <2>7. ASSUME UNCHANGED buffers PROVE Apart'
      BY <2>1, <2>7 DEF buffers, Apart
    <2>8. CASE (\E n \in Lengths : QueuePacket(n)) \/ DequeuePacket
      BY <2>2, <2>7, <2>8 DEF QueuePacket, DequeuePacket
    <2>9. CASE Reset
      BY <2>7, <2>9 DEF Reset, SessionInv
    <2>10. CASE Burn \/ BurnAndRelease
      <3>1. (Wipe /\ burned') \/ (Skip /\ Unreached /\ burned')
        BY <2>1, <2>10 DEF Burn, BurnAndRelease, BurnBuffers, Wipe, Skip
      <3>2. Unreached' /\ Apart'
        BY <2>1, <3>1, BurnUnreaches
      <3>3. burned' = TRUE /\ burn_returned' = TRUE
        BY <2>1, <2>10 DEF Burn, BurnAndRelease, BurnBuffers, Wipe, Skip, BuffersOK
      <3> QED BY <3>2, <3>3 DEF SessionInv
    <2>11. CASE UNCHANGED vars
      BY <2>1, <2>7, <2>11 DEF vars, buffers, SessionInv, Unreached
    <2> QED
      BY <2>3, <2>4, <2>5, <2>6, <2>8, <2>9, <2>10, <2>11 DEF Next
  <1>3. SessionInv => SessionsApart
    BY DEF SessionInv, Apart, Unreached, SessionsApart, Reachable
  <1> QED BY <1>1, <1>2, <1>3, Invariant, PTL DEF Spec
=============================================================================
