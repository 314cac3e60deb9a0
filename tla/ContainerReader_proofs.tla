----------------------- MODULE ContainerReader_proofs -----------------------
(***************************************************************************)
(* Proofs about a container reader with its output writers and the UDP     *)
(* sender, for packets of any number of entries of any sizes, any limits   *)
(* and capacities, and any results of lookups.                             *)
(***************************************************************************)
EXTENDS ContainerReader, Iteration

(***************************************************************************)
(* The invariants.                                                         *)
(***************************************************************************)

\* A chunk of StatsdOutputWriter as its arithmetic wants it.
Chunks ==
    {s \in [buffer : Seq(Nat), used : Nat] : s.used = Bytes(s.buffer) /\ s.used < chunk_capacity}

\* A state of CollectorOutputWriter.  The count that the constructor leaves to chance
\* may wrap to 0 once: then it is one behind the map until the next flush.
Maps ==
    {c \in [count : 0 .. SizeT - 1, map : Nat] :
        c.map <= c.count + 1 /\ (c.map > 0 => c.count < datapoint_capacity)}

WritersInv == statsd \in Chunks /\ collector \in Maps

\* The destination.  A host that is an address resolves to nothing else, and an
\* open() that failed has left no socket.
SocketInv ==
    /\ send_host # {} => last_resolved_addresses \in {{}, send_host}
    /\ openFailed => ~is_open
    /\ SocketFollowsLookups

\* What is neither in the writers nor in the UDP sender.
CourseInv ==
    /\ registered_containers \subseteq Containers
    /\ queue \in Seq(Packets)
    /\ arrivals \in 0 .. MaxPackets
    /\ reading \in BOOLEAN /\ ticking \in BOOLEAN /\ readFailed \in BOOLEAN
    /\ received_bytes \in Nat
    /\ shutdown \in {"no", "requested", "draining", "done"}

(***************************************************************************)
(* The writers.                                                            *)
(***************************************************************************)

IsEntry(e) == e.size \in Nat

\* A tagged entry is not empty.
LEMMA NeededNat ==
  ASSUME NEW e, IsEntry(e)
  PROVE  calculate_size(e) \in Nat \ {0}
BY DEF IsEntry, calculate_size

\* The size of one entry alone, and of one more behind others.
LEMMA BytesGrow ==
  ASSUME NEW b \in Seq(Nat), NEW x \in Nat
  PROVE  /\ Bytes(b) \in Nat
         /\ Bytes(<<>>) = 0
         /\ Bytes(<<x>>) = x
         /\ b # <<>> => Bytes(Append(b, x)) = Bytes(b) + 1 + x
<1>1. /\ <<x>> \in Seq(Nat) /\ <<x>> # <<>> /\ Len(<<x>>) = 1
      /\ Append(b, x) = b \o <<x>> /\ Append(b, x) # <<>>
      /\ Len(Append(b, x)) = Len(b) + 1 /\ Len(b) \in Nat
      /\ b # <<>> => Len(b) > 0
  OBVIOUS
<1>2. /\ SumOf(<<x>>) = x /\ SumOf(b) \in Nat /\ SumOf(<<>>) = 0
      /\ SumOf(b \o <<x>>) = SumOf(b) + x
  BY <1>1, SumOne, SumEmpty, SumJoined
<1>3. Bytes(b) \in Nat
  BY <1>1, <1>2 DEF Bytes
<1>4. Bytes(<<>>) = 0
  BY <1>2 DEF Bytes
<1>5. Bytes(<<x>>) = x
  BY <1>1, <1>2 DEF Bytes
<1>6. ASSUME b # <<>> PROVE Bytes(Append(b, x)) = Bytes(b) + 1 + x
  <2>1. Bytes(b) = SumOf(b) + (Len(b) - 1)
    BY <1>6 DEF Bytes
  <2>2. Bytes(Append(b, x)) = SumOf(b) + x + (Len(b) + 1 - 1)
    BY <1>1, <1>2 DEF Bytes
  <2> QED
    BY <1>1, <1>2, <2>1, <2>2
<1> QED
  BY <1>3, <1>4, <1>5, <1>6

\* An empty chunk is sound.
LEMMA EmptySound == EmptyChunk \in Chunks
<1>1. chunk_capacity > 0
  BY WriterAssumption
<1>2. Bytes(<<>>) = 0
  BY <<>> \in Seq(Nat), 0 \in Nat, BytesGrow
<1> QED
  BY <1>1, <1>2 DEF EmptyChunk, Chunks

\* One entry keeps the chunk sound, whatever its size.
LEMMA ChunkKept ==
  ASSUME NEW s \in Chunks, NEW e, IsEntry(e)
  PROVE  statsd_write(s, e) \in Chunks
<1> DEFINE n == calculate_size(e)
<1>1. n \in Nat \ {0}
  BY NeededNat
<1>2. s.buffer \in Seq(Nat) /\ s.used \in Nat /\ s.used = Bytes(s.buffer)
  BY DEF Chunks
<1> HIDE DEF n
<1>3. CASE n > UDP_MAX_PACKET_BYTES \/ ~chunking
  BY <1>3 DEF statsd_write, n
<1>4. CASE ~(n > UDP_MAX_PACKET_BYTES \/ ~chunking) /\ (s.used = 0 \/ ~Fits(s, n))
  <2>1. statsd_write(s, e) = Start(n)
    BY <1>4 DEF statsd_write, n
  <2>2. CASE n < chunk_capacity
    <3>1. Bytes(<<n>>) = n
      BY <1>1, <1>2, BytesGrow
    <3>2. Start(n) = [buffer |-> <<n>>, used |-> n]
      BY <2>2 DEF Start
    <3> QED
      BY <1>1, <2>1, <2>2, <3>1, <3>2 DEF Chunks
  <2>3. CASE ~(n < chunk_capacity)
    BY <2>1, <2>3, EmptySound DEF Start
  <2> QED
    BY <2>2, <2>3
<1>5. CASE ~(n > UDP_MAX_PACKET_BYTES \/ ~chunking) /\ s.used # 0 /\ Fits(s, n)
  <2> DEFINE t == [buffer |-> Append(s.buffer, n), used |-> s.used + 1 + n]
  <2>1. statsd_write(s, e) = t
    BY <1>5 DEF statsd_write, n
  <2>2. s.buffer # <<>>
    BY <1>1, <1>2, <1>5, BytesGrow
  <2>3. Bytes(t.buffer) = t.used
    BY <1>1, <1>2, <2>2, BytesGrow
  <2>4. t.used < chunk_capacity
    BY <1>1, <1>2, <1>5, WriterAssumption DEF Fits
  <2>5. t \in [buffer : Seq(Nat), used : Nat]
    BY <1>1, <1>2
  <2> HIDE DEF t
  <2> QED
    BY <2>1, <2>3, <2>4, <2>5 DEF Chunks
<1> QED
  BY <1>3, <1>4, <1>5

\* One entry keeps the count at least as far as the map, but for one.
LEMMA MapKept ==
  ASSUME NEW c \in Maps, NEW e
  PROVE  collector_write(c, e) \in Maps
<1> DEFINE n == (c.count + 1) % SizeT
<1>1. /\ SizeT \in Nat /\ SizeT > 1 /\ datapoint_capacity \in Nat
      /\ datapoint_capacity > 0 /\ datapoint_capacity < SizeT
  BY WriterAssumption
<1>2. /\ c.count \in 0 .. SizeT - 1 /\ c.map \in Nat /\ c.map <= c.count + 1
      /\ c.map > 0 => c.count < datapoint_capacity
  BY DEF Maps
<1>3. /\ c.count + 1 < SizeT => n = c.count + 1
      /\ c.count + 1 = SizeT => n = 0
  BY <1>1, <1>2
<1>4. n \in 0 .. SizeT - 1
  BY <1>1, <1>2, <1>3
<1>5. Flushed \in Maps
  BY <1>1 DEF Flushed, Maps
<1>6. CASE ~chunking \/ n >= datapoint_capacity
  BY <1>5, <1>6 DEF collector_write
<1>7. CASE chunking /\ n < datapoint_capacity
  <2> DEFINE d == [count |-> n, map |-> c.map + 1]
  <2> HIDE DEF n
  <2>1. collector_write(c, e) = d
    BY <1>1, <1>4, <1>7 DEF collector_write, n
  <2>2. c.map + 1 <= n + 1
    <3>1. CASE c.count + 1 < SizeT
      BY <1>1, <1>2, <1>3, <3>1
    <3>2. CASE c.count + 1 = SizeT
      BY <1>1, <1>2, <1>3, <3>2
    <3> QED
      BY <1>1, <1>2, <3>1, <3>2
  <2>3. d \in [count : 0 .. SizeT - 1, map : Nat]
    BY <1>2, <1>4
  <2> QED
    BY <1>7, <2>1, <2>2, <2>3 DEF Maps
<1> QED
  BY <1>1, <1>4, <1>6, <1>7

\* A loop over all entries keeps the chunk sound.
LEMMA ChunkLoop ==
  ASSUME NEW entries, Len(entries) \in Nat, NEW base \in Chunks,
         \A i \in 1 .. Len(entries) : IsEntry(entries[i])
  PROVE  LET chunk[i \in 0 .. Len(entries)] ==
                 IF i = 0 THEN base ELSE statsd_write(chunk[i - 1], entries[i])
         IN  chunk[Len(entries)] \in Chunks
<1> DEFINE n == Len(entries)
           turn == [i \in 1 .. n |-> [s \in Chunks |-> statsd_write(s, entries[i])]]
           chunk[i \in 0 .. n] == IF i = 0 THEN base ELSE statsd_write(chunk[i - 1], entries[i])
<1>1. n \in Nat /\ \A i \in 1 .. n : \A s \in Chunks : statsd_write(s, entries[i]) \in Chunks
  BY ChunkKept
<1>2. turn \in Turns(n, Chunks)
  BY <1>1 DEF Turns
<1> SUFFICES chunk[n] \in Chunks
  OBVIOUS
<1> HIDE DEF n
<1>3. PICK f \in [0 .. n -> Chunks] : f[0] = base /\ \A i \in 1 .. n : f[i] = turn[i][f[i - 1]]
  <2> HIDE DEF turn
  <2>1. Accumulators(n, Chunks, base, turn) # {}
    BY <1>1, <1>2, LoopExists
  <2> QED
    BY <2>1 DEF Accumulators
<1>4. ASSUME NEW i \in 0 .. n, i # 0
      PROVE  f[i] = statsd_write(f[i - 1], entries[i])
  <2>1. i \in 1 .. n /\ i - 1 \in 0 .. n /\ f[i - 1] \in Chunks
    BY <1>1, <1>4
  <2> QED
    BY <1>3, <2>1
<1>5. f = [i \in 0 .. n |-> IF i = 0 THEN base ELSE statsd_write(f[i - 1], entries[i])]
  BY <1>3, <1>4, Zenon
<1>6. chunk = [i \in 0 .. n |-> IF i = 0 THEN base ELSE statsd_write(chunk[i - 1], entries[i])]
  BY <1>5
<1> HIDE DEF chunk
<1>7. chunk[0] \in Chunks
  BY <1>1, <1>6
<1>8. ASSUME NEW i \in 1 .. n, chunk[i - 1] \in Chunks
      PROVE  chunk[i] \in Chunks
  <2>1. i \in 0 .. n /\ i # 0
    BY <1>1
  <2>2. chunk[i] = statsd_write(chunk[i - 1], entries[i])
    BY <1>6, <2>1, Zenon
  <2> QED
    BY <1>1, <1>8, <2>2
<1>9. \A i \in 0 .. n : chunk[i] \in Chunks
  BY <1>1, <1>7, <1>8, LoopInvariant
<1> QED
  BY <1>1, <1>9

\* A loop over all entries keeps the count and the map of the collector writer in step.
LEMMA MapLoop ==
  ASSUME NEW entries, Len(entries) \in Nat, NEW base \in Maps,
         \A i \in 1 .. Len(entries) : IsEntry(entries[i])
  PROVE  LET map[i \in 0 .. Len(entries)] ==
                 IF i = 0 THEN base ELSE collector_write(map[i - 1], entries[i])
         IN  map[Len(entries)] \in Maps
<1> DEFINE n == Len(entries)
           turn == [i \in 1 .. n |-> [s \in Maps |-> collector_write(s, entries[i])]]
           map[i \in 0 .. n] == IF i = 0 THEN base ELSE collector_write(map[i - 1], entries[i])
<1>1. n \in Nat /\ \A i \in 1 .. n : \A s \in Maps : collector_write(s, entries[i]) \in Maps
  BY MapKept
<1>2. turn \in Turns(n, Maps)
  BY <1>1 DEF Turns
<1> SUFFICES map[n] \in Maps
  OBVIOUS
<1> HIDE DEF n
<1>3. PICK f \in [0 .. n -> Maps] : f[0] = base /\ \A i \in 1 .. n : f[i] = turn[i][f[i - 1]]
  <2> HIDE DEF turn
  <2>1. Accumulators(n, Maps, base, turn) # {}
    BY <1>1, <1>2, LoopExists
  <2> QED
    BY <2>1 DEF Accumulators
<1>4. ASSUME NEW i \in 0 .. n, i # 0
      PROVE  f[i] = collector_write(f[i - 1], entries[i])
  <2>1. i \in 1 .. n /\ i - 1 \in 0 .. n /\ f[i - 1] \in Maps
    BY <1>1, <1>4
  <2> QED
    BY <1>3, <2>1
<1>5. f = [i \in 0 .. n |-> IF i = 0 THEN base ELSE collector_write(f[i - 1], entries[i])]
  BY <1>3, <1>4, Zenon
<1>6. map = [i \in 0 .. n |-> IF i = 0 THEN base ELSE collector_write(map[i - 1], entries[i])]
  BY <1>5
<1> HIDE DEF map
<1>7. map[0] \in Maps
  BY <1>1, <1>6
<1>8. ASSUME NEW i \in 1 .. n, map[i - 1] \in Maps
      PROVE  map[i] \in Maps
  <2>1. i \in 0 .. n /\ i # 0
    BY <1>1
  <2>2. map[i] = collector_write(map[i - 1], entries[i])
    BY <1>6, <2>1, Zenon
  <2> QED
    BY <1>1, <1>8, <2>2
<1>9. \A i \in 0 .. n : map[i] \in Maps
  BY <1>1, <1>7, <1>8, LoopInvariant
<1> QED
  BY <1>1, <1>9

\* What a packet leaves in the writers.
LEMMA WritersKept ==
  ASSUME WritersInv, NEW entries, Len(entries) \in Nat,
         \A i \in 1 .. Len(entries) : IsEntry(entries[i]), write_container_statsd(entries)
  PROVE  WritersInv' /\ UNCHANGED udpVars
<1>1. statsd' \in Chunks
  BY ChunkLoop DEF WritersInv, write_container_statsd
<1>2. collector' \in Maps
  BY MapLoop DEF WritersInv, write_container_statsd
<1>3. Chunks' = Chunks /\ Maps' = Maps
  BY DEF Chunks, Maps
<1> QED
  BY <1>1, <1>2, <1>3 DEF WritersInv, write_container_statsd

\* The entries of a packet have sizes, whoever it is from.
LEMMA EntriesTyped ==
  ASSUME NEW packet \in Seq(Nat)
  PROVE  /\ Len(Entries(packet)) \in Nat
         /\ \A i \in 1 .. Len(Entries(packet)) : IsEntry(Entries(packet)[i])
<1>1. DOMAIN packet = 1 .. Len(packet) /\ Len(packet) \in Nat
      /\ \A i \in 1 .. Len(packet) : packet[i] \in Nat
  OBVIOUS
<1> DEFINE es == [i \in 1 .. Len(packet) |-> [of |-> Source, size |-> packet[i]]]
<1>2. Entries(packet) = es
  BY <1>1 DEF Entries
<1>3. es \in Seq([of : {Source}, size : Nat]) /\ Len(es) = Len(packet)
  BY <1>1
<1>4. \A i \in 1 .. Len(packet) : es[i].size = packet[i]
  OBVIOUS
<1> QED
  BY <1>1, <1>2, <1>3, <1>4 DEF IsEntry

\* A packet that was received is dropped or written.
LEMMA ReceivedKept ==
  ASSUME WritersInv, CourseInv, Received
  PROVE  /\ WritersInv' /\ UNCHANGED udpVars
         /\ queue' \in Seq(Packets) /\ received_bytes' \in Nat /\ reading' \in BOOLEAN
<1>1. /\ queue \in Seq(Packets) /\ queue # <<>> /\ Head(queue) \in Packets
      /\ Head(queue) \in Seq(Nat)
  BY ReaderAssumption DEF CourseInv, Received
<1>2. queue' \in Seq(Packets)
  BY <1>1 DEF Received
<1>3. received_bytes' \in Nat
  <2>1. Bytes(Head(queue)) \in Nat
    BY <1>1, BytesGrow, 0 \in Nat
  <2> QED
    BY <2>1 DEF Received, CourseInv
<1>4. reading' \in BOOLEAN
  BY DEF Received, Restart
<1>5. CASE received_bytes >= limit_amount_bytes
  <2>1. UNCHANGED <<writerVars, udpVars>>
    BY <1>5 DEF Received
  <2> QED
    BY <1>2, <1>3, <1>4, <2>1 DEF WritersInv, writerVars, Chunks, Maps
<1>6. CASE ~(received_bytes >= limit_amount_bytes)
  <2>1. write_container_statsd(Entries(Head(queue)))
    BY <1>6 DEF Received
  <2>2. WritersInv' /\ UNCHANGED udpVars
    BY <1>1, <2>1, EntriesTyped, WritersKept
  <2> QED
    BY <1>2, <1>3, <1>4, <2>2
<1> QED
  BY <1>5, <1>6

(***************************************************************************)
(* The UDP sender.                                                         *)
(***************************************************************************)

\* A lookup, whatever its result, leaves the socket at an address of the latest list.
LEMMA LookupFollows ==
  ASSUME SocketInv, UdpTypeOK, NEW result \in Lookups, dest_resolve_cb(result)
  PROVE  SocketInv' /\ UdpTypeOK'
<1>1. CASE UNCHANGED udpVars
  BY <1>1 DEF SocketInv, UdpTypeOK, SocketFollowsLookups, udpVars
<1>2. ASSUME result = {}, send_host # {}, choose_entry(send_host),
             UNCHANGED <<last_resolved_addresses, send_host>>
      PROVE  SocketInv' /\ UdpTypeOK'
  <2>1. PICK a \in send_host : move(a)
    BY <1>2 DEF choose_entry
  <2>2. a \in UNION (Lookups \cup Literals)
    BY <2>1 DEF UdpTypeOK
  <2>3. SocketInv'
    BY <1>2, <2>1 DEF move, SocketInv, SocketFollowsLookups
  <2>4. UdpTypeOK'
    <3>1. is_open' \in BOOLEAN /\ openFailed' \in BOOLEAN
      BY <2>1 DEF move, UdpTypeOK
    <3>2. current_endpoint' \in {current_endpoint, a}
      BY <2>1 DEF move
    <3> QED
      BY <1>2, <2>2, <3>1, <3>2 DEF UdpTypeOK
  <2> QED
    BY <2>3, <2>4
<1>3. ASSUME result \notin {{}, last_resolved_addresses}, last_resolved_addresses' = result,
             choose_entry(result), send_host' = send_host,
             send_host # {} => result \in {{}, send_host}
      PROVE  SocketInv' /\ UdpTypeOK'
  <2>1. PICK a \in result : move(a)
    BY <1>3 DEF choose_entry
  <2>2. a \in UNION (Lookups \cup Literals)
    BY <2>1
  <2>3. SocketInv'
    BY <1>3, <2>1 DEF move, SocketInv, SocketFollowsLookups
  <2>4. UdpTypeOK'
    BY <1>3, <2>1, <2>2 DEF move, UdpTypeOK
  <2> QED
    BY <2>3, <2>4
<1> QED
  BY <1>1, <1>2, <1>3 DEF dest_resolve_cb, udpVars

(***************************************************************************)
(* The reader.                                                             *)
(***************************************************************************)
ReaderInv == WritersInv /\ SocketInv /\ UdpTypeOK /\ CourseInv

\* What callbacks that leave the UDP sender alone have to keep.
LEMMA SocketUntouched ==
  ASSUME SocketInv, UdpTypeOK, UNCHANGED udpVars
  PROVE  SocketInv' /\ UdpTypeOK'
BY DEF SocketInv, UdpTypeOK, SocketFollowsLookups, udpVars

\* What callbacks that leave the writers alone have to keep.
LEMMA WritersUntouched ==
  ASSUME WritersInv, UNCHANGED writerVars
  PROVE  WritersInv'
BY DEF WritersInv, writerVars, Chunks, Maps

\* Every callback, and whatever happens beside them, keeps the invariant.
LEMMA ReaderStep ==
  ASSUME ReaderInv, [Next]_vars
  PROVE  ReaderInv'
<1> USE DEF ReaderInv
<1>1. CASE \E c \in Containers : register_container(c) \/ unregister_container(c)
  <2>1. UNCHANGED udpVars /\ UNCHANGED writerVars /\ CourseInv'
    BY <1>1 DEF register_container, unregister_container, CourseInv
  <2> QED
    BY <2>1, SocketUntouched, WritersUntouched
<1>2. CASE \E packet \in Packets : Arrive(packet)
  <2>1. UNCHANGED udpVars /\ UNCHANGED writerVars /\ CourseInv'
    BY <1>2, ReaderAssumption DEF Arrive, CourseInv
  <2> QED
    BY <2>1, SocketUntouched, WritersUntouched
<1>3. CASE recv_cb \/ Drain
  <2>1. WritersInv' /\ UNCHANGED udpVars
    BY <1>3, ReceivedKept DEF recv_cb, Drain
  <2>2. CourseInv'
    <3>1. queue' \in Seq(Packets) /\ received_bytes' \in Nat /\ reading' \in BOOLEAN
      BY <1>3, ReceivedKept DEF recv_cb, Drain
    <3> QED
      BY <1>3, <3>1 DEF recv_cb, Drain, CourseInv
  <2> QED
    BY <2>1, <2>2, SocketUntouched
<1>4. CASE recv_cb_error \/ Destroy \/ shutdown_cb \/ Close
  <2>1. UNCHANGED udpVars /\ UNCHANGED writerVars
    BY <1>4 DEF recv_cb_error, Destroy, shutdown_cb, Close
  <2>2. CASE recv_cb_error \/ Destroy \/ shutdown_cb
    BY <2>1, <2>2, SocketUntouched, WritersUntouched
       DEF recv_cb_error, Destroy, shutdown_cb, CourseInv
  <2>3. CASE Close
    <3>1. queue' \in Seq(Packets)
      BY <2>3 DEF Close
    <3>2. readFailed' \in BOOLEAN
      BY <2>3 DEF Close, CourseInv
    <3>3. CourseInv'
      BY <2>3, <3>1, <3>2 DEF Close, CourseInv
    <3> QED
      BY <2>1, <3>3, SocketUntouched, WritersUntouched
  <2> QED
    BY <1>4, <2>2, <2>3
<1>5. CASE limit_reset_cb
  <2>1. <<1, 1>> \in Seq(Nat)
    OBVIOUS
  <2>2. WritersInv' /\ UNCHANGED udpVars
    BY <1>5, <2>1, EntriesTyped, WritersKept DEF limit_reset_cb
  <2>3. CourseInv'
    BY <1>5 DEF limit_reset_cb, Restart, CourseInv
  <2> QED
    BY <2>2, <2>3, SocketUntouched
<1>6. CASE Timers
  <2>1. CourseInv'
    BY <1>6 DEF Timers, readerVars, CourseInv
  <2>2. CASE collector_flush_cb
    <3>1. collector' \in Maps
      BY <2>2, WriterAssumption DEF collector_flush_cb, FlushIfAny, Flushed, Maps, WritersInv
    <3>2. UNCHANGED udpVars /\ statsd' = statsd
      BY <2>2 DEF collector_flush_cb
    <3>3. WritersInv'
      BY <3>1, <3>2 DEF WritersInv, Chunks, Maps
    <3> QED
      BY <2>1, <3>2, <3>3, SocketUntouched
  <2>3. CASE statsd_flush_cb
    <3>1. UNCHANGED udpVars /\ collector' = collector /\ statsd' = EmptyChunk
      BY <2>3 DEF statsd_flush_cb
    <3>2. WritersInv'
      BY <3>1, EmptySound DEF WritersInv, Chunks, Maps
    <3> QED
      BY <2>1, <3>1, <3>2, SocketUntouched
  <2>4. CASE \E result \in Lookups : dest_resolve_cb(result) /\ UNCHANGED writerVars
    BY <2>1, <2>4, LookupFollows, WritersUntouched
  <2> QED
    BY <1>6, <2>2, <2>3, <2>4 DEF Timers
<1>7. CASE UNCHANGED vars
  <2>1. UNCHANGED udpVars /\ UNCHANGED writerVars /\ CourseInv'
    BY <1>7 DEF vars, readerVars, CourseInv
  <2> QED
    BY <2>1, SocketUntouched, WritersUntouched
<1> QED
  BY <1>1, <1>2, <1>3, <1>4, <1>5, <1>6, <1>7 DEF Next

\* The invariant holds in every reachable state.
LEMMA ReaderInvariance == Spec => []ReaderInv
<1>1. Init => ReaderInv
  <2> SUFFICES ASSUME Init PROVE ReaderInv
    OBVIOUS
  <2>1. WritersInv
    <3>1. statsd \in Chunks
      BY EmptySound DEF Init, WriterInit
    <3>2. collector \in [count : 0 .. SizeT - 1, map : {0}]
      BY DEF Init, WriterInit
    <3>3. collector \in Maps
      BY <3>2, WriterAssumption DEF Maps
    <3> QED
      BY <3>1, <3>3 DEF WritersInv
  <2>2. /\ send_host \in Literals /\ is_open = FALSE /\ openFailed = FALSE
        /\ last_resolved_addresses = {} /\ current_endpoint = "none"
    BY DEF Init, UdpInit
  <2>3. SocketInv
    BY <2>2 DEF SocketInv, SocketFollowsLookups
  <2>4. UdpTypeOK
    BY <2>2 DEF UdpTypeOK
  <2>5. CourseInv
    <3>1. /\ registered_containers = {} /\ queue = <<>> /\ arrivals = 0
          /\ received_bytes = 0 /\ shutdown = "no"
      BY DEF Init
    <3>2. reading \in BOOLEAN /\ ticking \in BOOLEAN /\ readFailed \in BOOLEAN
      BY DEF Init
    <3>3. queue \in Seq(Packets) /\ arrivals \in 0 .. MaxPackets
      BY <3>1, ReaderAssumption
    <3> QED
      BY <3>1, <3>2, <3>3 DEF CourseInv
  <2> QED
    BY <2>1, <2>3, <2>4, <2>5 DEF ReaderInv
<1> QED
  BY <1>1, ReaderStep, PTL DEF Spec

\* Every variable keeps its type; the map of CollectorOutputWriter never holds more
\* datapoints than its capacity, whatever the count that is not initialised starts at.
THEOREM MapBounded == Spec => []TypeOK
<1>1. ReaderInv => TypeOK
  <2> SUFFICES ASSUME ReaderInv PROVE TypeOK
    OBVIOUS
  <2>1. collector.count \in 0 .. SizeT - 1 /\ collector.map \in 0 .. datapoint_capacity
    BY WriterAssumption DEF ReaderInv, WritersInv, Maps
  <2> QED
    BY <2>1 DEF ReaderInv, CourseInv, TypeOK
<1> QED
  BY <1>1, ReaderInvariance, PTL

\* chunk_used is the size of what is in the buffer, and stays below the capacity, for
\* entries of any sizes: the unsigned difference never wraps.
THEOREM ChunkAlwaysSound == Spec => []ChunkSound
<1>1. ReaderInv => ChunkSound
  BY DEF ReaderInv, WritersInv, Chunks, ChunkSound
<1> QED
  BY <1>1, ReaderInvariance, PTL

\* Data goes to an address of the latest lookup that had a result, whatever lookups
\* give, and nowhere after an open() that failed.
THEOREM SocketAlwaysFollows == Spec => []SocketFollowsLookups
<1>1. ReaderInv => SocketFollowsLookups
  BY DEF ReaderInv, SocketInv
<1> QED
  BY <1>1, ReaderInvariance, PTL
=============================================================================
