--------------------------- MODULE OutputWriters ---------------------------
(***************************************************************************)
(* The output writers of the Mesos module: CollectorOutputWriter collects  *)
(* datapoints in a map and hands them to the TCP sender as one block,      *)
(* StatsdOutputWriter packs tagged entries into a chunk, separated by      *)
(* newlines, and hands it to the UDP sender.  A chunk is sent when it is   *)
(* full, and by a timer.  Both run on the io thread.  Sizes are in units.  *)
(***************************************************************************)
EXTENDS Integers, Sequences, Sums, UdpSender

CONSTANTS
    chunking,              \* OUTPUT_*_CHUNKING
    datapoint_capacity,    \* OUTPUT_COLLECTOR_CHUNK_SIZE_DATAPOINTS
    SizeT,                 \* the modulus of size_t
    chunk_capacity,        \* get_chunk_size()
    UDP_MAX_PACKET_BYTES

ASSUME WriterAssumption ==
    /\ chunking \in BOOLEAN
    /\ SizeT \in Nat /\ UDP_MAX_PACKET_BYTES \in Nat
    /\ datapoint_capacity \in 1 .. SizeT - 1
    /\ chunk_capacity \in 1 .. UDP_MAX_PACKET_BYTES

VARIABLES
    collector,    \* [count: datapoint_count, map: datapoints in container_map]
    statsd        \* [buffer: sizes of the entries in output_buffer, used: chunk_used]

writerVars == <<collector, statsd>>

EmptyChunk == [buffer |-> <<>>, used |-> 0]

\* The constructor of CollectorOutputWriter leaves datapoint_count as it is.
WriterInit ==
    /\ collector \in [count : 0 .. SizeT - 1, map : {0}]
    /\ statsd = EmptyChunk

Unknown == "unknown_container"

(***************************************************************************)
(* CollectorOutputWriter.                                                  *)
(***************************************************************************)
Flushed == [count |-> 0, map |-> 0]

\* An entry adds one datapoint (statsd_to_map).
collector_write(c, entry) ==
    LET count == (c.count + 1) % SizeT
    IN  IF ~chunking \/ count >= datapoint_capacity THEN Flushed
        ELSE [count |-> count, map |-> c.map + 1]

FlushIfAny(c) == IF c.count > 0 THEN Flushed ELSE c

collector_flush_cb ==
    /\ chunking
    /\ collector' = FlushIfAny(collector)
    /\ UNCHANGED <<statsd, udpVars>>

(***************************************************************************)
(* StatsdOutputWriter.                                                     *)
(***************************************************************************)

\* calculate_size: ids are added to an entry, or that they are unknown.
calculate_size(entry) == entry.size + (IF entry.of = Unknown THEN 1 ELSE 2)

\* Mutant: the newline is not counted.
FitsWithoutNewline(s, needed) == needed < chunk_capacity - s.used

\* Whether an entry and its newline fit behind the others.
Fits(s, needed) == needed + 1 < chunk_capacity - s.used

\* Entries with newlines between them.
Bytes(sizes) == SumOf(sizes) + (IF sizes = <<>> THEN 0 ELSE Len(sizes) - 1)

\* An entry at the start of the buffer: a new chunk, or sent alone if it is too big
\* for one.
Start(needed) ==
    IF needed < chunk_capacity THEN [buffer |-> <<needed>>, used |-> needed] ELSE EmptyChunk

\* An entry that is too big for UDP once it is tagged is sent at once and untagged;
\* so is, tagged, every entry if chunking is off.  An entry that does not fit behind
\* the others makes these go.
statsd_write(s, entry) ==
    LET needed == calculate_size(entry)
    IN  IF needed > UDP_MAX_PACKET_BYTES \/ ~chunking THEN s
        ELSE IF s.used = 0 \/ ~Fits(s, needed) THEN Start(needed)
        ELSE [buffer |-> Append(s.buffer, needed), used |-> s.used + 1 + needed]

statsd_flush_cb ==
    /\ chunking
    /\ statsd' = EmptyChunk
    /\ UNCHANGED <<collector, udpVars>>

\* Both writers get all entries, one after the other.
write_container_statsd(entries) ==
    LET map[i \in 0 .. Len(entries)] ==
            IF i = 0 THEN collector ELSE collector_write(map[i - 1], entries[i])
        chunk[i \in 0 .. Len(entries)] ==
            IF i = 0 THEN statsd ELSE statsd_write(chunk[i - 1], entries[i])
    IN  /\ collector' = map[Len(entries)]
        /\ statsd' = chunk[Len(entries)]
        /\ UNCHANGED udpVars

(***************************************************************************)
(* Properties.                                                             *)
(***************************************************************************)

\* The arithmetic of the chunk: chunk_used counts the entries and the newlines
\* between them, the capacity is never passed (so its unsigned difference does not
\* wrap and the buffer is not overrun).
ChunkSound ==
    /\ statsd.used = Bytes(statsd.buffer)
    /\ statsd.used < chunk_capacity
=============================================================================
