-------------------------- MODULE ContainerReader --------------------------
(***************************************************************************)
(* ContainerReaderImpl (container_reader_impl.cpp): a UDP socket that      *)
(* containers send statsd data to, the loop that receives it and the timer *)
(* that resets the input limit, with the writers and the UDP sender behind *)
(* it.  Callbacks run on the io thread, one at a time; the destructor runs *)
(* on any thread.                                                          *)
(***************************************************************************)
EXTENDS OutputWriters, FiniteSets

CONSTANTS
    Containers,
    Packets,              \* what containers send: sequences of entry sizes
    limit_amount_bytes,
    MaxPackets            \* bound: packets that are sent

ASSUME ReaderAssumption ==
    /\ Packets \subseteq Seq(Nat)
    /\ limit_amount_bytes \in Nat
    /\ MaxPackets \in Nat

VARIABLES
    registered_containers,
    queue,          \* packets in the socket
    arrivals,       \* packets so far
    reading,        \* a receive is under way (else the loop has ended)
    ticking,        \* limit_reset_timer is set
    received_bytes,
    shutdown,       \* "no", "requested" (the flag), "draining" (shutdown_cb) or "done"
    readFailed      \* history: a receive failed

readerVars == <<registered_containers, queue, arrivals, reading, ticking, received_bytes,
                shutdown, readFailed>>

vars == <<readerVars, writerVars, udpVars>>

TypeOK ==
    /\ UdpTypeOK
    /\ collector.count \in 0 .. SizeT - 1 /\ collector.map \in 0 .. datapoint_capacity
    /\ registered_containers \subseteq Containers
    /\ queue \in Seq(Packets)
    /\ arrivals \in 0 .. MaxPackets
    /\ reading \in BOOLEAN /\ ticking \in BOOLEAN /\ readFailed \in BOOLEAN
    /\ received_bytes \in Nat
    /\ shutdown \in {"no", "requested", "draining", "done"}

Init ==
    /\ UdpInit /\ WriterInit
    /\ registered_containers = {}
    /\ queue = <<>> /\ arrivals = 0
    /\ reading = TRUE /\ ticking = TRUE    \* open() has succeeded
    /\ received_bytes = 0
    /\ shutdown = "no"
    /\ readFailed = FALSE

\* The io thread is not busy with shutdown_cb.
Running == shutdown \in {"no", "requested"}

register_container(c) ==
    /\ shutdown = "no"
    /\ registered_containers' = registered_containers \cup {c}
    /\ UNCHANGED <<queue, arrivals, reading, ticking, received_bytes, shutdown,
                   readFailed, writerVars, udpVars>>

unregister_container(c) ==
    /\ shutdown = "no" /\ c \in registered_containers
    /\ registered_containers' = registered_containers \ {c}
    /\ UNCHANGED <<queue, arrivals, reading, ticking, received_bytes, shutdown,
                   readFailed, writerVars, udpVars>>

Arrive(packet) ==
    /\ shutdown # "done" /\ arrivals < MaxPackets
    /\ queue' = Append(queue, packet)
    /\ arrivals' = arrivals + 1
    /\ UNCHANGED <<registered_containers, reading, ticking, received_bytes, shutdown,
                   readFailed, writerVars, udpVars>>

\* write_message: the container is known if it is the only one.
Source ==
    IF Cardinality(registered_containers) = 1
    THEN CHOOSE c \in Containers : registered_containers = {c} ELSE Unknown

Entries(packet) == [i \in DOMAIN packet |-> [of |-> Source, size |-> packet[i]]]

\* Mutant: no receive follows one that was dropped.
RestartIfWritten == ~(received_bytes >= limit_amount_bytes)

\* The next receive, and the next wait of the timer, is started.
Restart == shutdown = "no"

\* recv_cb without an error: dropped if the limit is reached, else every line is an
\* entry.  During shutdown_cb no receive is started.
Received ==
    /\ queue # <<>>
    /\ queue' = Tail(queue)
    /\ IF received_bytes >= limit_amount_bytes THEN UNCHANGED <<writerVars, udpVars>>
       ELSE write_container_statsd(Entries(Head(queue)))
    /\ received_bytes' = received_bytes + Bytes(Head(queue))
    /\ reading' = Restart

recv_cb ==
    /\ Running /\ reading
    /\ Received
    /\ UNCHANGED <<registered_containers, arrivals, ticking, shutdown, readFailed>>

\* With any error, as `operation_aborted' is a constant that is not zero.
recv_cb_error ==
    /\ Running /\ reading
    /\ reading' = FALSE /\ readFailed' = TRUE
    /\ UNCHANGED <<registered_containers, queue, arrivals, ticking, received_bytes, shutdown,
                   writerVars, udpVars>>

\* The reader's own two metrics are written, and the count starts again.
limit_reset_cb ==
    /\ Running /\ ticking
    /\ received_bytes' = 0
    /\ ticking' = Restart
    /\ UNCHANGED <<registered_containers, queue, arrivals, reading, shutdown, readFailed>>
    /\ write_container_statsd(Entries(<<1, 1>>))

\* The destructor sets the flag and dispatches shutdown_cb, which drains the
\* socket and closes it.
Destroy ==
    /\ shutdown = "no"
    /\ shutdown' = "requested"
    /\ UNCHANGED <<registered_containers, queue, arrivals, reading, ticking, received_bytes,
                   readFailed, writerVars, udpVars>>

shutdown_cb ==
    /\ shutdown = "requested"
    /\ shutdown' = "draining" /\ reading' = FALSE /\ ticking' = FALSE
    /\ UNCHANGED <<registered_containers, queue, arrivals, received_bytes, readFailed,
                   writerVars, udpVars>>

Drain ==
    /\ shutdown = "draining"
    /\ Received
    /\ UNCHANGED <<registered_containers, arrivals, ticking, shutdown, readFailed>>

\* The socket is closed when it is empty, or when a receive fails.
Close ==
    /\ shutdown = "draining"
    /\ queue' = <<>> /\ shutdown' = "done"
    /\ readFailed' = (readFailed \/ queue # <<>>)
    /\ UNCHANGED <<registered_containers, arrivals, reading, ticking, received_bytes,
                   writerVars, udpVars>>

\* Timers of the writers and of the UDP sender.
Timers ==
    /\ \/ collector_flush_cb
       \/ statsd_flush_cb
       \/ \E result \in Lookups : dest_resolve_cb(result) /\ UNCHANGED writerVars
    /\ UNCHANGED readerVars

Next ==
    \/ \E c \in Containers : register_container(c) \/ unregister_container(c)
    \/ \E packet \in Packets : Arrive(packet)
    \/ recv_cb \/ recv_cb_error \/ limit_reset_cb
    \/ Destroy \/ shutdown_cb \/ Drain \/ Close
    \/ shutdown # "draining" /\ Timers

\* Receives complete, timers fire, and what was dispatched runs.
Spec ==
    /\ Init /\ [][Next]_vars
    /\ WF_vars(recv_cb)
    /\ WF_vars(limit_reset_cb)
    /\ WF_vars(shutdown_cb) /\ WF_vars(Drain \/ Close)
    /\ WF_vars(shutdown # "draining" /\ collector_flush_cb /\ UNCHANGED readerVars)

(***************************************************************************)
(* Properties.                                                             *)
(***************************************************************************)

\* Data does not get stuck on its way.  What waits in the socket is received, also
\* after packets that were dropped and while the reader is destroyed, unless a
\* receive fails: that ends the loop.  And datapoints leave the map of the collector
\* writer, whatever datapoint_count held at first: even if it made the timer pass
\* the first one over, the reader's own metrics make it go.
DataMovesOn ==
    /\ queue # <<>> ~> queue = <<>> \/ readFailed
    /\ collector.map > 0 ~> collector.map = 0 \/ shutdown = "done"
=============================================================================
