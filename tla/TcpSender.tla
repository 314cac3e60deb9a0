----------------------------- MODULE TcpSender ------------------------------
(***************************************************************************)
(* MetricsTCPSender (mesos_module/metrics_tcp_sender.cpp): the connection  *)
(* of the Mesos module to the metrics collector.                           *)
(*                                                                         *)
(* All of its code but the destructor runs on the io_service thread, as    *)
(* completion handlers.  An asynchronous operation is outstanding (a timer *)
(* wait, a connect, a write) until it completes; its handler is then put   *)
(* into the ready queue and runs when its turn comes.  What asio and the   *)
(* network do is modelled from how the sender uses them:                   *)
(*   - re-arming a timer cancels its wait, and the cancelled handler runs, *)
(*     too: the handlers of the two timers do not look at the error code;  *)
(*   - closing the socket completes every operation on it with an error;   *)
(*   - async_write transfers its buffer in as many pieces as the socket    *)
(*     takes, and queues behind other writes again for each further piece. *)
(***************************************************************************)
EXTENDS Naturals, Sequences, FiniteSets, Sums

CONSTANTS
    HeaderSize,         \* session_header.size()
    BlockSizes,         \* sizes of the buffers passed to send()
    PendingLimit,       \* pending_limit
    MaxReconnectDelay,  \* MAX_RECONNECT_DELAY
    MaxSends,           \* bound: send() calls
    MaxFaults           \* bound: refused, reset and timed-out connections

ASSUME SenderAssumption ==
    /\ HeaderSize \in Nat \ {0}
    /\ BlockSizes \subseteq Nat \ {0}
    /\ PendingLimit \in Nat
    /\ MaxReconnectDelay \in Nat \ {0}
    /\ MaxSends \in Nat /\ MaxFaults \in Nat

Header == 0              \* the id of a header among the written buffers

States == {"NOT_STARTED", "DISCONNECTED", "CONNECT_PENDING", "CONNECT_IN_PROGRESS",
           "CONNECTED_DATA_NOT_READY", "CONNECTED_DATA_READY", "SHUTDOWN"}

VARIABLES
    socket_state,
    reconnect_delay,
    pending_bytes,
    open,          \* socket.is_open()
    link,          \* the TCP connection: "none", "up" or "broken"
    connecting,    \* an async_connect is outstanding
    retry,         \* connect_retry_timer has a wait
    deadline,      \* connect_deadline_timer has a wait
    expired,       \* connect_deadline_timer.expires_at() has passed
    writes,        \* outstanding async_writes, in the order they get the socket
    ready,         \* completed operations whose handlers are to run
    stream,        \* what went out on the current connection, by buffer id
    dying,         \* the destructor has been entered
    sends,         \* number of send() calls
    faults         \* number of network faults

sendVars == <<writes, stream, dying, sends>>
vars == <<socket_state, reconnect_delay, pending_bytes, open, link, connecting,
          retry, deadline, expired, writes, ready, stream, dying, sends, faults>>

Write == [id : Nat, size : Nat, left : Nat]

Handler == [op : {"start_connect", "connect_deadline", "shutdown"}]
               \cup [op : {"connect_outcome"}, ec : BOOLEAN]
               \cup [op : {"write_more"}, write : Write]
               \cup [op : {"send_cb"}, ec : BOOLEAN, write : Write]

StartConnectHandler == [op |-> "start_connect"]
DeadlineHandler == [op |-> "connect_deadline"]
OutcomeHandler(ec) == [op |-> "connect_outcome", ec |-> ec]
MoreHandler(w) == [op |-> "write_more", write |-> w]
SendHandler(w, ec) == [op |-> "send_cb", ec |-> ec, write |-> w]

TypeOK ==
    /\ socket_state \in States
    /\ reconnect_delay \in 1 .. MaxReconnectDelay
    /\ pending_bytes \in Nat
    /\ open \in BOOLEAN
    /\ link \in {"none", "up", "broken"}
    /\ connecting \in BOOLEAN
    /\ retry \in BOOLEAN
    /\ deadline \in BOOLEAN
    /\ expired \in BOOLEAN
    /\ writes \in Seq(Write)
    /\ ready \in Seq(Handler)
    /\ stream \in Seq(Nat)
    /\ dying \in BOOLEAN
    /\ sends \in 0 .. MaxSends
    /\ faults \in 0 .. MaxFaults

Init ==
    /\ socket_state = "NOT_STARTED"
    /\ reconnect_delay = 1
    /\ pending_bytes = 0
    /\ open = FALSE
    /\ link = "none"
    /\ connecting = FALSE
    /\ retry = FALSE
    /\ deadline = FALSE
    /\ expired = FALSE
    /\ writes = <<>>
    /\ ready = <<>>
    /\ stream = <<>>
    /\ dying = FALSE
    /\ sends = 0
    /\ faults = 0

(***************************************************************************)
(* The public operations.                                                  *)
(***************************************************************************)
Start ==
    /\ socket_state = "NOT_STARTED"
    /\ socket_state' = "DISCONNECTED"
    /\ ready' = Append(ready, StartConnectHandler)
    /\ UNCHANGED <<sendVars, reconnect_delay, pending_bytes, open, link,
                   connecting, retry, deadline, expired, faults>>

\* Mutant: data may be sent before the header has gone out.
AcceptsWhenConnected(size) ==
    /\ socket_state \in {"CONNECTED_DATA_NOT_READY", "CONNECTED_DATA_READY"}
    /\ pending_bytes + size <= PendingLimit

Accepts(size) ==
    socket_state = "CONNECTED_DATA_READY" /\ pending_bytes + size <= PendingLimit

NewWrite(id, size) == [id |-> id, size |-> size, left |-> size]

\* async_write(): on a closed socket it completes at once, with an error.
AsyncWrite(w, rest) ==
    IF open
    THEN writes' = Append(writes, w) /\ ready' = rest
    ELSE ready' = Append(rest, SendHandler(w, TRUE)) /\ UNCHANGED writes

\* send(), from a handler of the output writer; refused data is dropped.
Send(size) ==
    /\ sends < MaxSends
    /\ sends' = sends + 1
    /\ IF Accepts(size)
       THEN /\ pending_bytes' = pending_bytes + size
            /\ AsyncWrite(NewWrite(sends + 1, size), ready)
       ELSE UNCHANGED <<pending_bytes, writes, ready>>
    /\ UNCHANGED <<socket_state, reconnect_delay, open, link, connecting, retry,
                   deadline, expired, stream, dying, faults>>

\* The running handler goes on to assign socket_state.
AssignsState ==
    /\ ready # <<>>
    /\ \/ Head(ready).op \in {"start_connect", "connect_outcome"}
       \/ /\ Head(ready).op = "send_cb"
          /\ Head(ready).ec \/ socket_state = "CONNECTED_DATA_NOT_READY"

\* The destructor, on another thread.  It assigns socket_state without a lock:
\* a handler that has looked at it already may overwrite the SHUTDOWN.
Shutdown ==
    /\ ~dying /\ socket_state # "NOT_STARTED"
    /\ dying' = TRUE
    /\ \/ socket_state' = "SHUTDOWN"
       \/ AssignsState /\ UNCHANGED socket_state
    /\ ready' = Append(ready, [op |-> "shutdown"])
    /\ UNCHANGED <<reconnect_delay, pending_bytes, open, link, connecting, retry,
                   deadline, expired, writes, stream, sends, faults>>

(***************************************************************************)
(* The handlers.  Each runs in one step.                                   *)
(***************************************************************************)
Runs(op) == ready # <<>> /\ Head(ready).op = op

\* socket.close(): what is outstanding on the socket completes with an error.
AbortedOps ==
    (IF connecting THEN <<OutcomeHandler(TRUE)>> ELSE <<>>)
        \o [i \in DOMAIN writes |-> SendHandler(writes[i], TRUE)]

CloseSocket(rest) ==
    /\ open' = FALSE
    /\ link' = "none"
    /\ connecting' = FALSE
    /\ writes' = <<>>
    /\ ready' = rest \o AbortedOps

\* Mutant: the delay is doubled without a cap.
UncappedDelay == reconnect_delay * 2

NextDelay ==
    IF reconnect_delay * 2 > MaxReconnectDelay
    THEN MaxReconnectDelay ELSE reconnect_delay * 2

\* Mutant: every failed write schedules a reconnect.
AlwaysScheduleConnect(from) ==
    /\ socket_state' = "CONNECT_PENDING"
    /\ retry' = TRUE
    /\ reconnect_delay' = NextDelay

set_state_schedule_connect(from) ==
    IF from \in {"CONNECT_PENDING", "CONNECT_IN_PROGRESS"}
    THEN socket_state' = from /\ UNCHANGED <<retry, reconnect_delay>>
    ELSE /\ socket_state' = "CONNECT_PENDING"
         /\ retry' = TRUE
         /\ reconnect_delay' = NextDelay

start_connect ==
    /\ Runs("start_connect")
    /\ IF socket_state = "SHUTDOWN"
       THEN /\ ready' = Tail(ready)
            /\ UNCHANGED <<socket_state, deadline, expired, connecting, open>>
       ELSE /\ socket_state' = "CONNECT_IN_PROGRESS"
            /\ deadline' = TRUE
            /\ expired' = FALSE
            /\ connecting' = TRUE
            /\ open' = TRUE
            /\ ready' = Tail(ready) \o
                            (IF deadline THEN <<DeadlineHandler>> ELSE <<>>)
    /\ UNCHANGED <<sendVars, reconnect_delay, pending_bytes, link, retry, faults>>

\* Mutant: the handler does not look whether the deadline was moved.
DeadlineAppliesAlways ==
    socket_state \notin {"SHUTDOWN", "CONNECTED_DATA_NOT_READY", "CONNECTED_DATA_READY"}

\* Mutant: a deadline is taken for fine while the connect is in progress.
DeadlineMissesConnect == expired /\ socket_state = "CONNECT_PENDING"

DeadlineApplies ==
    /\ socket_state \notin {"SHUTDOWN", "CONNECTED_DATA_NOT_READY",
                            "CONNECTED_DATA_READY"}
    /\ expired

connect_deadline_cb ==
    /\ Runs("connect_deadline")
    /\ IF DeadlineApplies
       THEN CloseSocket(Tail(ready))
       ELSE ready' = Tail(ready) /\ UNCHANGED <<open, link, connecting, writes>>
    /\ UNCHANGED <<socket_state, reconnect_delay, pending_bytes, retry, deadline,
                   expired, stream, dying, sends, faults>>

connect_outcome_cb ==
    /\ Runs("connect_outcome")
    /\ IF socket_state = "SHUTDOWN"
       THEN /\ ready' = Tail(ready)
            /\ UNCHANGED <<socket_state, retry, reconnect_delay, writes, stream>>
       ELSE IF Head(ready).ec \/ ~open
       THEN /\ set_state_schedule_connect("DISCONNECTED")
            /\ ready' = Tail(ready)
            /\ UNCHANGED <<writes, stream>>
       ELSE /\ reconnect_delay' = 1
            /\ socket_state' = "CONNECTED_DATA_NOT_READY"
            /\ AsyncWrite(NewWrite(Header, HeaderSize), Tail(ready))
            /\ stream' = <<>>
            /\ UNCHANGED retry
    /\ UNCHANGED <<pending_bytes, open, link, connecting, deadline, expired,
                   dying, sends, faults>>

\* Mutant: a failed write leaves the count of pending bytes as it is.
PendingKept == pending_bytes

PendingAfterError == 0

PendingAfter(size) == IF size > pending_bytes THEN 0 ELSE pending_bytes - size

StateAfterSend ==
    IF socket_state = "CONNECTED_DATA_NOT_READY" THEN "CONNECTED_DATA_READY" ELSE socket_state

send_cb ==
    /\ Runs("send_cb")
    /\ IF socket_state = "SHUTDOWN"
       THEN /\ ready' = Tail(ready)
            /\ UNCHANGED <<socket_state, retry, reconnect_delay, pending_bytes, open,
                           link, connecting, writes>>
       ELSE IF Head(ready).ec
       THEN /\ pending_bytes' = PendingAfterError
            /\ CloseSocket(Tail(ready))
            /\ set_state_schedule_connect(socket_state)
       ELSE IF ~open
       THEN /\ pending_bytes' = PendingAfterError
            /\ set_state_schedule_connect(socket_state)
            /\ ready' = Tail(ready)
            /\ UNCHANGED <<open, link, connecting, writes>>
       ELSE /\ socket_state' = StateAfterSend
            /\ pending_bytes' = PendingAfter(Head(ready).write.size)
            /\ ready' = Tail(ready)
            /\ UNCHANGED <<retry, reconnect_delay, open, link, connecting, writes>>
    /\ UNCHANGED <<deadline, expired, stream, dying, sends, faults>>

\* Inside async_write: the rest of a partly written buffer queues up again.
write_more ==
    /\ Runs("write_more")
    /\ AsyncWrite(Head(ready).write, Tail(ready))
    /\ UNCHANGED <<socket_state, reconnect_delay, pending_bytes, open, link, connecting,
                   retry, deadline, expired, stream, dying, sends, faults>>

shutdown_cb ==
    /\ Runs("shutdown")
    /\ retry' = FALSE
    /\ deadline' = FALSE
    /\ CloseSocket(Tail(ready)
                   \o (IF deadline THEN <<DeadlineHandler>> ELSE <<>>)
                   \o (IF retry THEN <<StartConnectHandler>> ELSE <<>>))
    /\ UNCHANGED <<socket_state, reconnect_delay, pending_bytes, expired, stream,
                   dying, sends, faults>>

IoStep ==
    \/ start_connect
    \/ connect_deadline_cb
    \/ connect_outcome_cb
    \/ send_cb
    \/ write_more
    \/ shutdown_cb

(***************************************************************************)
(* Timers and network.                                                     *)
(***************************************************************************)
RetryFires ==
    /\ retry
    /\ retry' = FALSE
    /\ ready' = Append(ready, StartConnectHandler)
    /\ UNCHANGED <<sendVars, socket_state, reconnect_delay, pending_bytes, open, link,
                   connecting, deadline, expired, faults>>

\* The deadline passes; while connected or waiting that is harmless, and while
\* connecting it counts as a fault.
DeadlineFires ==
    /\ deadline
    /\ connecting => faults < MaxFaults
    /\ deadline' = FALSE
    /\ expired' = TRUE
    /\ faults' = IF connecting THEN faults + 1 ELSE faults
    /\ ready' = Append(ready, DeadlineHandler)
    /\ UNCHANGED <<sendVars, socket_state, reconnect_delay, pending_bytes, open, link,
                   connecting, retry>>

ConnectSucceeds ==
    /\ connecting
    /\ connecting' = FALSE
    /\ link' = "up"
    /\ ready' = Append(ready, OutcomeHandler(FALSE))
    /\ UNCHANGED <<sendVars, socket_state, reconnect_delay, pending_bytes, open, retry,
                   deadline, expired, faults>>

ConnectFails ==
    /\ connecting /\ faults < MaxFaults
    /\ faults' = faults + 1
    /\ connecting' = FALSE
    /\ ready' = Append(ready, OutcomeHandler(TRUE))
    /\ UNCHANGED <<sendVars, socket_state, reconnect_delay, pending_bytes, open, link,
                   retry, deadline, expired>>

Reset ==
    /\ link = "up" /\ faults < MaxFaults
    /\ faults' = faults + 1
    /\ link' = "broken"
    /\ UNCHANGED <<sendVars, socket_state, reconnect_delay, pending_bytes, open,
                   connecting, retry, deadline, expired, ready>>

\* The socket takes n bytes of the write whose turn it is.
WriteSome(n) ==
    /\ writes # <<>> /\ link = "up"
    /\ n \in 1 .. Head(writes).left
    /\ LET w == [Head(writes) EXCEPT !.left = @ - n]
       IN  ready' = Append(ready, IF w.left = 0 THEN SendHandler(w, FALSE)
                                                ELSE MoreHandler(w))
    /\ stream' = stream \o [i \in 1 .. n |-> Head(writes).id]
    /\ writes' = Tail(writes)
    /\ UNCHANGED <<socket_state, reconnect_delay, pending_bytes, open, link, connecting,
                   retry, deadline, expired, dying, sends, faults>>

WriteFails ==
    /\ writes # <<>> /\ link = "broken"
    /\ ready' = Append(ready, SendHandler(Head(writes), TRUE))
    /\ writes' = Tail(writes)
    /\ UNCHANGED <<socket_state, reconnect_delay, pending_bytes, open, link, connecting,
                   retry, deadline, expired, stream, dying, sends, faults>>

WriteProgress ==
    \/ WriteFails
    \/ \E n \in 1 .. HeaderSize : WriteSome(n)
    \/ \E size \in BlockSizes : \E n \in 1 .. size : WriteSome(n)

Next ==
    \/ Start
    \/ \E size \in BlockSizes : Send(size)
    \/ Shutdown
    \/ IoStep
    \/ RetryFires
    \/ DeadlineFires
    \/ ConnectSucceeds
    \/ ConnectFails
    \/ Reset
    \/ WriteProgress

Spec == Init /\ [][Next]_vars

\* The io thread runs and timers fire; nothing is assumed of the peer.
FairSpec ==
    /\ Spec
    /\ WF_vars(IoStep)
    /\ WF_vars(RetryFires)
    /\ WF_vars(DeadlineFires)

(***************************************************************************)
(* Properties.                                                             *)
(***************************************************************************)
HandlersOf(op) == {i \in DOMAIN ready : ready[i].op = op}

\* How many things will lead to (or are) a connection attempt.
Attempts ==
    Cardinality(HandlersOf("start_connect")) + Cardinality(HandlersOf("connect_outcome"))
        + (IF retry THEN 1 ELSE 0) + (IF connecting THEN 1 ELSE 0)

HeaderInFlight ==
    \/ \E i \in DOMAIN writes : writes[i].id = Header
    \/ \E i \in DOMAIN ready :
           ready[i].op \in {"send_cb", "write_more"} /\ ready[i].write.id = Header

\* The sender is never stuck and never connects twice: in each state exactly
\* the operation is outstanding that will take it out of that state, however
\* timers, failing writes and cancelled handlers interleave.
NeverStuck ==
    /\ socket_state \in {"DISCONNECTED", "CONNECT_PENDING", "CONNECT_IN_PROGRESS"} => Attempts = 1
    /\ socket_state \in {"CONNECTED_DATA_NOT_READY", "CONNECTED_DATA_READY"} => Attempts = 0
    /\ socket_state = "CONNECTED_DATA_NOT_READY" => HeaderInFlight

DataSize(w) == IF w.id = Header THEN 0 ELSE w.size

\* The data sizes of the outstanding writes, and of those whose handlers are to run.
Outstanding == [i \in DOMAIN writes |-> DataSize(writes[i])]
Completing ==
    [i \in DOMAIN ready |-> IF ready[i].op \in {"send_cb", "write_more"}
                            THEN DataSize(ready[i].write) ELSE 0]

\* While data is accepted, pending_bytes is the size of the writes whose send_cb
\* has not run; it never passes the limit, and a reconnect starts from 0: bytes
\* lost with a connection do not count against the next one.
PendingExact ==
    socket_state = "CONNECTED_DATA_READY" =>
        /\ pending_bytes = SumOf(Outstanding) + SumOf(Completing)
        /\ pending_bytes <= PendingLimit

\* Whatever connection is used, the complete Avro header goes out first.
HeaderFirst ==
    \A i \in DOMAIN stream : (i <= HeaderSize) <=> (stream[i] = Header)

\* framework.go requires of its input that it follows the "Avro ODF standard":
\* a block is not interrupted by another block.
BlocksContiguous ==
    \A i, j, k \in DOMAIN stream :
        i < j /\ j < k /\ stream[i] = stream[k] => stream[j] = stream[i]

\* Without a fault the network completes what it is asked to do.
NetworkWorks == WF_vars(ConnectSucceeds) /\ WF_vars(WriteProgress)

\* metrics_tcp_sender.hpp: "handles keeping the connection alive".  From
\* anywhere, and after whatever resets, refusals and timeouts, the sender gets
\* (back) to accepting data once the network works.
KeepsConnectionAlive ==
    NetworkWorks =>
        ((socket_state # "NOT_STARTED") ~> (socket_state = "CONNECTED_DATA_READY" \/ dying))

\* A connect that the peer never answers ends after CONNECT_TIMEOUT_SECS, also
\* when handlers of earlier deadlines are still under way.
HungConnectsEnd == (connecting /\ faults < MaxFaults) ~> ~connecting
=============================================================================
