-------------------------- MODULE TcpSender_proofs --------------------------
(***************************************************************************)
(* Proofs about the TCP sender, for any header and block sizes, any limit, *)
(* any delay and any number of sends and faults.                           *)
(***************************************************************************)
EXTENDS TcpSender, Iteration, FiniteSetTheorems

AttemptOps == {"start_connect", "connect_outcome"}
WriteOps == {"send_cb", "write_more"}
Waiting == {"DISCONNECTED", "CONNECT_PENDING", "CONNECT_IN_PROGRESS"}
Connected == {"CONNECTED_DATA_NOT_READY", "CONNECTED_DATA_READY"}

NoAttempt ==
    /\ ~retry /\ ~connecting
    /\ \A i \in DOMAIN ready : ready[i].op \notin AttemptOps

\* At most one connection attempt is under way, in one of its forms.
OneAttempt ==
    /\ \A i, j \in DOMAIN ready :
           ready[i].op \in AttemptOps /\ ready[j].op \in AttemptOps => i = j
    /\ retry \/ connecting => \A i \in DOMAIN ready : ready[i].op \notin AttemptOps
    /\ ~(retry /\ connecting)

\* Who waits for a connection has an attempt under way, and nobody else has.
AttemptFits ==
    /\ socket_state \in Waiting => ~NoAttempt
    /\ socket_state \in Connected => NoAttempt
    /\ socket_state = "NOT_STARTED" =>
           NoAttempt /\ ready = <<>> /\ writes = <<>> /\ ~open

\* Before the first attempt there is nothing but its handler and the destructor's.
FreshInv ==
    socket_state \in {"NOT_STARTED", "DISCONNECTED"} =>
        /\ writes = <<>> /\ ~connecting /\ ~retry /\ ~deadline
        /\ \A i \in DOMAIN ready : ready[i].op \in {"start_connect", "shutdown"}

\* A closed socket has nothing outstanding.
ClosedIdle == connecting \/ writes # <<>> \/ link # "none" => open

\* What is left of the writes of one connection is over before the next one
\* succeeds: a write that has to go on runs before the attempt begins, and a
\* completed one before its outcome.
WritesBeforeAttempt ==
    /\ writes # <<>> => NoAttempt
    /\ \A i \in DOMAIN ready : ready[i].op = "write_more" =>
           /\ ~connecting
           /\ retry => ~open
           /\ \A j \in DOMAIN ready :
                  /\ ready[j].op = "start_connect" => i < j /\ ~open
                  /\ ready[j].op # "connect_outcome"
    /\ \A i, j \in DOMAIN ready :
           ready[i].op \in WriteOps /\ ready[j].op = "connect_outcome" => i < j

AttemptInv == OneAttempt /\ AttemptFits /\ ClosedIdle /\ WritesBeforeAttempt

\* A buffer to be written is the rest of the header, or data behind the header.
FitsAt(w, sent) ==
    /\ w.left >= 1
    /\ w.id = Header => w.left + sent = HeaderSize
    /\ w.id # Header => sent >= HeaderSize

Fits(w) == FitsAt(w, Len(stream))

\* The stream follows the header's progress.
HeaderProgress ==
    /\ \A i \in DOMAIN writes : Fits(writes[i])
    /\ \A i \in DOMAIN ready :
           /\ ready[i].op = "write_more" => Fits(ready[i].write)
           /\ ready[i].op = "send_cb" /\ ~ready[i].ec => Len(stream) >= HeaderSize
    /\ socket_state = "CONNECTED_DATA_READY" => Len(stream) >= HeaderSize

\* The writes whose send_cb has not run, by where they are.
IsHeader(i) == ready[i].op \in WriteOps /\ ready[i].write.id = Header
IsData(i) == ready[i].op \in WriteOps /\ ready[i].write.id # Header

\* At most one header is written at a time ...
OneHeader ==
    /\ \A i, j \in DOMAIN writes : writes[i].id = Header /\ writes[j].id = Header => i = j
    /\ \A i, j \in DOMAIN ready : IsHeader(i) /\ IsHeader(j) => i = j
    /\ \A i \in DOMAIN writes, j \in DOMAIN ready : ~(writes[i].id = Header /\ IsHeader(j))

\* ... and until it is out, nothing else is.
HeaderAlone ==
    /\ socket_state = "CONNECTED_DATA_NOT_READY" =>
           /\ HeaderInFlight
           /\ \A i \in DOMAIN writes : writes[i].id = Header
           /\ \A i \in DOMAIN ready : ~IsData(i)
    /\ socket_state = "CONNECTED_DATA_READY" => ~HeaderInFlight

HeaderInv == HeaderFirst /\ HeaderProgress /\ OneHeader /\ HeaderAlone

\* What a handler and a sequence of handlers or writes have of the pending bytes.
HandlerSize(h) == IF h.op \in WriteOps THEN DataSize(h.write) ELSE 0
WritesBytes(ws) == SumOf([i \in DOMAIN ws |-> DataSize(ws[i])])
HandlersBytes(hs) == SumOf([i \in DOMAIN hs |-> HandlerSize(hs[i])])

InFlight == WritesBytes(writes) + HandlersBytes(ready)

\* Bytes are pending only while data is accepted, and are those of its writes.
PendingInv ==
    /\ socket_state \in Connected =>
           pending_bytes = InFlight
    /\ socket_state \notin {"CONNECTED_DATA_READY", "SHUTDOWN"} => pending_bytes = 0
    /\ pending_bytes <= PendingLimit

-----------------------------------------------------------------------------
(***************************************************************************)
(* Types.                                                                  *)
(***************************************************************************)
\* The handlers that are put into the queue are handlers.
LEMMA HandlerTypes ==
  /\ StartConnectHandler \in Handler
  /\ DeadlineHandler \in Handler
  /\ [op |-> "shutdown"] \in Handler
  /\ OutcomeHandler(TRUE) \in Handler /\ OutcomeHandler(FALSE) \in Handler
  /\ \A w \in Write : /\ MoreHandler(w) \in Handler
                      /\ SendHandler(w, TRUE) \in Handler
                      /\ SendHandler(w, FALSE) \in Handler
BY DEF Handler, StartConnectHandler, DeadlineHandler, OutcomeHandler, MoreHandler, SendHandler

\* A handler of a write carries a write.
LEMMA HandlerWrite ==
  ASSUME NEW h \in Handler
  PROVE  h.op \in {"write_more", "send_cb"} => h.write \in Write
BY DEF Handler

\* A sequence of one element.
LEMMA OneElement ==
  ASSUME NEW S, NEW h \in S
  PROVE  <<h>> \in Seq(S) /\ <<>> \in Seq(S)
OBVIOUS

\* A sequence grows by an element, or by another sequence.
LEMMA AppendType ==
  ASSUME NEW S, NEW q \in Seq(S)
  PROVE  /\ \A h \in S : Append(q, h) \in Seq(S)
         /\ \A r \in Seq(S) : q \o r \in Seq(S)
OBVIOUS

\* Closing the socket completes operations with handlers.
LEMMA AbortedTypes ==
  ASSUME TypeOK
  PROVE  AbortedOps \in Seq(Handler)
<1> DEFINE aborted == [i \in DOMAIN writes |-> SendHandler(writes[i], TRUE)]
           first == IF connecting THEN <<OutcomeHandler(TRUE)>> ELSE <<>>
<1>1. Len(writes) \in Nat /\ DOMAIN writes = 1 .. Len(writes)
        /\ \A i \in DOMAIN writes : writes[i] \in Write
  BY DEF TypeOK
<1>2. \A i \in DOMAIN writes : SendHandler(writes[i], TRUE) \in Handler
  BY <1>1, HandlerTypes
<1>3. aborted \in Seq(Handler)
  <2>1. aborted \in [1 .. Len(writes) -> Handler]
    BY <1>1, <1>2, Zenon
  <2> HIDE DEF aborted
  <2> QED
    BY <1>1, <2>1
<1>4. first \in Seq(Handler)
  <2>1. OutcomeHandler(TRUE) \in Handler
    BY HandlerTypes
  <2>2. <<OutcomeHandler(TRUE)>> \in Seq(Handler) /\ <<>> \in Seq(Handler)
    BY <2>1, OneElement
  <2> QED
    BY <2>2
<1>5. AbortedOps = first \o aborted
  BY DEF AbortedOps
<1> HIDE DEF aborted, first
<1> QED
  BY <1>3, <1>4, <1>5

\* async_write takes a write to a write or a handler.
LEMMA AsyncWriteTypes ==
  ASSUME TypeOK, NEW w \in Write, NEW rest \in Seq(Handler), AsyncWrite(w, rest)
  PROVE  writes' \in Seq(Write) /\ ready' \in Seq(Handler)
<1>1. SendHandler(w, TRUE) \in Handler
  BY HandlerTypes
<1>2. writes \in Seq(Write)
  BY DEF TypeOK
<1>3. CASE open
  BY <1>2, <1>3 DEF AsyncWrite
<1>4. CASE ~open
  <2> DEFINE h == SendHandler(w, TRUE)
  <2>1. ready' = Append(rest, h) /\ writes' = writes
    BY <1>4 DEF AsyncWrite
  <2> HIDE DEF h
  <2>2. h \in Handler
    BY <1>1 DEF h
  <2> QED
    BY <1>2, <2>1, <2>2
<1> QED
  BY <1>3, <1>4

\* The reconnect delay stays between 1 and its maximum.
LEMMA ScheduleTypes ==
  ASSUME TypeOK, NEW from \in States, set_state_schedule_connect(from)
  PROVE  socket_state' \in States /\ retry' \in BOOLEAN
           /\ reconnect_delay' \in 1 .. MaxReconnectDelay
<1>1. retry' \in BOOLEAN
  BY DEF TypeOK, set_state_schedule_connect
<1>2. reconnect_delay' \in 1 .. MaxReconnectDelay
  <2>1. reconnect_delay \in 1 .. MaxReconnectDelay
    BY DEF TypeOK
  <2> QED
    BY <2>1, SenderAssumption DEF set_state_schedule_connect, NextDelay
<1>3. socket_state' \in States
  BY DEF set_state_schedule_connect, States
<1> QED
  BY <1>1, <1>2, <1>3

\* CloseSocket leaves everything typed.
LEMMA CloseTypes ==
  ASSUME TypeOK, NEW rest \in Seq(Handler), CloseSocket(rest)
  PROVE  /\ open' \in BOOLEAN /\ connecting' \in BOOLEAN
         /\ link' \in {"none", "up", "broken"}
         /\ writes' \in Seq(Write)
         /\ ready' \in Seq(Handler)
<1>1. ready' \in Seq(Handler)
  BY AbortedTypes DEF CloseSocket
<1>2. writes' \in Seq(Write)
  BY DEF CloseSocket
<1>3. open' \in BOOLEAN /\ connecting' \in BOOLEAN
  BY DEF CloseSocket
<1>4. link' \in {"none", "up", "broken"}
  BY DEF CloseSocket
<1> QED
  BY <1>1, <1>2, <1>3, <1>4

\* The running handler, and the ones behind it.
LEMMA HeadTypes ==
  ASSUME TypeOK, ready # <<>>
  PROVE  Head(ready) \in Handler /\ Tail(ready) \in Seq(Handler)
BY DEF TypeOK

\* The buffers that are written are writes.
LEMMA NewWriteType ==
  ASSUME NEW id \in Nat, NEW size \in Nat
  PROVE  NewWrite(id, size) \in Write
BY DEF NewWrite, Write

\* The variables of the sender keep their types.
THEOREM Typed == Spec => []TypeOK
<1>1. Init => TypeOK
  <2> SUFFICES ASSUME Init PROVE TypeOK
    OBVIOUS
  <2>1. reconnect_delay \in 1 .. MaxReconnectDelay /\ pending_bytes \in Nat
          /\ sends \in 0 .. MaxSends /\ faults \in 0 .. MaxFaults
    BY SenderAssumption DEF Init
  <2>2. writes \in Seq(Write) /\ ready \in Seq(Handler) /\ stream \in Seq(Nat)
    BY DEF Init
  <2> QED
    BY <2>1, <2>2 DEF Init, TypeOK, States
<1>2. ASSUME TypeOK, [Next]_vars
      PROVE  TypeOK'
  <2>1. CASE Start
    <3>1. ready' \in Seq(Handler)
      <4>1. StartConnectHandler \in Handler /\ ready \in Seq(Handler)
              /\ ready' = Append(ready, StartConnectHandler)
        BY <1>2, <2>1, HandlerTypes DEF Start, TypeOK
      <4> QED
        BY <4>1
    <3> QED
      BY <1>2, <2>1, <3>1 DEF Start, TypeOK, States, sendVars
  <2>2. ASSUME NEW size \in BlockSizes, Send(size)
        PROVE  TypeOK'
    <3>1. /\ size \in Nat /\ sends \in Nat /\ pending_bytes \in Nat
          /\ sends' \in 0 .. MaxSends
      BY <1>2, <2>2, SenderAssumption DEF Send, TypeOK
    <3>2. pending_bytes' \in Nat
      BY <2>2, <3>1 DEF Send
    <3>3. writes' \in Seq(Write) /\ ready' \in Seq(Handler)
      <4>1. CASE Accepts(size)
        <5>1. AsyncWrite(NewWrite(sends + 1, size), ready)
          BY <2>2, <4>1 DEF Send
        <5>2. NewWrite(sends + 1, size) \in Write /\ ready \in Seq(Handler)
          BY <1>2, <3>1, NewWriteType DEF TypeOK
        <5> QED
          BY <1>2, <5>1, <5>2, AsyncWriteTypes
      <4>2. CASE ~Accepts(size)
        BY <1>2, <2>2, <4>2 DEF Send, TypeOK
      <4> QED
        BY <4>1, <4>2
    <3> QED
      BY <1>2, <2>2, <3>1, <3>2, <3>3 DEF Send, TypeOK
  <2>3. CASE Shutdown
    <3>1. ready' \in Seq(Handler)
      <4>1. [op |-> "shutdown"] \in Handler /\ ready \in Seq(Handler)
              /\ ready' = Append(ready, [op |-> "shutdown"])
        BY <1>2, <2>3, HandlerTypes DEF Shutdown, TypeOK
      <4> QED
        BY <4>1
    <3> QED
      BY <1>2, <2>3, <3>1 DEF Shutdown, TypeOK, States
  <2>4. CASE start_connect
    <3>1. ready' \in Seq(Handler)
      <4>1. ready # <<>> /\ Tail(ready) \in Seq(Handler) /\ DeadlineHandler \in Handler
        BY <1>2, <2>4, HeadTypes, HandlerTypes DEF start_connect, Runs
      <4>2. <<DeadlineHandler>> \in Seq(Handler) /\ <<>> \in Seq(Handler)
        BY <4>1, OneElement
      <4> DEFINE extra == IF deadline THEN <<DeadlineHandler>> ELSE <<>>
      <4>3. extra \in Seq(Handler)
        BY <4>2, Zenon
      <4>4. ready' = Tail(ready) \/ ready' = Tail(ready) \o extra
        BY <2>4 DEF start_connect
      <4> HIDE DEF extra
      <4>5. Tail(ready) \o extra \in Seq(Handler)
        BY <4>1, <4>3, AppendType
      <4> QED
        BY <4>1, <4>4, <4>5, Zenon
    <3> QED
      BY <1>2, <2>4, <3>1 DEF start_connect, TypeOK, States, sendVars
  <2>5. CASE connect_deadline_cb
    <3>1. Tail(ready) \in Seq(Handler)
      BY <1>2, <2>5, HeadTypes DEF connect_deadline_cb, Runs
    <3>2. CASE DeadlineApplies
      <4>1. CloseSocket(Tail(ready))
        BY <2>5, <3>2 DEF connect_deadline_cb
      <4> QED
        BY <1>2, <2>5, <3>1, <4>1, CloseTypes DEF connect_deadline_cb, TypeOK
    <3>3. CASE ~DeadlineApplies
      BY <1>2, <2>5, <3>1, <3>3 DEF connect_deadline_cb, TypeOK
    <3> QED
      BY <3>2, <3>3
  <2>6. CASE connect_outcome_cb
    <3>1. Tail(ready) \in Seq(Handler)
      BY <1>2, <2>6, HeadTypes DEF connect_outcome_cb, Runs
    <3>2. CASE socket_state = "SHUTDOWN"
      BY <1>2, <2>6, <3>1, <3>2 DEF connect_outcome_cb, TypeOK
    <3>3. CASE socket_state # "SHUTDOWN" /\ (Head(ready).ec \/ ~open)
      <4>1. set_state_schedule_connect("DISCONNECTED") /\ "DISCONNECTED" \in States
        BY <2>6, <3>3 DEF connect_outcome_cb, States
      <4>2. socket_state' \in States /\ retry' \in BOOLEAN
              /\ reconnect_delay' \in 1 .. MaxReconnectDelay
        BY <1>2, <4>1, ScheduleTypes
      <4> QED
        BY <1>2, <2>6, <3>1, <3>3, <4>2 DEF connect_outcome_cb, TypeOK
    <3>4. CASE socket_state # "SHUTDOWN" /\ ~(Head(ready).ec \/ ~open)
      <4>1. AsyncWrite(NewWrite(Header, HeaderSize), Tail(ready))
        BY <2>6, <3>4 DEF connect_outcome_cb
      <4>2. NewWrite(Header, HeaderSize) \in Write
        BY NewWriteType, SenderAssumption DEF Header
      <4>3. writes' \in Seq(Write) /\ ready' \in Seq(Handler)
        BY <1>2, <3>1, <4>1, <4>2, AsyncWriteTypes
      <4>4. reconnect_delay' \in 1 .. MaxReconnectDelay /\ stream' \in Seq(Nat)
        BY <2>6, <3>4, SenderAssumption DEF connect_outcome_cb
      <4> QED
        BY <1>2, <2>6, <3>4, <4>3, <4>4 DEF connect_outcome_cb, TypeOK, States
    <3> QED
      BY <3>2, <3>3, <3>4
  <2>7. CASE send_cb
    <3>1. /\ Tail(ready) \in Seq(Handler)
          /\ Head(ready) \in Handler /\ Head(ready).op = "send_cb"
      BY <1>2, <2>7, HeadTypes DEF send_cb, Runs
    <3>2. CASE socket_state = "SHUTDOWN"
      BY <1>2, <2>7, <3>1, <3>2 DEF send_cb, TypeOK
    <3>3. CASE socket_state # "SHUTDOWN" /\ Head(ready).ec
      <4>1. CloseSocket(Tail(ready)) /\ set_state_schedule_connect(socket_state)
              /\ pending_bytes' = 0
        BY <2>7, <3>3 DEF send_cb, PendingAfterError
      <4>2. socket_state' \in States /\ retry' \in BOOLEAN
              /\ reconnect_delay' \in 1 .. MaxReconnectDelay
        BY <1>2, <4>1, ScheduleTypes DEF TypeOK
      <4>3. /\ open' \in BOOLEAN /\ connecting' \in BOOLEAN
            /\ link' \in {"none", "up", "broken"}
            /\ writes' \in Seq(Write) /\ ready' \in Seq(Handler)
        BY <1>2, <3>1, <4>1, CloseTypes
      <4> QED
        BY <1>2, <2>7, <4>1, <4>2, <4>3 DEF send_cb, TypeOK
    <3>4. CASE socket_state # "SHUTDOWN" /\ ~Head(ready).ec /\ ~open
      <4>1. set_state_schedule_connect(socket_state) /\ pending_bytes' = 0
        BY <2>7, <3>4 DEF send_cb, PendingAfterError
      <4>2. socket_state' \in States /\ retry' \in BOOLEAN
              /\ reconnect_delay' \in 1 .. MaxReconnectDelay
        BY <1>2, <4>1, ScheduleTypes DEF TypeOK
      <4> QED
        BY <1>2, <2>7, <3>1, <3>4, <4>1, <4>2 DEF send_cb, TypeOK
    <3>5. CASE socket_state # "SHUTDOWN" /\ ~Head(ready).ec /\ open
      <4>1. Head(ready).write.size \in Nat /\ pending_bytes \in Nat
        BY <1>2, <3>1, HandlerWrite DEF Write, TypeOK
      <4>2. pending_bytes' \in Nat
        BY <2>7, <3>5, <4>1 DEF send_cb, PendingAfter
      <4> QED
        BY <1>2, <2>7, <3>1, <3>5, <4>2 DEF send_cb, TypeOK, States, StateAfterSend
    <3> QED
      BY <3>2, <3>3, <3>4, <3>5
  <2>8. CASE write_more
    <3>1. /\ Tail(ready) \in Seq(Handler)
          /\ Head(ready) \in Handler /\ Head(ready).op = "write_more"
      BY <1>2, <2>8, HeadTypes DEF write_more, Runs
    <3>2. Head(ready).write \in Write /\ AsyncWrite(Head(ready).write, Tail(ready))
      BY <2>8, <3>1, HandlerWrite DEF write_more
    <3>3. writes' \in Seq(Write) /\ ready' \in Seq(Handler)
      BY <1>2, <3>1, <3>2, AsyncWriteTypes
    <3> QED
      BY <1>2, <2>8, <3>3 DEF write_more, TypeOK
  <2>9. CASE shutdown_cb
    <3> DEFINE rest == Tail(ready)
                         \o (IF deadline THEN <<DeadlineHandler>> ELSE <<>>)
                         \o (IF retry THEN <<StartConnectHandler>> ELSE <<>>)
    <3>1. Tail(ready) \in Seq(Handler)
      BY <1>2, <2>9, HeadTypes DEF shutdown_cb, Runs
    <3>2. /\ <<DeadlineHandler>> \in Seq(Handler) /\ <<>> \in Seq(Handler)
          /\ <<StartConnectHandler>> \in Seq(Handler)
      BY HandlerTypes, OneElement
    <3>3. rest \in Seq(Handler)
      BY <3>1, <3>2
    <3>4. CloseSocket(rest)
      BY <2>9 DEF shutdown_cb
    <3> HIDE DEF rest
    <3>5. /\ open' \in BOOLEAN /\ connecting' \in BOOLEAN
          /\ link' \in {"none", "up", "broken"}
          /\ writes' \in Seq(Write) /\ ready' \in Seq(Handler)
      BY <1>2, <3>3, <3>4, CloseTypes
    <3> QED
      BY <1>2, <2>9, <3>5 DEF shutdown_cb, TypeOK
  <2>10. CASE RetryFires
    <3>1. ready' \in Seq(Handler)
      <4>1. StartConnectHandler \in Handler /\ ready \in Seq(Handler)
              /\ ready' = Append(ready, StartConnectHandler)
        BY <1>2, <2>10, HandlerTypes DEF RetryFires, TypeOK
      <4> QED
        BY <4>1
    <3> QED
      BY <1>2, <2>10, <3>1 DEF RetryFires, TypeOK, sendVars
  <2>11. CASE DeadlineFires
    <3>1. ready' \in Seq(Handler)
      <4>1. DeadlineHandler \in Handler /\ ready \in Seq(Handler)
              /\ ready' = Append(ready, DeadlineHandler)
        BY <1>2, <2>11, HandlerTypes DEF DeadlineFires, TypeOK
      <4> QED
        BY <4>1
    <3>2. faults' \in 0 .. MaxFaults
      <4>1. faults \in 0 .. MaxFaults
        BY <1>2 DEF TypeOK
      <4> QED
        BY <2>11, <4>1, SenderAssumption DEF DeadlineFires
    <3> QED
      BY <1>2, <2>11, <3>1, <3>2 DEF DeadlineFires, TypeOK, sendVars
  <2>12. CASE ConnectSucceeds
    <3>1. ready' \in Seq(Handler)
      <4>1. OutcomeHandler(FALSE) \in Handler /\ ready \in Seq(Handler)
              /\ ready' = Append(ready, OutcomeHandler(FALSE))
        BY <1>2, <2>12, HandlerTypes DEF ConnectSucceeds, TypeOK
      <4> QED
        BY <4>1, AppendType
    <3> QED
      BY <1>2, <2>12, <3>1 DEF ConnectSucceeds, TypeOK, sendVars
  <2>13. CASE ConnectFails
    <3>1. ready' \in Seq(Handler)
      <4>1. OutcomeHandler(TRUE) \in Handler /\ ready \in Seq(Handler)
              /\ ready' = Append(ready, OutcomeHandler(TRUE))
        BY <1>2, <2>13, HandlerTypes DEF ConnectFails, TypeOK
      <4> QED
        BY <4>1, AppendType
    <3>2. faults' \in 0 .. MaxFaults
      <4>1. faults \in 0 .. MaxFaults
        BY <1>2 DEF TypeOK
      <4> QED
        BY <2>13, <4>1, SenderAssumption DEF ConnectFails
    <3> QED
      BY <1>2, <2>13, <3>1, <3>2 DEF ConnectFails, TypeOK, sendVars
  <2>14. CASE Reset
    <3>1. faults' \in 0 .. MaxFaults
      <4>1. faults \in 0 .. MaxFaults
        BY <1>2 DEF TypeOK
      <4> QED
        BY <2>14, <4>1, SenderAssumption DEF Reset
    <3> QED
      BY <1>2, <2>14, <3>1 DEF Reset, TypeOK, sendVars
  <2>15. ASSUME NEW n \in Nat, WriteSome(n)
         PROVE  TypeOK'
    <3> DEFINE w == [Head(writes) EXCEPT !.left = @ - n]
               h == IF w.left = 0 THEN SendHandler(w, FALSE) ELSE MoreHandler(w)
               more == [i \in 1 .. n |-> Head(writes).id]
    <3>1. Head(writes) \in Write /\ Tail(writes) \in Seq(Write) /\ n <= Head(writes).left
      <4>1. writes \in Seq(Write) /\ writes # <<>> /\ n \in 1 .. Head(writes).left
        BY <1>2, <2>15 DEF WriteSome, TypeOK
      <4>2. Head(writes) \in Write /\ Tail(writes) \in Seq(Write)
        BY <4>1
      <4> QED
        BY <4>1, <4>2 DEF Write
    <3>2. w \in Write
      BY <2>15, <3>1 DEF Write
    <3>3. h \in Handler
      BY <3>2, HandlerTypes, Zenon
    <3>4. ready' = Append(ready, h) /\ writes' = Tail(writes) /\ stream' = stream \o more
      BY <2>15 DEF WriteSome
    <3>5. more \in Seq(Nat)
      <4>1. more \in [1 .. n -> Nat]
        BY <3>1 DEF Write
      <4> HIDE DEF more
      <4> QED
        BY <4>1
    <3> HIDE DEF h, more
    <3>6. ready' \in Seq(Handler) /\ stream' \in Seq(Nat)
      BY <1>2, <3>3, <3>4, <3>5 DEF TypeOK
    <3> QED
      BY <1>2, <2>15, <3>1, <3>4, <3>6 DEF WriteSome, TypeOK
  <2>16. CASE WriteFails
    <3> DEFINE h == SendHandler(Head(writes), TRUE)
    <3>1. Head(writes) \in Write /\ Tail(writes) \in Seq(Write)
      BY <1>2, <2>16 DEF WriteFails, TypeOK
    <3>2. h \in Handler
      BY <3>1, HandlerTypes
    <3>3. ready' = Append(ready, h) /\ writes' = Tail(writes)
      BY <2>16 DEF WriteFails
    <3> HIDE DEF h
    <3>4. ready' \in Seq(Handler)
      BY <1>2, <3>2, <3>3 DEF TypeOK
    <3> QED
      BY <1>2, <2>16, <3>1, <3>3, <3>4 DEF WriteFails, TypeOK
  <2>17. CASE UNCHANGED vars
    BY <1>2, <2>17 DEF TypeOK, vars
  <2>18. \A size \in BlockSizes : size \in Nat
    BY SenderAssumption
  <2> QED
    BY <1>2, <2>1, <2>2, <2>3, <2>4, <2>5, <2>6, <2>7, <2>8, <2>9, <2>10, <2>11,
       <2>12, <2>13, <2>14, <2>15, <2>16, <2>17, <2>18, SenderAssumption
       DEF Next, IoStep, WriteProgress
<1> QED
  BY <1>1, <1>2, PTL DEF Spec

-----------------------------------------------------------------------------
(***************************************************************************)
(* The handler queue.                                                      *)
(***************************************************************************)
\* An element is put behind the others.
LEMMA Appended ==
  ASSUME NEW S, NEW q \in Seq(S), NEW h
  PROVE  /\ Len(q) \in Nat /\ DOMAIN q = 1 .. Len(q)
         /\ DOMAIN Append(q, h) = 1 .. (Len(q) + 1)
         /\ \A i \in DOMAIN q : i \in DOMAIN Append(q, h) /\ Append(q, h)[i] = q[i]
         /\ Append(q, h)[Len(q) + 1] = h
         /\ \A i \in DOMAIN Append(q, h) : i \in DOMAIN q \/ i = Len(q) + 1
OBVIOUS

\* The first element leaves.
LEMMA Popped ==
  ASSUME NEW S, NEW q \in Seq(S), q # <<>>
  PROVE  /\ Len(q) \in Nat /\ DOMAIN q = 1 .. Len(q) /\ 1 \in DOMAIN q
         /\ Head(q) = q[1] /\ Head(q) \in S /\ Tail(q) \in Seq(S)
         /\ Len(Tail(q)) = Len(q) - 1 /\ DOMAIN Tail(q) = 1 .. (Len(q) - 1)
         /\ \A i \in DOMAIN Tail(q) : i + 1 \in DOMAIN q /\ Tail(q)[i] = q[i + 1]
         /\ \A i \in DOMAIN q : i # 1 => i - 1 \in DOMAIN Tail(q) /\ Tail(q)[i - 1] = q[i]
OBVIOUS

\* A sequence is put behind another.
LEMMA Joined ==
  ASSUME NEW S, NEW q \in Seq(S), NEW r \in Seq(S)
  PROVE  /\ Len(q) \in Nat /\ DOMAIN q = 1 .. Len(q)
         /\ Len(r) \in Nat /\ DOMAIN r = 1 .. Len(r)
         /\ DOMAIN (q \o r) = 1 .. (Len(q) + Len(r))
         /\ \A i \in DOMAIN q : i \in DOMAIN (q \o r) /\ (q \o r)[i] = q[i]
         /\ \A i \in DOMAIN r : Len(q) + i \in DOMAIN (q \o r) /\ (q \o r)[Len(q) + i] = r[i]
         /\ \A i \in DOMAIN (q \o r) :
                \/ i \in DOMAIN q
                \/ i > Len(q) /\ i - Len(q) \in DOMAIN r /\ (q \o r)[i] = r[i - Len(q)]
OBVIOUS

\* Its length is the sum of both.
LEMMA LengthOfJoined ==
  ASSUME NEW S, NEW q \in Seq(S), NEW r \in Seq(S)
  PROVE  Len(q \o r) = Len(q) + Len(r) /\ q \o r \in Seq(S)
OBVIOUS

\* What the handlers consist of.
LEMMA HandlerFields ==
  /\ StartConnectHandler.op = "start_connect"
  /\ DeadlineHandler.op = "connect_deadline"
  /\ \A ec : OutcomeHandler(ec).op = "connect_outcome"
  /\ \A w : MoreHandler(w).op = "write_more" /\ MoreHandler(w).write = w
  /\ \A w, ec : SendHandler(w, ec).op = "send_cb" /\ SendHandler(w, ec).write = w
BY DEF StartConnectHandler, DeadlineHandler, OutcomeHandler, MoreHandler, SendHandler

\* The handler of a write that failed.
FailedWrite(h, w) == h.op = "send_cb" /\ h.write = w /\ h.ec

\* What async_write's handlers say about the write.
LEMMA OutcomeOfWrite ==
  ASSUME NEW w
  PROVE  FailedWrite(SendHandler(w, TRUE), w) /\ ~SendHandler(w, FALSE).ec
BY DEF FailedWrite, SendHandler

\* The first handler runs.
LEMMA HeadIsFirst ==
  ASSUME TypeOK, ready # <<>>
  PROVE  /\ ready \in Seq(Handler)
         /\ Len(ready) \in Nat \ {0} /\ DOMAIN ready = 1 .. Len(ready)
         /\ 1 \in DOMAIN ready /\ Head(ready) = ready[1]
BY DEF TypeOK

-----------------------------------------------------------------------------
(***************************************************************************)
(* One connection attempt at a time.                                       *)
(***************************************************************************)
\* A handler that neither is an attempt nor a write comes or goes.
LEMMA StartAttempt ==
  ASSUME TypeOK, AttemptInv, Start
  PROVE  AttemptInv'
<1> USE DEF AttemptOps, Waiting, Connected, WriteOps
<1>1. ready' = <<StartConnectHandler>> /\ StartConnectHandler.op = "start_connect"
  BY HandlerFields DEF AttemptInv, AttemptFits, Start
<1>2. socket_state' = "DISCONNECTED" /\ DOMAIN ready' = {1} /\ ready'[1].op = "start_connect"
       /\ writes' = <<>> /\ ~retry' /\ ~connecting' /\ link' = link /\ open' = open
       /\ writes = <<>> /\ ~connecting
  BY <1>1 DEF AttemptInv, AttemptFits, Start, sendVars, NoAttempt
<1>3. OneAttempt'
  BY <1>2 DEF OneAttempt
<1>4. AttemptFits'
  BY <1>2 DEF AttemptFits, NoAttempt
<1>5. ClosedIdle'
  BY <1>2 DEF AttemptInv, ClosedIdle
<1>6. WritesBeforeAttempt'
  BY <1>2 DEF WritesBeforeAttempt
<1> QED
  BY <1>3, <1>4, <1>5, <1>6 DEF AttemptInv

\* A write is accepted only where no attempt is under way.
LEMMA SendAttempt ==
  ASSUME TypeOK, AttemptInv, NEW size \in BlockSizes, Send(size)
  PROVE  AttemptInv'
<1> USE DEF AttemptOps, Waiting, Connected, WriteOps
<1>1. CASE ~Accepts(size)
  BY <1>1 DEF Send, AttemptInv, OneAttempt, AttemptFits, ClosedIdle, WritesBeforeAttempt,
              NoAttempt
<1>2. CASE Accepts(size) /\ open
  <2>1. socket_state = "CONNECTED_DATA_READY" /\ NoAttempt
    BY <1>2 DEF Accepts, AttemptInv, AttemptFits
  <2>2. ready' = ready /\ retry' = retry /\ connecting' = connecting /\ link' = link
         /\ open' = open /\ socket_state' = socket_state
    BY <1>2 DEF Send, AsyncWrite
  <2>3. NoAttempt'
    BY <2>1, <2>2 DEF NoAttempt
  <2> QED
    BY <1>2, <2>1, <2>2, <2>3 DEF AttemptInv, OneAttempt, AttemptFits, ClosedIdle,
       WritesBeforeAttempt, NoAttempt
<1>3. CASE Accepts(size) /\ ~open
  <2> DEFINE h == SendHandler(NewWrite(sends + 1, size), TRUE)
  <2>1. socket_state = "CONNECTED_DATA_READY" /\ NoAttempt
    BY <1>3 DEF Accepts, AttemptInv, AttemptFits
  <2>2. ready' = Append(ready, h) /\ retry' = retry /\ connecting' = connecting
         /\ link' = link /\ open' = open /\ socket_state' = socket_state /\ writes' = writes
    BY <1>3 DEF Send, AsyncWrite
  <2>3. h.op = "send_cb"
    BY HandlerFields
  <2> HIDE DEF h
  <2>4. ready \in Seq(Handler)
    BY DEF TypeOK
  <2>5. \A i \in DOMAIN ready' : \/ ready'[i].op = "send_cb"
                                 \/ i \in DOMAIN ready /\ ready'[i] = ready[i]
    BY <2>2, <2>3, <2>4, Appended
  <2>6. NoAttempt'
    BY <2>1, <2>2, <2>5 DEF NoAttempt
  <2>7. OneAttempt' /\ AttemptFits' /\ WritesBeforeAttempt'
    BY <2>1, <2>2, <2>6 DEF OneAttempt, AttemptFits, WritesBeforeAttempt, NoAttempt
  <2> QED
    BY <2>2, <2>7 DEF AttemptInv, ClosedIdle
<1> QED
  BY <1>1, <1>2, <1>3

\* A handler that is neither of an attempt nor of a write is put into the queue,
\* while the rest stays as it is.
LEMMA NeutralAttempt ==
  ASSUME TypeOK, AttemptInv, NEW h, h.op \notin AttemptOps \cup WriteOps,
         ready' = Append(ready, h),
         socket_state' \in {socket_state, "SHUTDOWN"}, socket_state # "NOT_STARTED",
         UNCHANGED <<retry, connecting, open, link, writes>>
  PROVE  AttemptInv'
<1> USE DEF AttemptOps, Waiting, Connected, WriteOps
<1>1. ready \in Seq(Handler)
  BY DEF TypeOK
<1>2. /\ \A i \in DOMAIN ready' : \/ ready'[i].op \notin AttemptOps \cup WriteOps
                                  \/ i \in DOMAIN ready /\ ready'[i] = ready[i]
      /\ \A i \in DOMAIN ready : i \in DOMAIN ready' /\ ready'[i] = ready[i]
  BY <1>1, Appended
<1>3. NoAttempt' <=> NoAttempt
  BY <1>2 DEF NoAttempt
<1>4. OneAttempt'
  BY <1>2 DEF AttemptInv, OneAttempt
<1>5. AttemptFits'
  BY <1>3 DEF AttemptInv, AttemptFits
<1>6. ClosedIdle'
  BY DEF AttemptInv, ClosedIdle
<1>7. WritesBeforeAttempt'
  <2>1. writes' # <<>> => NoAttempt'
    BY <1>3 DEF AttemptInv, WritesBeforeAttempt
  <2> QED
    BY <1>2, <2>1 DEF AttemptInv, WritesBeforeAttempt
<1> QED
  BY <1>4, <1>5, <1>6, <1>7 DEF AttemptInv

\* The retry timer's wait becomes a handler.
LEMMA RetryAttempt ==
  ASSUME TypeOK, AttemptInv, RetryFires
  PROVE  AttemptInv'
<1> USE DEF AttemptOps, Waiting, Connected, WriteOps
<1>1. ready \in Seq(Handler) /\ ready' = Append(ready, StartConnectHandler)
  BY DEF TypeOK, RetryFires
<1>2. StartConnectHandler.op = "start_connect"
  BY HandlerFields
<1>3. /\ DOMAIN ready' = 1 .. Len(ready) + 1 /\ DOMAIN ready = 1 .. Len(ready)
      /\ Len(ready) \in Nat
      /\ ready'[Len(ready) + 1].op = "start_connect"
      /\ \A i \in DOMAIN ready : ready'[i] = ready[i]
  BY <1>1, <1>2, Appended
<1>4. \A i \in DOMAIN ready : ready[i].op \notin AttemptOps
  BY DEF AttemptInv, OneAttempt, RetryFires
<1>5. /\ retry /\ ~retry' /\ ~connecting /\ ~connecting' /\ writes = <<>> /\ writes' = <<>>
      /\ link' = link /\ open' = open /\ socket_state' = socket_state
      /\ socket_state \notin Connected \cup {"NOT_STARTED"}
  BY DEF AttemptInv, OneAttempt, AttemptFits, NoAttempt, WritesBeforeAttempt, RetryFires, sendVars
<1>6. OneAttempt'
  BY <1>3, <1>4, <1>5 DEF OneAttempt
<1>7. AttemptFits'
  <2>1. ~NoAttempt'
    BY <1>3 DEF NoAttempt
  <2> QED
    BY <1>5, <2>1 DEF AttemptFits
<1>8. ClosedIdle'
  BY <1>5 DEF AttemptInv, ClosedIdle
<1>9. WritesBeforeAttempt'
  BY <1>3, <1>4, <1>5 DEF AttemptInv, WritesBeforeAttempt
<1> QED
  BY <1>6, <1>7, <1>8, <1>9 DEF AttemptInv

\* The outstanding connect becomes a handler.
LEMMA ConnectAttempt ==
  ASSUME TypeOK, AttemptInv, ConnectSucceeds \/ ConnectFails
  PROVE  AttemptInv'
<1> USE DEF AttemptOps, Waiting, Connected, WriteOps
<1>1. PICK h : ready' = Append(ready, h) /\ h.op = "connect_outcome"
  <2>1. PICK ec : ready' = Append(ready, OutcomeHandler(ec))
    BY DEF ConnectSucceeds, ConnectFails
  <2> QED
    BY <2>1, HandlerFields
<1>2. ready \in Seq(Handler)
  BY DEF TypeOK
<1>3. /\ DOMAIN ready' = 1 .. Len(ready) + 1 /\ DOMAIN ready = 1 .. Len(ready)
      /\ Len(ready) \in Nat
      /\ ready'[Len(ready) + 1].op = "connect_outcome"
      /\ \A i \in DOMAIN ready : ready'[i] = ready[i]
  BY <1>1, <1>2, Appended
<1>4. \A i \in DOMAIN ready : ready[i].op \notin AttemptOps /\ ready[i].op # "write_more"
  BY DEF AttemptInv, OneAttempt, WritesBeforeAttempt, ConnectSucceeds, ConnectFails
<1>0. connecting /\ ~connecting' /\ writes' = writes /\ retry' = retry /\ open' = open
        /\ socket_state' = socket_state
  BY DEF ConnectSucceeds, ConnectFails, sendVars
<1>5. /\ ~retry /\ ~retry' /\ connecting /\ ~connecting' /\ writes = <<>> /\ writes' = <<>>
      /\ open /\ open' /\ socket_state' = socket_state
      /\ socket_state \notin Connected \cup {"NOT_STARTED"}
  BY <1>0 DEF AttemptInv, OneAttempt, AttemptFits, NoAttempt, WritesBeforeAttempt, ClosedIdle
<1>6. OneAttempt'
  BY <1>3, <1>4, <1>5 DEF OneAttempt
<1>7. AttemptFits'
  <2>1. ~NoAttempt'
    BY <1>3 DEF NoAttempt
  <2> QED
    BY <1>5, <2>1 DEF AttemptFits
<1>8. ClosedIdle'
  BY <1>5 DEF ClosedIdle
<1>9. WritesBeforeAttempt'
  BY <1>3, <1>4, <1>5 DEF AttemptInv, WritesBeforeAttempt
<1> QED
  BY <1>6, <1>7, <1>8, <1>9 DEF AttemptInv

\* A write goes on, completes or fails: there is no attempt then.
LEMMA WriteAttempt ==
  ASSUME TypeOK, AttemptInv, NEW h, h.op \in WriteOps, ready' = Append(ready, h),
         writes # <<>>, writes' = Tail(writes),
         UNCHANGED <<socket_state, retry, connecting, open, link>>
  PROVE  AttemptInv'
<1> USE DEF AttemptOps, Waiting, Connected, WriteOps
<1>1. NoAttempt /\ open /\ socket_state \notin Waiting \cup {"NOT_STARTED"}
  BY DEF AttemptInv, WritesBeforeAttempt, ClosedIdle, AttemptFits
<1>2. ready \in Seq(Handler)
  BY DEF TypeOK
<1>3. \A i \in DOMAIN ready' : \/ ready'[i].op \in WriteOps
                               \/ i \in DOMAIN ready /\ ready'[i] = ready[i]
  BY <1>2, Appended
<1>4. NoAttempt'
  BY <1>1, <1>3 DEF NoAttempt
<1>5. OneAttempt' /\ WritesBeforeAttempt'
  BY <1>4 DEF OneAttempt, WritesBeforeAttempt, NoAttempt
<1> QED
  BY <1>1, <1>4, <1>5 DEF AttemptInv, AttemptFits, ClosedIdle

\* Closing the socket adds the outcome of a connect, or else the writes' handlers.
LEMMA Closed ==
  ASSUME TypeOK, AttemptInv, NEW rest \in Seq(Handler), CloseSocket(rest)
  PROVE  /\ Len(rest) \in Nat /\ DOMAIN rest = 1 .. Len(rest)
         /\ \A i \in DOMAIN rest : i \in DOMAIN ready' /\ ready'[i] = rest[i]
         /\ connecting =>
                /\ DOMAIN ready' = 1 .. (Len(rest) + 1)
                /\ ready'[Len(rest) + 1].op = "connect_outcome"
         /\ ~connecting =>
                /\ \A i \in DOMAIN writes :
                       /\ Len(rest) + i \in DOMAIN ready'
                       /\ FailedWrite(ready'[Len(rest) + i], writes[i])
                /\ \A i \in DOMAIN ready' :
                       \/ i \in DOMAIN rest
                       \/ /\ i > Len(rest) /\ i - Len(rest) \in DOMAIN writes
                          /\ FailedWrite(ready'[i], writes[i - Len(rest)])
<1> DEFINE aborted == [i \in DOMAIN writes |-> SendHandler(writes[i], TRUE)]
<1>1. AbortedOps \in Seq(Handler) /\ ready' = rest \o AbortedOps
  BY AbortedTypes DEF CloseSocket
<1>2. Len(writes) \in Nat /\ DOMAIN writes = 1 .. Len(writes)
  BY DEF TypeOK
<1>3. CASE connecting
  <2> DEFINE h == OutcomeHandler(TRUE)
  <2>1. writes = <<>>
    BY <1>3 DEF AttemptInv, WritesBeforeAttempt, NoAttempt
  <2>2. aborted = <<>>
    BY <2>1
  <2>3. AbortedOps = <<h>> \o aborted
    BY <1>3 DEF AbortedOps
  <2>4. h.op = "connect_outcome" /\ h \in Handler
    BY HandlerFields, HandlerTypes
  <2> HIDE DEF h, aborted
  <2>5. AbortedOps = <<h>>
    BY <2>2, <2>3, <2>4
  <2>6. Len(AbortedOps) = 1 /\ AbortedOps[1] = h /\ 1 \in DOMAIN AbortedOps
    BY <2>5
  <2> QED
    BY <1>1, <1>3, <2>4, <2>6, Joined
<1>4. CASE ~connecting
  <2>1. AbortedOps = <<>> \o aborted
    BY <1>4 DEF AbortedOps
  <2>2. aborted \in [1 .. Len(writes) -> Handler]
    <3>1. \A i \in DOMAIN writes : writes[i] \in Write
      BY DEF TypeOK
    <3> QED
      BY <1>2, <3>1, HandlerTypes, Zenon
  <2>3. \A i \in DOMAIN writes : FailedWrite(aborted[i], writes[i])
    BY OutcomeOfWrite, Zenon
  <2> HIDE DEF aborted
  <2>4. aborted \in Seq(Handler)
    BY <1>2, <2>2
  <2>5. AbortedOps = aborted
    BY <2>1, <2>4
  <2>6. DOMAIN aborted = DOMAIN writes
    BY <1>2, <2>2
  <2>7. ready' = rest \o aborted
    BY <1>1, <2>5
  <2>8. /\ \A i \in DOMAIN aborted :
               Len(rest) + i \in DOMAIN ready' /\ ready'[Len(rest) + i] = aborted[i]
        /\ \A i \in DOMAIN ready' :
               \/ i \in DOMAIN rest
               \/ /\ i > Len(rest) /\ i - Len(rest) \in DOMAIN aborted
                  /\ ready'[i] = aborted[i - Len(rest)]
        /\ \A i \in DOMAIN rest : i \in DOMAIN ready' /\ ready'[i] = rest[i]
        /\ Len(rest) \in Nat /\ DOMAIN rest = 1 .. Len(rest)
    BY <2>4, <2>7, Joined
  <2> QED
    BY <1>4, <2>3, <2>6, <2>8, Zenon
<1> QED
  BY <1>3, <1>4

\* The connection attempt begins.
LEMMA StartConnectAttempt ==
  ASSUME TypeOK, AttemptInv, start_connect
  PROVE  AttemptInv'
<1> USE DEF AttemptOps, Waiting, Connected, WriteOps
<1>1. ready \in Seq(Handler) /\ ready # <<>> /\ ready[1].op = "start_connect"
        /\ 1 \in DOMAIN ready
  <2>1. ready \in Seq(Handler) /\ ready # <<>> /\ Head(ready).op = "start_connect"
    BY DEF TypeOK, start_connect, Runs
  <2> QED
    BY <2>1, Popped
<1>2. /\ \A i \in DOMAIN ready : i # 1 => ready[i].op \notin AttemptOps \cup {"write_more"}
      /\ ~retry /\ ~connecting /\ writes = <<>> /\ ~NoAttempt
  <2>1. \A i \in DOMAIN ready : i # 1 => ready[i].op \notin AttemptOps
    BY <1>1 DEF AttemptInv, OneAttempt
  <2>2. \A i \in DOMAIN ready : i # 1 => ready[i].op # "write_more"
    <3> SUFFICES ASSUME NEW i \in DOMAIN ready, i # 1, ready[i].op = "write_more"
                 PROVE  FALSE
      OBVIOUS
    <3>1. i < 1 /\ i \in 1 .. Len(ready)
      BY <1>1 DEF AttemptInv, WritesBeforeAttempt
    <3> QED
      BY <3>1
  <2>3. ~NoAttempt
    BY <1>1 DEF NoAttempt
  <2>4. ~retry /\ ~connecting /\ writes = <<>>
    BY <1>1, <2>3 DEF AttemptInv, OneAttempt, WritesBeforeAttempt
  <2> QED
    BY <2>1, <2>2, <2>3, <2>4
<1>3. socket_state \notin Connected \cup {"NOT_STARTED"}
  BY <1>2 DEF AttemptInv, AttemptFits
<1>4. \A i \in DOMAIN ready' : ready'[i].op \notin AttemptOps \cup {"write_more"}
  <2> DEFINE extra == IF deadline THEN <<DeadlineHandler>> ELSE <<>>
  <2>1. ready' = Tail(ready) \/ ready' = Tail(ready) \o extra
    BY DEF start_connect
  <2>2. \A i \in DOMAIN Tail(ready) : Tail(ready)[i].op \notin AttemptOps \cup {"write_more"}
    <3>1. \A i \in DOMAIN Tail(ready) : i + 1 \in DOMAIN ready /\ Tail(ready)[i] = ready[i + 1]
            /\ i + 1 # 1
      BY <1>1, Popped
    <3> QED
      BY <1>2, <3>1
  <2>3. extra \in Seq(Handler) /\ \A i \in DOMAIN extra : extra[i].op = "connect_deadline"
    <3>1. <<DeadlineHandler>> \in Seq(Handler) /\ <<>> \in Seq(Handler)
      BY HandlerTypes, OneElement
    <3>2. CASE deadline
      BY <3>1, <3>2, HandlerFields
    <3>3. CASE ~deadline
      BY <3>1, <3>3
    <3> QED
      BY <3>2, <3>3
  <2>4. Tail(ready) \in Seq(Handler)
    BY <1>1, Popped
  <2> HIDE DEF extra
  <2>5. \A i \in DOMAIN (Tail(ready) \o extra) :
            (Tail(ready) \o extra)[i].op \notin AttemptOps \cup {"write_more"}
    <3> SUFFICES ASSUME NEW i \in DOMAIN (Tail(ready) \o extra)
                 PROVE  (Tail(ready) \o extra)[i].op \notin AttemptOps \cup {"write_more"}
      OBVIOUS
    <3>1. CASE i \in DOMAIN Tail(ready)
      BY <2>2, <2>3, <2>4, <3>1, Joined
    <3>2. CASE i > Len(Tail(ready)) /\ i - Len(Tail(ready)) \in DOMAIN extra
      <4>1. (Tail(ready) \o extra)[i] = extra[i - Len(Tail(ready))]
        BY <2>3, <2>4, <3>2
      <4> QED
        BY <2>3, <3>2, <4>1
    <3> QED
      BY <2>3, <2>4, <3>1, <3>2, Joined
  <2> QED
    BY <2>1, <2>2, <2>5
<1>5. CASE socket_state = "SHUTDOWN"
  <2>1. socket_state' = "SHUTDOWN" /\ ~retry' /\ ~connecting' /\ writes' = <<>>
         /\ link' = link /\ open' = open
    BY <1>2, <1>5 DEF start_connect, sendVars
  <2> QED
    BY <1>2, <1>4, <2>1 DEF AttemptInv, OneAttempt, AttemptFits, WritesBeforeAttempt,
       ClosedIdle, NoAttempt
<1>6. CASE socket_state # "SHUTDOWN"
  <2>1. socket_state' = "CONNECT_IN_PROGRESS" /\ ~retry' /\ connecting' /\ writes' = <<>>
         /\ open'
    BY <1>2, <1>6 DEF start_connect, sendVars
  <2> QED
    BY <1>4, <2>1 DEF AttemptInv, OneAttempt, AttemptFits, WritesBeforeAttempt,
       ClosedIdle, NoAttempt
<1> QED
  BY <1>5, <1>6

\* What is outstanding on the socket is aborted by a handler of neither kind of
\* attempt; the state is left, or set to wait for a retry.
LEMMA CloseAttempt ==
  ASSUME TypeOK, AttemptInv, ready # <<>>, Head(ready).op \notin AttemptOps,
         CloseSocket(Tail(ready)),
         \/ UNCHANGED <<socket_state, retry>> /\ socket_state \notin Connected
         \/ /\ socket_state \in Connected
            /\ socket_state' = "CONNECT_PENDING" /\ retry' = TRUE
  PROVE  AttemptInv'
<1> USE DEF AttemptOps, Waiting, Connected, WriteOps
<1> DEFINE n == Len(ready) - 1
<1>1. /\ ready \in Seq(Handler) /\ ready[1].op \notin AttemptOps /\ 1 \in DOMAIN ready
      /\ Tail(ready) \in Seq(Handler)
      /\ n \in Nat /\ DOMAIN ready = 1 .. (n + 1) /\ DOMAIN Tail(ready) = 1 .. n
      /\ Len(Tail(ready)) = n
      /\ \A i \in 1 .. n : Tail(ready)[i] = ready[i + 1]
  <2>1. ready \in Seq(Handler)
    BY DEF TypeOK
  <2> QED
    BY <2>1, Popped
<1>2. /\ ~open' /\ link' = "none" /\ ~connecting' /\ writes' = <<>>
  BY DEF CloseSocket
<1>3. ClosedIdle'
  BY <1>2 DEF ClosedIdle
<1>4. CASE connecting
  <2>1. /\ \A i \in DOMAIN ready : ready[i].op \notin AttemptOps /\ ready[i].op # "write_more"
        /\ ~retry /\ socket_state \notin Connected \cup {"NOT_STARTED"}
    BY <1>4 DEF AttemptInv, OneAttempt, WritesBeforeAttempt, AttemptFits, NoAttempt
  <2>2. ~retry' /\ socket_state' = socket_state
    BY <2>1
  <2>3. /\ DOMAIN ready' = 1 .. (n + 1)
        /\ ready'[n + 1].op = "connect_outcome"
        /\ \A i \in 1 .. n : ready'[i] = ready[i + 1]
    BY <1>1, <1>4, Closed
  <2>4. \A i \in 1 .. n : ready'[i].op \notin AttemptOps /\ ready'[i].op # "write_more"
    BY <1>1, <2>1, <2>3
  <2> HIDE DEF n
  <2>5. n + 1 \in DOMAIN ready' /\ \A i \in DOMAIN ready' : i = n + 1 \/ i \in 1 .. n
    BY <1>1, <2>3
  <2>6. ~NoAttempt'
    BY <2>3, <2>5 DEF NoAttempt
  <2>7. OneAttempt'
    BY <1>2, <2>2, <2>4, <2>5 DEF OneAttempt
  <2>8. AttemptFits'
    BY <2>1, <2>2, <2>6 DEF AttemptFits
  <2>9. WritesBeforeAttempt'
    <3>1. \A i, j \in DOMAIN ready' :
            ready'[i].op \in WriteOps /\ ready'[j].op = "connect_outcome" => i < j
      BY <1>1, <2>3, <2>4, <2>5
    <3>2. \A i \in DOMAIN ready' : ready'[i].op # "write_more"
      BY <2>3, <2>4, <2>5
    <3> QED
      BY <1>2, <3>1, <3>2 DEF WritesBeforeAttempt
  <2> QED
    BY <1>3, <2>7, <2>8, <2>9 DEF AttemptInv
<1>5. CASE ~connecting
  <2>1. \A i \in DOMAIN ready' :
            \/ i \in 1 .. n /\ ready'[i] = ready[i + 1]
            \/ i > n /\ writes # <<>> /\ ready'[i].op = "send_cb"
    <3>1. \A i \in DOMAIN writes : writes # <<>>
      BY DEF TypeOK
    <3>2. /\ \A i \in DOMAIN ready' :
                 \/ i \in DOMAIN Tail(ready)
                 \/ /\ i > Len(Tail(ready)) /\ i - Len(Tail(ready)) \in DOMAIN writes
                    /\ FailedWrite(ready'[i], writes[i - Len(Tail(ready))])
          /\ \A i \in DOMAIN Tail(ready) : ready'[i] = Tail(ready)[i]
      BY <1>1, <1>5, Closed
    <3> HIDE DEF n
    <3> QED
      BY <1>1, <3>1, <3>2 DEF FailedWrite
  <2>2. \A i \in DOMAIN ready : i # 1 => i - 1 \in DOMAIN ready' /\ ready'[i - 1] = ready[i]
    <3>1. \A i \in 1 .. n : i \in DOMAIN ready' /\ ready'[i] = ready[i + 1]
      BY <1>1, Closed
    <3>2. \A i \in DOMAIN ready : i # 1 => i - 1 \in 1 .. n /\ (i - 1) + 1 = i
      BY <1>1
    <3> QED
      BY <3>1, <3>2
  <2> HIDE DEF n
  <2>3. \A i \in 1 .. n : i + 1 \in DOMAIN ready
    BY <1>1
  <2>4. OneAttempt'
    <3>1. \A i, j \in DOMAIN ready' :
             ready'[i].op \in AttemptOps /\ ready'[j].op \in AttemptOps => i = j
      <4> SUFFICES ASSUME NEW i \in DOMAIN ready', NEW j \in DOMAIN ready',
                          ready'[i].op \in AttemptOps, ready'[j].op \in AttemptOps
                   PROVE  i = j
        OBVIOUS
      <4>1. i \in 1 .. n /\ j \in 1 .. n /\ i + 1 = j + 1
        BY <2>1, <2>3 DEF AttemptInv, OneAttempt
      <4> QED
        BY <1>1, <4>1
    <3>2. retry' => \A i \in DOMAIN ready' : ready'[i].op \notin AttemptOps
      <4>1. retry' => \A i \in DOMAIN ready : ready[i].op \notin AttemptOps
        BY DEF AttemptInv, OneAttempt, AttemptFits, NoAttempt
      <4> QED
        BY <2>1, <2>3, <4>1
    <3> QED
      BY <1>2, <3>1, <3>2 DEF OneAttempt
  <2>5. AttemptFits'
    <3>1. CASE socket_state \in Connected
      BY <3>1 DEF AttemptFits, NoAttempt
    <3>2. CASE UNCHANGED <<socket_state, retry>> /\ socket_state \notin Connected
      <4>1. socket_state # "NOT_STARTED"
        BY DEF AttemptInv, AttemptFits
      <4>2. socket_state \in Waiting => ~NoAttempt'
        <5> SUFFICES ASSUME socket_state \in Waiting, ~retry' PROVE ~NoAttempt'
          BY DEF NoAttempt
        <5>1. PICK i \in DOMAIN ready : ready[i].op \in AttemptOps
          BY <1>5, <3>2 DEF AttemptInv, AttemptFits, NoAttempt
        <5>2. i # 1
          BY <1>1, <5>1
        <5> QED
          BY <2>2, <5>1, <5>2 DEF NoAttempt
      <4> QED
        BY <3>2, <4>1, <4>2 DEF AttemptFits
    <3> QED
      BY <3>1, <3>2
  <2>6. WritesBeforeAttempt'
    <3>1. ASSUME NEW i \in DOMAIN ready', NEW j \in DOMAIN ready',
                 ready'[i].op \in WriteOps, ready'[j].op \in AttemptOps
          PROVE  ready'[j].op = "connect_outcome" => i < j
      <4> SUFFICES ASSUME ready'[j].op = "connect_outcome" PROVE i < j
        OBVIOUS
      <4>1. j \in 1 .. n /\ j + 1 \in DOMAIN ready /\ ready[j + 1].op = "connect_outcome"
        BY <2>1, <2>3
      <4>2. writes = <<>>
        BY <4>1 DEF AttemptInv, WritesBeforeAttempt, NoAttempt
      <4>3. i \in 1 .. n /\ i + 1 \in DOMAIN ready /\ ready[i + 1].op \in WriteOps
        BY <2>1, <2>3, <3>1, <4>2
      <4>4. i + 1 < j + 1
        BY <4>1, <4>3 DEF AttemptInv, WritesBeforeAttempt
      <4> QED
        BY <1>1, <4>1, <4>3, <4>4
    <3>2. ASSUME NEW i \in DOMAIN ready', ready'[i].op = "write_more", NEW j \in DOMAIN ready'
          PROVE  /\ ready'[j].op = "start_connect" => i < j
                 /\ ready'[j].op # "connect_outcome"
      <4>1. i \in 1 .. n /\ i + 1 \in DOMAIN ready /\ ready[i + 1].op = "write_more"
        BY <2>1, <2>3, <3>2
      <4>2. CASE ready'[j].op \in AttemptOps
        <5>1. j \in 1 .. n /\ j + 1 \in DOMAIN ready /\ ready[j + 1] = ready'[j]
          BY <2>1, <2>3, <4>2
        <5>2. /\ ready[j + 1].op = "start_connect" => i + 1 < j + 1
              /\ ready[j + 1].op # "connect_outcome"
          BY <4>1, <5>1 DEF AttemptInv, WritesBeforeAttempt
        <5> QED
          BY <1>1, <4>1, <5>1, <5>2
      <4> QED
        BY <4>2
    <3> QED
      BY <1>2, <3>1, <3>2 DEF WritesBeforeAttempt
  <2> QED
    BY <1>3, <2>4, <2>5, <2>6 DEF AttemptInv
<1> QED
  BY <1>4, <1>5

\* The queue without its running handler.
LEMMA Behind ==
  ASSUME TypeOK, ready # <<>>
  PROVE  /\ ready \in Seq(Handler) /\ Tail(ready) \in Seq(Handler)
         /\ 1 \in DOMAIN ready /\ Head(ready) = ready[1] /\ Head(ready) \in Handler
         /\ \A i \in DOMAIN ready : i \in Nat /\ i >= 1
         /\ \A i \in DOMAIN Tail(ready) :
                i \in Nat /\ i + 1 \in DOMAIN ready /\ Tail(ready)[i] = ready[i + 1]
         /\ \A i \in DOMAIN ready :
                i # 1 => i - 1 \in DOMAIN Tail(ready) /\ Tail(ready)[i - 1] = ready[i]
<1>1. ready \in Seq(Handler)
  BY DEF TypeOK
<1> QED
  BY <1>1, Popped

\* A handler that is not of an attempt runs and leaves the socket alone.
LEMMA PopAttempt ==
  ASSUME TypeOK, AttemptInv, ready # <<>>, Head(ready).op \notin AttemptOps,
         ready' = Tail(ready), UNCHANGED <<connecting, open, link, writes>>,
         \/ UNCHANGED <<socket_state, retry>>
         \/ /\ socket_state \in Connected /\ socket_state' \in Connected
            /\ UNCHANGED retry
         \/ /\ socket_state \in Connected /\ socket_state' = "CONNECT_PENDING"
            /\ ~open /\ retry' = TRUE
  PROVE  AttemptInv'
<1> USE DEF AttemptOps, Waiting, Connected, WriteOps
<1>1. /\ 1 \in DOMAIN ready /\ ready[1].op \notin AttemptOps
      /\ \A i \in DOMAIN ready' :
             i \in Nat /\ i + 1 \in DOMAIN ready /\ ready'[i] = ready[i + 1]
      /\ \A i \in DOMAIN ready : i # 1 => i - 1 \in DOMAIN ready' /\ ready'[i - 1] = ready[i]
  BY Behind
<1>2. ClosedIdle'
  BY DEF AttemptInv, ClosedIdle
<1>3. \A i, j \in DOMAIN ready' :
          /\ ready'[i].op \in AttemptOps /\ ready'[j].op \in AttemptOps => i = j
          /\ ready'[i].op = "write_more" =>
                /\ ready'[j].op = "start_connect" => i < j /\ ~open
                /\ ready'[j].op # "connect_outcome"
          /\ ready'[i].op \in WriteOps /\ ready'[j].op = "connect_outcome" => i < j
  <2> SUFFICES ASSUME NEW i \in DOMAIN ready', NEW j \in DOMAIN ready'
               PROVE  /\ ready'[i].op \in AttemptOps /\ ready'[j].op \in AttemptOps => i = j
                      /\ ready'[i].op = "write_more" =>
                             /\ ready'[j].op = "start_connect" => i < j /\ ~open
                             /\ ready'[j].op # "connect_outcome"
                      /\ ready'[i].op \in WriteOps /\ ready'[j].op = "connect_outcome" => i < j
    OBVIOUS
  <2>1. /\ i \in Nat /\ i + 1 \in DOMAIN ready /\ ready'[i] = ready[i + 1]
        /\ j \in Nat /\ j + 1 \in DOMAIN ready /\ ready'[j] = ready[j + 1]
    BY <1>1
  <2>2. /\ ready[i + 1].op \in AttemptOps /\ ready[j + 1].op \in AttemptOps => i + 1 = j + 1
        /\ ready[i + 1].op = "write_more" =>
              /\ ready[j + 1].op = "start_connect" => i + 1 < j + 1 /\ ~open
              /\ ready[j + 1].op # "connect_outcome"
        /\ ready[i + 1].op \in WriteOps /\ ready[j + 1].op = "connect_outcome" => i + 1 < j + 1
    BY <2>1 DEF AttemptInv, OneAttempt, WritesBeforeAttempt
  <2> QED
    BY <2>1, <2>2
<1>4. NoAttempt <=> ((\A i \in DOMAIN ready' : ready'[i].op \notin AttemptOps)
                       /\ ~retry /\ ~connecting)
  BY <1>1 DEF NoAttempt
<1>5. CASE socket_state \in Connected /\ socket_state' = "CONNECT_PENDING" /\ ~open /\ retry' = TRUE
  <2>1. NoAttempt /\ writes = <<>>
    BY <1>5 DEF AttemptInv, AttemptFits, ClosedIdle
  <2>2. (\A i \in DOMAIN ready' : ready'[i].op \notin AttemptOps) /\ ~connecting'
    BY <1>4, <2>1 DEF NoAttempt
  <2>3. OneAttempt' /\ AttemptFits'
    BY <1>5, <2>2 DEF OneAttempt, AttemptFits, NoAttempt
  <2>4. WritesBeforeAttempt'
    BY <1>3, <1>5, <2>1, <2>2 DEF WritesBeforeAttempt
  <2> QED
    BY <1>2, <2>3, <2>4 DEF AttemptInv
<1>6. CASE UNCHANGED retry
  <2>1. NoAttempt' <=> NoAttempt
    BY <1>4, <1>6 DEF NoAttempt
  <2>2. OneAttempt'
    <3>1. retry' \/ connecting' => \A i \in DOMAIN ready' : ready'[i].op \notin AttemptOps
      BY <1>1, <1>6 DEF AttemptInv, OneAttempt
    <3> QED
      BY <1>3, <1>6, <3>1 DEF AttemptInv, OneAttempt
  <2>3. AttemptFits'
    <3>1. socket_state # "NOT_STARTED"
      BY DEF AttemptInv, AttemptFits
    <3>2. CASE UNCHANGED socket_state
      BY <2>1, <3>1, <3>2 DEF AttemptInv, AttemptFits
    <3>3. CASE socket_state \in Connected /\ socket_state' \in Connected
      BY <2>1, <3>3 DEF AttemptInv, AttemptFits
    <3>4. ~(socket_state \in Connected /\ retry')
      BY <1>6 DEF AttemptInv, AttemptFits, NoAttempt
    <3> QED
      BY <3>2, <3>3, <3>4
  <2>4. WritesBeforeAttempt'
    <3>1. writes' # <<>> => NoAttempt'
      BY <2>1 DEF AttemptInv, WritesBeforeAttempt
    <3>2. \A i \in DOMAIN ready' :
             ready'[i].op = "write_more" => ~connecting' /\ (retry' => ~open')
      BY <1>1, <1>6 DEF AttemptInv, WritesBeforeAttempt
    <3> QED
      BY <1>3, <3>1, <3>2 DEF WritesBeforeAttempt
  <2> QED
    BY <1>2, <2>2, <2>3, <2>4 DEF AttemptInv
<1> QED
  BY <1>5, <1>6

\* The outcome of a connect is the end of the attempt, or schedules the next one.
LEMMA OutcomeAttempt ==
  ASSUME TypeOK, AttemptInv, connect_outcome_cb
  PROVE  AttemptInv'
<1> USE DEF AttemptOps, Waiting, Connected, WriteOps
<1>1. ready # <<>> /\ 1 \in DOMAIN ready /\ ready[1].op = "connect_outcome"
  <2>1. ready # <<>> /\ Head(ready).op = "connect_outcome"
    BY DEF connect_outcome_cb, Runs
  <2> QED
    BY <2>1, Behind
<1>2. /\ ~retry /\ ~connecting /\ writes = <<>>
      /\ \A i \in DOMAIN ready : /\ i # 1 => ready[i].op \notin AttemptOps
                                 /\ ready[i].op # "write_more"
      /\ socket_state \notin Connected \cup {"NOT_STARTED"}
  BY <1>1 DEF AttemptInv, OneAttempt, WritesBeforeAttempt, NoAttempt, AttemptFits
<1>3. \A i \in DOMAIN Tail(ready) : Tail(ready)[i].op \notin AttemptOps \cup {"write_more"}
  <2>1. \A i \in DOMAIN Tail(ready) :
           i + 1 \in DOMAIN ready /\ i + 1 # 1 /\ Tail(ready)[i] = ready[i + 1]
    BY <1>1, Behind
  <2> QED
    BY <1>2, <2>1
<1>4. connecting' = connecting /\ link' = link /\ open' = open
  BY DEF connect_outcome_cb
<1>5. CASE socket_state = "SHUTDOWN"
  <2>1. ready' = Tail(ready) /\ socket_state' = "SHUTDOWN" /\ retry' = retry /\ writes' = writes
    BY <1>5 DEF connect_outcome_cb
  <2> QED
    BY <1>2, <1>3, <1>4, <2>1 DEF AttemptInv, OneAttempt, WritesBeforeAttempt, NoAttempt,
       AttemptFits, ClosedIdle
<1>6. CASE socket_state # "SHUTDOWN" /\ (Head(ready).ec \/ ~open)
  <2>1. ready' = Tail(ready) /\ socket_state' = "CONNECT_PENDING" /\ retry' /\ writes' = writes
    BY <1>6 DEF connect_outcome_cb, set_state_schedule_connect
  <2>2. OneAttempt' /\ AttemptFits' /\ WritesBeforeAttempt'
    BY <1>2, <1>3, <1>4, <2>1 DEF OneAttempt, WritesBeforeAttempt, NoAttempt, AttemptFits
  <2> QED
    BY <1>4, <2>1, <2>2 DEF AttemptInv, ClosedIdle
<1>7. CASE socket_state # "SHUTDOWN" /\ ~(Head(ready).ec \/ ~open)
  <2>1. ready' = Tail(ready) /\ socket_state' = "CONNECTED_DATA_NOT_READY" /\ retry' = retry
         /\ open
    BY <1>7 DEF connect_outcome_cb, AsyncWrite
  <2>2. OneAttempt' /\ AttemptFits' /\ WritesBeforeAttempt'
    BY <1>2, <1>3, <1>4, <2>1 DEF OneAttempt, WritesBeforeAttempt, NoAttempt, AttemptFits
  <2> QED
    BY <1>4, <2>1, <2>2 DEF AttemptInv, ClosedIdle
<1> QED
  BY <1>5, <1>6, <1>7

\* A write that goes on waits for the socket again, or fails if it is closed.
LEMMA MoreAttempt ==
  ASSUME TypeOK, AttemptInv, write_more
  PROVE  AttemptInv'
<1> USE DEF AttemptOps, Waiting, Connected, WriteOps
<1>1. ready # <<>> /\ 1 \in DOMAIN ready /\ ready[1].op = "write_more"
  <2>1. ready # <<>> /\ Head(ready).op = "write_more"
    BY DEF write_more, Runs
  <2> QED
    BY <2>1, Behind
<1>2. /\ ~connecting /\ (retry => ~open)
      /\ \A i \in DOMAIN ready : /\ ready[i].op = "start_connect" => ~open
                                 /\ ready[i].op # "connect_outcome"
      /\ socket_state # "NOT_STARTED"
  BY <1>1 DEF AttemptInv, WritesBeforeAttempt, AttemptFits
<1>3. connecting' = connecting /\ link' = link /\ open' = open /\ retry' = retry
        /\ socket_state' = socket_state
  BY DEF write_more
<1>4. CASE open
  <2>1. NoAttempt
    BY <1>2, <1>4 DEF NoAttempt
  <2>2. ready' = Tail(ready)
    BY <1>4 DEF write_more, AsyncWrite
  <2>3. NoAttempt'
    BY <1>1, <1>3, <2>1, <2>2, Behind DEF NoAttempt
  <2>4. OneAttempt' /\ WritesBeforeAttempt' /\ ClosedIdle'
    BY <1>3, <1>4, <2>3 DEF OneAttempt, WritesBeforeAttempt, NoAttempt, ClosedIdle
  <2>5. AttemptFits'
    BY <1>2, <1>3, <2>1, <2>3 DEF AttemptInv, AttemptFits
  <2> QED
    BY <2>4, <2>5 DEF AttemptInv
<1>5. CASE ~open
  <2> DEFINE h == SendHandler(Head(ready).write, TRUE)
  <2>1. h.op = "send_cb" /\ ready' = Append(Tail(ready), h) /\ writes' = writes
    BY <1>5, HandlerFields DEF write_more, AsyncWrite
  <2> HIDE DEF h
  <2>2. Tail(ready) \in Seq(Handler)
    BY <1>1, Behind
  <2>3. /\ \A i \in DOMAIN ready' : \/ i \in DOMAIN Tail(ready) /\ ready'[i] = Tail(ready)[i]
                                    \/ ready'[i].op = "send_cb"
        /\ \A i \in DOMAIN Tail(ready) : i \in DOMAIN ready' /\ ready'[i] = Tail(ready)[i]
    BY <2>1, <2>2, Appended
  <2>4. /\ \A i \in DOMAIN ready' :
               \/ i \in Nat /\ i + 1 \in DOMAIN ready /\ ready'[i] = ready[i + 1]
               \/ ready'[i].op = "send_cb"
        /\ \A i \in DOMAIN ready : i # 1 => i - 1 \in DOMAIN ready' /\ ready'[i - 1] = ready[i]
    BY <1>1, <2>3, Behind
  <2>5. NoAttempt' <=> NoAttempt
    BY <1>1, <1>3, <2>4 DEF NoAttempt
  <2>6. ClosedIdle' /\ AttemptFits'
    BY <1>2, <1>3, <2>1, <2>5 DEF AttemptInv, AttemptFits, ClosedIdle
  <2>7. OneAttempt'
    <3>1. \A i, j \in DOMAIN ready' :
            ready'[i].op \in AttemptOps /\ ready'[j].op \in AttemptOps => i = j
      <4> SUFFICES ASSUME NEW i \in DOMAIN ready', NEW j \in DOMAIN ready',
                          ready'[i].op \in AttemptOps, ready'[j].op \in AttemptOps
                   PROVE  i = j
        OBVIOUS
      <4>1. i + 1 = j + 1 /\ i \in Nat /\ j \in Nat
        BY <2>4 DEF AttemptInv, OneAttempt
      <4> QED
        BY <4>1
    <3> QED
      BY <1>3, <2>4, <3>1 DEF AttemptInv, OneAttempt
  <2>8. WritesBeforeAttempt'
    <3>1. \A i \in DOMAIN ready' : ready'[i].op # "connect_outcome"
      BY <1>2, <2>4
    <3>2. \A i, j \in DOMAIN ready' :
             ready'[i].op = "write_more" /\ ready'[j].op = "start_connect" => i < j
      <4> SUFFICES ASSUME NEW i \in DOMAIN ready', NEW j \in DOMAIN ready',
                          ready'[i].op = "write_more", ready'[j].op = "start_connect"
                   PROVE  i < j
        OBVIOUS
      <4>1. i + 1 < j + 1 /\ i \in Nat /\ j \in Nat
        BY <2>4 DEF AttemptInv, WritesBeforeAttempt
      <4> QED
        BY <4>1
    <3>3. writes' = <<>>
      BY <1>5, <2>1 DEF AttemptInv, ClosedIdle
    <3> QED
      BY <1>2, <1>3, <1>5, <3>1, <3>2, <3>3 DEF WritesBeforeAttempt
  <2> QED
    BY <2>6, <2>7, <2>8 DEF AttemptInv
<1> QED
  BY <1>4, <1>5

\* shutdown_cb closes the socket and turns the timers' waits into handlers.
LEMMA ShutdownRest ==
  ASSUME TypeOK, shutdown_cb
  PROVE  \E rest \in Seq(Handler) :
            /\ ready # <<>> /\ 1 \in DOMAIN ready /\ ready[1].op = "shutdown"
            /\ CloseSocket(rest)
            /\ \A i \in DOMAIN rest :
                   \/ i \in DOMAIN Tail(ready) /\ rest[i] = Tail(ready)[i]
                   \/ rest[i].op = "connect_deadline"
                   \/ i = Len(rest) /\ retry /\ rest[i].op = "start_connect"
            /\ \A i \in DOMAIN Tail(ready) : i \in DOMAIN rest /\ rest[i] = Tail(ready)[i]
            /\ retry => Len(rest) \in DOMAIN rest /\ rest[Len(rest)].op = "start_connect"
                          /\ Len(rest) \notin DOMAIN Tail(ready)
<1> DEFINE dl == IF deadline THEN <<DeadlineHandler>> ELSE <<>>
           st == IF retry THEN <<StartConnectHandler>> ELSE <<>>
           first == Tail(ready) \o dl
           rest == first \o st
<1>1. ready # <<>> /\ Head(ready).op = "shutdown" /\ CloseSocket(rest)
  BY DEF shutdown_cb, Runs
<1>2. Tail(ready) \in Seq(Handler) /\ 1 \in DOMAIN ready /\ ready[1].op = "shutdown"
  BY <1>1, Behind
<1>3. /\ <<DeadlineHandler>> \in Seq(Handler) /\ <<>> \in Seq(Handler)
      /\ <<StartConnectHandler>> \in Seq(Handler)
  BY HandlerTypes, OneElement
<1>4. dl \in Seq(Handler) /\ \A i \in DOMAIN dl : dl[i].op = "connect_deadline"
  <2>1. CASE deadline
    BY <1>3, <2>1, HandlerFields
  <2>2. CASE ~deadline
    BY <1>3, <2>2
  <2> QED
    BY <2>1, <2>2
<1>5. /\ st \in Seq(Handler) /\ \A i \in DOMAIN st : i = 1 /\ retry /\ st[i].op = "start_connect"
      /\ retry => Len(st) = 1 /\ 1 \in DOMAIN st
      /\ ~retry => Len(st) = 0
  <2>1. CASE retry
    BY <1>3, <2>1, HandlerFields
  <2>2. CASE ~retry
    BY <1>3, <2>2
  <2> QED
    BY <2>1, <2>2
<1> HIDE DEF dl, st
<1>6. /\ first \in Seq(Handler) /\ Len(first) \in Nat /\ DOMAIN first = 1 .. Len(first)
      /\ \A i \in DOMAIN first : \/ i \in DOMAIN Tail(ready) /\ first[i] = Tail(ready)[i]
                                 \/ first[i].op = "connect_deadline"
      /\ \A i \in DOMAIN Tail(ready) : i \in DOMAIN first /\ first[i] = Tail(ready)[i]
  <2>1. first \in Seq(Handler)
    BY <1>2, <1>4
  <2>2. \A i \in DOMAIN first : \/ i \in DOMAIN Tail(ready)
                                \/ first[i].op = "connect_deadline"
    BY <1>2, <1>4, Joined
  <2>3. \A i \in DOMAIN Tail(ready) : i \in DOMAIN first /\ first[i] = Tail(ready)[i]
    BY <1>2, <1>4, Joined
  <2> HIDE DEF first
  <2> QED
    BY <2>1, <2>2, <2>3
<1> HIDE DEF first
<1>7. /\ rest \in Seq(Handler) /\ Len(rest) = Len(first) + Len(st)
      /\ \A i \in DOMAIN rest : \/ i \in DOMAIN first /\ rest[i] = first[i]
                                \/ i = Len(first) + 1 /\ retry /\ rest[i].op = "start_connect"
      /\ \A i \in DOMAIN first : i \in DOMAIN rest /\ rest[i] = first[i]
      /\ retry => Len(first) + 1 \in DOMAIN rest /\ rest[Len(first) + 1].op = "start_connect"
  <2>1. rest \in Seq(Handler) /\ Len(rest) = Len(first) + Len(st)
    BY <1>5, <1>6
  <2>2. \A i \in DOMAIN rest :
           \/ i \in DOMAIN first
           \/ i > Len(first) /\ i - Len(first) \in DOMAIN st /\ rest[i] = st[i - Len(first)]
    BY <1>5, <1>6, Joined
  <2>3. \A i \in DOMAIN first : i \in DOMAIN rest /\ rest[i] = first[i]
    BY <1>5, <1>6, Joined
  <2>4. retry => Len(first) + 1 \in DOMAIN rest /\ rest[Len(first) + 1].op = "start_connect"
    <3>1. \A i \in DOMAIN st : Len(first) + i \in DOMAIN rest /\ rest[Len(first) + i] = st[i]
      BY <1>5, <1>6, Joined
    <3> QED
      BY <1>5, <3>1
  <2>6. DOMAIN rest \subseteq Nat
    BY <2>1
  <2> HIDE DEF rest
  <2>5. \A i \in DOMAIN rest : i \notin DOMAIN first =>
            i = Len(first) + 1 /\ retry /\ rest[i].op = "start_connect"
    <3> SUFFICES ASSUME NEW i \in DOMAIN rest, i \notin DOMAIN first
                 PROVE  i = Len(first) + 1 /\ retry /\ rest[i].op = "start_connect"
      OBVIOUS
    <3>1. i - Len(first) \in DOMAIN st /\ rest[i] = st[i - Len(first)]
      BY <2>2
    <3>2. i - Len(first) = 1 /\ retry /\ st[i - Len(first)].op = "start_connect"
      BY <1>5, <3>1
    <3>3. i \in Nat /\ Len(first) \in Nat
      BY <1>6, <2>6
    <3> QED
      BY <3>1, <3>2, <3>3
  <2> QED
    BY <2>1, <2>3, <2>4, <2>5
<1> HIDE DEF rest
<1>8. retry => /\ Len(rest) \in DOMAIN rest /\ rest[Len(rest)].op = "start_connect"
               /\ Len(rest) \notin DOMAIN Tail(ready)
  <2>1. retry => Len(rest) = Len(first) + 1
    BY <1>5, <1>7
  <2>2. Len(first) + 1 \notin DOMAIN first
    BY <1>6
  <2> QED
    BY <1>6, <1>7, <2>1, <2>2
<1>9. \A i \in DOMAIN rest :
         \/ i \in DOMAIN Tail(ready) /\ rest[i] = Tail(ready)[i]
         \/ rest[i].op = "connect_deadline"
         \/ i = Len(rest) /\ retry /\ rest[i].op = "start_connect"
  <2>1. retry => Len(rest) = Len(first) + 1
    BY <1>5, <1>7
  <2> QED
    BY <1>6, <1>7, <2>1
<1>10. \A i \in DOMAIN Tail(ready) : i \in DOMAIN rest /\ rest[i] = Tail(ready)[i]
  BY <1>6, <1>7
<1> QED
  BY <1>1, <1>2, <1>7, <1>8, <1>9, <1>10

\* The attempt survives in the queue, behind the writes that were to go on.
LEMMA ShutdownCbAttempt ==
  ASSUME TypeOK, AttemptInv, shutdown_cb
  PROVE  AttemptInv'
<1> USE DEF AttemptOps, Waiting, Connected, WriteOps
<1>1. PICK rest \in Seq(Handler) :
         /\ ready # <<>> /\ 1 \in DOMAIN ready /\ ready[1].op = "shutdown"
         /\ CloseSocket(rest)
         /\ \A i \in DOMAIN rest :
                \/ i \in DOMAIN Tail(ready) /\ rest[i] = Tail(ready)[i]
                \/ rest[i].op = "connect_deadline"
                \/ i = Len(rest) /\ retry /\ rest[i].op = "start_connect"
         /\ \A i \in DOMAIN Tail(ready) : i \in DOMAIN rest /\ rest[i] = Tail(ready)[i]
         /\ retry => Len(rest) \in DOMAIN rest /\ rest[Len(rest)].op = "start_connect"
                       /\ Len(rest) \notin DOMAIN Tail(ready)
  BY ShutdownRest
<1> DEFINE n == Len(rest)
           Old(i) == /\ i \in Nat /\ i \in 1 .. n /\ (retry => i # n)
                     /\ i + 1 \in DOMAIN ready /\ ready'[i] = ready[i + 1]
<1>2. /\ n \in Nat /\ DOMAIN rest = 1 .. n
      /\ \A i \in DOMAIN rest : i \in DOMAIN ready' /\ ready'[i] = rest[i]
      /\ connecting => /\ DOMAIN ready' = 1 .. (n + 1)
                       /\ ready'[n + 1].op = "connect_outcome"
      /\ ~connecting => \A i \in DOMAIN ready' :
             \/ i \in DOMAIN rest
             \/ i > n /\ i - n \in DOMAIN writes /\ FailedWrite(ready'[i], writes[i - n])
  BY <1>1, Closed
<1>3. /\ ~open' /\ link' = "none" /\ ~connecting' /\ writes' = <<>> /\ ~retry'
      /\ socket_state' = socket_state
  BY <1>1 DEF CloseSocket, shutdown_cb
<1>4. \A i \in DOMAIN rest :
         \/ Old(i)
         \/ ready'[i].op = "connect_deadline"
         \/ retry /\ i = n /\ ready'[i].op = "start_connect"
  BY <1>1, <1>2, Behind
<1>5. \A i \in DOMAIN ready :
         i # 1 => i - 1 \in DOMAIN ready' /\ ready'[i - 1] = ready[i]
  BY <1>1, <1>2, Behind
<1>6. /\ retry => n \in DOMAIN ready' /\ ready'[n].op = "start_connect"
      /\ connecting => n + 1 \in DOMAIN ready' /\ ready'[n + 1].op = "connect_outcome"
  BY <1>1, <1>2
<1>7. \A i \in DOMAIN ready' :
         \/ Old(i)
         \/ ready'[i].op = "connect_deadline"
         \/ retry /\ i = n /\ ready'[i].op = "start_connect"
         \/ connecting /\ i = n + 1 /\ ready'[i].op = "connect_outcome"
         \/ ~connecting /\ writes # <<>> /\ ready'[i].op = "send_cb"
  <2>1. \A i \in DOMAIN writes : writes # <<>>
    BY DEF TypeOK
  <2>2. \A i \in DOMAIN ready' :
           \/ i \in DOMAIN rest
           \/ connecting /\ i = n + 1 /\ ready'[i].op = "connect_outcome"
           \/ ~connecting /\ writes # <<>> /\ ready'[i].op = "send_cb"
    <3> HIDE DEF n
    <3>1. CASE connecting
      BY <1>2, <3>1
    <3>2. CASE ~connecting
      BY <1>2, <2>1, <3>2 DEF FailedWrite
    <3> QED
      BY <3>1, <3>2
  <2> HIDE DEF n, Old
  <2> QED
    BY <1>4, <2>2
<1>8. n \in Nat
  BY <1>2
<1> HIDE DEF n
<1>9. ClosedIdle'
  BY <1>3 DEF ClosedIdle
<1>10. OneAttempt'
  <2>1. ASSUME NEW i \in DOMAIN ready', NEW j \in DOMAIN ready',
               ready'[i].op \in AttemptOps, ready'[j].op \in AttemptOps
        PROVE  i = j
    <3>1. CASE retry \/ connecting
      <4>1. ~(retry /\ connecting) /\ \A k \in DOMAIN ready : ready[k].op \notin AttemptOps
        BY <3>1 DEF AttemptInv, OneAttempt
      <4> QED
        BY <1>7, <2>1, <4>1
    <3>2. CASE ~retry /\ ~connecting
      <4>1. Old(i) /\ Old(j)
        BY <1>7, <2>1, <3>2
      <4>2. i + 1 = j + 1
        BY <2>1, <4>1 DEF AttemptInv, OneAttempt
      <4> QED
        BY <4>1, <4>2
    <3> QED
      BY <3>1, <3>2
  <2> QED
    BY <1>3, <2>1 DEF OneAttempt
<1>11. AttemptFits'
  <2>1. socket_state # "NOT_STARTED"
    BY <1>1 DEF AttemptInv, AttemptFits
  <2>2. socket_state \in Waiting => ~NoAttempt'
    <3> SUFFICES ASSUME socket_state \in Waiting PROVE ~NoAttempt'
      OBVIOUS
    <3>1. CASE retry \/ connecting
      BY <1>6, <3>1 DEF NoAttempt
    <3>2. CASE ~retry /\ ~connecting
      <4>1. PICK i \in DOMAIN ready : ready[i].op \in AttemptOps
        BY <3>2 DEF AttemptInv, AttemptFits, NoAttempt
      <4> QED
        BY <1>1, <1>5, <4>1 DEF NoAttempt
    <3> QED
      BY <3>1, <3>2
  <2>3. socket_state \in Connected => NoAttempt'
    <3> SUFFICES ASSUME socket_state \in Connected PROVE NoAttempt'
      OBVIOUS
    <3>1. NoAttempt
      BY DEF AttemptInv, AttemptFits
    <3> QED
      BY <1>3, <1>7, <3>1 DEF NoAttempt
  <2> QED
    BY <1>3, <2>1, <2>2, <2>3 DEF AttemptFits
<1>12. WritesBeforeAttempt'
  <2>1. ASSUME NEW i \in DOMAIN ready', NEW j \in DOMAIN ready',
               ready'[i].op \in WriteOps, ready'[j].op = "connect_outcome"
        PROVE  i < j
    <3>1. writes = <<>>
      <4>1. CASE connecting
        BY <4>1 DEF AttemptInv, WritesBeforeAttempt, NoAttempt
      <4>2. CASE ~connecting
        BY <1>7, <2>1, <4>2 DEF AttemptInv, WritesBeforeAttempt, NoAttempt
      <4> QED
        BY <4>1, <4>2
    <3>2. Old(i)
      BY <1>7, <2>1, <3>1
    <3>3. CASE connecting /\ j = n + 1
      BY <1>8, <3>2, <3>3
    <3>4. CASE Old(j)
      <4>1. i + 1 < j + 1
        BY <2>1, <3>2, <3>4 DEF AttemptInv, WritesBeforeAttempt
      <4> QED
        BY <3>2, <3>4, <4>1
    <3> QED
      BY <1>7, <2>1, <3>3, <3>4
  <2>2. ASSUME NEW i \in DOMAIN ready', NEW j \in DOMAIN ready', ready'[i].op = "write_more"
        PROVE  /\ ready'[j].op = "start_connect" => i < j
               /\ ready'[j].op # "connect_outcome"
    <3>1. Old(i)
      BY <1>7, <2>2
    <3>2. ~connecting
      BY <2>2, <3>1 DEF AttemptInv, WritesBeforeAttempt
    <3>3. CASE retry /\ j = n /\ ready'[j].op = "start_connect"
      BY <1>8, <3>1, <3>3
    <3>4. CASE Old(j)
      <4>1. /\ ready'[j].op = "start_connect" => i + 1 < j + 1
            /\ ready'[j].op # "connect_outcome"
        BY <2>2, <3>1, <3>4 DEF AttemptInv, WritesBeforeAttempt
      <4> QED
        BY <3>1, <3>4, <4>1
    <3> QED
      BY <1>7, <3>2, <3>3, <3>4
  <2> QED
    BY <1>3, <2>1, <2>2 DEF WritesBeforeAttempt
<1> QED
  BY <1>9, <1>10, <1>11, <1>12 DEF AttemptInv

\* Nothing but the first attempt and the destructor happens before that attempt.
LEMMA FreshInvariant ==
  /\ Init => FreshInv
  /\ TypeOK /\ FreshInv /\ [Next]_vars => FreshInv'
<1>1. Init => FreshInv
  BY DEF Init, FreshInv
<1>2. ASSUME TypeOK, FreshInv, [Next]_vars
      PROVE  FreshInv'
  <2> SUFFICES ASSUME socket_state' \in {"NOT_STARTED", "DISCONNECTED"}
               PROVE  /\ writes' = <<>> /\ ~connecting' /\ ~retry' /\ ~deadline'
                      /\ \A i \in DOMAIN ready' : ready'[i].op \in {"start_connect", "shutdown"}
    BY DEF FreshInv
  <2>1. CASE socket_state \notin {"NOT_STARTED", "DISCONNECTED"}
    <3>1. socket_state' \notin {"NOT_STARTED", "DISCONNECTED"}
      BY <1>2, <2>1 DEF Next, Start, Send, Shutdown, IoStep, start_connect, connect_deadline_cb,
         connect_outcome_cb, send_cb, write_more, shutdown_cb, RetryFires, DeadlineFires,
         ConnectSucceeds, ConnectFails, Reset, WriteProgress, WriteSome, WriteFails, vars,
         set_state_schedule_connect, StateAfterSend
    <3> QED
      BY <3>1
  <2>2. CASE socket_state \in {"NOT_STARTED", "DISCONNECTED"}
    <3>1. /\ writes = <<>> /\ ~connecting /\ ~retry /\ ~deadline
          /\ \A i \in DOMAIN ready : ready[i].op \in {"start_connect", "shutdown"}
          /\ ready \in Seq(Handler)
      BY <1>2, <2>2 DEF FreshInv, TypeOK
    <3>2. CASE Start
      BY <3>1, <3>2, HandlerFields, Appended DEF Start, sendVars
    <3>3. CASE Shutdown
      <4> DEFINE h == [op |-> "shutdown"]
      <4>1. h.op = "shutdown" /\ ready' = Append(ready, h)
              /\ UNCHANGED <<writes, connecting, retry, deadline>>
        BY <3>3 DEF Shutdown
      <4> HIDE DEF h
      <4> QED
        BY <3>1, <4>1, Appended
    <3>4. CASE shutdown_cb
      <4>1. ready' = Tail(ready) \o <<>> \o <<>> \o (<<>> \o <<>>)
        <5>1. [i \in DOMAIN writes |-> SendHandler(writes[i], TRUE)] = <<>>
          BY <3>1
        <5>2. AbortedOps = <<>> \o <<>>
          BY <3>1, <5>1 DEF AbortedOps
        <5> QED
          BY <3>1, <3>4, <5>2 DEF shutdown_cb, CloseSocket
      <4>2. ready # <<>>
        BY <3>4 DEF shutdown_cb, Runs
      <4>3. Tail(ready) \in Seq(Handler)
        BY <1>2, <4>2, Behind
      <4>4. ready' = Tail(ready)
        BY <4>1, <4>3
      <4>5. \A i \in DOMAIN ready' : ready'[i].op \in {"start_connect", "shutdown"}
        BY <1>2, <3>1, <4>2, <4>4, Behind
      <4> QED
        BY <3>4, <4>5 DEF shutdown_cb, CloseSocket
    <3>5. CASE UNCHANGED vars
      BY <3>1, <3>5 DEF vars
    <3>6. ASSUME NEW size \in BlockSizes, Send(size)
          PROVE  UNCHANGED <<writes, connecting, retry, deadline, ready>>
      BY <2>2, <3>6 DEF Send, Accepts
    <3>7. ~start_connect
      BY <2>2 DEF start_connect
    <3>8. ready = <<>> \/ Head(ready).op \in {"start_connect", "shutdown"}
      BY <1>2, <3>1, Behind
    <3>9. ~RetryFires /\ ~DeadlineFires /\ ~ConnectSucceeds /\ ~ConnectFails
            /\ ~WriteProgress
      BY <3>1 DEF RetryFires, DeadlineFires, ConnectSucceeds, ConnectFails, WriteProgress,
                  WriteSome, WriteFails
    <3>10. ~connect_deadline_cb /\ ~connect_outcome_cb /\ ~send_cb /\ ~write_more
      BY <3>8 DEF connect_deadline_cb, connect_outcome_cb, send_cb, write_more, Runs
    <3>11. CASE Reset
      BY <3>1, <3>11 DEF Reset, sendVars
    <3> QED
      BY <1>2, <3>1, <3>2, <3>3, <3>4, <3>5, <3>6, <3>7, <3>9, <3>10, <3>11 DEF Next, IoStep
  <2> QED
    BY <2>1, <2>2
<1> QED
  BY <1>1, <1>2

\* The invariant of the attempts holds initially, and every step keeps it.
LEMMA AttemptInvariant ==
  /\ Init => AttemptInv
  /\ TypeOK /\ FreshInv /\ AttemptInv /\ [Next]_vars => AttemptInv'
<1>1. Init => AttemptInv
  BY DEF Init, AttemptInv, OneAttempt, AttemptFits, ClosedIdle, WritesBeforeAttempt, NoAttempt,
         Waiting, Connected
<1>2. ASSUME TypeOK, FreshInv, AttemptInv, [Next]_vars
      PROVE  AttemptInv'
  <2> USE DEF AttemptOps, Waiting, Connected, WriteOps
  <2>1. CASE Start
    BY <1>2, <2>1, StartAttempt
  <2>2. ASSUME NEW size \in BlockSizes, Send(size)
        PROVE  AttemptInv'
    BY <1>2, <2>2, SendAttempt
  <2>3. CASE Shutdown
    <3> DEFINE h == [op |-> "shutdown"]
    <3>1. h.op = "shutdown" /\ ready' = Append(ready, h)
      BY <2>3 DEF Shutdown
    <3> HIDE DEF h
    <3>2. h.op \notin AttemptOps \cup WriteOps /\ socket_state # "NOT_STARTED"
            /\ socket_state' \in {socket_state, "SHUTDOWN"}
            /\ UNCHANGED <<retry, connecting, open, link, writes>>
      BY <2>3, <3>1 DEF Shutdown
    <3> QED
      BY <1>2, <3>1, <3>2, NeutralAttempt
  <2>4. CASE start_connect
    BY <1>2, <2>4, StartConnectAttempt
  <2>5. CASE connect_deadline_cb
    <3>1. ready # <<>> /\ Head(ready).op \notin AttemptOps
            /\ UNCHANGED <<socket_state, retry>>
      BY <2>5 DEF connect_deadline_cb, Runs
    <3>2. CASE DeadlineApplies
      <4>1. CloseSocket(Tail(ready)) /\ socket_state \notin Connected
        BY <2>5, <3>2 DEF connect_deadline_cb, DeadlineApplies
      <4> QED
        BY <1>2, <3>1, <4>1, CloseAttempt
    <3>3. CASE ~DeadlineApplies
      <4>1. ready' = Tail(ready) /\ UNCHANGED <<connecting, open, link, writes>>
        BY <2>5, <3>3 DEF connect_deadline_cb
      <4> QED
        BY <1>2, <3>1, <4>1, PopAttempt
    <3> QED
      BY <3>2, <3>3
  <2>6. CASE connect_outcome_cb
    BY <1>2, <2>6, OutcomeAttempt
  <2>7. CASE send_cb
    <3>1. ready # <<>> /\ Head(ready).op \notin AttemptOps /\ socket_state # "NOT_STARTED"
      BY <1>2, <2>7 DEF send_cb, Runs, AttemptInv, AttemptFits
    <3>2. CASE socket_state = "SHUTDOWN"
      <4>1. ready' = Tail(ready) /\ UNCHANGED <<connecting, open, link, writes>>
              /\ UNCHANGED <<socket_state, retry>>
        BY <2>7, <3>2 DEF send_cb
      <4> QED
        BY <1>2, <3>1, <4>1, PopAttempt
    <3>3. \/ socket_state \in Connected
          \/ socket_state \in {"CONNECT_PENDING", "CONNECT_IN_PROGRESS"}
          \/ socket_state \in {"DISCONNECTED", "SHUTDOWN"}
      BY <1>2, <3>1 DEF TypeOK, States
    <3>0. socket_state # "DISCONNECTED"
      <4>1. 1 \in DOMAIN ready /\ ready[1].op = "send_cb"
        BY <1>2, <2>7, <3>1, Behind DEF send_cb, Runs
      <4> QED
        BY <1>2, <4>1 DEF FreshInv
    <3>4. CASE socket_state # "SHUTDOWN" /\ Head(ready).ec
      <4>1. CloseSocket(Tail(ready)) /\ set_state_schedule_connect(socket_state)
        BY <2>7, <3>4 DEF send_cb
      <4>2. CASE socket_state \in Connected
        <5>1. socket_state' = "CONNECT_PENDING" /\ retry' = TRUE
          BY <4>1, <4>2 DEF set_state_schedule_connect
        <5> QED
          BY <1>2, <3>1, <4>1, <4>2, <5>1, CloseAttempt
      <4>3. CASE socket_state \in {"CONNECT_PENDING", "CONNECT_IN_PROGRESS"}
        <5>1. UNCHANGED <<socket_state, retry>> /\ socket_state \notin Connected
          BY <4>1, <4>3 DEF set_state_schedule_connect
        <5> QED
          BY <1>2, <3>1, <4>1, <5>1, CloseAttempt
      <4> QED
        BY <3>0, <3>3, <3>4, <4>2, <4>3
    <3>5. CASE socket_state # "SHUTDOWN" /\ ~Head(ready).ec /\ ~open
      <4>1. ready' = Tail(ready) /\ set_state_schedule_connect(socket_state)
              /\ UNCHANGED <<connecting, open, link, writes>>
        BY <2>7, <3>5 DEF send_cb
      <4>2. CASE socket_state \in Connected
        <5>1. socket_state' = "CONNECT_PENDING" /\ retry' = TRUE
          BY <4>1, <4>2 DEF set_state_schedule_connect
        <5> QED
          BY <1>2, <3>1, <3>5, <4>1, <4>2, <5>1, PopAttempt
      <4>3. CASE socket_state \in {"CONNECT_PENDING", "CONNECT_IN_PROGRESS"}
        <5>1. UNCHANGED <<socket_state, retry>>
          BY <4>1, <4>3 DEF set_state_schedule_connect
        <5> QED
          BY <1>2, <3>1, <4>1, <5>1, PopAttempt
      <4> QED
        BY <3>0, <3>3, <3>5, <4>2, <4>3
    <3>6. CASE socket_state # "SHUTDOWN" /\ ~Head(ready).ec /\ open
      <4>1. ready' = Tail(ready) /\ UNCHANGED <<connecting, open, link, writes>>
              /\ UNCHANGED retry
              /\ (UNCHANGED socket_state
                   \/ (socket_state \in Connected /\ socket_state' \in Connected))
        BY <2>7, <3>6 DEF send_cb, StateAfterSend
      <4> QED
        BY <1>2, <3>1, <4>1, PopAttempt
    <3> QED
      BY <3>2, <3>4, <3>5, <3>6
  <2>8. CASE write_more
    BY <1>2, <2>8, MoreAttempt
  <2>9. CASE shutdown_cb
    BY <1>2, <2>9, ShutdownCbAttempt
  <2>10. CASE RetryFires
    BY <1>2, <2>10, RetryAttempt
  <2>11. CASE DeadlineFires
    <3>1. DeadlineHandler.op \notin AttemptOps \cup WriteOps
      BY HandlerFields
    <3>2. socket_state # "NOT_STARTED"
      BY <1>2, <2>11 DEF FreshInv, DeadlineFires
    <3>3. ready' = Append(ready, DeadlineHandler) /\ socket_state' \in {socket_state, "SHUTDOWN"}
            /\ UNCHANGED <<retry, connecting, open, link, writes>>
      BY <2>11 DEF DeadlineFires, sendVars
    <3> QED
      BY <1>2, <3>1, <3>2, <3>3, NeutralAttempt
  <2>12. CASE ConnectSucceeds \/ ConnectFails
    BY <1>2, <2>12, ConnectAttempt
  <2>13. CASE Reset
    <3>1. UNCHANGED <<socket_state, retry, connecting, open, ready, writes>>
            /\ link = "up"
      BY <2>13 DEF Reset, sendVars
    <3> QED
      BY <1>2, <3>1 DEF AttemptInv, OneAttempt, AttemptFits, ClosedIdle,
         WritesBeforeAttempt, NoAttempt
  <2>14. ASSUME NEW n, WriteSome(n)
         PROVE  AttemptInv'
    <3>1. \E h : h.op \in WriteOps /\ ready' = Append(ready, h)
      <4>1. \/ \E w : ready' = Append(ready, SendHandler(w, FALSE))
            \/ \E w : ready' = Append(ready, MoreHandler(w))
        BY <2>14 DEF WriteSome
      <4>2. CASE \E w : ready' = Append(ready, SendHandler(w, FALSE))
        <5>1. PICK w, ec : ready' = Append(ready, SendHandler(w, ec))
          BY <4>2
        <5> QED
          BY <5>1, HandlerFields
      <4>3. CASE \E w : ready' = Append(ready, MoreHandler(w))
        BY <4>3, HandlerFields
      <4> QED
        BY <4>1, <4>2, <4>3
    <3>2. writes # <<>> /\ writes' = Tail(writes)
            /\ UNCHANGED <<socket_state, retry, connecting, open, link>>
      BY <2>14 DEF WriteSome
    <3> QED
      BY <1>2, <3>1, <3>2, WriteAttempt
  <2>15. CASE WriteFails
    <3>1. \E h : h.op \in WriteOps /\ ready' = Append(ready, h)
      <4>1. PICK w, ec : ready' = Append(ready, SendHandler(w, ec))
        BY <2>15 DEF WriteFails
      <4> QED
        BY <4>1, HandlerFields
    <3>2. writes # <<>> /\ writes' = Tail(writes)
            /\ UNCHANGED <<socket_state, retry, connecting, open, link>>
      BY <2>15 DEF WriteFails
    <3> QED
      BY <1>2, <3>1, <3>2, WriteAttempt
  <2>16. CASE UNCHANGED vars
    BY <1>2, <2>16 DEF vars, AttemptInv, OneAttempt, AttemptFits, ClosedIdle,
       WritesBeforeAttempt, NoAttempt
  <2> QED
    BY <1>2, <2>1, <2>2, <2>3, <2>4, <2>5, <2>6, <2>7, <2>8, <2>9, <2>10, <2>11,
       <2>12, <2>13, <2>14, <2>15, <2>16 DEF Next, IoStep, WriteProgress
<1> QED
  BY <1>1, <1>2

-----------------------------------------------------------------------------
(***************************************************************************)
(* The header goes out first.                                              *)
(***************************************************************************)
\* Handlers of writes may leave the queue, others come and go; the writes on the
\* socket and the stream stay.
LEMMA NeutralHeader ==
  ASSUME HeaderInv, UNCHANGED <<writes, stream>>, NEW k \in {0, 1},
         \A i \in DOMAIN ready' :
             \/ ready'[i].op \notin WriteOps
             \/ i \in Nat /\ i + k \in DOMAIN ready /\ ready'[i] = ready[i + k],
         socket_state' = "CONNECTED_DATA_READY" =>
             Len(stream) >= HeaderSize /\ ~HeaderInFlight',
         socket_state' = "CONNECTED_DATA_NOT_READY" =>
             socket_state = "CONNECTED_DATA_NOT_READY" /\ HeaderInFlight'
  PROVE  HeaderInv'
<1> USE DEF WriteOps
<1>1. HeaderFirst'
  BY DEF HeaderInv, HeaderFirst
<1>2. HeaderProgress'
  BY DEF HeaderInv, HeaderProgress, Fits
<1>3. OneHeader'
  <2>1. ASSUME NEW i \in DOMAIN ready', NEW j \in DOMAIN ready', IsHeader(i)', IsHeader(j)'
        PROVE  i = j
    <3>1. i + k \in DOMAIN ready /\ j + k \in DOMAIN ready /\ IsHeader(i + k) /\ IsHeader(j + k)
            /\ i \in Nat /\ j \in Nat
      BY <2>1 DEF IsHeader
    <3>2. i + k = j + k
      BY <3>1 DEF HeaderInv, OneHeader
    <3> QED
      BY <3>1, <3>2
  <2>2. ASSUME NEW i \in DOMAIN writes, NEW j \in DOMAIN ready', writes[i].id = Header, IsHeader(j)'
        PROVE  FALSE
    <3>1. j + k \in DOMAIN ready /\ IsHeader(j + k)
      BY <2>2 DEF IsHeader
    <3> QED
      BY <2>2, <3>1 DEF HeaderInv, OneHeader
  <2> QED
    BY <2>1, <2>2 DEF HeaderInv, OneHeader
<1>4. HeaderAlone'
  <2>1. ASSUME socket_state' = "CONNECTED_DATA_NOT_READY", NEW i \in DOMAIN ready', IsData(i)'
        PROVE  FALSE
    <3>1. i + k \in DOMAIN ready /\ IsData(i + k)
      BY <2>1 DEF IsData
    <3> QED
      BY <2>1, <3>1 DEF HeaderInv, HeaderAlone
  <2> QED
    BY <2>1 DEF HeaderInv, HeaderAlone
<1> QED
  BY <1>1, <1>2, <1>3, <1>4 DEF HeaderInv

\* Closing the socket turns the writes on it into failed ones.
LEMMA CloseHeader ==
  ASSUME TypeOK, AttemptInv, HeaderInv, ready # <<>>, UNCHANGED stream,
         NEW rest \in Seq(Handler), CloseSocket(rest),
         \A i \in DOMAIN rest :
             \/ rest[i].op \notin WriteOps
             \/ i \in DOMAIN Tail(ready) /\ rest[i] = Tail(ready)[i],
         \/ socket_state' \notin Connected
         \/ /\ socket_state' = socket_state /\ Head(ready).op \notin WriteOps
            /\ \A i \in DOMAIN Tail(ready) : i \in DOMAIN rest /\ rest[i] = Tail(ready)[i]
  PROVE  HeaderInv'
<1> USE DEF WriteOps, Connected
<1> DEFINE n == Len(rest)
           Old(i) == i \in 1 .. n /\ i \in Nat /\ i + 1 \in DOMAIN ready /\ ready'[i] = ready[i + 1]
           Late(i) == i - n \in DOMAIN writes /\ i - n \in Nat /\ i > n
                        /\ FailedWrite(ready'[i], writes[i - n])
<1>1. /\ n \in Nat /\ DOMAIN rest = 1 .. n
      /\ \A i \in DOMAIN rest : i \in DOMAIN ready' /\ ready'[i] = rest[i]
      /\ connecting => /\ DOMAIN ready' = 1 .. (n + 1)
                       /\ ready'[n + 1].op = "connect_outcome"
      /\ ~connecting =>
             /\ \A i \in DOMAIN writes :
                    n + i \in DOMAIN ready' /\ FailedWrite(ready'[n + i], writes[i])
             /\ \A i \in DOMAIN ready' :
                    \/ i \in DOMAIN rest
                    \/ i > n /\ i - n \in DOMAIN writes /\ FailedWrite(ready'[i], writes[i - n])
  BY Closed
<1>2. writes' = <<>> /\ DOMAIN writes' = {}
  BY DEF CloseSocket
<1>3. \A i \in DOMAIN rest : ready'[i].op \notin WriteOps \/ Old(i)
  BY <1>1, Behind
<1>4. \A i \in DOMAIN ready' : i \in Nat /\ (ready'[i].op \notin WriteOps \/ Old(i) \/ Late(i))
  <2>1. \A i \in DOMAIN writes : i \in Nat
    BY DEF TypeOK
  <2> HIDE DEF n, Old
  <2>2. CASE connecting
    <3>1. \A i \in DOMAIN ready' : i \in DOMAIN rest \/ i = n + 1
      BY <1>1, <2>2
    <3> QED
      BY <1>1, <1>3, <2>2, <3>1
  <2>3. CASE ~connecting
    <3>1. \A i \in DOMAIN ready' : i \in DOMAIN rest \/ Late(i)
      BY <1>1, <2>1, <2>3
    <3>2. ready' \in Seq(Handler)
      BY AbortedTypes DEF CloseSocket
    <3> QED
      BY <1>3, <3>1, <3>2
  <2> QED
    BY <2>2, <2>3
<1>5. n \in Nat
  BY <1>1
<1> HIDE DEF n
<1>6. HeaderFirst'
  BY DEF HeaderInv, HeaderFirst
<1>7. HeaderProgress'
  <2>1. ASSUME NEW i \in DOMAIN ready'
        PROVE  /\ ready'[i].op = "write_more" => Fits(ready'[i].write)
               /\ ready'[i].op = "send_cb" /\ ~ready'[i].ec => Len(stream) >= HeaderSize
    <3>1. CASE Old(i)
      BY <3>1 DEF HeaderInv, HeaderProgress
    <3>2. CASE Late(i)
      BY <3>2 DEF FailedWrite
    <3> QED
      BY <1>4, <2>1, <3>1, <3>2
  <2>2. socket_state' = "CONNECTED_DATA_READY" => Len(stream) >= HeaderSize
    BY DEF HeaderInv, HeaderProgress
  <2> QED
    BY <1>2, <2>1, <2>2 DEF HeaderProgress, Fits
<1>8. OneHeader'
  <2>1. ASSUME NEW i \in DOMAIN ready', NEW j \in DOMAIN ready', IsHeader(i)', IsHeader(j)'
        PROVE  i = j
    <3>1. CASE Old(i) /\ Old(j)
      <4>1. i + 1 = j + 1
        BY <2>1, <3>1 DEF HeaderInv, OneHeader, IsHeader
      <4> QED
        BY <3>1, <4>1
    <3>2. CASE Late(i) /\ Late(j)
      <4>1. i - n = j - n
        BY <2>1, <3>2 DEF HeaderInv, OneHeader, IsHeader, FailedWrite
      <4>2. i \in Nat /\ j \in Nat
        BY <1>4
      <4> QED
        BY <1>5, <4>1, <4>2
    <3>3. CASE Old(i) /\ Late(j)
      BY <2>1, <3>3 DEF HeaderInv, OneHeader, IsHeader, FailedWrite
    <3>4. CASE Late(i) /\ Old(j)
      BY <2>1, <3>4 DEF HeaderInv, OneHeader, IsHeader, FailedWrite
    <3> QED
      BY <1>4, <2>1, <3>1, <3>2, <3>3, <3>4 DEF IsHeader
  <2> QED
    BY <1>2, <2>1 DEF OneHeader
<1>9. HeaderAlone'
  <2>1. CASE socket_state' \notin Connected
    BY <2>1 DEF HeaderAlone
  <2>2. CASE socket_state' = socket_state /\ socket_state \in Connected
    <3>1. /\ Head(ready).op \notin WriteOps
          /\ \A i \in DOMAIN Tail(ready) : i \in DOMAIN rest /\ rest[i] = Tail(ready)[i]
      BY <2>2
    <3>2. ~connecting
      BY <2>2 DEF AttemptInv, AttemptFits, NoAttempt
    <3>3. \A i \in DOMAIN ready : ready[i].op \in WriteOps =>
             i - 1 \in DOMAIN ready' /\ ready'[i - 1] = ready[i]
      BY <1>1, <3>1, Behind
    <3>4. \A i \in DOMAIN writes :
             n + i \in DOMAIN ready' /\ FailedWrite(ready'[n + i], writes[i])
      BY <1>1, <3>2
    <3>5. HeaderInFlight => HeaderInFlight'
      <4>1. CASE \E i \in DOMAIN writes : writes[i].id = Header
        BY <3>4, <4>1 DEF HeaderInFlight, FailedWrite
      <4>2. CASE \E i \in DOMAIN ready : ready[i].op \in {"send_cb", "write_more"}
                                         /\ ready[i].write.id = Header
        BY <3>3, <4>2 DEF HeaderInFlight
      <4> QED
        BY <4>1, <4>2 DEF HeaderInFlight
    <3>6. ASSUME NEW i \in DOMAIN ready', ready'[i].op \in WriteOps
          PROVE  \/ \E j \in DOMAIN ready : ready'[i] = ready[j]
                 \/ \E j \in DOMAIN writes : ready'[i].write = writes[j]
      BY <1>4, <3>6 DEF FailedWrite
    <3>7. HeaderInFlight' => HeaderInFlight
      BY <1>2, <3>6 DEF HeaderInFlight
    <3>8. ASSUME socket_state = "CONNECTED_DATA_NOT_READY", NEW i \in DOMAIN ready'
          PROVE  ~IsData(i)'
      BY <3>6, <3>8 DEF HeaderInv, HeaderAlone, IsData
    <3> QED
      BY <1>2, <2>2, <3>5, <3>7, <3>8 DEF HeaderInv, HeaderAlone
  <2> QED
    BY <2>1, <2>2
<1> QED
  BY <1>6, <1>7, <1>8, <1>9 DEF HeaderInv

\* A handler is put behind the others; seen from the handlers of writes.
LEMMA OneMore ==
  ASSUME TypeOK, NEW h, ready' = Append(ready, h)
  PROVE  /\ \A i \in DOMAIN ready : i \in DOMAIN ready' /\ ready'[i] = ready[i]
         /\ Len(ready) + 1 \in DOMAIN ready' /\ ready'[Len(ready) + 1] = h
         /\ \A i \in DOMAIN ready' : i \in DOMAIN ready \/ i = Len(ready) + 1
         /\ Len(ready) + 1 \notin DOMAIN ready
         /\ \A i \in DOMAIN ready' : i \in Nat
<1>1. ready \in Seq(Handler)
  BY DEF TypeOK
<1> QED
  BY <1>1, Appended

\* A write waits behind the others.
LEMMA OneMoreWrite ==
  ASSUME TypeOK, NEW w, writes' = Append(writes, w)
  PROVE  /\ \A i \in DOMAIN writes : i \in DOMAIN writes' /\ writes'[i] = writes[i]
         /\ Len(writes) + 1 \in DOMAIN writes' /\ writes'[Len(writes) + 1] = w
         /\ \A i \in DOMAIN writes' : i \in DOMAIN writes \/ i = Len(writes) + 1
<1>1. writes \in Seq(Write)
  BY DEF TypeOK
<1> QED
  BY <1>1, Appended

\* Data is accepted behind a complete header.
LEMMA SendKeepsHeader ==
  ASSUME TypeOK, HeaderInv, NEW size \in BlockSizes, Send(size), Accepts(size)
  PROVE  HeaderInv'
<1> USE DEF WriteOps
<1> DEFINE w == NewWrite(sends + 1, size)
<1>1. /\ AsyncWrite(w, ready) /\ stream' = stream
      /\ socket_state = "CONNECTED_DATA_READY" /\ socket_state' = socket_state
  BY DEF Send, Accepts
<1>2. w.id # Header /\ w.left >= 1
  <2>1. sends \in Nat /\ size \in Nat \ {0}
    BY SenderAssumption DEF TypeOK
  <2> QED
    BY <2>1 DEF NewWrite, Header
<1>3. Len(stream) >= HeaderSize /\ ~HeaderInFlight
  BY <1>1 DEF HeaderInv, HeaderProgress, HeaderAlone
<1> HIDE DEF w
<1>4. HeaderFirst'
  BY <1>1 DEF HeaderInv, HeaderFirst
<1>5. CASE open
  <2>1. writes' = Append(writes, w) /\ ready' = ready
    BY <1>1, <1>5 DEF AsyncWrite
  <2>2. \A i \in DOMAIN writes' : (i \in DOMAIN writes /\ writes'[i] = writes[i]) \/ writes'[i] = w
    BY <2>1, OneMoreWrite
  <2>3. HeaderProgress'
    BY <1>1, <1>2, <1>3, <2>1, <2>2 DEF HeaderInv, HeaderProgress, Fits, FitsAt
  <2>4. OneHeader'
    BY <1>2, <1>3, <2>1, <2>2 DEF HeaderInv, OneHeader, IsHeader, HeaderInFlight
  <2>5. HeaderAlone'
    BY <1>1, <1>2, <1>3, <2>1, <2>2 DEF HeaderInv, HeaderAlone, HeaderInFlight
  <2> QED
    BY <1>4, <2>3, <2>4, <2>5 DEF HeaderInv
<1>6. CASE ~open
  <2> DEFINE h == SendHandler(w, TRUE)
  <2>1. ready' = Append(ready, h) /\ writes' = writes
    BY <1>1, <1>6 DEF AsyncWrite
  <2>2. FailedWrite(h, w)
    BY OutcomeOfWrite
  <2> HIDE DEF h
  <2>3. \A i \in DOMAIN ready' :
           (i \in DOMAIN ready /\ ready'[i] = ready[i]) \/ FailedWrite(ready'[i], w)
    BY <2>1, <2>2, OneMore
  <2>4. HeaderProgress'
    BY <1>1, <1>2, <1>3, <2>1, <2>3 DEF HeaderInv, HeaderProgress, Fits, FailedWrite
  <2>5. OneHeader'
    BY <1>2, <1>3, <2>1, <2>3 DEF HeaderInv, OneHeader, IsHeader, HeaderInFlight, FailedWrite
  <2>6. HeaderAlone'
    BY <1>1, <1>2, <1>3, <2>1, <2>3 DEF HeaderInv, HeaderAlone, HeaderInFlight, FailedWrite
  <2> QED
    BY <1>4, <2>4, <2>5, <2>6 DEF HeaderInv
<1> QED
  BY <1>5, <1>6

\* A connection begins with its header, and nothing of an earlier one is left.
LEMMA OutcomeKeepsHeader ==
  ASSUME TypeOK, AttemptInv, HeaderInv, connect_outcome_cb
  PROVE  HeaderInv'
<1> USE DEF WriteOps, Connected, AttemptOps
<1>1. ready # <<>> /\ 1 \in DOMAIN ready /\ ready[1].op = "connect_outcome"
  <2>1. ready # <<>> /\ Head(ready).op = "connect_outcome"
    BY DEF connect_outcome_cb, Runs
  <2> QED
    BY <2>1, Behind
<1>2. /\ writes = <<>> /\ socket_state \notin Connected
      /\ \A i \in DOMAIN ready : ready[i].op \notin WriteOps
  <2>1. writes = <<>> /\ socket_state \notin Connected
    BY <1>1 DEF AttemptInv, WritesBeforeAttempt, NoAttempt, AttemptFits
  <2>2. \A i \in DOMAIN ready : ready[i].op \in WriteOps => i < 1
    BY <1>1 DEF AttemptInv, WritesBeforeAttempt
  <2>3. \A i \in DOMAIN ready : i \in Nat /\ i >= 1
    BY <1>1, Behind
  <2> QED
    BY <2>1, <2>2, <2>3
<1>3. \A i \in DOMAIN Tail(ready) : Tail(ready)[i].op \notin WriteOps
  BY <1>1, <1>2, Behind
<1>4. CASE socket_state = "SHUTDOWN" \/ Head(ready).ec \/ ~open
  <2>1. ready' = Tail(ready) /\ UNCHANGED <<writes, stream>> /\ socket_state' \notin Connected
    BY <1>4 DEF connect_outcome_cb, set_state_schedule_connect
  <2>2. \A i \in DOMAIN ready' : ready'[i].op \notin WriteOps
    BY <1>3, <2>1
  <2> QED
    BY <2>1, <2>2, NeutralHeader
<1>5. CASE ~(socket_state = "SHUTDOWN" \/ Head(ready).ec \/ ~open)
  <2> DEFINE w == NewWrite(Header, HeaderSize)
  <2>1. /\ ready' = Tail(ready) /\ writes' = Append(writes, w) /\ stream' = <<>>
        /\ socket_state' = "CONNECTED_DATA_NOT_READY"
    BY <1>5 DEF connect_outcome_cb, AsyncWrite
  <2>2. w.id = Header /\ w.left = HeaderSize
    BY DEF NewWrite
  <2> HIDE DEF w
  <2>3. writes' = <<w>> /\ DOMAIN writes' = {1} /\ writes'[1] = w
    BY <1>2, <2>1
  <2>4. HeaderFirst'
    BY <2>1 DEF HeaderFirst
  <2>5. HeaderProgress'
    <3>1. Len(stream') = 0 /\ HeaderSize \in Nat \ {0}
      BY <2>1, SenderAssumption
    <3> QED
      BY <1>3, <2>1, <2>2, <2>3, <3>1 DEF HeaderProgress, Fits, FitsAt
  <2>6. OneHeader'
    BY <1>3, <2>1, <2>3 DEF OneHeader, IsHeader
  <2>7. HeaderAlone'
    BY <1>3, <2>1, <2>2, <2>3 DEF HeaderAlone, HeaderInFlight, IsData
  <2> QED
    BY <2>4, <2>5, <2>6, <2>7 DEF HeaderInv
<1> QED
  BY <1>4, <1>5

\* The rest of a buffer queues up again, or fails.
LEMMA MoreKeepsHeader ==
  ASSUME TypeOK, AttemptInv, HeaderInv, write_more
  PROVE  HeaderInv'
<1> USE DEF WriteOps
<1> DEFINE w == ready[1].write
<1>1. /\ ready # <<>> /\ 1 \in DOMAIN ready /\ ready[1].op = "write_more"
      /\ AsyncWrite(w, Tail(ready)) /\ stream' = stream /\ socket_state' = socket_state
  <2>1. ready # <<>> /\ Head(ready).op = "write_more"
    BY DEF write_more, Runs
  <2>2. 1 \in DOMAIN ready /\ Head(ready) = ready[1]
    BY <2>1, Behind
  <2> QED
    BY <2>1, <2>2 DEF write_more
<1>2. \A i \in DOMAIN Tail(ready) :
         i \in Nat /\ i + 1 \in DOMAIN ready /\ i + 1 # 1 /\ Tail(ready)[i] = ready[i + 1]
  BY <1>1, Behind
<1>3. \A i \in DOMAIN ready : i # 1 => i - 1 \in DOMAIN Tail(ready) /\ Tail(ready)[i - 1] = ready[i]
  BY <1>1, Behind
<1>4. /\ Fits(w)
      /\ w.id = Header => /\ \A i \in DOMAIN ready : i # 1 => ~IsHeader(i)
                          /\ \A i \in DOMAIN writes : writes[i].id # Header
      /\ (socket_state = "CONNECTED_DATA_READY" => w.id # Header)
      /\ (socket_state = "CONNECTED_DATA_NOT_READY" => w.id = Header)
  <2>1. Fits(w)
    BY <1>1 DEF HeaderInv, HeaderProgress
  <2>2. w.id = Header => /\ \A i \in DOMAIN ready : i # 1 => ~IsHeader(i)
                         /\ \A i \in DOMAIN writes : writes[i].id # Header
    BY <1>1 DEF HeaderInv, OneHeader, IsHeader
  <2>3. /\ (socket_state = "CONNECTED_DATA_READY" => w.id # Header)
        /\ (socket_state = "CONNECTED_DATA_NOT_READY" => w.id = Header)
    BY <1>1 DEF HeaderInv, HeaderAlone, HeaderInFlight, IsData
  <2> QED
    BY <2>1, <2>2, <2>3
<1> HIDE DEF w
<1>5. HeaderFirst'
  BY <1>1 DEF HeaderInv, HeaderFirst
<1>6. CASE open
  <2>1. writes' = Append(writes, w) /\ ready' = Tail(ready)
    BY <1>1, <1>6 DEF AsyncWrite
  <2>2. /\ \A i \in DOMAIN writes' :
              (i \in DOMAIN writes /\ writes'[i] = writes[i])
                \/ (i = Len(writes) + 1 /\ writes'[i] = w)
        /\ Len(writes) + 1 \in DOMAIN writes' /\ writes'[Len(writes) + 1] = w
        /\ \A i \in DOMAIN writes : i \in DOMAIN writes' /\ writes'[i] = writes[i]
    BY <2>1, OneMoreWrite
  <2>3. HeaderProgress'
    BY <1>1, <1>2, <1>4, <2>1, <2>2 DEF HeaderInv, HeaderProgress, Fits
  <2>4. OneHeader'
    <3>1. ASSUME NEW i \in DOMAIN ready', NEW j \in DOMAIN ready', IsHeader(i)', IsHeader(j)'
          PROVE  i = j
      <4>1. /\ i \in Nat /\ i + 1 \in DOMAIN ready /\ IsHeader(i + 1)
            /\ j \in Nat /\ j + 1 \in DOMAIN ready /\ IsHeader(j + 1)
        BY <1>2, <2>1, <3>1 DEF IsHeader
      <4>2. i + 1 = j + 1
        BY <4>1 DEF HeaderInv, OneHeader
      <4> QED
        BY <4>1, <4>2
    <3>2. ASSUME NEW i \in DOMAIN writes', NEW j \in DOMAIN ready',
                 writes'[i].id = Header, IsHeader(j)'
          PROVE  FALSE
      <4>1. j + 1 \in DOMAIN ready /\ IsHeader(j + 1) /\ j + 1 # 1
        BY <1>2, <2>1, <3>2 DEF IsHeader
      <4> QED
        BY <1>4, <2>2, <3>2, <4>1 DEF HeaderInv, OneHeader
    <3>3. ASSUME NEW i \in DOMAIN writes', NEW j \in DOMAIN writes',
                 writes'[i].id = Header, writes'[j].id = Header
          PROVE  i = j
      BY <1>4, <2>2, <3>3 DEF HeaderInv, OneHeader
    <3> QED
      BY <3>1, <3>2, <3>3 DEF OneHeader
  <2>5. HeaderAlone'
    <3>1. CASE socket_state = "CONNECTED_DATA_NOT_READY"
      <4>1. HeaderInFlight'
        BY <1>4, <2>2, <3>1 DEF HeaderInFlight
      <4>2. \A i \in DOMAIN writes' : writes'[i].id = Header
        BY <1>4, <2>2, <3>1 DEF HeaderInv, HeaderAlone
      <4>3. \A i \in DOMAIN ready' : ~IsData(i)'
        BY <1>2, <2>1, <3>1 DEF HeaderInv, HeaderAlone, IsData
      <4> QED
        BY <1>1, <3>1, <4>1, <4>2, <4>3 DEF HeaderAlone
    <3>2. CASE socket_state = "CONNECTED_DATA_READY"
      BY <1>1, <1>2, <1>4, <2>1, <2>2, <3>2 DEF HeaderInv, HeaderAlone, HeaderInFlight
    <3> QED
      BY <1>1, <3>1, <3>2 DEF HeaderAlone
  <2> QED
    BY <1>5, <2>3, <2>4, <2>5 DEF HeaderInv
<1>7. CASE ~open
  <2> DEFINE h == SendHandler(w, TRUE)
             n == Len(Tail(ready)) + 1
  <2>1. ready' = Append(Tail(ready), h) /\ writes' = writes
    BY <1>1, <1>7 DEF AsyncWrite
  <2>2. FailedWrite(h, w)
    BY OutcomeOfWrite
  <2> HIDE DEF h
  <2>3. Tail(ready) \in Seq(Handler)
    BY <1>1, Behind
  <2>4. /\ \A i \in DOMAIN ready' :
              \/ /\ i \in Nat /\ i + 1 \in DOMAIN ready /\ i + 1 # 1
                 /\ ready'[i] = ready[i + 1]
              \/ i = n /\ FailedWrite(ready'[i], w)
        /\ n \in DOMAIN ready' /\ FailedWrite(ready'[n], w)
    <3>1. /\ \A i \in DOMAIN ready' : i \in DOMAIN Tail(ready) \/ i = n
          /\ \A i \in DOMAIN Tail(ready) : ready'[i] = Tail(ready)[i]
          /\ n \in DOMAIN ready' /\ ready'[n] = h
      BY <2>1, <2>3, Appended
    <3> HIDE DEF n
    <3> QED
      BY <1>2, <2>2, <3>1
  <2> HIDE DEF n
  <2>5. HeaderProgress'
    BY <1>1, <2>1, <2>4 DEF HeaderInv, HeaderProgress, Fits, FailedWrite
  <2>6. OneHeader'
    <3>1. ASSUME NEW i \in DOMAIN ready', NEW j \in DOMAIN ready', IsHeader(i)', IsHeader(j)'
          PROVE  i = j
      <4>1. CASE i # n /\ j # n
        <5>1. /\ i \in Nat /\ i + 1 \in DOMAIN ready /\ IsHeader(i + 1)
              /\ j \in Nat /\ j + 1 \in DOMAIN ready /\ IsHeader(j + 1)
          BY <2>4, <3>1, <4>1 DEF IsHeader
        <5>2. i + 1 = j + 1
          BY <5>1 DEF HeaderInv, OneHeader
        <5> QED
          BY <5>1, <5>2
      <4>2. CASE i = n /\ j # n
        BY <1>4, <2>4, <3>1, <4>2 DEF IsHeader, FailedWrite
      <4>3. CASE j = n /\ i # n
        BY <1>4, <2>4, <3>1, <4>3 DEF IsHeader, FailedWrite
      <4> QED
        BY <4>1, <4>2, <4>3
    <3>2. ASSUME NEW i \in DOMAIN writes, NEW j \in DOMAIN ready',
                 writes[i].id = Header, IsHeader(j)'
          PROVE  FALSE
      <4>1. CASE j = n
        BY <1>4, <2>4, <3>2, <4>1 DEF IsHeader, FailedWrite
      <4>2. CASE j # n
        <5>1. j + 1 \in DOMAIN ready /\ IsHeader(j + 1)
          BY <2>4, <3>2, <4>2 DEF IsHeader
        <5> QED
          BY <3>2, <5>1 DEF HeaderInv, OneHeader
      <4> QED
        BY <4>1, <4>2
    <3> QED
      BY <2>1, <3>1, <3>2 DEF HeaderInv, OneHeader
  <2>7. HeaderAlone'
    <3>1. CASE socket_state = "CONNECTED_DATA_NOT_READY"
      <4>1. HeaderInFlight'
        BY <1>4, <2>4, <3>1 DEF HeaderInFlight, FailedWrite
      <4>2. \A i \in DOMAIN ready' : ~IsData(i)'
        BY <1>4, <2>4, <3>1 DEF HeaderInv, HeaderAlone, IsData, FailedWrite
      <4> QED
        BY <1>1, <2>1, <3>1, <4>1, <4>2 DEF HeaderInv, HeaderAlone
    <3>2. CASE socket_state = "CONNECTED_DATA_READY"
      BY <1>1, <1>4, <2>1, <2>4, <3>2
         DEF HeaderInv, HeaderAlone, HeaderInFlight, FailedWrite
    <3> QED
      BY <1>1, <3>1, <3>2 DEF HeaderAlone
  <2> QED
    BY <1>5, <2>5, <2>6, <2>7 DEF HeaderInv
<1> QED
  BY <1>6, <1>7

\* A write takes its first step: it leaves the others on the socket behind.
LEMMA OneWriteLess ==
  ASSUME TypeOK, writes # <<>>, writes' = Tail(writes)
  PROVE  /\ 1 \in DOMAIN writes /\ Head(writes) = writes[1] /\ writes[1] \in Write
         /\ \A i \in DOMAIN writes' :
                i \in Nat /\ i + 1 \in DOMAIN writes /\ i + 1 # 1 /\ writes'[i] = writes[i + 1]
<1>1. writes \in Seq(Write)
  BY DEF TypeOK
<1> QED
  BY <1>1, Popped

\* A write moves from the socket into the queue, by h, and is still the same one:
\* there is one header as before, in the same state.
LEMMA MoveKeepsHeader ==
  ASSUME TypeOK, HeaderInv, writes # <<>>, writes' = Tail(writes), UNCHANGED socket_state,
         NEW h, ready' = Append(ready, h), h.op \in WriteOps, h.write.id = writes[1].id
  PROVE  OneHeader' /\ HeaderAlone'
<1> USE DEF WriteOps
<1> DEFINE n == Len(ready) + 1
<1>1. /\ 1 \in DOMAIN writes
      /\ \A i \in DOMAIN writes' :
             i \in Nat /\ i + 1 \in DOMAIN writes /\ i + 1 # 1 /\ writes'[i] = writes[i + 1]
  BY OneWriteLess
<1>2. /\ \A i \in DOMAIN ready' : (i \in DOMAIN ready /\ ready'[i] = ready[i])
                                    \/ (i = n /\ ready'[i] = h)
      /\ n \in DOMAIN ready' /\ ready'[n] = h
      /\ \A i \in DOMAIN ready : i \in DOMAIN ready' /\ ready'[i] = ready[i]
  BY OneMore
<1> HIDE DEF n
<1>3. h.write.id = Header => /\ \A i \in DOMAIN writes : i # 1 => writes[i].id # Header
                             /\ \A i \in DOMAIN ready : ~IsHeader(i)
  BY <1>1 DEF HeaderInv, OneHeader
<1>4. OneHeader'
  <2>1. ASSUME NEW i \in DOMAIN ready', NEW j \in DOMAIN ready', IsHeader(i)', IsHeader(j)'
        PROVE  i = j
    BY <1>2, <1>3, <2>1 DEF HeaderInv, OneHeader, IsHeader
  <2>2. ASSUME NEW i \in DOMAIN writes', NEW j \in DOMAIN writes',
               writes'[i].id = Header, writes'[j].id = Header
        PROVE  i = j
    <3>1. i + 1 = j + 1 /\ i \in Nat /\ j \in Nat
      BY <1>1, <2>2 DEF HeaderInv, OneHeader
    <3> QED
      BY <3>1
  <2>3. ASSUME NEW i \in DOMAIN writes', NEW j \in DOMAIN ready',
               writes'[i].id = Header, IsHeader(j)'
        PROVE  FALSE
    <3>1. i + 1 \in DOMAIN writes /\ i + 1 # 1 /\ writes[i + 1].id = Header
      BY <1>1, <2>3
    <3> QED
      BY <1>2, <1>3, <2>3, <3>1 DEF HeaderInv, OneHeader, IsHeader
  <2> QED
    BY <2>1, <2>2, <2>3 DEF OneHeader
<1>5. HeaderAlone'
  <2>1. CASE socket_state = "CONNECTED_DATA_NOT_READY"
    <3>1. h.write.id = Header /\ \A i \in DOMAIN writes : writes[i].id = Header
      BY <1>1, <2>1 DEF HeaderInv, HeaderAlone
    <3>2. HeaderInFlight'
      BY <1>2, <3>1 DEF HeaderInFlight
    <3>3. \A i \in DOMAIN ready' : ~IsData(i)'
      BY <1>2, <2>1, <3>1 DEF HeaderInv, HeaderAlone, IsData
    <3>4. \A i \in DOMAIN writes' : writes'[i].id = Header
      BY <1>1, <3>1
    <3> QED
      BY <2>1, <3>2, <3>3, <3>4 DEF HeaderAlone
  <2>2. CASE socket_state = "CONNECTED_DATA_READY"
    BY <1>1, <1>2, <2>2 DEF HeaderInv, HeaderAlone, HeaderInFlight
  <2> QED
    BY <2>1, <2>2 DEF HeaderAlone
<1> QED
  BY <1>4, <1>5

\* A piece of the header goes out before, and a piece of data behind, its end.
LEMMA WriteKeepsHeader ==
  ASSUME TypeOK, HeaderInv, NEW n \in Nat, WriteSome(n)
  PROVE  HeaderInv'
<1> USE DEF WriteOps
<1> DEFINE w == [writes[1] EXCEPT !.left = @ - n]
           h == IF w.left = 0 THEN SendHandler(w, FALSE) ELSE MoreHandler(w)
           id == writes[1].id
           more == [i \in 1 .. n |-> id]
<1>1. /\ writes # <<>> /\ writes' = Tail(writes) /\ socket_state' = socket_state
      /\ 1 \in DOMAIN writes /\ Head(writes) = writes[1] /\ writes[1] \in Write
      /\ \A i \in DOMAIN writes' : i + 1 \in DOMAIN writes /\ writes'[i] = writes[i + 1]
  BY OneWriteLess DEF WriteSome
<1>2. ready' = Append(ready, h) /\ stream' = stream \o more /\ n \in 1 .. writes[1].left
  BY <1>1 DEF WriteSome
<1>3. w.id = id /\ w.left = writes[1].left - n /\ writes[1].left \in Nat /\ id \in Nat
  BY <1>1 DEF Write
<1>4. /\ h.op \in WriteOps /\ h.write = w
      /\ h.op = "write_more" => w.left # 0
      /\ h.op = "send_cb" => w.left = 0
  <2> HIDE DEF w
  <2>1. CASE w.left = 0
    <3>1. h = SendHandler(w, FALSE)
      BY <2>1
    <3> QED
      BY <2>1, <3>1, HandlerFields
  <2>2. CASE w.left # 0
    <3>1. h = MoreHandler(w)
      BY <2>2
    <3> QED
      BY <2>2, <3>1, HandlerFields
  <2> QED
    BY <2>1, <2>2
<1>5. /\ Len(stream) \in Nat /\ Len(stream') = Len(stream) + n
      /\ DOMAIN stream = 1 .. Len(stream) /\ DOMAIN stream' = 1 .. (Len(stream) + n)
      /\ \A i \in DOMAIN stream' :
             stream'[i] = IF i <= Len(stream) THEN stream[i] ELSE id
  <2>1. stream \in Seq(Nat)
    BY DEF TypeOK
  <2>2. more \in [1 .. n -> Nat] /\ \A i \in 1 .. n : more[i] = id
    BY <1>3
  <2> HIDE DEF more, id
  <2>3. more \in Seq(Nat) /\ Len(more) = n
    BY <2>2
  <2>4. stream' = stream \o more
    BY <1>2
  <2>5. Len(stream) \in Nat /\ DOMAIN stream = 1 .. Len(stream)
    BY <2>1
  <2>6. Len(stream') = Len(stream) + n /\ DOMAIN stream' = 1 .. (Len(stream) + n)
    <3>1. Len(stream \o more) = Len(stream) + Len(more) /\ stream \o more \in Seq(Nat)
      BY <2>1, <2>3, LengthOfJoined
    <3>2. Len(stream') = Len(stream) + n /\ stream' \in Seq(Nat)
      BY <2>3, <2>4, <3>1
    <3> QED
      BY <3>2
  <2>7. ASSUME NEW i \in DOMAIN stream'
        PROVE  stream'[i] = IF i <= Len(stream) THEN stream[i] ELSE id
    <3>1. CASE i <= Len(stream)
      BY <2>1, <2>3, <2>4, <2>6, <3>1
    <3>2. CASE ~(i <= Len(stream))
      <4>1. stream'[i] = more[i - Len(stream)] /\ i - Len(stream) \in 1 .. n
        BY <2>1, <2>3, <2>4, <2>6, <3>2
      <4> QED
        BY <2>2, <3>2, <4>1
    <3> QED
      BY <3>1, <3>2
  <2> QED
    BY <2>5, <2>6, <2>7
<1>6. Fits(writes[1])
  BY <1>1 DEF HeaderInv, HeaderProgress
<1> HIDE DEF w, h, more
<1>7. HeaderSize \in Nat
  BY SenderAssumption
<1>8. HeaderFirst'
  <2> SUFFICES ASSUME NEW i \in DOMAIN stream'
               PROVE  (i <= HeaderSize) <=> (stream'[i] = Header)
    BY DEF HeaderFirst
  <2>1. CASE i <= Len(stream)
    <3>1. i \in DOMAIN stream /\ stream'[i] = stream[i]
      BY <1>5, <2>1
    <3> QED
      BY <3>1 DEF HeaderInv, HeaderFirst
  <2>2. CASE ~(i <= Len(stream))
    <3>1. stream'[i] = id /\ i > Len(stream) /\ i <= Len(stream) + n /\ i \in Nat
      BY <1>5, <2>2
    <3>2. CASE id = Header
      BY <1>2, <1>3, <1>5, <1>6, <1>7, <3>1, <3>2 DEF Fits, FitsAt
    <3>3. CASE id # Header
      BY <1>2, <1>3, <1>5, <1>6, <1>7, <3>1, <3>3 DEF Fits, FitsAt
    <3> QED
      BY <3>2, <3>3
  <2> QED
    BY <2>1, <2>2
<1>9. HeaderProgress'
  <2>1. \A v : Fits(v) /\ v.id # Header => FitsAt(v, Len(stream'))
    BY <1>2, <1>5, <1>7 DEF Fits, FitsAt
  <2>2. ASSUME NEW v \in Write, Fits(v), v.id = Header, id # Header
        PROVE  FALSE
    BY <1>3, <1>5, <1>6, <1>7, <2>2 DEF Fits, FitsAt, Write
  <2>3. Len(stream) >= HeaderSize => Len(stream') >= HeaderSize
    BY <1>2, <1>5, <1>7
  <2>4. ASSUME NEW i \in DOMAIN writes'
        PROVE  FitsAt(writes'[i], Len(stream'))
    <3>1. i + 1 \in DOMAIN writes /\ writes'[i] = writes[i + 1] /\ Fits(writes[i + 1])
            /\ i + 1 # 1
      BY <1>1, OneWriteLess DEF HeaderInv, HeaderProgress
    <3>0. writes[i + 1] \in Write
      BY <3>1 DEF TypeOK
    <3>2. writes[i + 1].id # Header
      BY <1>1, <2>2, <3>0, <3>1 DEF HeaderInv, OneHeader
    <3>3. FitsAt(writes[i + 1], Len(stream'))
      BY <2>1, <3>1, <3>2
    <3> QED
      BY <3>1, <3>3
  <2>5. ASSUME NEW i \in DOMAIN ready, ready[i].op = "write_more"
        PROVE  Fits(ready[i].write) /\ ready[i].write.id # Header
    <3>1. Fits(ready[i].write)
      BY <2>5 DEF HeaderInv, HeaderProgress
    <3>2. ready[i].write \in Write
      <4>1. ready[i] \in Handler
        BY DEF TypeOK
      <4> QED
        BY <2>5, <4>1, HandlerWrite
    <3> QED
      BY <1>1, <2>2, <2>5, <3>1, <3>2 DEF HeaderInv, OneHeader, IsHeader
  <2>6. ASSUME NEW i \in DOMAIN ready'
        PROVE  /\ ready'[i].op = "write_more" => FitsAt(ready'[i].write, Len(stream'))
               /\ ready'[i].op = "send_cb" /\ ~ready'[i].ec => Len(stream') >= HeaderSize
    <3>1. CASE i \in DOMAIN ready
      <4>1. ready'[i] = ready[i]
        BY <1>2, <3>1, OneMore
      <4>2. ready[i].op = "write_more" => FitsAt(ready[i].write, Len(stream'))
        BY <2>1, <2>5, <3>1
      <4>3. ready[i].op = "send_cb" /\ ~ready[i].ec => Len(stream') >= HeaderSize
        BY <2>3, <3>1 DEF HeaderInv, HeaderProgress
      <4> QED
        BY <4>1, <4>2, <4>3
    <3>2. CASE i \notin DOMAIN ready
      <4>1. ready'[i] = h
        BY <1>2, <3>2, OneMore
      <4>2. h.op = "write_more" => FitsAt(w, Len(stream'))
        BY <1>2, <1>3, <1>4, <1>5, <1>6, <1>7 DEF Fits, FitsAt
      <4>3. h.op = "send_cb" => Len(stream') >= HeaderSize
        BY <1>2, <1>3, <1>4, <1>5, <1>6, <1>7 DEF Fits, FitsAt
      <4> QED
        BY <1>4, <4>1, <4>2, <4>3
    <3> QED
      BY <3>1, <3>2
  <2>7. socket_state' = "CONNECTED_DATA_READY" => Len(stream') >= HeaderSize
    BY <1>1, <2>3 DEF HeaderInv, HeaderProgress
  <2> QED
    BY <2>4, <2>6, <2>7 DEF HeaderProgress, Fits
<1>10. OneHeader' /\ HeaderAlone'
  <2>1. h.write.id = writes[1].id
    BY <1>3, <1>4
  <2> QED
    BY <1>1, <1>2, <1>4, <2>1, MoveKeepsHeader
<1> QED
  BY <1>8, <1>9, <1>10 DEF HeaderInv

\* A write that fails sends nothing.
LEMMA FailureKeepsHeader ==
  ASSUME TypeOK, HeaderInv, WriteFails
  PROVE  HeaderInv'
<1> USE DEF WriteOps
<1> DEFINE h == SendHandler(Head(writes), TRUE)
<1>1. /\ writes # <<>> /\ writes' = Tail(writes) /\ ready' = Append(ready, h)
      /\ UNCHANGED <<socket_state, stream>>
  BY DEF WriteFails
<1>2. /\ Head(writes) = writes[1]
      /\ \A i \in DOMAIN writes' : i + 1 \in DOMAIN writes /\ writes'[i] = writes[i + 1]
  BY <1>1, OneWriteLess
<1>3. FailedWrite(h, writes[1])
  BY <1>2, OutcomeOfWrite
<1> HIDE DEF h
<1>4. OneHeader' /\ HeaderAlone'
  BY <1>1, <1>3, MoveKeepsHeader DEF FailedWrite
<1>5. HeaderFirst'
  BY <1>1 DEF HeaderInv, HeaderFirst
<1>6. \A i \in DOMAIN ready' : (i \in DOMAIN ready /\ ready'[i] = ready[i])
                                 \/ FailedWrite(ready'[i], writes[1])
  BY <1>1, <1>3, OneMore
<1>7. HeaderProgress'
  BY <1>1, <1>2, <1>6 DEF HeaderInv, HeaderProgress, Fits, FailedWrite
<1> QED
  BY <1>4, <1>5, <1>7 DEF HeaderInv

\* A write completes: the header makes the connection ready for data.
LEMMA SentKeepsHeader ==
  ASSUME TypeOK, HeaderInv, send_cb, socket_state # "SHUTDOWN", ~Head(ready).ec, open
  PROVE  HeaderInv'
<1> USE DEF WriteOps
<1>1. /\ ready # <<>> /\ ready' = Tail(ready) /\ UNCHANGED <<writes, stream>>
      /\ socket_state' = StateAfterSend
  BY DEF send_cb, Runs
<1>2. 1 \in DOMAIN ready /\ ready[1].op = "send_cb" /\ ~ready[1].ec
  BY <1>1, Behind DEF send_cb, Runs
<1>3. \A i \in DOMAIN ready' :
         i \in Nat /\ i + 1 \in DOMAIN ready /\ i + 1 # 1 /\ ready'[i] = ready[i + 1]
  BY <1>1, Behind
<1>4. Len(stream) >= HeaderSize
  BY <1>2 DEF HeaderInv, HeaderProgress
<1>5. socket_state' # "CONNECTED_DATA_NOT_READY"
  BY <1>1 DEF StateAfterSend
<1>6. socket_state' = "CONNECTED_DATA_READY" => ~HeaderInFlight'
  <2>1. CASE socket_state = "CONNECTED_DATA_READY"
    BY <1>1, <1>3, <2>1 DEF HeaderInv, HeaderAlone, HeaderInFlight
  <2>2. CASE socket_state = "CONNECTED_DATA_NOT_READY"
    <3>1. IsHeader(1)
      BY <1>2, <2>2 DEF HeaderInv, HeaderAlone, IsHeader, IsData
    <3>2. /\ \A i \in DOMAIN writes : writes[i].id # Header
          /\ \A i \in DOMAIN ready : i # 1 => ~IsHeader(i)
      BY <1>2, <3>1 DEF HeaderInv, OneHeader
    <3> QED
      BY <1>1, <1>3, <3>2 DEF HeaderInFlight, IsHeader
  <2> QED
    BY <1>1, <2>1, <2>2 DEF StateAfterSend
<1> QED
  BY <1>1, <1>3, <1>4, <1>5, <1>6, NeutralHeader

\* The writes in the queue stay what they are, with the state.
LEMMA SameInFlight ==
  ASSUME HeaderInv, UNCHANGED <<writes, socket_state>>, NEW k,
         \A i \in DOMAIN ready' :
             \/ ready'[i].op \notin WriteOps
             \/ i \in Nat /\ i + k \in DOMAIN ready /\ ready'[i] = ready[i + k],
         \A i \in DOMAIN ready : ready[i].op \in WriteOps =>
             \E j \in DOMAIN ready' : ready'[j] = ready[i]
  PROVE  /\ socket_state' = "CONNECTED_DATA_READY" =>
                Len(stream) >= HeaderSize /\ ~HeaderInFlight'
         /\ socket_state' = "CONNECTED_DATA_NOT_READY" =>
                socket_state = "CONNECTED_DATA_NOT_READY" /\ HeaderInFlight'
<1> USE DEF WriteOps
<1>1. HeaderInFlight' <=> HeaderInFlight
  BY DEF HeaderInFlight
<1> QED
  BY <1>1 DEF HeaderInv, HeaderAlone, HeaderProgress

\* A handler that is not of a write is put into the queue.
LEMMA AddKeepsHeader ==
  ASSUME TypeOK, HeaderInv, NEW h, ready' = Append(ready, h), h.op \notin WriteOps,
         UNCHANGED <<writes, stream>>,
         UNCHANGED socket_state \/ socket_state' \notin Connected
  PROVE  HeaderInv'
<1>1. /\ \A i \in DOMAIN ready' :
             \/ ready'[i].op \notin WriteOps
             \/ i \in Nat /\ i + 0 \in DOMAIN ready /\ ready'[i] = ready[i + 0]
      /\ \A i \in DOMAIN ready : i \in DOMAIN ready' /\ ready'[i] = ready[i]
  BY OneMore
<1>2. CASE UNCHANGED socket_state
  BY <1>1, <1>2, SameInFlight, NeutralHeader
<1>3. CASE socket_state' \notin Connected
  BY <1>1, <1>3, NeutralHeader DEF Connected
<1> QED
  BY <1>2, <1>3

\* A handler runs that leaves the socket alone.
LEMMA PopKeepsHeader ==
  ASSUME TypeOK, HeaderInv, ready # <<>>, UNCHANGED <<writes, stream>>,
         \A i \in DOMAIN ready' :
             \/ ready'[i].op \notin WriteOps
             \/ i \in DOMAIN Tail(ready) /\ ready'[i] = Tail(ready)[i],
         \A i \in DOMAIN Tail(ready) : i \in DOMAIN ready' /\ ready'[i] = Tail(ready)[i],
         \/ UNCHANGED socket_state /\ Head(ready).op \notin WriteOps
         \/ socket_state' \notin Connected
  PROVE  HeaderInv'
<1>1. /\ \A i \in DOMAIN ready' :
             \/ ready'[i].op \notin WriteOps
             \/ i \in Nat /\ i + 1 \in DOMAIN ready /\ ready'[i] = ready[i + 1]
      /\ \A i \in DOMAIN ready : i # 1 => i - 1 \in DOMAIN ready' /\ ready'[i - 1] = ready[i]
      /\ Head(ready) = ready[1]
  BY Behind
<1>2. CASE UNCHANGED socket_state /\ Head(ready).op \notin WriteOps
  <2>1. \A i \in DOMAIN ready : ready[i].op \in WriteOps =>
            \E j \in DOMAIN ready' : ready'[j] = ready[i]
    BY <1>1, <1>2
  <2> QED
    BY <1>1, <1>2, <2>1, SameInFlight, NeutralHeader
<1>3. CASE socket_state' \notin Connected
  BY <1>1, <1>3, NeutralHeader DEF Connected
<1> QED
  BY <1>2, <1>3

\* The invariant of the header holds initially, and every step keeps it.
LEMMA HeaderInvariant ==
  /\ Init => HeaderInv
  /\ TypeOK /\ AttemptInv /\ HeaderInv /\ [Next]_vars => HeaderInv'
<1>1. Init => HeaderInv
  BY DEF Init, HeaderInv, HeaderFirst, HeaderProgress, OneHeader, HeaderAlone
<1>2. ASSUME TypeOK, AttemptInv, HeaderInv, [Next]_vars
      PROVE  HeaderInv'
  <2> USE DEF AttemptOps, Connected, WriteOps
  <2>1. CASE Start
    BY <1>2, <2>1, HandlerFields, AddKeepsHeader DEF Start, sendVars
  <2>2. ASSUME NEW size \in BlockSizes, Send(size)
        PROVE  HeaderInv'
    <3>1. CASE Accepts(size)
      BY <1>2, <2>2, <3>1, SendKeepsHeader
    <3>2. CASE ~Accepts(size)
      <4>1. UNCHANGED <<writes, ready, stream, socket_state>>
        BY <2>2, <3>2 DEF Send
      <4> QED
        BY <1>2, <4>1 DEF HeaderInv, HeaderFirst, HeaderProgress, OneHeader, HeaderAlone,
           HeaderInFlight, Fits, IsHeader, IsData
    <3> QED
      BY <3>1, <3>2
  <2>3. CASE Shutdown
    <3> DEFINE h == [op |-> "shutdown"]
    <3>1. h.op = "shutdown" /\ ready' = Append(ready, h)
      BY <2>3 DEF Shutdown
    <3> HIDE DEF h
    <3>2. h.op \notin WriteOps /\ UNCHANGED <<writes, stream>>
            /\ (UNCHANGED socket_state \/ socket_state' \notin Connected)
      BY <2>3, <3>1 DEF Shutdown
    <3> QED
      BY <1>2, <3>1, <3>2, AddKeepsHeader
  <2>4. CASE start_connect
    <3> DEFINE extra == IF deadline THEN <<DeadlineHandler>> ELSE <<>>
    <3>1. /\ ready # <<>> /\ Head(ready).op = "start_connect" /\ UNCHANGED <<writes, stream>>
          /\ UNCHANGED socket_state \/ socket_state' \notin Connected
          /\ ready' = Tail(ready) \/ ready' = Tail(ready) \o extra
      BY <2>4 DEF start_connect, Runs, sendVars
    <3>2. extra \in Seq(Handler) /\ \A i \in DOMAIN extra : extra[i].op = "connect_deadline"
      <4>1. <<DeadlineHandler>> \in Seq(Handler) /\ <<>> \in Seq(Handler)
        BY HandlerTypes, OneElement
      <4>2. CASE deadline
        BY <4>1, <4>2, HandlerFields
      <4>3. CASE ~deadline
        BY <4>1, <4>3
      <4> QED
        BY <4>2, <4>3
    <3> HIDE DEF extra
    <3>3. Tail(ready) \in Seq(Handler)
      BY <1>2, <3>1, Behind
    <3>4. /\ \A i \in DOMAIN (Tail(ready) \o extra) :
                 \/ (Tail(ready) \o extra)[i].op \notin WriteOps
                 \/ i \in DOMAIN Tail(ready) /\ (Tail(ready) \o extra)[i] = Tail(ready)[i]
          /\ \A i \in DOMAIN Tail(ready) :
                 i \in DOMAIN (Tail(ready) \o extra) /\ (Tail(ready) \o extra)[i] = Tail(ready)[i]
      BY <3>2, <3>3, Joined
    <3>5. /\ \A i \in DOMAIN ready' :
                 \/ ready'[i].op \notin WriteOps
                 \/ i \in DOMAIN Tail(ready) /\ ready'[i] = Tail(ready)[i]
          /\ \A i \in DOMAIN Tail(ready) : i \in DOMAIN ready' /\ ready'[i] = Tail(ready)[i]
      BY <3>1, <3>4
    <3> QED
      BY <1>2, <3>1, <3>5, PopKeepsHeader
  <2>5. CASE connect_deadline_cb
    <3>1. ready # <<>> /\ Head(ready).op \notin WriteOps /\ UNCHANGED <<socket_state, stream>>
      BY <2>5 DEF connect_deadline_cb, Runs
    <3>2. CASE DeadlineApplies
      <4>1. CloseSocket(Tail(ready)) /\ Tail(ready) \in Seq(Handler)
        BY <1>2, <2>5, <3>1, <3>2, Behind DEF connect_deadline_cb
      <4> QED
        BY <1>2, <3>1, <4>1, CloseHeader
    <3>3. CASE ~DeadlineApplies
      <4>1. ready' = Tail(ready) /\ UNCHANGED <<writes, stream>>
        BY <2>5, <3>3 DEF connect_deadline_cb
      <4> QED
        BY <1>2, <3>1, <4>1, PopKeepsHeader
    <3> QED
      BY <3>2, <3>3
  <2>6. CASE connect_outcome_cb
    BY <1>2, <2>6, OutcomeKeepsHeader
  <2>7. CASE send_cb
    <3>1. ready # <<>> /\ Head(ready).op = "send_cb" /\ UNCHANGED stream
      BY <2>7 DEF send_cb, Runs
    <3>2. CASE socket_state = "SHUTDOWN"
      <4>1. ready' = Tail(ready) /\ UNCHANGED <<writes, stream>> /\ socket_state' \notin Connected
        BY <2>7, <3>2 DEF send_cb
      <4> QED
        BY <1>2, <3>1, <4>1, PopKeepsHeader
    <3>3. CASE socket_state # "SHUTDOWN" /\ Head(ready).ec
      <4>1. CloseSocket(Tail(ready)) /\ socket_state' \notin Connected
        BY <2>7, <3>3 DEF send_cb, set_state_schedule_connect
      <4>2. Tail(ready) \in Seq(Handler)
        BY <1>2, <3>1, Behind
      <4> QED
        BY <1>2, <3>1, <4>1, <4>2, CloseHeader
    <3>4. CASE socket_state # "SHUTDOWN" /\ ~Head(ready).ec /\ ~open
      <4>1. ready' = Tail(ready) /\ UNCHANGED <<writes, stream>> /\ socket_state' \notin Connected
        BY <2>7, <3>4 DEF send_cb, set_state_schedule_connect
      <4> QED
        BY <1>2, <3>1, <4>1, PopKeepsHeader
    <3>5. CASE socket_state # "SHUTDOWN" /\ ~Head(ready).ec /\ open
      BY <1>2, <2>7, <3>5, SentKeepsHeader
    <3> QED
      BY <3>2, <3>3, <3>4, <3>5
  <2>8. CASE write_more
    BY <1>2, <2>8, MoreKeepsHeader
  <2>9. CASE shutdown_cb
    <3>1. PICK rest \in Seq(Handler) :
             /\ ready # <<>> /\ 1 \in DOMAIN ready /\ ready[1].op = "shutdown"
             /\ CloseSocket(rest)
             /\ \A i \in DOMAIN rest :
                    \/ i \in DOMAIN Tail(ready) /\ rest[i] = Tail(ready)[i]
                    \/ rest[i].op = "connect_deadline"
                    \/ i = Len(rest) /\ retry /\ rest[i].op = "start_connect"
             /\ \A i \in DOMAIN Tail(ready) : i \in DOMAIN rest /\ rest[i] = Tail(ready)[i]
             /\ retry => Len(rest) \in DOMAIN rest /\ rest[Len(rest)].op = "start_connect"
                           /\ Len(rest) \notin DOMAIN Tail(ready)
      BY <1>2, <2>9, ShutdownRest
    <3>2. socket_state' = socket_state /\ UNCHANGED stream /\ Head(ready).op \notin WriteOps
      BY <2>9 DEF shutdown_cb, Runs
    <3>3. \A i \in DOMAIN rest : \/ rest[i].op \notin WriteOps
                                 \/ i \in DOMAIN Tail(ready) /\ rest[i] = Tail(ready)[i]
      BY <3>1
    <3> QED
      BY <1>2, <3>1, <3>2, <3>3, CloseHeader
  <2>10. CASE RetryFires
    BY <1>2, <2>10, HandlerFields, AddKeepsHeader DEF RetryFires, sendVars
  <2>11. CASE DeadlineFires
    BY <1>2, <2>11, HandlerFields, AddKeepsHeader DEF DeadlineFires, sendVars
  <2>12. CASE ConnectSucceeds \/ ConnectFails
    <3>1. PICK ec : ready' = Append(ready, OutcomeHandler(ec))
      BY <2>12 DEF ConnectSucceeds, ConnectFails
    <3>2. UNCHANGED <<writes, stream, socket_state>>
      BY <2>12 DEF ConnectSucceeds, ConnectFails, sendVars
    <3> QED
      BY <1>2, <3>1, <3>2, HandlerFields, AddKeepsHeader
  <2>13. CASE Reset
    <3>1. UNCHANGED <<writes, ready, stream, socket_state>>
      BY <2>13 DEF Reset, sendVars
    <3> QED
      BY <1>2, <3>1 DEF HeaderInv, HeaderFirst, HeaderProgress, OneHeader, HeaderAlone,
         HeaderInFlight, Fits, IsHeader, IsData
  <2>14. ASSUME NEW n \in Nat, WriteSome(n)
         PROVE  HeaderInv'
    BY <1>2, <2>14, WriteKeepsHeader
  <2>15. CASE WriteFails
    BY <1>2, <2>15, FailureKeepsHeader
  <2>16. CASE UNCHANGED vars
    BY <1>2, <2>16 DEF vars, HeaderInv, HeaderFirst, HeaderProgress, OneHeader, HeaderAlone,
       HeaderInFlight, Fits, IsHeader, IsData
  <2>17. \A size \in BlockSizes : \A n \in 1 .. size : n \in Nat
    OBVIOUS
  <2> QED
    BY <1>2, <2>1, <2>2, <2>3, <2>4, <2>5, <2>6, <2>7, <2>8, <2>9, <2>10, <2>11,
       <2>12, <2>13, <2>14, <2>15, <2>16, <2>17 DEF Next, IoStep, WriteProgress
<1> QED
  BY <1>1, <1>2

\* The three invariants together.
LEMMA SenderInvariants == Spec => [](TypeOK /\ FreshInv /\ AttemptInv /\ HeaderInv)
<1>1. Init => FreshInv /\ AttemptInv /\ HeaderInv
  BY FreshInvariant, AttemptInvariant, HeaderInvariant
<1>2. TypeOK /\ FreshInv /\ AttemptInv /\ HeaderInv /\ [Next]_vars
        => FreshInv' /\ AttemptInv' /\ HeaderInv'
  BY FreshInvariant, AttemptInvariant, HeaderInvariant
<1> QED
  BY <1>1, <1>2, Typed, PTL DEF Spec

\* The complete header goes out first on every connection, however writes, resets,
\* reconnects and handlers of earlier connections interleave.
THEOREM HeaderAlwaysFirst == Spec => []HeaderFirst
<1>1. HeaderInv => HeaderFirst
  BY DEF HeaderInv
<1> QED
  BY <1>1, SenderInvariants, PTL

\* The attempts, counted.
LEMMA CountAttempts ==
  ASSUME TypeOK, AttemptInv
  PROVE  /\ NoAttempt => Attempts = 0
         /\ ~NoAttempt => Attempts = 1
<1> USE DEF AttemptOps
<1> DEFINE S == HandlersOf("start_connect")
           C == HandlersOf("connect_outcome")
<1>1. \A x : Cardinality({x}) = 1
  BY FS_Singleton
<1>2. Cardinality({}) = 0
  BY FS_EmptySet
<1>3. CASE NoAttempt
  <2>1. S = {} /\ C = {}
    BY <1>3 DEF NoAttempt, HandlersOf
  <2>2. ~retry /\ ~connecting
    BY <1>3 DEF NoAttempt
  <2>3. Attempts = 0
    BY <1>2, <2>1, <2>2 DEF Attempts
  <2> QED
    BY <1>3, <2>3
<1>4. CASE retry \/ connecting
  <2>1. S = {} /\ C = {}
    BY <1>4 DEF AttemptInv, OneAttempt, HandlersOf
  <2>2. ~(retry /\ connecting) /\ ~NoAttempt
    BY <1>4 DEF AttemptInv, OneAttempt, NoAttempt
  <2> QED
    BY <1>2, <1>4, <2>1, <2>2 DEF Attempts
<1>5. CASE ~NoAttempt /\ ~retry /\ ~connecting
  <2>1. PICK i \in DOMAIN ready : ready[i].op \in AttemptOps
    BY <1>5 DEF NoAttempt
  <2>2. \A j \in DOMAIN ready : ready[j].op \in AttemptOps => j = i
    BY <2>1 DEF AttemptInv, OneAttempt
  <2>3. CASE ready[i].op = "start_connect"
    <3>1. S = {i} /\ C = {}
      BY <2>1, <2>2, <2>3 DEF HandlersOf
    <3> QED
      BY <1>1, <1>2, <1>5, <3>1 DEF Attempts
  <2>4. CASE ready[i].op = "connect_outcome"
    <3>1. S = {} /\ C = {i}
      BY <2>1, <2>2, <2>4 DEF HandlersOf
    <3> QED
      BY <1>1, <1>2, <1>5, <3>1 DEF Attempts
  <2> QED
    BY <2>1, <2>3, <2>4
<1> QED
  BY <1>3, <1>4, <1>5

\* The sender is never stuck and never connects twice: while it waits for a
\* connection exactly one attempt is under way, and none once it has one; and a
\* connection that is not ready for data has its header under way.
THEOREM SenderNeverStuck == Spec => []NeverStuck
<1>1. TypeOK /\ AttemptInv /\ HeaderInv => NeverStuck
  BY CountAttempts DEF AttemptInv, AttemptFits, HeaderInv, HeaderAlone, NeverStuck, Waiting, Connected
<1> QED
  BY <1>1, SenderInvariants, PTL

-----------------------------------------------------------------------------
(***************************************************************************)
(* The sizes of writes and of handlers.                                    *)
(***************************************************************************)
\* They are numbers.
LEMMA SizeTypes ==
  /\ \A w \in Write : DataSize(w) \in Nat
  /\ \A h \in Handler : HandlerSize(h) \in Nat
<1>1. \A w \in Write : DataSize(w) \in Nat
  BY DEF DataSize, Write
<1>2. \A h \in Handler : HandlerSize(h) \in Nat
  BY <1>1, HandlerWrite DEF HandlerSize, WriteOps
<1> QED
  BY <1>1, <1>2

\* The sizes of a sequence of writes.
LEMMA WritesSizes ==
  ASSUME NEW ws \in Seq(Write)
  PROVE  LET z == [i \in DOMAIN ws |-> DataSize(ws[i])]
         IN  z \in Seq(Nat) /\ Len(z) = Len(ws) /\ \A i \in 1 .. Len(ws) : z[i] = DataSize(ws[i])
<1> DEFINE z == [i \in DOMAIN ws |-> DataSize(ws[i])]
<1>1. Len(ws) \in Nat /\ DOMAIN ws = 1 .. Len(ws) /\ \A i \in DOMAIN ws : ws[i] \in Write
  OBVIOUS
<1>2. z \in [1 .. Len(ws) -> Nat] /\ \A i \in 1 .. Len(ws) : z[i] = DataSize(ws[i])
  BY <1>1, SizeTypes, Zenon
<1> HIDE DEF z
<1>3. z \in Seq(Nat) /\ Len(z) = Len(ws)
  BY <1>1, <1>2
<1> QED
  BY <1>2, <1>3 DEF z

\* The sizes of a sequence of handlers.
LEMMA HandlersSizes ==
  ASSUME NEW hs \in Seq(Handler)
  PROVE  LET z == [i \in DOMAIN hs |-> HandlerSize(hs[i])]
         IN  z \in Seq(Nat) /\ Len(z) = Len(hs) /\ \A i \in 1 .. Len(hs) : z[i] = HandlerSize(hs[i])
<1> DEFINE z == [i \in DOMAIN hs |-> HandlerSize(hs[i])]
<1>1. Len(hs) \in Nat /\ DOMAIN hs = 1 .. Len(hs) /\ \A i \in DOMAIN hs : hs[i] \in Handler
  OBVIOUS
<1>2. z \in [1 .. Len(hs) -> Nat] /\ \A i \in 1 .. Len(hs) : z[i] = HandlerSize(hs[i])
  BY <1>1, SizeTypes, Zenon
<1> HIDE DEF z
<1>3. z \in Seq(Nat) /\ Len(z) = Len(hs)
  BY <1>1, <1>2
<1> QED
  BY <1>2, <1>3 DEF z

\* Two sequences are equal if their elements are.
LEMMA SameSequence ==
  ASSUME NEW S, NEW p \in Seq(S), NEW q \in Seq(S), Len(p) = Len(q),
         \A i \in 1 .. Len(p) : p[i] = q[i]
  PROVE  p = q
OBVIOUS

\* Bytes of joined sequences of handlers add up.
LEMMA HandlersJoined ==
  ASSUME NEW p \in Seq(Handler), NEW q \in Seq(Handler)
  PROVE  /\ HandlersBytes(p \o q) = HandlersBytes(p) + HandlersBytes(q)
         /\ HandlersBytes(p) \in Nat /\ HandlersBytes(q) \in Nat
<1> DEFINE zp == [i \in DOMAIN p |-> HandlerSize(p[i])]
           zq == [i \in DOMAIN q |-> HandlerSize(q[i])]
           zr == [i \in DOMAIN (p \o q) |-> HandlerSize((p \o q)[i])]
<1>1. /\ p \o q \in Seq(Handler) /\ Len(p \o q) = Len(p) + Len(q)
      /\ Len(p) \in Nat /\ Len(q) \in Nat
      /\ \A i \in 1 .. Len(p) + Len(q) : (p \o q)[i] = IF i <= Len(p) THEN p[i] ELSE q[i - Len(p)]
  OBVIOUS
<1>2. zp \in Seq(Nat) /\ Len(zp) = Len(p) /\ \A i \in 1 .. Len(p) : zp[i] = HandlerSize(p[i])
  BY HandlersSizes
<1>3. zq \in Seq(Nat) /\ Len(zq) = Len(q) /\ \A i \in 1 .. Len(q) : zq[i] = HandlerSize(q[i])
  BY HandlersSizes
<1>4. /\ zr \in Seq(Nat) /\ Len(zr) = Len(p \o q)
      /\ \A i \in 1 .. Len(p \o q) : zr[i] = HandlerSize((p \o q)[i])
  BY <1>1, HandlersSizes
<1>5. HandlersBytes(p) = SumOf(zp) /\ HandlersBytes(q) = SumOf(zq) /\ HandlersBytes(p \o q) = SumOf(zr)
  BY DEF HandlersBytes
<1> HIDE DEF zp, zq, zr
<1>6. zr = zp \o zq
  <2>1. zp \o zq \in Seq(Nat) /\ Len(zp \o zq) = Len(p) + Len(q)
    <3>1. zp \in Seq(Nat) /\ zq \in Seq(Nat)
      BY <1>2, <1>3
    <3>2. zp \o zq \in Seq(Nat) /\ Len(zp \o zq) = Len(zp) + Len(zq)
      BY <3>1, LengthOfJoined
    <3> QED
      BY <1>2, <1>3, <3>2
  <2>2. ASSUME NEW i \in 1 .. Len(zr)
        PROVE  zr[i] = (zp \o zq)[i]
    <3>1. i \in 1 .. Len(p) + Len(q) /\ zr[i] = HandlerSize((p \o q)[i])
      BY <1>1, <1>4
    <3>2. CASE i <= Len(p)
      <4>1. i \in 1 .. Len(p) /\ (p \o q)[i] = p[i]
        BY <1>1, <3>1, <3>2
      <4>2. (zp \o zq)[i] = zp[i]
        BY <1>2, <1>3, <4>1
      <4> QED
        BY <1>2, <3>1, <4>1, <4>2
    <3>3. CASE ~(i <= Len(p))
      <4>1. i - Len(p) \in 1 .. Len(q) /\ (p \o q)[i] = q[i - Len(p)]
        BY <1>1, <3>1, <3>3
      <4>2. (zp \o zq)[i] = zq[i - Len(p)]
        BY <1>1, <1>2, <1>3, <3>1, <3>3
      <4> QED
        BY <1>3, <3>1, <4>1, <4>2
    <3> QED
      BY <3>2, <3>3
  <2> QED
    BY <1>1, <1>4, <2>1, <2>2, SameSequence
<1> QED
  BY <1>2, <1>3, <1>5, <1>6, SumJoined

\* The same for writes.
LEMMA WritesJoined ==
  ASSUME NEW p \in Seq(Write), NEW q \in Seq(Write)
  PROVE  /\ WritesBytes(p \o q) = WritesBytes(p) + WritesBytes(q)
         /\ WritesBytes(p) \in Nat /\ WritesBytes(q) \in Nat
<1> DEFINE zp == [i \in DOMAIN p |-> DataSize(p[i])]
           zq == [i \in DOMAIN q |-> DataSize(q[i])]
           zr == [i \in DOMAIN (p \o q) |-> DataSize((p \o q)[i])]
<1>1. /\ p \o q \in Seq(Write) /\ Len(p \o q) = Len(p) + Len(q)
      /\ Len(p) \in Nat /\ Len(q) \in Nat
      /\ \A i \in 1 .. Len(p) + Len(q) : (p \o q)[i] = IF i <= Len(p) THEN p[i] ELSE q[i - Len(p)]
  OBVIOUS
<1>2. zp \in Seq(Nat) /\ Len(zp) = Len(p) /\ \A i \in 1 .. Len(p) : zp[i] = DataSize(p[i])
  BY WritesSizes
<1>3. zq \in Seq(Nat) /\ Len(zq) = Len(q) /\ \A i \in 1 .. Len(q) : zq[i] = DataSize(q[i])
  BY WritesSizes
<1>4. /\ zr \in Seq(Nat) /\ Len(zr) = Len(p \o q)
      /\ \A i \in 1 .. Len(p \o q) : zr[i] = DataSize((p \o q)[i])
  BY <1>1, WritesSizes
<1>5. WritesBytes(p) = SumOf(zp) /\ WritesBytes(q) = SumOf(zq) /\ WritesBytes(p \o q) = SumOf(zr)
  BY DEF WritesBytes
<1> HIDE DEF zp, zq, zr
<1>6. zr = zp \o zq
  <2>1. zp \o zq \in Seq(Nat) /\ Len(zp \o zq) = Len(p) + Len(q)
    <3>1. zp \in Seq(Nat) /\ zq \in Seq(Nat)
      BY <1>2, <1>3
    <3>2. zp \o zq \in Seq(Nat) /\ Len(zp \o zq) = Len(zp) + Len(zq)
      BY <3>1, LengthOfJoined
    <3> QED
      BY <1>2, <1>3, <3>2
  <2>2. ASSUME NEW i \in 1 .. Len(zr)
        PROVE  zr[i] = (zp \o zq)[i]
    <3>1. i \in 1 .. Len(p) + Len(q) /\ zr[i] = DataSize((p \o q)[i])
      BY <1>1, <1>4
    <3>2. CASE i <= Len(p)
      <4>1. i \in 1 .. Len(p) /\ (p \o q)[i] = p[i]
        BY <1>1, <3>1, <3>2
      <4>2. (zp \o zq)[i] = zp[i]
        BY <1>2, <1>3, <4>1
      <4> QED
        BY <1>2, <3>1, <4>1, <4>2
    <3>3. CASE ~(i <= Len(p))
      <4>1. i - Len(p) \in 1 .. Len(q) /\ (p \o q)[i] = q[i - Len(p)]
        BY <1>1, <3>1, <3>3
      <4>2. (zp \o zq)[i] = zq[i - Len(p)]
        BY <1>1, <1>2, <1>3, <3>1, <3>3
      <4> QED
        BY <1>3, <3>1, <4>1, <4>2
    <3> QED
      BY <3>2, <3>3
  <2> QED
    BY <1>1, <1>4, <2>1, <2>2, SameSequence
<1> QED
  BY <1>2, <1>3, <1>5, <1>6, SumJoined

\* A sequence of one element.
LEMMA OneNumber ==
  ASSUME NEW q \in Seq(Nat), NEW x \in Nat, Len(q) = 1, q[1] = x
  PROVE  SumOf(q) = x
<1>1. <<x>> \in Seq(Nat) /\ Len(<<x>>) = 1 /\ <<x>>[1] = x
  OBVIOUS
<1>2. \A i \in 1 .. 1 : i = 1
  OBVIOUS
<1>3. q = <<x>>
  BY <1>1, <1>2, SameSequence
<1> QED
  BY <1>3, SumOne

\* One handler has its size.
LEMMA OneHandler ==
  ASSUME NEW h \in Handler
  PROVE  HandlersBytes(<<h>>) = HandlerSize(h) /\ HandlerSize(h) \in Nat
<1> DEFINE q == <<h>>
           z == [i \in DOMAIN q |-> HandlerSize(q[i])]
<1>1. HandlerSize(h) \in Nat
  BY SizeTypes
<1>2. q \in Seq(Handler) /\ Len(q) = 1 /\ q[1] = h
  OBVIOUS
<1>3. HandlersBytes(<<h>>) = SumOf(z)
  BY DEF HandlersBytes
<1> HIDE DEF q
<1>4. z \in Seq(Nat) /\ Len(z) = Len(q) /\ \A i \in 1 .. Len(q) : z[i] = HandlerSize(q[i])
  BY <1>2, HandlersSizes
<1> HIDE DEF z
<1>5. Len(z) = 1 /\ z[1] = HandlerSize(h)
  BY <1>2, <1>4
<1> QED
  BY <1>1, <1>3, <1>4, <1>5, OneNumber

\* One write has its size.
LEMMA OneWrite ==
  ASSUME NEW w \in Write
  PROVE  WritesBytes(<<w>>) = DataSize(w) /\ DataSize(w) \in Nat
<1> DEFINE q == <<w>>
           z == [i \in DOMAIN q |-> DataSize(q[i])]
<1>1. DataSize(w) \in Nat
  BY SizeTypes
<1>2. q \in Seq(Write) /\ Len(q) = 1 /\ q[1] = w
  OBVIOUS
<1>3. WritesBytes(<<w>>) = SumOf(z)
  BY DEF WritesBytes
<1> HIDE DEF q
<1>4. z \in Seq(Nat) /\ Len(z) = Len(q) /\ \A i \in 1 .. Len(q) : z[i] = DataSize(q[i])
  BY <1>2, WritesSizes
<1> HIDE DEF z
<1>5. Len(z) = 1 /\ z[1] = DataSize(w)
  BY <1>2, <1>4
<1> QED
  BY <1>1, <1>3, <1>4, <1>5, OneNumber

\* A sequence grows at its end and shrinks at its front by one element.
LEMMA Ends ==
  ASSUME NEW S, NEW q \in Seq(S)
  PROVE  /\ \A x \in S : Append(q, x) = q \o <<x>> /\ <<x>> \in Seq(S)
         /\ q # <<>> => /\ q = <<Head(q)>> \o Tail(q) /\ Head(q) \in S
                        /\ <<Head(q)>> \in Seq(S) /\ Tail(q) \in Seq(S)
OBVIOUS

\* A handler is put behind the others, or the first one leaves.
LEMMA HandlersChange ==
  ASSUME NEW q \in Seq(Handler)
  PROVE  /\ HandlersBytes(q) \in Nat
         /\ \A h \in Handler : HandlersBytes(Append(q, h)) = HandlersBytes(q) + HandlerSize(h)
         /\ q # <<>> => /\ HandlersBytes(q) = HandlerSize(Head(q)) + HandlersBytes(Tail(q))
                        /\ HandlersBytes(Tail(q)) \in Nat /\ HandlerSize(Head(q)) \in Nat
<1>1. HandlersBytes(q) \in Nat
  BY HandlersJoined
<1>2. ASSUME NEW h \in Handler
      PROVE  HandlersBytes(Append(q, h)) = HandlersBytes(q) + HandlerSize(h)
  <2>1. Append(q, h) = q \o <<h>> /\ <<h>> \in Seq(Handler)
    BY Ends
  <2>2. HandlersBytes(q \o <<h>>) = HandlersBytes(q) + HandlersBytes(<<h>>)
    BY <2>1, HandlersJoined
  <2> QED
    BY <2>1, <2>2, OneHandler
<1>3. ASSUME q # <<>>
      PROVE  /\ HandlersBytes(q) = HandlerSize(Head(q)) + HandlersBytes(Tail(q))
             /\ HandlersBytes(Tail(q)) \in Nat /\ HandlerSize(Head(q)) \in Nat
  <2>1. /\ q = <<Head(q)>> \o Tail(q) /\ Head(q) \in Handler
        /\ <<Head(q)>> \in Seq(Handler) /\ Tail(q) \in Seq(Handler)
    BY <1>3, Ends
  <2>2. /\ HandlersBytes(<<Head(q)>> \o Tail(q))
             = HandlersBytes(<<Head(q)>>) + HandlersBytes(Tail(q))
        /\ HandlersBytes(Tail(q)) \in Nat
    BY <2>1, HandlersJoined
  <2>3. HandlersBytes(<<Head(q)>>) = HandlerSize(Head(q)) /\ HandlerSize(Head(q)) \in Nat
    BY <2>1, OneHandler
  <2>4. HandlersBytes(q) = HandlersBytes(<<Head(q)>> \o Tail(q))
    BY <2>1
  <2> QED
    BY <2>2, <2>3, <2>4
<1> QED
  BY <1>1, <1>2, <1>3

\* The same for writes.
LEMMA WritesChange ==
  ASSUME NEW q \in Seq(Write)
  PROVE  /\ WritesBytes(q) \in Nat
         /\ \A w \in Write : WritesBytes(Append(q, w)) = WritesBytes(q) + DataSize(w)
         /\ q # <<>> => /\ WritesBytes(q) = DataSize(Head(q)) + WritesBytes(Tail(q))
                        /\ WritesBytes(Tail(q)) \in Nat /\ DataSize(Head(q)) \in Nat
<1>1. WritesBytes(q) \in Nat
  BY WritesJoined
<1>2. ASSUME NEW w \in Write
      PROVE  WritesBytes(Append(q, w)) = WritesBytes(q) + DataSize(w)
  <2>1. Append(q, w) = q \o <<w>> /\ <<w>> \in Seq(Write)
    BY Ends
  <2>2. WritesBytes(q \o <<w>>) = WritesBytes(q) + WritesBytes(<<w>>)
    BY <2>1, WritesJoined
  <2> QED
    BY <2>1, <2>2, OneWrite
<1>3. ASSUME q # <<>>
      PROVE  /\ WritesBytes(q) = DataSize(Head(q)) + WritesBytes(Tail(q))
             /\ WritesBytes(Tail(q)) \in Nat /\ DataSize(Head(q)) \in Nat
  <2>1. /\ q = <<Head(q)>> \o Tail(q) /\ Head(q) \in Write
        /\ <<Head(q)>> \in Seq(Write) /\ Tail(q) \in Seq(Write)
    BY <1>3, Ends
  <2>2. /\ WritesBytes(<<Head(q)>> \o Tail(q))
             = WritesBytes(<<Head(q)>>) + WritesBytes(Tail(q))
        /\ WritesBytes(Tail(q)) \in Nat
    BY <2>1, WritesJoined
  <2>3. WritesBytes(<<Head(q)>>) = DataSize(Head(q)) /\ DataSize(Head(q)) \in Nat
    BY <2>1, OneWrite
  <2>4. WritesBytes(q) = WritesBytes(<<Head(q)>> \o Tail(q))
    BY <2>1
  <2> QED
    BY <2>2, <2>3, <2>4
<1> QED
  BY <1>1, <1>2, <1>3

\* Nothing is pending in empty sequences, nor in handlers that are not of writes.
LEMMA NothingPending ==
  /\ WritesBytes(<<>>) = 0
  /\ \A hs \in Seq(Handler) :
         (\A i \in DOMAIN hs : hs[i].op \notin WriteOps) => HandlersBytes(hs) = 0
<1>1. WritesBytes(<<>>) = 0
  <2> DEFINE z == [i \in DOMAIN <<>> |-> DataSize(<<>>[i])]
  <2>1. z \in Seq(Nat) /\ Len(z) = 0
    BY WritesSizes
  <2>2. WritesBytes(<<>>) = SumOf(z)
    BY DEF WritesBytes
  <2> HIDE DEF z
  <2>3. z = <<>>
    BY <2>1
  <2> QED
    BY <2>2, <2>3, SumEmpty
<1>2. ASSUME NEW hs \in Seq(Handler), \A i \in DOMAIN hs : hs[i].op \notin WriteOps
      PROVE  HandlersBytes(hs) = 0
  <2> DEFINE z == [i \in DOMAIN hs |-> HandlerSize(hs[i])]
             f == [i \in 0 .. Len(hs) |-> 0]
  <2>1. Len(hs) \in Nat /\ DOMAIN hs = 1 .. Len(hs)
    OBVIOUS
  <2>2. z \in Seq(Nat) /\ Len(z) = Len(hs) /\ \A i \in 1 .. Len(hs) : z[i] = HandlerSize(hs[i])
    BY HandlersSizes
  <2>3. HandlersBytes(hs) = SumOf(z)
    BY DEF HandlersBytes
  <2> HIDE DEF z
  <2>4. \A i \in 1 .. Len(hs) : z[i] = 0
    BY <1>2, <2>1, <2>2 DEF HandlerSize
  <2>5. f \in [0 .. Len(hs) -> Nat] /\ \A i \in 0 .. Len(hs) : f[i] = 0
    OBVIOUS
  <2> HIDE DEF f
  <2>6. \A i \in 1 .. Len(hs) : f[i] = f[i - 1] + z[i]
    <3> SUFFICES ASSUME NEW i \in 1 .. Len(hs) PROVE f[i] = f[i - 1] + z[i]
      OBVIOUS
    <3>1. i \in 0 .. Len(hs) /\ i - 1 \in 0 .. Len(hs)
      BY <2>1
    <3>2. f[i] = 0 /\ f[i - 1] = 0 /\ z[i] = 0
      BY <2>4, <2>5, <3>1
    <3> QED
      BY <3>2
  <2>7. 0 \in 0 .. Len(hs) /\ Len(hs) \in 0 .. Len(hs)
    BY <2>1
  <2>8. f[0] = 0 /\ f[Len(hs)] = 0
    BY <2>5, <2>7
  <2>9. PartialSums(z, f)
    BY <2>2, <2>5, <2>6, <2>8 DEF PartialSums
  <2> QED
    BY <2>2, <2>3, <2>8, <2>9, SumIs
<1> QED
  BY <1>1, <1>2

\* Closing the socket moves the bytes from its writes to their handlers.
LEMMA AbortedBytes ==
  ASSUME TypeOK, ~connecting
  PROVE  HandlersBytes(AbortedOps) = WritesBytes(writes)
<1> DEFINE aborted == [i \in DOMAIN writes |-> SendHandler(writes[i], TRUE)]
           zw == [i \in DOMAIN writes |-> DataSize(writes[i])]
           zh == [i \in DOMAIN aborted |-> HandlerSize(aborted[i])]
<1>1. writes \in Seq(Write) /\ Len(writes) \in Nat /\ DOMAIN writes = 1 .. Len(writes)
  BY DEF TypeOK
<1>2. AbortedOps = <<>> \o aborted
  BY DEF AbortedOps
<1>3. aborted \in [1 .. Len(writes) -> Handler]
  <2>1. \A i \in DOMAIN writes : writes[i] \in Write
    BY <1>1
  <2> QED
    BY <1>1, <2>1, HandlerTypes, Zenon
<1>4. \A i \in DOMAIN writes : FailedWrite(aborted[i], writes[i])
  BY OutcomeOfWrite, Zenon
<1>5. WritesBytes(writes) = SumOf(zw) /\ HandlersBytes(aborted) = SumOf(zh)
  BY DEF WritesBytes, HandlersBytes
<1>6. zw \in Seq(Nat) /\ Len(zw) = Len(writes) /\ \A i \in 1 .. Len(writes) : zw[i] = DataSize(writes[i])
  BY <1>1, WritesSizes
<1> HIDE DEF aborted, zw
<1>7. aborted \in Seq(Handler) /\ Len(aborted) = Len(writes)
  BY <1>1, <1>3
<1>8. zh \in Seq(Nat) /\ Len(zh) = Len(aborted) /\ \A i \in 1 .. Len(aborted) : zh[i] = HandlerSize(aborted[i])
  BY <1>7, HandlersSizes
<1> HIDE DEF zh
<1>9. \A i \in 1 .. Len(writes) : HandlerSize(aborted[i]) = DataSize(writes[i])
  BY <1>1, <1>4 DEF HandlerSize, FailedWrite, WriteOps
<1>10. \A i \in 1 .. Len(zw) : zw[i] = zh[i]
  BY <1>6, <1>7, <1>8, <1>9
<1>11. Len(zw) = Len(zh)
  BY <1>6, <1>7, <1>8
<1>12. zw = zh
  BY <1>6, <1>8, <1>10, <1>11, SameSequence
<1>13. AbortedOps = aborted
  BY <1>2, <1>7
<1> QED
  BY <1>5, <1>12, <1>13

-----------------------------------------------------------------------------
(***************************************************************************)
(* The pending bytes.                                                      *)
(***************************************************************************)
\* The bytes in flight are a number.
LEMMA InFlightType ==
  ASSUME TypeOK
  PROVE  /\ WritesBytes(writes) \in Nat /\ HandlersBytes(ready) \in Nat /\ InFlight \in Nat
         /\ writes \in Seq(Write) /\ ready \in Seq(Handler) /\ pending_bytes \in Nat
<1>1. writes \in Seq(Write) /\ ready \in Seq(Handler) /\ pending_bytes \in Nat
  BY DEF TypeOK
<1> QED
  BY <1>1, WritesChange, HandlersChange DEF InFlight

\* A step that leaves pending_bytes alone keeps the invariant if it leaves the
\* bytes in flight alone or the sender without a connection.
LEMMA PendingKeeps ==
  ASSUME PendingInv, UNCHANGED pending_bytes,
         socket_state' \in Connected => InFlight' = InFlight,
         \/ UNCHANGED socket_state
         \/ socket_state' = "SHUTDOWN"
         \/ /\ socket_state \notin {"CONNECTED_DATA_READY", "SHUTDOWN"}
            /\ socket_state' \notin Connected
  PROVE  PendingInv'
BY DEF PendingInv, Connected

\* A handler that is not of a write comes or goes.
LEMMA NothingMoves ==
  ASSUME TypeOK, UNCHANGED writes,
         \/ \E h \in Handler : h.op \notin WriteOps /\ ready' = Append(ready, h)
         \/ ready # <<>> /\ Head(ready).op \notin WriteOps /\ ready' = Tail(ready)
  PROVE  InFlight' = InFlight
<1>1. ready \in Seq(Handler) /\ HandlersBytes(ready) \in Nat
  BY InFlightType
<1>2. CASE \E h \in Handler : h.op \notin WriteOps /\ ready' = Append(ready, h)
  <2>1. PICK h \in Handler : h.op \notin WriteOps /\ ready' = Append(ready, h)
    BY <1>2
  <2>2. HandlersBytes(Append(ready, h)) = HandlersBytes(ready) + HandlerSize(h)
    BY <1>1, HandlersChange
  <2>3. HandlerSize(h) = 0
    BY <2>1 DEF HandlerSize
  <2>4. HandlersBytes(ready') = HandlersBytes(ready)
    BY <1>1, <2>1, <2>2, <2>3
  <2> QED
    BY <2>4 DEF InFlight
<1>3. CASE ready # <<>> /\ Head(ready).op \notin WriteOps /\ ready' = Tail(ready)
  <2>1. /\ HandlersBytes(ready) = HandlerSize(Head(ready)) + HandlersBytes(Tail(ready))
        /\ HandlersBytes(Tail(ready)) \in Nat
    BY <1>1, <1>3, HandlersChange
  <2>2. HandlerSize(Head(ready)) = 0
    BY <1>3 DEF HandlerSize
  <2>3. HandlersBytes(ready') = HandlersBytes(ready)
    BY <1>3, <2>1, <2>2
  <2> QED
    BY <2>3 DEF InFlight
<1> QED
  BY <1>2, <1>3

\* async_write puts the bytes of its buffer into flight.
LEMMA WriteInFlight ==
  ASSUME TypeOK, NEW w \in Write, NEW rest \in Seq(Handler), AsyncWrite(w, rest)
  PROVE  InFlight' = WritesBytes(writes) + HandlersBytes(rest) + DataSize(w)
<1>1. /\ writes \in Seq(Write) /\ WritesBytes(writes) \in Nat /\ HandlersBytes(rest) \in Nat
      /\ DataSize(w) \in Nat
  BY InFlightType, HandlersChange, SizeTypes
<1>2. CASE open
  <2>1. writes' = Append(writes, w) /\ ready' = rest
    BY <1>2 DEF AsyncWrite
  <2>2. WritesBytes(writes') = WritesBytes(writes) + DataSize(w) /\ HandlersBytes(ready') = HandlersBytes(rest)
    BY <1>1, <2>1, WritesChange
  <2> QED
    BY <1>1, <2>2 DEF InFlight
<1>3. CASE ~open
  <2> DEFINE h == SendHandler(w, TRUE)
  <2>1. writes' = writes /\ ready' = Append(rest, h)
    BY <1>3 DEF AsyncWrite
  <2>2. h \in Handler /\ FailedWrite(h, w)
    BY HandlerTypes, OutcomeOfWrite
  <2> HIDE DEF h
  <2>3. HandlerSize(h) = DataSize(w)
    BY <2>2 DEF HandlerSize, FailedWrite, WriteOps
  <2>4. HandlersBytes(Append(rest, h)) = HandlersBytes(rest) + HandlerSize(h)
    BY <2>2, HandlersChange
  <2>5. WritesBytes(writes') = WritesBytes(writes)
          /\ HandlersBytes(ready') = HandlersBytes(rest) + DataSize(w)
    BY <2>1, <2>3, <2>4
  <2> QED
    BY <1>1, <2>5 DEF InFlight
<1> QED
  BY <1>2, <1>3

\* A write moves from the socket into the queue, by h.
LEMMA MoveInFlight ==
  ASSUME TypeOK, writes # <<>>, writes' = Tail(writes), NEW h \in Handler,
         ready' = Append(ready, h), HandlerSize(h) = DataSize(Head(writes))
  PROVE  InFlight' = InFlight
<1>1. writes \in Seq(Write) /\ ready \in Seq(Handler) /\ HandlersBytes(ready) \in Nat
  BY InFlightType
<1>2. /\ WritesBytes(writes) = DataSize(Head(writes)) + WritesBytes(Tail(writes))
      /\ WritesBytes(Tail(writes)) \in Nat /\ DataSize(Head(writes)) \in Nat
  BY <1>1, WritesChange
<1>3. HandlersBytes(Append(ready, h)) = HandlersBytes(ready) + HandlerSize(h)
  BY <1>1, HandlersChange
<1>4. /\ WritesBytes(writes') = WritesBytes(Tail(writes))
      /\ HandlersBytes(ready') = HandlersBytes(ready) + DataSize(Head(writes))
  BY <1>3
<1> QED
  BY <1>1, <1>2, <1>4 DEF InFlight

\* Data that is accepted is pending.
LEMMA SendPending ==
  ASSUME TypeOK, PendingInv, NEW size \in BlockSizes, Send(size)
  PROVE  PendingInv'
<1>1. CASE ~Accepts(size)
  <2>1. UNCHANGED <<pending_bytes, writes, ready, socket_state>>
    BY <1>1 DEF Send
  <2>2. InFlight' = InFlight
    BY <2>1 DEF InFlight
  <2> QED
    BY <2>1, <2>2, PendingKeeps
<1>2. CASE Accepts(size)
  <2> DEFINE w == NewWrite(sends + 1, size)
  <2>1. /\ socket_state = "CONNECTED_DATA_READY" /\ socket_state' = socket_state
        /\ pending_bytes' = pending_bytes + size /\ pending_bytes + size <= PendingLimit
        /\ AsyncWrite(w, ready)
    BY <1>2 DEF Send, Accepts
  <2>2. sends \in Nat /\ size \in Nat /\ ready \in Seq(Handler)
    BY SenderAssumption DEF TypeOK
  <2>3. w \in Write /\ DataSize(w) = size
    BY <2>2 DEF NewWrite, Write, DataSize, Header
  <2> HIDE DEF w
  <2>4. InFlight' = WritesBytes(writes) + HandlersBytes(ready) + size
    BY <2>1, <2>2, <2>3, WriteInFlight
  <2>5. pending_bytes = WritesBytes(writes) + HandlersBytes(ready)
    BY <2>1 DEF PendingInv, Connected, InFlight
  <2>6. pending_bytes' = InFlight'
    BY <2>1, <2>4, <2>5
  <2> QED
    BY <2>1, <2>6 DEF PendingInv
<1> QED
  BY <1>1, <1>2

\* A new connection has nothing pending but its header.
LEMMA OutcomePending ==
  ASSUME TypeOK, AttemptInv, PendingInv, connect_outcome_cb
  PROVE  PendingInv'
<1> USE DEF Connected, AttemptOps
<1>1. ready # <<>> /\ Head(ready).op = "connect_outcome" /\ UNCHANGED pending_bytes
  BY DEF connect_outcome_cb, Runs
<1>2. /\ 1 \in DOMAIN ready /\ ready[1].op = "connect_outcome"
      /\ Tail(ready) \in Seq(Handler)
      /\ \A i \in DOMAIN ready : i \in Nat /\ i >= 1
      /\ \A i \in DOMAIN Tail(ready) : i \in Nat /\ i + 1 \in DOMAIN ready /\ Tail(ready)[i] = ready[i + 1]
  BY <1>1, Behind
<1>3. writes = <<>> /\ socket_state \notin Connected
  BY <1>2 DEF AttemptInv, WritesBeforeAttempt, NoAttempt, AttemptFits
<1>4. CASE socket_state = "SHUTDOWN"
  <2>1. socket_state' = "SHUTDOWN"
    BY <1>4 DEF connect_outcome_cb
  <2> QED
    BY <1>1, <2>1, PendingKeeps
<1>5. CASE socket_state # "SHUTDOWN" /\ (Head(ready).ec \/ ~open)
  <2>1. socket_state' \notin Connected
    BY <1>5 DEF connect_outcome_cb, set_state_schedule_connect
  <2> QED
    BY <1>1, <1>3, <1>5, <2>1, PendingKeeps
<1>6. CASE ~(socket_state = "SHUTDOWN" \/ Head(ready).ec \/ ~open)
  <2> DEFINE w == NewWrite(Header, HeaderSize)
  <2>1. AsyncWrite(w, Tail(ready)) /\ socket_state' = "CONNECTED_DATA_NOT_READY"
    BY <1>6 DEF connect_outcome_cb
  <2>2. w \in Write /\ DataSize(w) = 0
    BY SenderAssumption DEF NewWrite, Write, DataSize, Header
  <2> HIDE DEF w
  <2>3. \A i \in DOMAIN Tail(ready) : Tail(ready)[i].op \notin WriteOps
    <3> SUFFICES ASSUME NEW i \in DOMAIN Tail(ready), Tail(ready)[i].op \in WriteOps
                 PROVE  FALSE
      OBVIOUS
    <3>1. i + 1 \in DOMAIN ready /\ ready[i + 1].op \in WriteOps /\ i \in Nat /\ i + 1 >= 1
      BY <1>2
    <3>2. i + 1 < 1
      BY <1>2, <3>1 DEF AttemptInv, WritesBeforeAttempt
    <3> QED
      BY <3>1, <3>2
  <2>4. HandlersBytes(Tail(ready)) = 0 /\ WritesBytes(writes) = 0
    BY <1>2, <1>3, <2>3, NothingPending
  <2>5. InFlight' = WritesBytes(writes) + HandlersBytes(Tail(ready)) + DataSize(w)
    BY <1>2, <2>1, <2>2, WriteInFlight
  <2>6. InFlight' = 0
    BY <2>2, <2>4, <2>5
  <2>7. pending_bytes' = 0
    BY <1>1, <1>3, <1>6 DEF PendingInv
  <2>8. 0 <= PendingLimit
    BY SenderAssumption
  <2> QED
    BY <2>1, <2>6, <2>7, <2>8 DEF PendingInv
<1> QED
  BY <1>4, <1>5, <1>6

\* A completed write is no longer pending, and a failed one takes all others with it.
LEMMA SentPending ==
  ASSUME TypeOK, HeaderInv, PendingInv, send_cb
  PROVE  PendingInv'
<1> USE DEF Connected
<1>1. ready # <<>> /\ Head(ready).op = "send_cb"
  BY DEF send_cb, Runs
<1>2. /\ 1 \in DOMAIN ready /\ Head(ready) = ready[1] /\ Head(ready) \in Handler
      /\ Head(ready).write \in Write
  BY <1>1, Behind, HandlerWrite
<1>3. 0 <= PendingLimit /\ PendingLimit \in Nat
  BY SenderAssumption
<1>4. CASE socket_state = "SHUTDOWN"
  <2>1. socket_state' = "SHUTDOWN" /\ UNCHANGED pending_bytes
    BY <1>4 DEF send_cb
  <2> QED
    BY <2>1, PendingKeeps
<1>5. CASE socket_state # "SHUTDOWN" /\ (Head(ready).ec \/ ~open)
  <2>1. pending_bytes' = 0 /\ socket_state' \notin Connected
    BY <1>5 DEF send_cb, PendingAfterError, set_state_schedule_connect
  <2> QED
    BY <1>3, <2>1 DEF PendingInv
<1>6. CASE socket_state # "SHUTDOWN" /\ ~Head(ready).ec /\ open
  <2> DEFINE size == Head(ready).write.size
             rest == HandlersBytes(Tail(ready))
  <2>1. /\ socket_state' = StateAfterSend /\ pending_bytes' = PendingAfter(size)
        /\ ready' = Tail(ready) /\ writes' = writes
    BY <1>6 DEF send_cb
  <2>2. /\ HandlersBytes(ready) = HandlerSize(Head(ready)) + rest
        /\ rest \in Nat /\ HandlerSize(Head(ready)) \in Nat
        /\ WritesBytes(writes) \in Nat /\ pending_bytes \in Nat
    BY <1>1, InFlightType, HandlersChange
  <2>3. InFlight' = WritesBytes(writes) + rest /\ InFlight = WritesBytes(writes) + (HandlerSize(Head(ready)) + rest)
    BY <2>1, <2>2 DEF InFlight
  <2>4. HandlerSize(Head(ready)) = DataSize(Head(ready).write)
    BY <1>1 DEF HandlerSize, WriteOps
  <2>5. size \in Nat
    BY <1>2 DEF Write
  <2> HIDE DEF size, rest
  <2>6. CASE socket_state = "CONNECTED_DATA_READY"
    <3>1. Head(ready).write.id # Header
      BY <1>1, <1>2, <2>6 DEF HeaderInv, HeaderAlone, HeaderInFlight
    <3>2. HandlerSize(Head(ready)) = size
      BY <2>4, <3>1 DEF DataSize, size
    <3>3. pending_bytes = InFlight /\ pending_bytes <= PendingLimit
      BY <2>6 DEF PendingInv
    <3>4. pending_bytes' = pending_bytes - size
      BY <2>1, <2>2, <2>3, <2>5, <3>2, <3>3 DEF PendingAfter
    <3>5. pending_bytes' = InFlight' /\ pending_bytes' <= PendingLimit
      BY <1>3, <2>2, <2>3, <2>5, <3>2, <3>3, <3>4
    <3>6. socket_state' = "CONNECTED_DATA_READY"
      BY <2>1, <2>6 DEF StateAfterSend
    <3> QED
      BY <3>5, <3>6 DEF PendingInv
  <2>7. CASE socket_state # "CONNECTED_DATA_READY"
    <3>1. pending_bytes = 0
      BY <1>6, <2>7 DEF PendingInv
    <3>2. pending_bytes' = 0
      BY <2>1, <2>5, <3>1 DEF PendingAfter
    <3>3. CASE socket_state = "CONNECTED_DATA_NOT_READY"
      <4>1. pending_bytes = InFlight
        BY <3>3 DEF PendingInv
      <4>2. InFlight' = 0
        BY <2>2, <2>3, <3>1, <4>1
      <4> QED
        BY <1>3, <3>2, <4>2 DEF PendingInv
    <3>4. CASE socket_state # "CONNECTED_DATA_NOT_READY"
      <4>1. socket_state' \notin Connected
        BY <2>1, <2>7, <3>4 DEF StateAfterSend
      <4> QED
        BY <1>3, <3>2, <4>1 DEF PendingInv
    <3> QED
      BY <3>3, <3>4
  <2> QED
    BY <2>6, <2>7
<1> QED
  BY <1>4, <1>5, <1>6

\* The rest of a buffer that queues up again, or fails, was pending already.
LEMMA MorePending ==
  ASSUME TypeOK, PendingInv, write_more
  PROVE  PendingInv'
<1> DEFINE w == Head(ready).write
<1>1. /\ ready # <<>> /\ Head(ready).op = "write_more" /\ AsyncWrite(w, Tail(ready))
      /\ UNCHANGED <<pending_bytes, socket_state>>
  BY DEF write_more, Runs
<1>2. Tail(ready) \in Seq(Handler) /\ w \in Write
  BY <1>1, Behind, HandlerWrite
<1>3. HandlerSize(Head(ready)) = DataSize(w)
  BY <1>1 DEF HandlerSize, WriteOps
<1> HIDE DEF w
<1>4. /\ HandlersBytes(ready) = HandlerSize(Head(ready)) + HandlersBytes(Tail(ready))
      /\ HandlersBytes(Tail(ready)) \in Nat /\ HandlerSize(Head(ready)) \in Nat
      /\ WritesBytes(writes) \in Nat
  BY <1>1, InFlightType, HandlersChange
<1>5. InFlight' = WritesBytes(writes) + HandlersBytes(Tail(ready)) + DataSize(w)
  BY <1>1, <1>2, WriteInFlight
<1>6. InFlight = WritesBytes(writes) + (DataSize(w) + HandlersBytes(Tail(ready)))
  BY <1>3, <1>4 DEF InFlight
<1>7. InFlight' = InFlight
  BY <1>3, <1>4, <1>5, <1>6
<1> QED
  BY <1>1, <1>7, PendingKeeps

\* The destructor's handler cancels the timers and moves the writes to their handlers.
LEMMA ShutdownCbPending ==
  ASSUME TypeOK, AttemptInv, PendingInv, shutdown_cb
  PROVE  PendingInv'
<1> USE DEF Connected
<1> DEFINE dl == IF deadline THEN <<DeadlineHandler>> ELSE <<>>
           st == IF retry THEN <<StartConnectHandler>> ELSE <<>>
           first == Tail(ready) \o dl
           rest == first \o st
<1>1. /\ ready # <<>> /\ Head(ready).op = "shutdown" /\ CloseSocket(rest)
      /\ UNCHANGED <<socket_state, pending_bytes>>
  BY DEF shutdown_cb, Runs
<1>2. CASE socket_state \notin Connected
  BY <1>1, <1>2, PendingKeeps
<1>3. CASE socket_state \in Connected
  <2>1. ~connecting
    BY <1>3 DEF AttemptInv, AttemptFits, NoAttempt
  <2>2. /\ dl \in Seq(Handler) /\ st \in Seq(Handler)
        /\ \A i \in DOMAIN dl : dl[i].op \notin WriteOps
        /\ \A i \in DOMAIN st : st[i].op \notin WriteOps
    <3>1. /\ <<DeadlineHandler>> \in Seq(Handler) /\ <<>> \in Seq(Handler)
          /\ <<StartConnectHandler>> \in Seq(Handler)
      BY HandlerTypes, OneElement
    <3>2. DeadlineHandler.op \notin WriteOps /\ StartConnectHandler.op \notin WriteOps
      BY HandlerFields DEF WriteOps
    <3>3. dl = <<DeadlineHandler>> \/ dl = <<>>
      OBVIOUS
    <3>4. st = <<StartConnectHandler>> \/ st = <<>>
      OBVIOUS
    <3> HIDE DEF dl, st
    <3>5. dl \in Seq(Handler) /\ st \in Seq(Handler)
      BY <3>1, <3>3, <3>4
    <3>6. \A i \in DOMAIN dl : dl[i].op \notin WriteOps
      BY <3>2, <3>3
    <3>7. \A i \in DOMAIN st : st[i].op \notin WriteOps
      BY <3>2, <3>4
    <3> QED
      BY <3>5, <3>6, <3>7
  <2>3. HandlersBytes(dl) = 0 /\ HandlersBytes(st) = 0
    <3> HIDE DEF dl, st
    <3> QED
      BY <2>2, NothingPending
  <2>4. /\ HandlersBytes(ready) = HandlerSize(Head(ready)) + HandlersBytes(Tail(ready))
        /\ HandlersBytes(Tail(ready)) \in Nat /\ Tail(ready) \in Seq(Handler)
        /\ WritesBytes(writes) \in Nat
    BY <1>1, InFlightType, HandlersChange, Behind
  <2>5. HandlerSize(Head(ready)) = 0
    BY <1>1 DEF HandlerSize, WriteOps
  <2> HIDE DEF dl, st
  <2>6. first \in Seq(Handler) /\ HandlersBytes(first) = HandlersBytes(Tail(ready)) + HandlersBytes(dl)
    BY <2>2, <2>4, HandlersJoined, LengthOfJoined
  <2> HIDE DEF first
  <2>7. rest \in Seq(Handler) /\ HandlersBytes(rest) = HandlersBytes(first) + HandlersBytes(st)
    BY <2>2, <2>6, HandlersJoined, LengthOfJoined
  <2> HIDE DEF rest
  <2>8. /\ HandlersBytes(rest \o AbortedOps) = HandlersBytes(rest) + HandlersBytes(AbortedOps)
        /\ HandlersBytes(AbortedOps) = WritesBytes(writes)
    BY <2>1, <2>7, AbortedTypes, AbortedBytes, HandlersJoined
  <2>9. ready' = rest \o AbortedOps /\ writes' = <<>>
    BY <1>1 DEF CloseSocket
  <2>10. HandlersBytes(ready') = HandlersBytes(Tail(ready)) + WritesBytes(writes)
    BY <2>3, <2>4, <2>6, <2>7, <2>8, <2>9
  <2>11. WritesBytes(writes') = 0
    BY <2>9, NothingPending
  <2>12. InFlight' = InFlight
    BY <2>4, <2>5, <2>10, <2>11 DEF InFlight
  <2> QED
    BY <1>1, <2>12, PendingKeeps
<1> QED
  BY <1>2, <1>3

\* A piece of a buffer goes out: the buffer is pending until its send_cb.
LEMMA WritePending ==
  ASSUME TypeOK, PendingInv, NEW n \in Nat, WriteSome(n)
  PROVE  PendingInv'
<1> DEFINE w == [Head(writes) EXCEPT !.left = @ - n]
           h == IF w.left = 0 THEN SendHandler(w, FALSE) ELSE MoreHandler(w)
<1>1. /\ writes # <<>> /\ writes' = Tail(writes) /\ ready' = Append(ready, h)
      /\ n \in 1 .. Head(writes).left /\ UNCHANGED <<socket_state, pending_bytes>>
  BY DEF WriteSome
<1>2. Head(writes) \in Write
  BY <1>1, OneWriteLess
<1>3. w \in Write /\ DataSize(w) = DataSize(Head(writes))
  <2> DEFINE x == Head(writes)
  <2>1. x \in [id : Nat, size : Nat, left : Nat] /\ n \in 1 .. x.left
    BY <1>1, <1>2 DEF Write
  <2>2. w = [x EXCEPT !.left = x.left - n]
    OBVIOUS
  <2> HIDE DEF x, w
  <2>3. x.left - n \in Nat
    BY <2>1
  <2>4. w \in [id : Nat, size : Nat, left : Nat] /\ w.id = x.id /\ w.size = x.size
    BY <2>1, <2>2, <2>3
  <2> QED
    BY <2>4 DEF x, Write, DataSize
<1>4. h \in Handler /\ h.op \in WriteOps /\ h.write = w
  <2> HIDE DEF w
  <2>1. CASE w.left = 0
    <3> DEFINE g == SendHandler(w, FALSE)
    <3>1. g \in Handler /\ g.op = "send_cb" /\ g.write = w
      BY <1>3, HandlerTypes, HandlerFields
    <3>2. h = g
      BY <2>1
    <3> HIDE DEF g, h
    <3> QED
      BY <3>1, <3>2 DEF WriteOps
  <2>2. CASE w.left # 0
    <3>1. MoreHandler(w) \in Handler /\ MoreHandler(w).op = "write_more" /\ MoreHandler(w).write = w
      BY <1>3, HandlerTypes, HandlerFields
    <3>2. h = MoreHandler(w)
      BY <2>2
    <3> HIDE DEF h
    <3> QED
      BY <3>1, <3>2 DEF WriteOps
  <2> QED
    BY <2>1, <2>2
<1> HIDE DEF w, h
<1>5. HandlerSize(h) = DataSize(Head(writes))
  BY <1>3, <1>4 DEF HandlerSize
<1>6. InFlight' = InFlight
  BY <1>1, <1>4, <1>5, MoveInFlight
<1> QED
  BY <1>1, <1>6, PendingKeeps

\* A failed write is pending until its send_cb.
LEMMA FailurePending ==
  ASSUME TypeOK, PendingInv, WriteFails
  PROVE  PendingInv'
<1> DEFINE h == SendHandler(Head(writes), TRUE)
<1>1. /\ writes # <<>> /\ writes' = Tail(writes) /\ ready' = Append(ready, h)
      /\ UNCHANGED <<socket_state, pending_bytes>>
  BY DEF WriteFails
<1>2. Head(writes) \in Write
  BY <1>1, OneWriteLess
<1>3. h \in Handler /\ FailedWrite(h, Head(writes))
  BY <1>2, HandlerTypes, OutcomeOfWrite
<1> HIDE DEF h
<1>4. HandlerSize(h) = DataSize(Head(writes))
  BY <1>3 DEF HandlerSize, FailedWrite, WriteOps
<1>5. InFlight' = InFlight
  BY <1>1, <1>3, <1>4, MoveInFlight
<1> QED
  BY <1>1, <1>5, PendingKeeps

\* The invariant of the pending bytes holds initially, and every step keeps it.
LEMMA PendingInvariant ==
  /\ Init => PendingInv
  /\ TypeOK /\ AttemptInv /\ HeaderInv /\ PendingInv /\ [Next]_vars => PendingInv'
<1>1. Init => PendingInv
  BY SenderAssumption DEF Init, PendingInv, Connected
<1>2. ASSUME TypeOK, AttemptInv, HeaderInv, PendingInv, [Next]_vars
      PROVE  PendingInv'
  <2> USE DEF Connected
  <2>1. CASE Start
    BY <1>2, <2>1, PendingKeeps DEF Start
  <2>2. ASSUME NEW size \in BlockSizes, Send(size)
        PROVE  PendingInv'
    BY <1>2, <2>2, SendPending
  <2>3. CASE Shutdown
    <3> DEFINE h == [op |-> "shutdown"]
    <3>1. /\ ready' = Append(ready, h) /\ UNCHANGED <<writes, pending_bytes>>
          /\ UNCHANGED socket_state \/ socket_state' = "SHUTDOWN"
      BY <2>3 DEF Shutdown
    <3>2. h \in Handler /\ h.op \notin WriteOps
      BY HandlerTypes DEF WriteOps
    <3> HIDE DEF h
    <3>3. InFlight' = InFlight
      BY <1>2, <3>1, <3>2, NothingMoves
    <3> QED
      BY <1>2, <3>1, <3>3, PendingKeeps
  <2>4. CASE start_connect
    <3>1. ready # <<>> /\ Head(ready).op = "start_connect" /\ UNCHANGED pending_bytes
      BY <2>4 DEF start_connect, Runs
    <3>2. 1 \in DOMAIN ready /\ ready[1].op = "start_connect"
      BY <1>2, <3>1, Behind
    <3>3. socket_state \notin Connected
      BY <1>2, <3>2 DEF AttemptInv, AttemptFits, NoAttempt, AttemptOps
    <3>4. \/ socket_state' = "SHUTDOWN"
          \/ socket_state # "SHUTDOWN" /\ socket_state' = "CONNECT_IN_PROGRESS"
      BY <2>4 DEF start_connect
    <3> QED
      BY <1>2, <3>1, <3>3, <3>4, PendingKeeps
  <2>5. CASE connect_deadline_cb
    <3>1. /\ ready # <<>> /\ Head(ready).op \notin WriteOps
          /\ UNCHANGED <<socket_state, pending_bytes>>
      BY <2>5 DEF connect_deadline_cb, Runs, WriteOps
    <3>2. CASE DeadlineApplies
      BY <1>2, <3>1, <3>2, PendingKeeps DEF DeadlineApplies
    <3>3. CASE ~DeadlineApplies
      <4>1. ready' = Tail(ready) /\ UNCHANGED writes
        BY <2>5, <3>3 DEF connect_deadline_cb
      <4>2. InFlight' = InFlight
        BY <1>2, <3>1, <4>1, NothingMoves
      <4> QED
        BY <1>2, <3>1, <4>2, PendingKeeps
    <3> QED
      BY <3>2, <3>3
  <2>6. CASE connect_outcome_cb
    BY <1>2, <2>6, OutcomePending
  <2>7. CASE send_cb
    BY <1>2, <2>7, SentPending
  <2>8. CASE write_more
    BY <1>2, <2>8, MorePending
  <2>9. CASE shutdown_cb
    BY <1>2, <2>9, ShutdownCbPending
  <2>10. CASE RetryFires \/ DeadlineFires
    <3>1. /\ ready' = Append(ready, StartConnectHandler) \/ ready' = Append(ready, DeadlineHandler)
          /\ UNCHANGED <<writes, pending_bytes, socket_state>>
      BY <2>10 DEF RetryFires, DeadlineFires, sendVars
    <3>2. InFlight' = InFlight
      BY <1>2, <3>1, HandlerFields, HandlerTypes, NothingMoves DEF WriteOps
    <3> QED
      BY <1>2, <3>1, <3>2, PendingKeeps
  <2>11. CASE ConnectSucceeds \/ ConnectFails
    <3>1. PICK ec : ready' = Append(ready, OutcomeHandler(ec)) /\ OutcomeHandler(ec) \in Handler
      <4> DEFINE up == OutcomeHandler(FALSE)
                 down == OutcomeHandler(TRUE)
      <4>1. ready' = Append(ready, up) \/ ready' = Append(ready, down)
        BY <2>11 DEF ConnectSucceeds, ConnectFails
      <4>2. up \in Handler /\ down \in Handler
        BY HandlerTypes
      <4> QED
        BY <4>1, <4>2, Zenon
    <3>2. UNCHANGED <<writes, pending_bytes, socket_state>>
      BY <2>11 DEF ConnectSucceeds, ConnectFails, sendVars
    <3>3. InFlight' = InFlight
      BY <1>2, <3>1, <3>2, HandlerFields, NothingMoves DEF WriteOps
    <3> QED
      BY <1>2, <3>2, <3>3, PendingKeeps
  <2>12. CASE Reset \/ UNCHANGED vars
    <3>1. UNCHANGED <<writes, ready, pending_bytes, socket_state>>
      BY <2>12 DEF Reset, sendVars, vars
    <3>2. InFlight' = InFlight
      BY <3>1 DEF InFlight
    <3> QED
      BY <1>2, <3>1, <3>2, PendingKeeps
  <2>13. ASSUME NEW n \in Nat, WriteSome(n)
         PROVE  PendingInv'
    BY <1>2, <2>13, WritePending
  <2>14. CASE WriteFails
    BY <1>2, <2>14, FailurePending
  <2>15. \A size \in BlockSizes : \A n \in 1 .. size : n \in Nat
    OBVIOUS
  <2> QED
    BY <1>2, <2>1, <2>2, <2>3, <2>4, <2>5, <2>6, <2>7, <2>8, <2>9, <2>10, <2>11,
       <2>12, <2>13, <2>14, <2>15 DEF Next, IoStep, WriteProgress
<1> QED
  BY <1>1, <1>2

\* While data is accepted, pending_bytes is exactly the size of the data whose
\* send_cb has not run, and within the limit: no completion is counted twice, none
\* is forgotten, and nothing of a lost connection counts against the next one.
THEOREM PendingAlwaysExact == Spec => []PendingExact
<1>1. PendingInv => PendingExact
  <2>1. SumOf(Outstanding) = WritesBytes(writes)
    BY DEF Outstanding, WritesBytes
  <2>2. SumOf(Completing) = HandlersBytes(ready)
    BY DEF Completing, HandlersBytes, HandlerSize, WriteOps
  <2> QED
    BY <2>1, <2>2 DEF PendingInv, PendingExact, InFlight, Connected
<1>2. Init => PendingInv
  BY PendingInvariant
<1>3. TypeOK /\ AttemptInv /\ HeaderInv /\ PendingInv /\ [Next]_vars => PendingInv'
  BY PendingInvariant
<1> QED
  BY <1>1, <1>2, <1>3, SenderInvariants, PTL DEF Spec

=============================================================================
