------------------------------ MODULE Pipeline ------------------------------
(***************************************************************************)
(* The Go process (dcos-metrics.go): collector goroutines hand messages to *)
(* the main goroutine over unbuffered channels, and it hands each of them  *)
(* to every producer, one after the other, again over unbuffered channels. *)
(* A producer's goroutine stores a message before it receives the next.    *)
(***************************************************************************)
EXTENDS Naturals, Sequences, FiniteSets

CONSTANTS
    Collectors,     \* the node poller, the agent poller, and one goroutine for
                    \* each connection of the framework collector
    producerChans,  \* the producers, in the order they were configured
    MaxMessages     \* bound: collector -> number of its messages

Producers == {producerChans[i] : i \in DOMAIN producerChans}

\* Every producer makes a channel of its own.
ASSUME PipelineAssumption ==
    /\ producerChans \in Seq(Producers) /\ producerChans # <<>>
    /\ \A i, j \in DOMAIN producerChans : producerChans[i] = producerChans[j] => i = j
    /\ MaxMessages \in [Collectors -> Nat]

Messages == UNION {{c} \X (1 .. MaxMessages[c]) : c \in Collectors}

NoMessage == <<>>

VARIABLES
    offers,     \* collector -> number of the message it is sending, or has sent
    sending,    \* collectors that are blocked in a send
    metric,     \* the message that main broadcasts, or NoMessage
    next,       \* index of the producer that is next to get it
    storing,    \* producers that are storing a message
    log,        \* the messages main has taken
    received    \* producer -> messages it has received

vars == <<offers, sending, metric, next, storing, log, received>>

TypeOK ==
    /\ \A c \in Collectors : offers[c] \in 0 .. MaxMessages[c]
    /\ sending \subseteq Collectors
    /\ metric \in Messages \cup {NoMessage}
    /\ next \in 1 .. Len(producerChans)
    /\ storing \subseteq Producers
    /\ log \in Seq(Messages)
    /\ received \in [Producers -> Seq(Messages)]

Init ==
    /\ offers = [c \in Collectors |-> 0]
    /\ sending = {}
    /\ metric = NoMessage
    /\ next = 1
    /\ storing = {}
    /\ log = <<>>
    /\ received = [p \in Producers |-> <<>>]

\* A collector has a message; its goroutine blocks until main takes it.
Offer(c) ==
    /\ c \notin sending /\ offers[c] < MaxMessages[c]
    /\ offers' = [offers EXCEPT ![c] = @ + 1]
    /\ sending' = sending \cup {c}
    /\ UNCHANGED <<metric, next, storing, log, received>>

\* main's select: any of the collectors that are sending.
Take(c) ==
    /\ metric = NoMessage /\ c \in sending
    /\ metric' = <<c, offers[c]>>
    /\ next' = 1
    /\ sending' = sending \ {c}
    /\ log' = Append(log, <<c, offers[c]>>)
    /\ UNCHANGED <<offers, storing, received>>

\* Mutant: the loop ends before the last producer.
AdvanceShort ==
    IF next + 1 < Len(producerChans)
    THEN next' = next + 1 /\ UNCHANGED metric
    ELSE metric' = NoMessage /\ UNCHANGED next

Advance ==
    IF next < Len(producerChans)
    THEN next' = next + 1 /\ UNCHANGED metric
    ELSE metric' = NoMessage /\ UNCHANGED next

\* Mutant: a producer that is busy is passed over.
BroadcastToIdle ==
    /\ metric # NoMessage
    /\ LET p == producerChans[next]
       IN  IF p \in storing
           THEN UNCHANGED <<storing, received>>
           ELSE /\ storing' = storing \cup {p}
                /\ received' = [received EXCEPT ![p] = Append(@, metric)]
    /\ Advance
    /\ UNCHANGED <<offers, sending, log>>

\* broadcast(): blocks until the next producer receives.
broadcast ==
    /\ metric # NoMessage
    /\ LET p == producerChans[next]
       IN  /\ p \notin storing
           /\ storing' = storing \cup {p}
           /\ received' = [received EXCEPT ![p] = Append(@, metric)]
    /\ Advance
    /\ UNCHANGED <<offers, sending, log>>

\* A producer is done with its message.
Stored(p) ==
    /\ p \in storing
    /\ storing' = storing \ {p}
    /\ UNCHANGED <<offers, sending, metric, next, log, received>>

Next ==
    \/ \E c \in Collectors : Offer(c) \/ Take(c)
    \/ broadcast
    \/ \E p \in Producers : Stored(p)

Spec == Init /\ [][Next]_vars

\* Goroutines are scheduled, and storing a message ends.
FairSpec ==
    /\ Spec
    /\ WF_vars(\E c \in Collectors : Take(c))
    /\ WF_vars(broadcast)
    /\ \A p \in Producers : WF_vars(Stored(p))

(***************************************************************************)
(* Properties.                                                             *)
(***************************************************************************)
Log == INSTANCE OrderedBroadcast WITH
    Messages <- Messages, Producers <- Producers, log <- log, received <- received

\* "Broadcast (many-to-many) messages from the collector to the various
\* producers": every producer gets every message, all in the same order, and a
\* slow producer delays the others but loses nothing and blocks nobody for ever.
ImplementsBroadcast == Log!LogSpec

\* The backlog is bounded: whatever is slow, at most one message is on its way,
\* so collectors are held back rather than messages piled up.
OnlyOneUnderWay ==
    \A p \in Producers : Len(log) - Len(received[p]) <= 1
=============================================================================
