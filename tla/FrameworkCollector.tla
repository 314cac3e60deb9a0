------------------------- MODULE FrameworkCollector -------------------------
(***************************************************************************)
(* The framework collector (collectors/framework): a TCP listener and one  *)
(* goroutine per connection, which reads Avro records of application       *)
(* metrics, throttles them by the bytes received in a period, looks up the *)
(* task of their container, and hands on a message for each.               *)
(*                                                                         *)
(* Behind avroReader another goroutine reads ahead.  It adds to inputBytes *)
(* through countingReader.Read while handleConnection reads and resets it; *)
(* nothing orders the two, so the addition is split into its load and its  *)
(* store.  A record is a block of its own, and one unit of bytes.  Nobody  *)
(* looks into a record before handleConnection does, so it is chosen then. *)
(***************************************************************************)
EXTENDS Integers, Sequences, FiniteSets, SequencesExt

CONSTANTS
    Conns,         \* connections
    Records,       \* what clients send, see WellFormed
    TaskLabels,    \* labels of every task
    cosmosLabels,  \* the ones that are stripped
    InputLimit,    \* InputLimitAmountKBytesFlag, in records
    ReadAhead,     \* records that goavro reads ahead
    MaxRecords     \* bound: records of a connection

VARIABLES
    rels,       \* ContainerTaskRels: the containers whose task is known
    listening,  \* whether ListenTCP succeeded
    conn        \* connection -> its state, see Closed

Nothing == [of |-> "nothing"]

\* A connection: where its goroutine is ("scan", "limit" or "send"), how many
\* records were read and how many of them it has not consumed, whether the other
\* goroutine is counting a read and the counter it loaded, the throttle, and the
\* message that is being sent.  The rest is history: arrived counts the reads
\* since the latest reset, credit what may still pass until the next one, raced
\* tells whether the reset came while a read was being counted, and from is the
\* record that is being sent on.
Fresh ==
    [at |-> "scan", reads |-> 0, ahead |-> 0, reading |-> FALSE, loaded |-> 0,
     inputBytes |-> 0, due |-> FALSE, ended |-> FALSE, out |-> Nothing,
     arrived |-> 0, credit |-> InputLimit, raced |-> FALSE, from |-> Nothing]

Closed == [Fresh EXCEPT !.at = "closed", !.ended = TRUE]

FrameworkTypeOK ==
    /\ listening \in BOOLEAN
    /\ \A k \in Conns :
          /\ conn[k].at \in {"new", "scan", "limit", "send", "closed"}
          /\ conn[k].ahead \in 0 .. ReadAhead
          /\ conn[k].inputBytes \in 0 .. MaxRecords

FrameworkInit ==
    /\ listening \in BOOLEAN
    /\ conn = [k \in Conns |-> [Fresh EXCEPT !.at = "new"]]

(***************************************************************************)
(* transform                                                               *)
(***************************************************************************)

\* A record [of, tags, points] of a container has a sequence of tags, each the
\* name of a tag or "malformed", and the values of its datapoints, or NoList if they
\* are no list.  A datum that is not a record has no tags.
NoList == <<"no list">>

\* convertLabels
convertLabels(labels) ==
    [l \in labels \ cosmosLabels |-> "task"]

KnownTask(m, c) ==
    [m EXCEPT !.of = c,
              !.task = c \in rels,
              !.labels = IF c \in rels THEN convertLabels(TaskLabels) ELSE @]

\* Labels[tagName] = tagValue
Labelled(labels, t) ==
    [l \in DOMAIN labels \cup {t} |-> IF l = t THEN "sender" ELSE labels[l]]

\* Mutant: the task's labels win over the sender's tags.
ExtractTagTaskWins(m, t, c) ==
    CASE t = "container_id" -> KnownTask(m, c)
      [] t \in {"framework_id", "executor_id"} \cup DOMAIN m.labels -> m
      [] OTHER -> [m EXCEPT !.labels = Labelled(@, t)]

\* The tag container_id brings the task and its labels; the other ids fill their
\* own dimensions, and any other tag becomes a label.
ExtractTag(m, t, c) ==
    CASE t = "container_id" -> KnownTask(m, c)
      [] t \in {"framework_id", "executor_id"} -> m
      [] OTHER -> [m EXCEPT !.labels = Labelled(@, t)]

NoDatapoints == [of |-> "", task |-> FALSE, labels |-> <<>>, datapoints |-> <<>>]

\* Tags before the first one that has not two fields.
GoodTags(r) ==
    LET bad == SelectInSeq(r.tags, LAMBDA t : t = "malformed")
    IN  IF bad = 0 THEN Len(r.tags) ELSE bad - 1

\* extract, for tags: one after the other, and stops at a bad one.
ExtractTags(r) ==
    LET pmm[i \in 0 .. GoodTags(r)] ==
            IF i = 0 THEN NoDatapoints ELSE ExtractTag(pmm[i - 1], r.tags[i], r.of)
    IN  pmm[GoodTags(r)]

\* extract refuses an empty list and a tag that is malformed.
TagsFail(r) == r.tags = <<>> \/ GoodTags(r) < Len(r.tags)

\* NaN is replaced by a string, as JSON has none; it has no infinity either.
Sanitized(v) == IF v = "NaN" THEN "string" ELSE v

\* createObjectFromRecord for datapoints: json.Marshal fails on an infinity.
MarshalFails(r) == \E i \in DOMAIN r.points : Sanitized(r.points[i]) = "Inf"

\* Mutant: a datapoint is added to the message at once.
AddToMessage(s, v) ==
    IF s.err \/ v = "malformed" THEN [s EXCEPT !.err = TRUE]
    ELSE [s EXCEPT !.datapoints = Append(@, v), !.pmm.datapoints = Append(@, v)]

\* One turn of extract's loop over the datapoints: it returns at one that has not
\* three fields, and adds the others to a list of its own.
AddDatapoint(s, v) ==
    IF s.err \/ v = "malformed" THEN [s EXCEPT !.err = TRUE]
    ELSE [s EXCEPT !.datapoints = Append(@, v)]

\* The loop's state after i datapoints.
Loop(m, points) ==
    LET s[i \in 0 .. Len(points)] ==
            IF i = 0 THEN [pmm |-> m, datapoints |-> <<>>, err |-> FALSE]
            ELSE AddDatapoint(s[i - 1], Sanitized(points[i]))
    IN  s

\* extract, for datapoints: behind the loop, the list becomes the message's.
ExtractDatapoints(m, r) ==
    LET s == Loop(m, r.points)[Len(r.points)]
    IN  IF r.points = <<>> \/ s.err THEN s.pmm
        ELSE [s.pmm EXCEPT !.datapoints = s.datapoints]

\* The message that is sent, also when transform returned an error, which it does
\* with the message as it is then.  Labels become tags of every datapoint.
transform(r) ==
    LET tagged == ExtractTags(r)
    IN  IF TagsFail(r) \/ r.points = NoList \/ MarshalFails(r) THEN tagged
        ELSE ExtractDatapoints(tagged, r)

(***************************************************************************)
(* RunFrameworkTCPListener: a listener that failed never accepts.          *)
(***************************************************************************)
Accept(k) ==
    /\ listening /\ conn[k].at = "new"
    /\ \/ conn' = [conn EXCEPT ![k] = Fresh]
       \/ conn' = [conn EXCEPT ![k] = Closed]    \* no Avro header
    /\ UNCHANGED <<rels, listening>>

(***************************************************************************)
(* The reading goroutine.                                                  *)
(***************************************************************************)
Open(k) == conn[k].at \in {"scan", "limit", "send"}

\* Data has come in, the counter is loaded.
ReadLoad(k) ==
    /\ Open(k) /\ ~conn[k].ended /\ conn[k].reads < MaxRecords
    /\ ~conn[k].reading /\ conn[k].ahead < ReadAhead
    /\ conn' = [conn EXCEPT ![k].reading = TRUE, ![k].loaded = conn[k].inputBytes,
                            ![k].reads = @ + 1, ![k].arrived = @ + 1]
    /\ UNCHANGED <<rels, listening>>

\* Mutant: the counter holds the latest read only.
CountLatest(c) == 1

Count(c) == c.loaded + 1

\* countingReader.Read stores the sum.
ReadStore(k) ==
    /\ conn[k].reading
    /\ conn' = [conn EXCEPT ![k].inputBytes = Count(conn[k]),
                            ![k].ahead = @ + 1,
                            ![k].reading = FALSE, ![k].loaded = 0]
    /\ UNCHANGED <<rels, listening>>

\* The client closes the connection, or a block is no Avro.
EndOfStream(k) ==
    /\ Open(k) /\ ~conn[k].ended /\ ~conn[k].reading
    /\ conn' = [conn EXCEPT ![k].ended = TRUE]
    /\ UNCHANGED <<rels, listening>>

(***************************************************************************)
(* handleConnection.                                                       *)
(***************************************************************************)

\* InputLimitPeriodFlag seconds have passed.
Elapse(k) ==
    /\ Open(k) /\ ~conn[k].due
    /\ conn' = [conn EXCEPT ![k].due = TRUE]
    /\ UNCHANGED <<rels, listening>>

Reset(c) ==
    [c EXCEPT !.inputBytes = 0, !.due = FALSE,
              !.arrived = 0, !.credit = InputLimit + c.ahead, !.raced = c.reading]

\* Mutant: the period begins anew, the counter goes on.
ThrottleNeverReset(c) ==
    IF c.due THEN [Reset(c) EXCEPT !.inputBytes = c.inputBytes] ELSE c

Throttle(c) == IF c.due THEN Reset(c) ELSE c

\* Read returns an error: goavro cannot decode the block.
Unreadable(k) ==
    /\ conn[k].at = "scan" /\ conn[k].ahead > 0
    /\ conn' = [conn EXCEPT ![k].ahead = @ - 1]
    /\ UNCHANGED <<rels, listening>>

\* Scan returns a record, the throttle is reset if its period is over.
Scan(k) ==
    /\ conn[k].at = "scan" /\ conn[k].ahead > 0
    /\ conn' = [conn EXCEPT ![k] = [Throttle(conn[k]) EXCEPT !.at = "limit"]]
    /\ UNCHANGED <<rels, listening>>

\* Over the limit: the record is skipped.
Drop(k) ==
    /\ conn[k].at = "limit" /\ conn[k].inputBytes > InputLimit
    /\ conn' = [conn EXCEPT ![k].at = "scan", ![k].ahead = @ - 1]
    /\ UNCHANGED <<rels, listening>>

Forward(k) ==
    /\ conn[k].at = "limit" /\ conn[k].inputBytes <= InputLimit
    /\ \E r \in Records :
           conn' = [conn EXCEPT ![k].at = "send", ![k].ahead = @ - 1, ![k].credit = @ - 1,
                                ![k].out = transform(r), ![k].from = r]
    /\ UNCHANGED <<rels, listening>>

\* The channel takes the message.
Sent(k) ==
    /\ conn[k].at = "send"
    /\ conn' = [conn EXCEPT ![k].at = "scan", ![k].out = Nothing, ![k].from = Nothing]
    /\ UNCHANGED <<rels, listening>>

\* Scan returns false.
Close(k) ==
    /\ conn[k].at = "scan" /\ conn[k].ended
    /\ conn[k].ahead = 0 /\ ~conn[k].reading
    /\ conn' = [conn EXCEPT ![k] = Closed]
    /\ UNCHANGED <<rels, listening>>

FrameworkNext ==
    \E k \in Conns :
        \/ Accept(k) \/ ReadLoad(k) \/ ReadStore(k) \/ EndOfStream(k) \/ Elapse(k)
        \/ Unreadable(k) \/ Scan(k) \/ Drop(k) \/ Forward(k) \/ Sent(k) \/ Close(k)

(***************************************************************************)
(* Properties.                                                             *)
(***************************************************************************)
Sending == {k \in Conns : conn[k].at = "send"}

\* What is required of a record: tags and datapoints, all of them well-formed, and
\* no infinity.
WellFormed(r) ==
    /\ r.tags # <<>> /\ ~Contains(r.tags, "malformed")
    /\ r.points \notin {NoList, <<>>}
    /\ \A i \in DOMAIN r.points : r.points[i] \notin {"Inf", "malformed"}

\* All or nothing: transform may give up a record at any of its tags or datapoints,
\* and its message, as far as it got, is sent on nevertheless.  Producers store
\* nothing of such a message, as it has no datapoints; and all of any other.
FailedCarriesNothing ==
    \A k \in Sending :
        LET r == conn[k].from
        IN  conn[k].out.datapoints =
                IF WellFormed(r) THEN [i \in DOMAIN r.points |-> Sanitized(r.points[i])]
                ELSE <<>>

\* The throttle bounds what a connection gets through in one period: the limit,
\* and what had been read ahead, and counted, before it began.
ThrottleBounds ==
    \A k \in Conns : conn[k].credit >= 0

\* A tag that the sender put behind container_id, where the Mesos module puts
\* its own, stays on all datapoints with the sender's value, also when the task
\* is known and has a label of that name.
SenderTagsKept ==
    \A k \in Sending :
        LET r == conn[k].from
            last == SelectLastInSeq(r.tags, LAMBDA t : t = "container_id")
        IN  WellFormed(r) /\ last # 0 =>
                \A i \in last + 1 .. Len(r.tags) :
                    r.tags[i] \notin {"framework_id", "executor_id"} =>
                        conn[k].out.labels[r.tags[i]] = "sender"

\* A record is dropped only if more than the limit has come in since the latest
\* reset, unless that reset raced with a read, which then brings back the count
\* of the period before.
DropsOnlyOverLimit ==
    [][\A k \in Conns :
        conn[k].at = "limit" /\ conn'[k].at = "scan" =>
            conn[k].raced \/ conn[k].arrived > InputLimit]_conn
=============================================================================
