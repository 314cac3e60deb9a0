------------------------------- MODULE Plugin -------------------------------
(***************************************************************************)
(* A metrics plugin (plugins/plugin.go and the plugins that use it): a     *)
(* process of its own that asks the HTTP API round after round for the     *)
(* metrics of the node, the list of containers, and the metrics of each    *)
(* of them, and hands what it got to its connector.  The store changes     *)
(* between its requests.                                                   *)
(***************************************************************************)
EXTENDS MetricsApi

CONSTANT Roles   \* what --dcos-role may be

VARIABLES
    Role,        \* --dcos-role of the plugin
    client,      \* the statsd plugin's: "new" before the first round, then "open", or
                 \* "nil" if Dial failed
    at,          \* what it does next
    todo,        \* ids of getContainerMetrics that are left
    cur,         \* the one whose app metrics are next
    got,         \* messages of this round: [of, kind, datapoints]
    connector,   \* the one that got the latest round
    sent,        \* what it made of it
    listed,      \* history: the ids of this round
    known,       \* history: keys of containers' objects that were stored when the ids
                 \* were listed, and ever since
    refused      \* history: the API, or the port of the plugin, was not there

pluginVars == <<Role, client, at, todo, cur, got, connector, sent, listed, known, refused>>

vars == <<apiVars, pluginVars>>

Connectors == {"stdout", "prometheus", "statsd", "datadog", "datadog-standalone", "librato"}

\* What a connector made of a round: whether it was posted, with which datapoints,
\* which messages met an error of the network, and what was too old for it.
Outcome(posted, points, faulty, old) ==
    [posted |-> posted, points |-> points, faulty |-> faulty, old |-> old]

Lost == Outcome(FALSE, {}, {}, {})

Posted(points) == Outcome(TRUE, points, {}, {})

PluginTypeOK ==
    /\ ApiTypeOK
    /\ Role \in Roles /\ client \in {"new", "open", "nil"}
    /\ at \in {"start", "node", "list", "container", "app", "connect", "sleep", "ended"}
    /\ todo \subseteq listed /\ listed \subseteq Containers \cup {NoId}
    /\ cur \in Containers \cup {NoId}
    /\ connector \in Connectors \cup {"none"} /\ sent.posted \in BOOLEAN
    /\ sent.faulty \subseteq got
    /\ sent.points \subseteq UNION {r.datapoints : r \in got}
    /\ refused \in BOOLEAN

Init ==
    /\ ApiInit
    /\ Role \in Roles /\ client = "new"
    /\ at = "start" /\ todo = {} /\ cur = NoId /\ got = {}
    /\ connector = "none" /\ sent = Lost
    /\ listed = {} /\ known = {} /\ refused = FALSE

(***************************************************************************)
(* Requests.                                                               *)
(***************************************************************************)
ValidRoles == {"master", "agent", "agent_public"}

\* BeforeFunc of the prometheus plugin: its port may be taken.
startPromServer == at' = "ended" /\ refused' = TRUE

\* App.Before: BeforeFunc, then the role is checked, and chooses the socket.
StartPlugin ==
    /\ at = "start"
    /\ \/ /\ at' = IF Role \in ValidRoles THEN "node" ELSE "ended"
          /\ UNCHANGED refused
       \/ startPromServer
    /\ UNCHANGED <<apiVars, Role, client, todo, cur, got, connector, sent, listed, known>>

\* createClient: a master's socket is served by the master's service only.
Connected == (Role = "master") = (DCOSRole = "master")

\* Mutant: a response without content is an error.
NoContentFails(response) == response.status = 200

\* makeMetricsRequest: whether the response yields a message, an empty one for 204.
makeMetricsRequest(response) == response.status \in {200, 204}

Answered(kind, id, response) ==
    [of |-> id, kind |-> kind, datapoints |-> response.datapoints]

\* One request for metrics: its message joins the round, or the plugin ends.
Fetch(kind, id, responses, next) ==
    /\ Connected
    /\ \E r \in responses :
          IF makeMetricsRequest(r)
          THEN got' = got \cup {Answered(kind, id, r)} /\ at' = next
          ELSE got' = {} /\ at' = "ended"
    /\ UNCHANGED <<apiVars, Role, client, refused>>

getNodeMetrics ==
    /\ at = "node"
    /\ Fetch("node", NoId, nodeHandler, IF Role = "master" THEN "connect" ELSE "list")
    /\ UNCHANGED <<todo, cur, connector, sent, listed, known>>

\* What there is to ask for with the id of a container.
ContainerKeys(objects) ==
    {o.key : o \in {o \in objects : o.key.kind \in {"container", "app"} /\ o.key.id # NoId}}

getContainerList ==
    /\ at = "list" /\ Connected
    /\ listed' = containersHandler
    /\ todo' = listed'
    /\ at' = IF listed' = {} THEN "connect" ELSE "container"
    /\ known' = ContainerKeys(store)
    /\ UNCHANGED <<apiVars, Role, client, cur, got, connector, sent, refused>>

\* getContainerMetrics: the two requests of an id.
getContainer(id) ==
    /\ at = "container" /\ id \in todo
    /\ Fetch("container", id, Routed(id, containerHandler(id)), "app")
    /\ todo' = todo \ {id} /\ cur' = id
    /\ UNCHANGED <<connector, sent, listed, known>>

getContainerApp ==
    /\ at = "app"
    /\ Fetch("app", cur, Routed(cur, containerAppHandler(cur)),
             IF todo = {} THEN "connect" ELSE "container")
    /\ cur' = NoId
    /\ UNCHANGED <<todo, connector, sent, listed, known>>

\* The API does not answer, which ends the plugin, at any request.
Refused ==
    /\ at \in {"node", "list", "container", "app"}
    /\ at' = "ended" /\ refused' = TRUE
    /\ got' = {} /\ todo' = {} /\ cur' = NoId /\ listed' = {} /\ known' = {}
    /\ UNCHANGED <<apiVars, Role, client, connector, sent>>

(***************************************************************************)
(* Connectors: what each may get out of a round.                           *)
(***************************************************************************)
Floats(points) == {o \in points : o.value = "float"}

All(round) == UNION {r.datapoints : r \in round}

\* Each message on its own: what one of them loses is no matter of the others.  Any
\* of them may meet an error of the network.
MessageByMessage(round, Outcomes(_, _)) ==
    LET Delivered(faulty) ==
            {points \in SUBSET All(round) :
                \A r \in round : points \cap r.datapoints \in Outcomes(r, r \in faulty)}
    IN  UNION {{Outcome(TRUE, points, faulty, {}) : points \in Delivered(faulty)} :
                faulty \in SUBSET {r \in round : r.datapoints # {}}}

\* datadog: up to the first datapoint that is no float, in an order the API does not
\* fix; an error of statsd.New or Gauge ends the message as well.
toStats(r, faulty) ==
    IF Floats(r.datapoints) = r.datapoints /\ ~faulty THEN {r.datapoints}
    ELSE SUBSET Floats(r.datapoints)

\* Mutant: an error ends the round.
DatadogBreaks(round) ==
    {Posted(All(done)) : done \in SUBSET {r \in round : {r.datapoints} = toStats(r, FALSE)}}

datadogConnector(round) == MessageByMessage(round, toStats)

\* statsd: what normalize() makes no integer of is dropped.
convertDatapointToStatsd(r) == Floats(r.datapoints)

\* One datapoint is left of each name; an error of Send loses it alone.
emitDatapointsOverStatsd(r, faulty) ==
    {points \in SUBSET convertDatapointToStatsd(r) :
        \A o \in convertDatapointToStatsd(r) :
            Cardinality({x \in points : x.key.name = o.key.name})
                \in IF faulty THEN {0, 1} ELSE {1}}

statsdConnector(round) == MessageByMessage(round, emitDatapointsOverStatsd)

\* datadog-standalone: a datapoint that is not a number or has no time is left out.
datapointToDDMetric(o) == o.time = "good" /\ o.value = "float"

messagesToSeries(round) == {o \in All(round) : datapointToDDMetric(o)}

\* All at once, which may fail.
postMetricsToDatadog(round) == {Posted(messagesToSeries(round)), Lost}

\* librato leaves out what has no time, is more than ten minutes old, or has no
\* name, with its prefix.  Tags there are: the node's id is one.  NaN is a valid
\* float64 here.
libratoAdd(round, old, prefixed) ==
    {o \in All(round) \ old : o.time = "good" /\ (prefixed \/ o.key.name # "")}

\* But JSON has none, so nothing is sent then.
libratoSend(points, old) ==
    {Lost} \cup IF Floats(points) = points THEN {Outcome(TRUE, points, {}, old)} ELSE {}

libratoConnector(round) ==
    UNION {libratoSend(libratoAdd(round, old, prefixed), old) :
            old \in SUBSET All(round), prefixed \in BOOLEAN}

\* The text that a scrape gets has any value, if it has a time.
promConnector(round) == {Posted({o \in All(round) : o.time = "good"})}

stdoutConnector(round) == {Posted(All(round))}

Outputs(c, round) ==
    CASE c = "datadog" -> datadogConnector(round)
      [] c = "statsd" -> statsdConnector(round)
      [] c = "datadog-standalone" -> postMetricsToDatadog(round)
      [] c = "librato" -> libratoConnector(round)
      [] c = "prometheus" -> promConnector(round)
      [] c = "stdout" -> stdoutConnector(round)

\* statsd.New, once: it keeps the nil that a failed Dial returns.
NewClient ==
    client' \in IF client = "new" THEN {"open", "nil"} ELSE {client}

\* Send writes to the client's connection without looking at it.
Panics == client' = "nil" /\ \E r \in got : convertDatapointToStatsd(r) # {}

\* ConnectorFunc of the plugin.  Only the statsd plugin keeps anything from round to
\* round, so which of the others it is may be left open until here.  None of them
\* returns an error.
Connect(c) ==
    /\ at = "connect"
    /\ IF c = "statsd" THEN NewClient ELSE client = "new" /\ UNCHANGED client
    /\ connector' = c
    /\ \/ Panics /\ at' = "ended" /\ UNCHANGED sent
       \/ ~Panics /\ at' = "sleep" /\ sent' \in Outputs(c, got)
    /\ listed' = {} /\ known' = {}
    /\ UNCHANGED <<apiVars, Role, todo, cur, got, refused>>

\* The next round starts after the polling interval.
Wake ==
    /\ at = "sleep"
    /\ at' = "node" /\ got' = {} /\ connector' = "none" /\ sent' = Lost
    /\ UNCHANGED <<apiVars, Role, client, todo, cur, listed, known, refused>>

\* The service's step; known follows it.
Serve ==
    /\ ApiNext
    /\ known' = known \cap ContainerKeys(store')
    /\ UNCHANGED <<Role, client, at, todo, cur, got, connector, sent, listed, refused>>

Next ==
    \/ Serve
    \/ StartPlugin \/ getNodeMetrics \/ getContainerList
    \/ \E id \in todo : getContainer(id)
    \/ getContainerApp \/ Refused
    \/ \E c \in Connectors : Connect(c)
    \/ Wake

Spec == Init /\ [][Next]_vars

(***************************************************************************)
(* Properties.                                                             *)
(***************************************************************************)

\* plugin.go: "204 No Content is not an error code".  Containers come and go, and
\* objects are swept, between the list and the requests about them, and none of this
\* ends the plugin.  What does: a port or an API that is not there, a role that is none,
\* a container without an id, whose metrics have no path, and a statsd client whose
\* Dial failed, as soon as there is a number to send.
PluginSurvives ==
    at = "ended" => \/ refused \/ Role \notin ValidRoles \/ NoId \in listed
                    \/ client = "nil" /\ Floats(All(got)) # {}

\* What the store has of a container from the time the ids are listed until the
\* connector runs, written anew or not, is in the round, whatever else is written
\* and swept meanwhile, and in the message of its kind and container.
RoundCovers ==
    at = "connect" =>
        \A key \in known : \E r \in got :
            r.kind = key.kind /\ r.of = key.id /\ \E o \in r.datapoints : o.key = key

\* A round that is posted lacks what its connector has no form for, what a network
\* error costs the message it hits, with datadog the message of a NaN, with statsd all
\* but one of the datapoints of a name in a message.  All the rest arrives: one message
\* never costs another anything.
NoCollateral ==
    LET Formless(o) ==
            \/ o.value = "NaN" /\ connector \in {"datadog", "statsd", "datadog-standalone"}
            \/ o.time = "bad" /\ connector \in {"prometheus", "datadog-standalone", "librato"}
            \/ (o.key.name = "" \/ o \in sent.old) /\ connector = "librato"
        Beside(r, o) ==
            \/ r \in sent.faulty
            \/ connector = "datadog" /\ \E x \in r.datapoints : x.value = "NaN"
            \/ /\ connector = "statsd"
               /\ \E x \in sent.points \cap r.datapoints : x.key.name = o.key.name
    IN  sent.posted => \A r \in got : \A o \in r.datapoints :
            o \in sent.points \/ Formless(o) \/ Beside(r, o)
=============================================================================
