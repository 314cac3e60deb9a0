----------------------------- MODULE MetricsApi -----------------------------
(***************************************************************************)
(* What the producers do with the messages they receive, and what they     *)
(* serve: the HTTP API (producers/http: its receiving goroutine, routes    *)
(* and handlers) and the Prometheus endpoint (producers/prometheus), which *)
(* keeps a store of the same make.  Datapoints of a message are written    *)
(* one after the other, so a request may see half of a message; the        *)
(* janitor evicts by age alone (MetricsStore models when), so whatever was *)
(* not written anew in time may be gone, of running containers too.        *)
(***************************************************************************)
EXTENDS Naturals, Sequences, FiniteSets

CONSTANTS
    Containers,   \* container ids
    Feed,         \* messages: [kind, id, dims, datapoints], where kind is "node",
                  \* "container" or "app", id is what the message is stored under,
                  \* and a datapoint is [name, tags, value, time]
    Sanitized     \* name with characters that Prometheus does not allow -> what
                  \* sanitize makes of it

\* A float, or the string that the framework collector makes of NaN.
Values == {"float", "NaN"}

\* A timestamp in RFC 3339, or none.
Times == {"good", "bad"}

\* The container id of records that name none.
NoId == ""

\* A message is stored under the container id among its dimensions, and the agent
\* reports containers that have one.
ASSUME FeedAssumption ==
    /\ NoId \notin Containers
    /\ \A m \in Feed :
          /\ m = [kind |-> m.kind, id |-> m.id, dims |-> m.dims, datapoints |-> m.datapoints]
          /\ m.kind \in {"node", "container", "app"}
          /\ m.id \in Containers \cup {NoId}
          /\ m.kind = "container" => m.id \in Containers
          /\ "container" \in DOMAIN m.dims /\ m.dims.container = m.id
          /\ \A d \in m.datapoints : d.value \in Values /\ d.time \in Times

VARIABLES
    DCOSRole,     \* of the service: "master" or "agent"
    writing,      \* the message that is being written, its rest
    store         \* objects [key, dims, value, time], one per key

apiVars == <<DCOSRole, writing, store>>

Idle == [kind |-> "none", id |-> "", dims |-> <<>>, datapoints |-> {}]

ApiTypeOK ==
    /\ DCOSRole \in {"master", "agent"}
    /\ \E m \in Feed \cup {Idle} :
          writing.kind = m.kind /\ writing.datapoints \subseteq m.datapoints
    /\ \A o \in store : o.value \in Values /\ o.time \in Times
    /\ \A o, x \in store : o.key = x.key => o = x

ApiInit ==
    /\ DCOSRole \in {"master", "agent"}
    /\ writing = Idle
    /\ store = {}

(***************************************************************************)
(* The producer.                                                           *)
(***************************************************************************)

\* Run: a message comes in.  A master has no containers.
Receive(m) ==
    /\ writing = Idle
    /\ m.kind # "node" => DCOSRole = "agent"
    /\ writing' = m
    /\ UNCHANGED <<DCOSRole, store>>

\* The name of an object: prefix and id of the message, the datapoint's name and
\* its tags in order.
qualifiedName(m, d) == [kind |-> m.kind, id |-> m.id, name |-> d.name, tags |-> d.tags]

Written(d) ==
    [key |-> qualifiedName(writing, d), dims |-> writing.dims, value |-> d.value, time |-> d.time]

Rest(d) ==
    IF writing.datapoints = {d} THEN Idle ELSE [writing EXCEPT !.datapoints = @ \ {d}]

writeObjectToStore(d) ==
    /\ d \in writing.datapoints
    /\ store' = {o \in store : o.key # qualifiedName(writing, d)} \cup {Written(d)}
    /\ writing' = Rest(d)
    /\ UNCHANGED DCOSRole

\* The janitor's tick finds an object too old: it asks for nothing else.
janitor(o) ==
    /\ o \in store
    /\ store' = store \ {o}
    /\ UNCHANGED <<DCOSRole, writing>>

(***************************************************************************)
(* Handlers of the API.  Each reads the store once, under its lock.  A     *)
(* response carries the datapoints of all objects that match, and the      *)
(* dimensions of one of them: whichever the map yields last.               *)
(***************************************************************************)
NoContent == [status |-> 204, dims |-> <<>>, datapoints |-> {}]

NotFound == [status |-> 404, dims |-> <<>>, datapoints |-> {}]

combineMessages(objects) ==
    IF objects = {} THEN {NoContent}
    ELSE {[status |-> 200, dims |-> last.dims, datapoints |-> objects] : last \in objects}

nodeHandler == combineMessages({o \in store : o.key.kind = "node"})

\* Mutant: only containers with application metrics are listed.
AppContainers == {o.dims.container : o \in {o \in store : o.key.kind = "app"}}

containersHandler ==
    {o.dims.container : o \in {o \in store : o.key.kind \in {"container", "app"}}}

containerHandler(id) ==
    combineMessages({o \in store : o.key.kind = "container" /\ o.key.id = id})

containerAppHandler(id) ==
    combineMessages({o \in store : o.key.kind = "app" /\ o.key.id = id})

\* newRouter: a master serves no containers, and containers/ without an id is
\* redirected to the list of containers, which is no message.
Routed(id, response) ==
    IF DCOSRole = "agent" /\ id # NoId THEN response ELSE {NotFound}

(***************************************************************************)
(* Collect: the series that Prometheus gets.                               *)
(***************************************************************************)

\* coerceToFloat: strings are no floats.
coerceToFloat(value) == value = "float"

\* dimsToMap and the datapoint's tags, which win.
datapointLabels(o) ==
    [l \in DOMAIN o.key.tags \cup DOMAIN o.dims |->
        IF l \in DOMAIN o.key.tags THEN o.key.tags[l] ELSE o.dims[l]]

\* getLabelNames: of all objects of a name.
getLabelNames(name) ==
    UNION {DOMAIN datapointLabels(o) : o \in {o \in store : o.key.name = name}}

\* sanitize: illegal characters become '_', letters become lower case.
sanitize(name) == IF name \in DOMAIN Sanitized THEN Sanitized[name] ELSE name

\* Mutant: every datapoint with its own labels alone.
SeriesUnpadded(o) ==
    [name |-> sanitize(o.key.name),
     labels |-> {<<sanitize(l), datapointLabels(o)[l]>> : l \in DOMAIN datapointLabels(o)}]

Series(o) ==
    LET Padded(l) == IF l \in DOMAIN datapointLabels(o) THEN datapointLabels(o)[l] ELSE ""
    IN  [name |-> sanitize(o.key.name),
         labels |-> {<<sanitize(l), Padded(l)>> : l \in getLabelNames(o.key.name)}]

Collected == {o \in store : coerceToFloat(o.value)}

\* checkMetricConsistency of the registry: one of the two is left out of the scrape.
Conflict(o, x) ==
    LET LabelNames(series) == {label[1] : label \in series.labels}
    IN  /\ Series(o).name = Series(x).name
        /\ \/ Series(o).labels = Series(x).labels
           \/ LabelNames(Series(o)) # LabelNames(Series(x))

ApiNext ==
    \/ \E m \in Feed : Receive(m)
    \/ \E d \in writing.datapoints : writeObjectToStore(d)
    \/ \E o \in store : janitor(o)

(***************************************************************************)
(* Properties.                                                             *)
(***************************************************************************)

\* Prometheus leaves a metric out of the scrape if one with the same labels was
\* collected before, or one of its name with other label names.  Of the objects that
\* the store tells apart under one name and prefix, this hits none, whatever tags each
\* of them has and is padded with, unless two labels of the name become one when
\* sanitized, a tag has the name of a dimension, or the two are of one container and
\* differ in tags without a value only.
ScrapeComplete ==
    LET Tags(o) == DOMAIN o.key.tags
        Valued(o) == {<<t, o.key.tags[t]>> : t \in {t \in Tags(o) : o.key.tags[t] # ""}}
        Ambiguous(name) ==
            \E l, k \in getLabelNames(name) : l # k /\ sanitize(l) = sanitize(k)
    IN  \A o, x \in Collected :
            /\ o # x /\ o.key.kind = x.key.kind /\ o.key.name = x.key.name
            /\ Conflict(o, x)
            => \/ Ambiguous(o.key.name)
               \/ (Tags(o) \cup Tags(x)) \cap (DOMAIN o.dims \cup DOMAIN x.dims) # {}
               \/ o.key.id = x.key.id /\ Valued(o) = Valued(x)
=============================================================================
