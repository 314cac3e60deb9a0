---------------------------- MODULE Plugin_proofs ---------------------------
(***************************************************************************)
(* Proofs about the plugins and the API they ask, for any containers, any  *)
(* roles and any messages that the producers may be fed.                   *)
(***************************************************************************)
EXTENDS Plugin, FiniteSetTheorems, TLAPS

\* What is left of a message, and an object that was written of one.
Part(m, points) ==
    [kind |-> m.kind, id |-> m.id, dims |-> m.dims, datapoints |-> points]

FromFeed(o) ==
    \E m \in Feed : \E d \in m.datapoints :
        o = [key |-> qualifiedName(m, d), dims |-> m.dims, value |-> d.value, time |-> d.time]

\* What the producer keeps was fed to it.
StoreInv ==
    /\ DCOSRole \in {"master", "agent"}
    /\ \/ writing = Idle
       \/ \E m \in Feed : \E points \in SUBSET m.datapoints : writing = Part(m, points)
    /\ \A o \in store : FromFeed(o)

\* The course of a round.  Only on an agent containers are asked for, and those
\* that were listed.
CourseInv ==
    /\ at \in {"start", "node", "list", "sleep"} => todo = {} /\ listed = {} /\ known = {}
    /\ at \in {"list", "container", "app"} => Role # "master"
    /\ at = "app" => cur \in listed
    /\ at = "connect" => todo = {}
    /\ todo \subseteq listed
    /\ PluginSurvives

\* What has been stored since the ids were listed is in the round as soon as it has
\* been asked for.
Covered(key) ==
    \E r \in got : r.kind = key.kind /\ r.of = key.id /\ \E o \in r.datapoints : o.key = key

CoverInv ==
    /\ known \subseteq ContainerKeys(store)
    /\ \A key \in known : key.id \in listed
    /\ at \in {"container", "app", "connect"} =>
          \A key \in known :
              \/ key.id \in todo
              \/ at = "app" /\ key.kind = "app" /\ key.id = cur
              \/ Covered(key)

\* What a round has are values with their times, and what was sent is the
\* connector's doing.
Typed(points) == \A o \in points : o.value \in Values /\ o.time \in Times

SentInv ==
    /\ \A r \in got : Typed(r.datapoints)
    /\ at # "sleep" => sent = Lost
    /\ NoCollateral

-----------------------------------------------------------------------------
(***************************************************************************)
(* The producer's store.                                                   *)
(***************************************************************************)
\* What is known of an object of a message.
LEMMA FeedObject ==
  ASSUME NEW o, FromFeed(o)
  PROVE  /\ o.value \in Values /\ o.time \in Times
         /\ o.key.kind \in {"node", "container", "app"}
         /\ o.key.kind = "container" => o.key.id \in Containers
         /\ "container" \in DOMAIN o.dims /\ o.dims.container = o.key.id
         /\ o.key.id \in Containers \cup {NoId}
<1>1. PICK m \in Feed : \E d \in m.datapoints :
          o = [key |-> qualifiedName(m, d), dims |-> m.dims, value |-> d.value, time |-> d.time]
  BY DEF FromFeed
<1>2. PICK d \in m.datapoints :
          o = [key |-> qualifiedName(m, d), dims |-> m.dims, value |-> d.value, time |-> d.time]
  BY <1>1
<1>3. o.value = d.value /\ o.time = d.time /\ o.dims = m.dims /\ o.key.kind = m.kind /\ o.key.id = m.id
  BY <1>2 DEF qualifiedName
<1> QED
  BY <1>3, FeedAssumption

\* The store holds what was fed, initially and after every step of the producer.
LEMMA StoreInvariant ==
  /\ Init => StoreInv
  /\ StoreInv /\ [Next]_vars => StoreInv'
<1>1. Init => StoreInv
  BY DEF Init, ApiInit, StoreInv
<1>2. ASSUME StoreInv, UNCHANGED apiVars
      PROVE  StoreInv'
  BY <1>2 DEF StoreInv, apiVars
<1>3. ASSUME StoreInv, NEW m \in Feed, Receive(m)
      PROVE  StoreInv'
  <2>1. writing' = m /\ UNCHANGED <<DCOSRole, store>>
    BY <1>3 DEF Receive
  <2>2. m = Part(m, m.datapoints)
    BY FeedAssumption DEF Part
  <2>3. m.datapoints \in SUBSET m.datapoints
    OBVIOUS
  <2> QED
    BY <1>3, <2>1, <2>2, <2>3 DEF StoreInv
<1>4. ASSUME StoreInv, NEW d \in writing.datapoints, writeObjectToStore(d)
      PROVE  StoreInv'
  <2>1. writing # Idle
    <3>1. Idle.datapoints = {}
      BY DEF Idle
    <3> QED
      BY <3>1, <1>4
  <2>2. PICK m \in Feed : \E points \in SUBSET m.datapoints : writing = Part(m, points)
    BY <1>4, <2>1 DEF StoreInv
  <2>3. PICK points \in SUBSET m.datapoints : writing = Part(m, points)
    BY <2>2
  <2>4. d \in m.datapoints /\ writing.dims = m.dims /\ qualifiedName(writing, d) = qualifiedName(m, d)
    BY <2>3 DEF Part, qualifiedName
  <2>5. FromFeed(Written(d))
    BY <2>4 DEF FromFeed, Written
  <2>6. store' \subseteq store \cup {Written(d)}
    BY <1>4 DEF writeObjectToStore
  <2>7. writing' = Idle \/ writing' = Part(m, points \ {d})
    BY <1>4, <2>3 DEF writeObjectToStore, Rest, Part
  <2>8. points \ {d} \in SUBSET m.datapoints
    OBVIOUS
  <2>9. \A o \in store' : FromFeed(o)
    BY <1>4, <2>5, <2>6 DEF StoreInv
  <2>10. DCOSRole' = DCOSRole
    BY <1>4 DEF writeObjectToStore
  <2> QED
    BY <1>4, <2>7, <2>8, <2>9, <2>10 DEF StoreInv
<1>5. ASSUME StoreInv, NEW o \in store, janitor(o)
      PROVE  StoreInv'
  BY <1>5 DEF StoreInv, janitor
<1>6. ASSUME [Next]_vars
      PROVE  ApiNext \/ UNCHANGED apiVars
  BY <1>6 DEF Next, vars, Serve, StartPlugin, getNodeMetrics, getContainerList, getContainer,
     getContainerApp, Refused, Connect, Wake, Fetch
<1> QED
  BY <1>1, <1>2, <1>3, <1>4, <1>5, <1>6 DEF ApiNext

-----------------------------------------------------------------------------
(***************************************************************************)
(* The course of a round.                                                  *)
(***************************************************************************)
\* Requests that are answered yield messages: 200 and 204 are no errors.
LEMMA Answers ==
  ASSUME NEW objects, NEW r \in combineMessages(objects)
  PROVE  makeMetricsRequest(r) /\ r.datapoints = objects
<1>1. CASE objects = {}
  BY <1>1 DEF combineMessages, NoContent, makeMetricsRequest
<1>2. CASE objects # {}
  BY <1>2 DEF combineMessages, makeMetricsRequest
<1> QED
  BY <1>1, <1>2

\* What a request about a container of a list yields on an agent.
LEMMA RoutedAnswers ==
  ASSUME StoreInv, Connected, Role # "master", NEW id, NEW objects,
         NEW r \in Routed(id, combineMessages(objects))
  PROVE  /\ id # NoId => makeMetricsRequest(r) /\ r.datapoints = objects
         /\ makeMetricsRequest(r) => r.datapoints = objects
<1>1. DCOSRole = "agent"
  BY DEF StoreInv, Connected
<1>2. CASE id # NoId
  BY <1>1, <1>2, Answers DEF Routed
<1>3. CASE id = NoId
  BY <1>3 DEF Routed, NotFound, makeMetricsRequest
<1> QED
  BY <1>2, <1>3

\* The course of the rounds, initially and after every step.
LEMMA CourseInvariant ==
  /\ Init => CourseInv
  /\ StoreInv /\ CourseInv /\ [Next]_vars => CourseInv'
<1> USE DEF PluginSurvives
<1>1. Init => CourseInv
  BY DEF Init, CourseInv
<1>2. ASSUME StoreInv, CourseInv, [Next]_vars
      PROVE  CourseInv'
  <2>1. CASE Serve
    BY <1>2, <2>1 DEF CourseInv, Serve
  <2>2. CASE StartPlugin
    BY <1>2, <2>2 DEF CourseInv, StartPlugin, startPromServer
  <2>3. CASE getNodeMetrics
    <3>1. PICK r \in nodeHandler : IF makeMetricsRequest(r)
                                   THEN at' = (IF Role = "master" THEN "connect" ELSE "list")
                                   ELSE at' = "ended"
      BY <2>3 DEF getNodeMetrics, Fetch
    <3>2. makeMetricsRequest(r)
      BY <3>1, Answers DEF nodeHandler
    <3>3. at = "node" /\ UNCHANGED <<Role, todo, cur, listed, known, refused>>
      BY <2>3 DEF getNodeMetrics, Fetch
    <3> QED
      BY <1>2, <3>1, <3>2, <3>3 DEF CourseInv
  <2>4. CASE getContainerList
    BY <1>2, <2>4 DEF CourseInv, getContainerList
  <2>5. ASSUME NEW id \in todo, getContainer(id)
        PROVE  CourseInv'
    <3> DEFINE objects == {o \in store : o.key.kind = "container" /\ o.key.id = id}
    <3>1. /\ at = "container" /\ Connected /\ todo' = todo \ {id} /\ cur' = id
          /\ UNCHANGED <<Role, listed, known, refused>>
      BY <2>5 DEF getContainer, Fetch
    <3>2. PICK r \in Routed(id, combineMessages(objects)) :
              IF makeMetricsRequest(r) THEN at' = "app" ELSE at' = "ended"
      BY <2>5 DEF getContainer, Fetch, containerHandler
    <3>3. Role # "master" /\ id \in listed
      BY <1>2, <2>5, <3>1 DEF CourseInv
    <3> HIDE DEF objects
    <3>4. id # NoId => makeMetricsRequest(r)
      BY <1>2, <3>1, <3>2, <3>3, RoutedAnswers
    <3> QED
      BY <1>2, <3>1, <3>2, <3>3, <3>4 DEF CourseInv
  <2>6. CASE getContainerApp
    <3> DEFINE objects == {o \in store : o.key.kind = "app" /\ o.key.id = cur}
    <3>1. /\ at = "app" /\ Connected
          /\ UNCHANGED <<Role, todo, listed, known, refused>>
      BY <2>6 DEF getContainerApp, Fetch
    <3>2. PICK r \in Routed(cur, combineMessages(objects)) :
              IF makeMetricsRequest(r)
              THEN at' = (IF todo = {} THEN "connect" ELSE "container") ELSE at' = "ended"
      BY <2>6 DEF getContainerApp, Fetch, containerAppHandler
    <3>3. Role # "master" /\ cur \in listed
      BY <1>2, <3>1 DEF CourseInv
    <3> HIDE DEF objects
    <3>4. cur # NoId => makeMetricsRequest(r)
      BY <1>2, <3>1, <3>2, <3>3, RoutedAnswers
    <3> QED
      BY <1>2, <3>1, <3>2, <3>3, <3>4 DEF CourseInv
  <2>7. CASE Refused
    BY <1>2, <2>7 DEF CourseInv, Refused
  <2>8. ASSUME NEW c \in Connectors, Connect(c)
        PROVE  CourseInv'
    <3>1. /\ at = "connect" /\ listed' = {} /\ known' = {}
          /\ UNCHANGED <<Role, todo, cur, got, refused>>
      BY <2>8 DEF Connect
    <3>2. \/ at' = "sleep"
          \/ at' = "ended" /\ client' = "nil" /\ \E r \in got : Floats(r.datapoints) # {}
      BY <2>8 DEF Connect, Panics, convertDatapointToStatsd
    <3>3. (\E r \in got : Floats(r.datapoints) # {}) => Floats(All(got)) # {}
      BY DEF Floats, All
    <3>4. Floats(All(got))' = Floats(All(got))
      BY <3>1 DEF Floats, All
    <3> QED
      BY <1>2, <3>1, <3>2, <3>3, <3>4 DEF CourseInv
  <2>9. CASE Wake
    BY <1>2, <2>9 DEF CourseInv, Wake
  <2>10. CASE UNCHANGED vars
    BY <1>2, <2>10 DEF CourseInv, vars, pluginVars
  <2> QED
    BY <1>2, <2>1, <2>2, <2>3, <2>4, <2>5, <2>6, <2>7, <2>8, <2>9, <2>10 DEF Next
<1> QED
  BY <1>1, <1>2

\* Both invariants together.
LEMMA PluginInvariants == Spec => [](StoreInv /\ CourseInv)
<1>1. Init => StoreInv /\ CourseInv
  BY StoreInvariant, CourseInvariant
<1>2. StoreInv /\ CourseInv /\ [Next]_vars => StoreInv' /\ CourseInv'
  BY StoreInvariant, CourseInvariant
<1> QED
  BY <1>1, <1>2, PTL DEF Spec

\* No answer that the API gives about a container that was listed ends the plugin,
\* whatever was written or evicted since; it ends only because nobody answers, its
\* role is none, an id is missing, or a number is to be sent by a statsd client
\* without a connection.
THEOREM PluginAlwaysSurvives == Spec => []PluginSurvives
<1>1. CourseInv => PluginSurvives
  BY DEF CourseInv
<1> QED
  BY <1>1, PluginInvariants, PTL

-----------------------------------------------------------------------------
(***************************************************************************)
(* What a round has.                                                       *)
(***************************************************************************)
\* What a round has grows while nothing else changes.
LEMMA RoundGrows ==
  ASSUME CoverInv, UNCHANGED <<apiVars, known, listed>>, got \subseteq got',
         at \in {"container", "app", "connect"},
         \A key \in known :
             \/ key.id \in todo
             \/ at = "app" /\ key.kind = "app" /\ key.id = cur
             => \/ key.id \in todo'
                \/ at' = "app" /\ key.kind = "app" /\ key.id = cur'
                \/ Covered(key)'
  PROVE  CoverInv'
<1>1. ContainerKeys(store)' = ContainerKeys(store)
  BY DEF ContainerKeys, apiVars
<1>2. \A key \in known : Covered(key) => Covered(key)'
  BY DEF Covered
<1> QED
  BY <1>1, <1>2 DEF CoverInv

\* An answer covers what is stored of the kind and the container it is about.
LEMMA AnswerCovers ==
  ASSUME NEW key \in ContainerKeys(store), NEW r,
         r.datapoints = {o \in store : o.key.kind = key.kind /\ o.key.id = key.id},
         Answered(key.kind, key.id, r) \in got'
  PROVE  Covered(key)'
<1>1. PICK o \in store : o.key = key
  BY DEF ContainerKeys
<1>2. o \in r.datapoints
  BY <1>1
<1>3. /\ Answered(key.kind, key.id, r).kind = key.kind
      /\ Answered(key.kind, key.id, r).of = key.id
      /\ Answered(key.kind, key.id, r).datapoints = r.datapoints
  BY DEF Answered
<1> QED
  BY <1>1, <1>2, <1>3 DEF Covered

\* The coverage, initially and after every step.
LEMMA CoverInvariant ==
  /\ Init => CoverInv
  /\ StoreInv /\ CourseInv /\ CoverInv /\ [Next]_vars => CoverInv'
<1>1. Init => CoverInv
  BY DEF Init, CoverInv
<1>2. ASSUME StoreInv, CourseInv, CoverInv, [Next]_vars
      PROVE  CoverInv'
  <2>1. CASE Serve
    <3>1. /\ UNCHANGED <<at, todo, cur, got, listed>>
          /\ known' \subseteq known /\ known' \subseteq ContainerKeys(store')
      BY <2>1 DEF Serve
    <3>2. \A key : Covered(key)' <=> Covered(key)
      BY <3>1 DEF Covered
    <3>3. ContainerKeys(store)' = ContainerKeys(store')
      BY DEF ContainerKeys
    <3> QED
      BY <1>2, <3>1, <3>2, <3>3 DEF CoverInv
  <2>2. ASSUME UNCHANGED <<store, known, listed>>, at' \notin {"container", "app", "connect"}
        PROVE  CoverInv'
    BY <1>2, <2>2 DEF CoverInv, ContainerKeys
  <2>3. ASSUME known' = {}
        PROVE  CoverInv'
    BY <2>3 DEF CoverInv
  <2>4. CASE StartPlugin
    BY <2>2, <2>4 DEF StartPlugin, startPromServer, apiVars
  <2>5. CASE getNodeMetrics
    BY <1>2, <2>3, <2>5 DEF getNodeMetrics, CourseInv
  <2>6. CASE getContainerList
    <3>1. /\ listed' = containersHandler /\ known' = ContainerKeys(store) /\ todo' = listed'
          /\ UNCHANGED apiVars
      BY <2>6 DEF getContainerList
    <3>2. ASSUME NEW key \in known'
          PROVE  key.id \in listed'
      <4>1. PICK o \in store : o.key = key /\ o.key.kind \in {"container", "app"}
        BY <3>1, <3>2 DEF ContainerKeys
      <4>2. FromFeed(o)
        BY <1>2 DEF StoreInv
      <4>3. o.dims.container = key.id
        BY <4>1, <4>2, FeedObject
      <4>4. o.dims.container \in containersHandler
        BY <4>1 DEF containersHandler
      <4> QED
        BY <3>1, <4>3, <4>4
    <3>3. known' = ContainerKeys(store)'
      BY <3>1 DEF ContainerKeys, apiVars
    <3> QED
      BY <3>1, <3>2, <3>3 DEF CoverInv
  <2>7. ASSUME NEW id \in todo, getContainer(id)
        PROVE  CoverInv'
    <3> DEFINE objects == {o \in store : o.key.kind = "container" /\ o.key.id = id}
    <3>1. /\ at = "container" /\ Connected /\ todo' = todo \ {id} /\ cur' = id
          /\ UNCHANGED <<apiVars, listed, known>>
      BY <2>7 DEF getContainer, Fetch
    <3>2. PICK r \in Routed(id, combineMessages(objects)) :
              IF makeMetricsRequest(r)
              THEN got' = got \cup {Answered("container", id, r)} /\ at' = "app"
              ELSE at' = "ended"
      BY <2>7 DEF getContainer, Fetch, containerHandler
    <3>3. CASE ~makeMetricsRequest(r)
      BY <2>2, <3>1, <3>2, <3>3 DEF apiVars
    <3>4. CASE makeMetricsRequest(r)
      <4>1. Role # "master"
        BY <1>2, <3>1 DEF CourseInv
      <4>2. r.datapoints = objects
        <5> HIDE DEF objects
        <5> QED
          BY <1>2, <3>1, <3>2, <3>4, <4>1, RoutedAnswers
      <4>3. Answered("container", id, r) \in got' /\ got \subseteq got' /\ at' = "app"
        BY <3>2, <3>4
      <4>4. ASSUME NEW key \in known, key.id = id, key.kind # "app"
            PROVE  Covered(key)'
        <5>1. key \in ContainerKeys(store) /\ key.kind = "container"
          BY <1>2, <4>4 DEF CoverInv, ContainerKeys
        <5> QED
          BY <4>2, <4>3, <4>4, <5>1, AnswerCovers
      <4>5. \A key \in known : key.id \in todo =>
                \/ key.id \in todo'
                \/ at' = "app" /\ key.kind = "app" /\ key.id = cur'
                \/ Covered(key)'
        BY <3>1, <4>3, <4>4
      <4> QED
        BY <1>2, <3>1, <4>3, <4>5, RoundGrows
    <3> QED
      BY <3>3, <3>4
  <2>8. CASE getContainerApp
    <3> DEFINE objects == {o \in store : o.key.kind = "app" /\ o.key.id = cur}
    <3>1. /\ at = "app" /\ Connected /\ todo' = todo
          /\ UNCHANGED <<apiVars, listed, known>>
      BY <2>8 DEF getContainerApp, Fetch
    <3>2. PICK r \in Routed(cur, combineMessages(objects)) :
              IF makeMetricsRequest(r)
              THEN got' = got \cup {Answered("app", cur, r)}
              ELSE at' = "ended"
      BY <2>8 DEF getContainerApp, Fetch, containerAppHandler
    <3>3. CASE ~makeMetricsRequest(r)
      BY <2>2, <3>1, <3>2, <3>3 DEF apiVars
    <3>4. CASE makeMetricsRequest(r)
      <4>1. Role # "master"
        BY <1>2, <3>1 DEF CourseInv
      <4>2. r.datapoints = objects
        <5> HIDE DEF objects
        <5> QED
          BY <1>2, <3>1, <3>2, <3>4, <4>1, RoutedAnswers
      <4>3. Answered("app", cur, r) \in got' /\ got \subseteq got'
        BY <3>2, <3>4
      <4>4. ASSUME NEW key \in known, key.id = cur, key.kind = "app"
            PROVE  Covered(key)'
        <5>1. key \in ContainerKeys(store)
          BY <1>2, <4>4 DEF CoverInv
        <5> QED
          BY <4>2, <4>3, <4>4, <5>1, AnswerCovers
      <4> QED
        BY <1>2, <3>1, <4>3, <4>4, RoundGrows
    <3> QED
      BY <3>3, <3>4
  <2>9. CASE Refused
    BY <2>3, <2>9 DEF Refused
  <2>10. ASSUME NEW c \in Connectors, Connect(c)
         PROVE  CoverInv'
    BY <2>3, <2>10 DEF Connect
  <2>11. CASE Wake
    BY <2>2, <2>11 DEF Wake, apiVars
  <2>12. CASE UNCHANGED vars
    BY <1>2, <2>12 DEF CoverInv, Covered, ContainerKeys, vars, apiVars, pluginVars
  <2> QED
    BY <1>2, <2>1, <2>4, <2>5, <2>6, <2>7, <2>8, <2>9, <2>10, <2>11, <2>12 DEF Next
<1> QED
  BY <1>1, <1>2

\* A round has what was stored of every listed container all along, whatever else is
\* written and evicted between the list and the requests.
THEOREM RoundAlwaysCovers == Spec => []RoundCovers
<1>1. Init => CoverInv
  BY CoverInvariant
<1>2. StoreInv /\ CourseInv /\ CoverInv /\ [Next]_vars => CoverInv'
  BY CoverInvariant
<1>3. CourseInv /\ CoverInv => RoundCovers
  BY DEF CourseInv, CoverInv, RoundCovers, Covered
<1> QED
  BY <1>1, <1>2, <1>3, PluginInvariants, PTL DEF Spec

-----------------------------------------------------------------------------
(***************************************************************************)
(* What a connector sends.                                                 *)
(***************************************************************************)
\* NoCollateral, of what s was made of the round.
Spares(c, s, round) ==
    s.posted => \A r \in round : \A o \in r.datapoints :
        \/ o \in s.points
        \/ o.value = "NaN" /\ c \in {"datadog", "statsd", "datadog-standalone"}
        \/ o.time = "bad" /\ c \in {"prometheus", "datadog-standalone", "librato"}
        \/ (o.key.name = "" \/ o \in s.old) /\ c = "librato"
        \/ r \in s.faulty
        \/ c = "datadog" /\ \E x \in r.datapoints : x.value = "NaN"
        \/ /\ c = "statsd"
           /\ \E x \in s.points \cap r.datapoints : x.key.name = o.key.name

\* Connectors that work message by message: a message that meets no error of the
\* network has an outcome of its own.
DatadogSends(round, points, faulty) ==
    \A r \in round : r \notin faulty /\ Floats(r.datapoints) = r.datapoints =>
        r.datapoints \subseteq points

StatsdSends(round, points, faulty) ==
    \A r \in round : r \notin faulty => \A o \in Floats(r.datapoints) :
        Cardinality({x \in points \cap r.datapoints : x.key.name = o.key.name}) = 1

\* The outcomes of the datadog connector.
LEMMA DatadogChoice ==
  ASSUME NEW round, NEW outcome \in datadogConnector(round)
  PROVE  \E points, faulty :
            outcome = Outcome(TRUE, points, faulty, {}) /\ DatadogSends(round, points, faulty)
<1>1. PICK faulty \in SUBSET {r \in round : r.datapoints # {}} :
        \E points \in SUBSET All(round) :
            /\ outcome = Outcome(TRUE, points, faulty, {})
            /\ \A r \in round : points \cap r.datapoints \in toStats(r, r \in faulty)
  BY DEF datadogConnector, MessageByMessage
<1>2. PICK points \in SUBSET All(round) :
            /\ outcome = Outcome(TRUE, points, faulty, {})
            /\ \A r \in round : points \cap r.datapoints \in toStats(r, r \in faulty)
  BY <1>1
<1>3. DatadogSends(round, points, faulty)
  BY <1>2 DEF toStats, DatadogSends
<1> QED
  BY <1>2, <1>3

\* The outcomes of the statsd connector.
LEMMA StatsdChoice ==
  ASSUME NEW round, NEW outcome \in statsdConnector(round)
  PROVE  \E points, faulty :
            outcome = Outcome(TRUE, points, faulty, {}) /\ StatsdSends(round, points, faulty)
<1>1. PICK faulty \in SUBSET {r \in round : r.datapoints # {}} :
        \E points \in SUBSET All(round) :
            /\ outcome = Outcome(TRUE, points, faulty, {})
            /\ \A r \in round : points \cap r.datapoints \in emitDatapointsOverStatsd(r, r \in faulty)
  BY DEF statsdConnector, MessageByMessage
<1>2. PICK points \in SUBSET All(round) :
            /\ outcome = Outcome(TRUE, points, faulty, {})
            /\ \A r \in round : points \cap r.datapoints \in emitDatapointsOverStatsd(r, r \in faulty)
  BY <1>1
<1>3. ASSUME NEW r \in round, r \notin faulty, NEW o \in Floats(r.datapoints)
      PROVE  Cardinality({x \in points \cap r.datapoints : x.key.name = o.key.name}) = 1
  BY <1>2, <1>3 DEF emitDatapointsOverStatsd, convertDatapointToStatsd
<1>4. StatsdSends(round, points, faulty)
  BY <1>3 DEF StatsdSends
<1> QED
  BY <1>2, <1>4

\* What is lost is what the connector has no form for, or what its own message loses.
LEMMA ConnectorSpares ==
  ASSUME NEW round, \A r \in round : Typed(r.datapoints), NEW c \in Connectors,
         NEW s \in Outputs(c, round)
  PROVE  Spares(c, s, round)
<1>1. CASE c = "datadog"
  <2>1. s \in datadogConnector(round)
    BY <1>1 DEF Outputs
  <2>2. PICK points, faulty :
            s = Outcome(TRUE, points, faulty, {}) /\ DatadogSends(round, points, faulty)
    BY <2>1, DatadogChoice
  <2>3. s.points = points /\ s.faulty = faulty
    BY <2>2 DEF Outcome
  <2>4. ASSUME NEW r \in round, Floats(r.datapoints) # r.datapoints
        PROVE  \E x \in r.datapoints : x.value = "NaN"
    BY <2>4 DEF Typed, Values, Floats
  <2> QED
    BY <1>1, <2>2, <2>3, <2>4 DEF Spares, DatadogSends
<1>2. CASE c = "statsd"
  <2>1. s \in statsdConnector(round)
    BY <1>2 DEF Outputs
  <2>2. PICK points, faulty :
            s = Outcome(TRUE, points, faulty, {}) /\ StatsdSends(round, points, faulty)
    BY <2>1, StatsdChoice
  <2>3. s.points = points /\ s.faulty = faulty
    BY <2>2 DEF Outcome
  <2>4. ASSUME NEW r \in round, r \notin faulty, NEW o \in r.datapoints, o.value # "NaN"
        PROVE  \E x \in points \cap r.datapoints : x.key.name = o.key.name
    <3> DEFINE same == {x \in points \cap r.datapoints : x.key.name = o.key.name}
    <3>1. o \in Floats(r.datapoints)
      BY <2>4 DEF Typed, Values, Floats
    <3>2. Cardinality(same) = 1 /\ Cardinality({}) = 0
      BY <2>2, <2>4, <3>1, FS_EmptySet DEF StatsdSends
    <3>3. same # {}
      <4> HIDE DEF same
      <4> QED
        BY <3>2
    <3> QED
      BY <3>3
  <2> QED
    BY <1>2, <2>3, <2>4 DEF Spares
<1>3. CASE c = "datadog-standalone"
  <2>1. s = Posted(messagesToSeries(round)) \/ s = Lost
    BY <1>3 DEF Outputs, postMetricsToDatadog
  <2>2. s.posted => s.points = messagesToSeries(round)
    BY <2>1 DEF Posted, Lost, Outcome
  <2>3. ASSUME NEW r \in round, NEW o \in r.datapoints, o.value # "NaN", o.time # "bad"
        PROVE  o \in messagesToSeries(round)
    BY <2>3 DEF Typed, Values, Times, messagesToSeries, datapointToDDMetric, All
  <2> QED
    BY <1>3, <2>2, <2>3 DEF Spares
<1>4. CASE c = "librato"
  <2>1. PICK old \in SUBSET All(round), prefixed \in BOOLEAN :
           s \in libratoSend(libratoAdd(round, old, prefixed), old)
    BY <1>4 DEF Outputs, libratoConnector
  <2> DEFINE points == libratoAdd(round, old, prefixed)
  <2>2. ASSUME NEW r \in round, NEW o \in r.datapoints,
               o \notin old, o.time # "bad", o.key.name # ""
        PROVE  o \in points
    BY <2>2 DEF Typed, Times, libratoAdd, All
  <2> HIDE DEF points
  <2>3. s = Lost \/ s = Outcome(TRUE, points, {}, old)
    BY <2>1 DEF libratoSend, points
  <2>4. s.posted => s.points = points /\ s.old = old
    BY <2>3 DEF Lost, Outcome
  <2> QED
    BY <1>4, <2>2, <2>4 DEF Spares
<1>5. CASE c = "prometheus"
  <2>1. s = Posted({o \in All(round) : o.time = "good"})
    BY <1>5 DEF Outputs, promConnector
  <2>2. s.points = {o \in All(round) : o.time = "good"}
    BY <2>1 DEF Posted, Outcome
  <2>3. ASSUME NEW r \in round, NEW o \in r.datapoints, o.time # "bad"
        PROVE  o \in s.points
    BY <2>2, <2>3 DEF Typed, Times, All
  <2> QED
    BY <1>5, <2>3 DEF Spares
<1>6. CASE c = "stdout"
  <2>1. s = Posted(All(round))
    BY <1>6 DEF Outputs, stdoutConnector
  <2>2. s.points = All(round)
    BY <2>1 DEF Posted, Outcome
  <2> QED
    BY <2>2 DEF Spares, All
<1> QED
  BY <1>1, <1>2, <1>3, <1>4, <1>5, <1>6 DEF Connectors

\* What a request adds to a round are values.
LEMMA FetchedValues ==
  ASSUME StoreInv, NEW kind, NEW id, NEW objects \in SUBSET store, NEW r,
         r \in combineMessages(objects) \/ r \in Routed(id, combineMessages(objects))
  PROVE  Typed(Answered(kind, id, r).datapoints)
<1>1. r.datapoints \subseteq store
  <2>1. CASE r \in combineMessages(objects)
    BY <2>1, Answers
  <2>2. CASE r = NotFound
    BY <2>2 DEF NotFound
  <2> QED
    BY <2>1, <2>2 DEF Routed
<1>2. \A o \in store : o.value \in Values /\ o.time \in Times
  BY FeedObject DEF StoreInv
<1> QED
  BY <1>1, <1>2 DEF Answered, Typed

\* A request keeps what is known of rounds.
LEMMA FetchKeeps ==
  ASSUME StoreInv, SentInv, NEW kind, NEW id, NEW objects \in SUBSET store,
         NEW responses, NEW next, at # "sleep", next # "sleep",
         responses = combineMessages(objects) \/ responses = Routed(id, combineMessages(objects)),
         Fetch(kind, id, responses, next), UNCHANGED <<connector, sent>>
  PROVE  SentInv'
<1>1. PICK r \in responses :
          IF makeMetricsRequest(r)
          THEN got' = got \cup {Answered(kind, id, r)} /\ at' = next
          ELSE got' = {} /\ at' = "ended"
  BY DEF Fetch
<1>2. Typed(Answered(kind, id, r).datapoints)
  BY <1>1, FetchedValues
<1>3. (\A x \in got' : Typed(x.datapoints)) /\ at' # "sleep"
  BY <1>1, <1>2 DEF SentInv
<1>4. sent' = Lost
  BY DEF SentInv
<1>5. NoCollateral'
  <2>1. ~sent'.posted
    BY <1>4 DEF Lost, Outcome
  <2> QED
    BY <2>1 DEF NoCollateral
<1> QED
  BY <1>3, <1>4, <1>5 DEF SentInv, Typed

\* What is sent, initially and after every step.
LEMMA SentInvariant ==
  /\ Init => SentInv
  /\ StoreInv /\ SentInv /\ [Next]_vars => SentInv'
<1>1. Init => SentInv
  BY DEF Init, SentInv, NoCollateral, Lost, Outcome
<1>2. ASSUME StoreInv, SentInv, [Next]_vars
      PROVE  SentInv'
  <2>1. ASSUME UNCHANGED <<got, connector, sent>>, at' = at \/ (at # "sleep" /\ at' # "sleep")
        PROVE  SentInv'
    BY <1>2, <2>1 DEF SentInv, NoCollateral, Typed
  <2>2. CASE Serve \/ UNCHANGED vars
    BY <2>1, <2>2 DEF pluginVars, vars, Serve
  <2>3. CASE StartPlugin
    BY <2>1, <2>3 DEF StartPlugin, startPromServer
  <2>4. CASE getNodeMetrics
    BY <1>2, <2>4, FetchKeeps DEF getNodeMetrics, nodeHandler
  <2>5. CASE getContainerList
    BY <2>1, <2>5 DEF getContainerList
  <2>6. ASSUME NEW id \in todo, getContainer(id)
        PROVE  SentInv'
    BY <1>2, <2>6, FetchKeeps DEF getContainer, containerHandler
  <2>7. CASE getContainerApp
    BY <1>2, <2>7, FetchKeeps DEF getContainerApp, containerAppHandler
  <2>8. CASE Refused
    BY <1>2, <2>8 DEF SentInv, Refused, NoCollateral, Lost, Outcome
  <2>9. ASSUME NEW c \in Connectors, Connect(c)
        PROVE  SentInv'
    <3>1. got' = got /\ connector' = c /\ at = "connect"
      BY <2>9 DEF Connect
    <3>2. CASE at' = "ended"
      <4>1. sent' = Lost
        BY <1>2, <2>9, <3>1, <3>2 DEF Connect, SentInv
      <4>2. NoCollateral'
        BY <4>1 DEF NoCollateral, Lost, Outcome
      <4> QED
        BY <1>2, <3>1, <4>1, <4>2 DEF SentInv, Typed
    <3>3. CASE at' # "ended"
      <4>1. sent' \in Outputs(c, got) /\ at' = "sleep"
        BY <2>9, <3>3 DEF Connect
      <4>2. Spares(c, sent', got)
        BY <1>2, <4>1, ConnectorSpares DEF SentInv
      <4>3. NoCollateral'
        BY <3>1, <4>2 DEF NoCollateral, Spares
      <4> QED
        BY <1>2, <3>1, <4>1, <4>3 DEF SentInv, Typed
    <3> QED
      BY <3>2, <3>3
  <2>10. CASE Wake
    BY <1>2, <2>10 DEF SentInv, Wake, NoCollateral, Lost, Outcome
  <2> QED
    BY <1>2, <2>2, <2>3, <2>4, <2>5, <2>6, <2>7, <2>8, <2>9, <2>10 DEF Next
<1> QED
  BY <1>1, <1>2

\* What a posted round lacks at most, with each of the connectors and for whatever
\* messages a round has: no message costs another one anything.
THEOREM NeverCollateral == Spec => []NoCollateral
<1>1. Init => SentInv
  BY SentInvariant
<1>2. StoreInv /\ SentInv /\ [Next]_vars => SentInv'
  BY SentInvariant
<1>3. SentInv => NoCollateral
  BY DEF SentInv
<1> QED
  BY <1>1, <1>2, <1>3, PluginInvariants, PTL DEF Spec

-----------------------------------------------------------------------------
(***************************************************************************)
(* The series that Prometheus gets.                                        *)
(***************************************************************************)
\* The label l of an object, "" if it has none.
Label(o, l) == IF l \in DOMAIN datapointLabels(o) THEN datapointLabels(o)[l] ELSE ""

\* The labels of an object, padded to L, and the names of labels.
Padded(o, L) == {<<sanitize(l), Label(o, l)>> : l \in L}

Names(labels) == {label[1] : label \in labels}

\* Whatever object is padded, its labels have the names in L, sanitized.
LEMMA LabelsNamed ==
  ASSUME NEW y, NEW L
  PROVE  Names(Padded(y, L)) = {sanitize(l) : l \in L}
<1>1. \A v, w : <<v, w>>[1] = v
  OBVIOUS
<1>2. ASSUME NEW label \in Padded(y, L)
      PROVE  label[1] \in {sanitize(l) : l \in L}
  <2>1. PICK l \in L : label = <<sanitize(l), Label(y, l)>>
    BY <1>2 DEF Padded
  <2> QED
    BY <1>1, <2>1
<1>3. ASSUME NEW l \in L
      PROVE  \E label \in Padded(y, L) : label[1] = sanitize(l)
  <2>1. <<sanitize(l), Label(y, l)>> \in Padded(y, L)
    BY DEF Padded
  <2>2. <<sanitize(l), Label(y, l)>>[1] = sanitize(l)
    BY <1>1
  <2> QED
    BY <2>1, <2>2
<1> QED
  BY <1>2, <1>3 DEF Names

\* Two objects of one name conflict only if all their labels are the same, since both
\* are padded to the same names, unless two names become one.
LEMMA SameLabels ==
  ASSUME NEW o, NEW x, o.key.name = x.key.name, Conflict(o, x),
         \A l, k \in getLabelNames(o.key.name) : sanitize(l) = sanitize(k) => l = k
  PROVE  \A l \in getLabelNames(o.key.name) : Label(o, l) = Label(x, l)
<1> DEFINE L == getLabelNames(o.key.name)
<1>1. Series(o).labels = Padded(o, L) /\ Series(x).labels = Padded(x, L)
  BY DEF Series, Label, Padded
<1>2. \/ Series(o).labels = Series(x).labels
      \/ Names(Series(o).labels) # Names(Series(x).labels)
  BY DEF Conflict, Names
<1> HIDE DEF L
<1>3. Padded(o, L) = Padded(x, L)
  BY <1>1, <1>2, LabelsNamed
<1>4. ASSUME NEW l \in L
      PROVE  Label(o, l) = Label(x, l)
  <2>1. <<sanitize(l), Label(o, l)>> \in Padded(x, L)
    BY <1>3 DEF Padded
  <2>2. PICK k \in L : <<sanitize(l), Label(o, l)>> = <<sanitize(k), Label(x, k)>>
    BY <2>1 DEF Padded
  <2>3. k = l
    BY <2>2 DEF L
  <2> QED
    BY <2>2, <2>3
<1> QED
  BY <1>4 DEF L

\* Objects whose labels are the same, and whose tags hide no dimension, are of one
\* container, and each has the tags of the other that have a value.
LEMMA SameTags ==
  ASSUME NEW o \in store, NEW x \in store, FromFeed(o), FromFeed(x),
         \A l \in getLabelNames(o.key.name) : Label(o, l) = Label(x, l),
         (DOMAIN o.key.tags \cup DOMAIN x.key.tags) \cap (DOMAIN o.dims \cup DOMAIN x.dims) = {}
  PROVE  /\ o.key.id = x.key.id
         /\ \A t \in DOMAIN o.key.tags : o.key.tags[t] # "" =>
                t \in DOMAIN x.key.tags /\ x.key.tags[t] = o.key.tags[t]
<1> DEFINE L == getLabelNames(o.key.name)
<1>1. /\ DOMAIN datapointLabels(o) = DOMAIN o.key.tags \cup DOMAIN o.dims
      /\ \A l \in DOMAIN datapointLabels(o) : datapointLabels(o)[l] =
             IF l \in DOMAIN o.key.tags THEN o.key.tags[l] ELSE o.dims[l]
  BY DEF datapointLabels
<1>2. /\ DOMAIN datapointLabels(x) = DOMAIN x.key.tags \cup DOMAIN x.dims
      /\ \A l \in DOMAIN datapointLabels(x) : datapointLabels(x)[l] =
             IF l \in DOMAIN x.key.tags THEN x.key.tags[l] ELSE x.dims[l]
  BY DEF datapointLabels
<1>3. DOMAIN datapointLabels(o) \subseteq L
  BY DEF getLabelNames
<1>4. \A l \in L : Label(o, l) = Label(x, l)
  OBVIOUS
<1>5. /\ "container" \in DOMAIN o.dims /\ o.dims["container"] = o.key.id
      /\ "container" \in DOMAIN x.dims /\ x.dims["container"] = x.key.id
  BY FeedObject
<1> HIDE DEF L
<1>6. o.key.id = x.key.id
  <2>1. "container" \notin DOMAIN o.key.tags /\ "container" \notin DOMAIN x.key.tags
    BY <1>5
  <2>2. Label(o, "container") = o.key.id /\ Label(x, "container") = x.key.id
    BY <1>1, <1>2, <1>5, <2>1 DEF Label
  <2> QED
    BY <1>1, <1>3, <1>4, <1>5, <2>2
<1>7. ASSUME NEW t \in DOMAIN o.key.tags, o.key.tags[t] # ""
      PROVE  t \in DOMAIN x.key.tags /\ x.key.tags[t] = o.key.tags[t]
  <2>1. t \in L /\ Label(o, t) = o.key.tags[t]
    BY <1>1, <1>3 DEF Label
  <2>2. Label(x, t) = o.key.tags[t] /\ Label(x, t) # ""
    BY <1>4, <1>7, <2>1
  <2>3. t \in DOMAIN datapointLabels(x) /\ datapointLabels(x)[t] = o.key.tags[t]
    BY <2>2 DEF Label
  <2>4. t \notin DOMAIN x.dims
    OBVIOUS
  <2> QED
    BY <1>2, <2>3, <2>4
<1> QED
  BY <1>6, <1>7

\* Objects of one name and prefix that the store tells apart are all in the scrape,
\* whatever is fed, with the exceptions that ScrapeComplete names.
THEOREM ScrapeAlwaysComplete == Spec => []ScrapeComplete
<1>1. StoreInv => ScrapeComplete
  <2> SUFFICES ASSUME StoreInv, NEW o \in store, NEW x \in store,
                      o.key.name = x.key.name, Conflict(o, x),
                      \A l, k \in getLabelNames(o.key.name) : sanitize(l) = sanitize(k) => l = k,
                      (DOMAIN o.key.tags \cup DOMAIN x.key.tags)
                          \cap (DOMAIN o.dims \cup DOMAIN x.dims) = {}
               PROVE  /\ o.key.id = x.key.id
                      /\ {<<t, o.key.tags[t]>> : t \in {t \in DOMAIN o.key.tags : o.key.tags[t] # ""}}
                           = {<<t, x.key.tags[t]>> : t \in {t \in DOMAIN x.key.tags : x.key.tags[t] # ""}}
    BY DEF ScrapeComplete, Collected
  <2>1. FromFeed(o) /\ FromFeed(x)
    BY DEF StoreInv
  <2>2. \A l \in getLabelNames(o.key.name) : Label(o, l) = Label(x, l)
    BY SameLabels
  <2>3. /\ o.key.id = x.key.id
        /\ \A t \in DOMAIN o.key.tags : o.key.tags[t] # "" =>
               t \in DOMAIN x.key.tags /\ x.key.tags[t] = o.key.tags[t]
    BY <2>1, <2>2, SameTags
  <2>4. \A t \in DOMAIN x.key.tags : x.key.tags[t] # "" =>
            t \in DOMAIN o.key.tags /\ o.key.tags[t] = x.key.tags[t]
    BY <2>1, <2>2, SameTags
  <2> QED
    BY <2>3, <2>4
<1> QED
  BY <1>1, PluginInvariants, PTL

=============================================================================
