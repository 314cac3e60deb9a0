--------------------------- MODULE Service_proofs ---------------------------
(***************************************************************************)
(* Proofs about the Go process.  First its broadcast loop (Pipeline), its  *)
(* start (StartUp) and its node collector (NodeCollector), composed in     *)
(* Service, for any number of collectors, of producers and of messages,    *)
(* any command lines and any configuration files; then the two collectors  *)
(* that run beside each other (Collectors), for any number of containers,  *)
(* connections, polls and records, and whatever applications send.         *)
(***************************************************************************)
EXTENDS Service, Collectors, Iteration, FiniteSetTheorems

(***************************************************************************)
(* The broadcast loop.  What a producer lacks is known from the loop's     *)
(* index: a producer the loop has passed has the whole log, the others     *)
(* lack the message that is broadcast and nothing else.  And a message is  *)
(* in the log only after its collector has sent it.                        *)
(***************************************************************************)
Lacking(i) == metric # NoMessage /\ next <= i

Delivered ==
    \A i \in DOMAIN producerChans :
        LET got == received[producerChans[i]]
        IN  /\ got \in Seq(Collectors \X Nat)
            /\ log = IF Lacking(i) THEN Append(got, metric) ELSE got

SentOnce ==
    \A i \in DOMAIN log :
        LET c == log[i][1]
        IN  log[i][2] <= offers[c] /\ (c \in sending => log[i][2] # offers[c])

PipelineInv ==
    /\ offers \in [Collectors -> Nat]
    /\ \A c \in Collectors : offers[c] <= MaxMessages[c]
    /\ sending \subseteq Collectors /\ \A c \in sending : offers[c] # 0
    /\ metric = NoMessage \/ metric \in Collectors \X Nat
    /\ next \in 1 .. Len(producerChans)
    /\ log \in Seq(Collectors \X Nat)
    /\ received \in [Producers -> Seq(Collectors \X Nat)]
    /\ Delivered
    /\ SentOnce

\* The producers' channels, as the loop of broadcast() meets them.
LEMMA Chans ==
  /\ Len(producerChans) \in Nat \ {0}
  /\ DOMAIN producerChans = 1 .. Len(producerChans)
  /\ \A i \in DOMAIN producerChans : producerChans[i] \in Producers
  /\ \A p \in Producers : \E i \in DOMAIN producerChans : p = producerChans[i]
  BY PipelineAssumption DEF Producers

\* A collector's goroutine begins to send its next message.
LEMMA OfferPipeline ==
  ASSUME PipelineInv, NEW c \in Collectors, Offer(c)
  PROVE  PipelineInv' /\ UNCHANGED Log!logVars
<1>1. /\ offers[c] \in Nat /\ offers[c] < MaxMessages[c] /\ MaxMessages[c] \in Nat
      /\ offers' = [offers EXCEPT ![c] = offers[c] + 1]
      /\ sending' = sending \cup {c} /\ c \notin sending
      /\ UNCHANGED <<metric, next, storing, log, received>>
  BY PipelineAssumption DEF Offer, PipelineInv
<1>2. offers' \in [Collectors -> Nat] /\ \A d \in Collectors : offers'[d] <= MaxMessages[d]
  BY <1>1 DEF PipelineInv
<1>3. \A d \in sending' : offers'[d] # 0
  BY <1>1 DEF PipelineInv
<1>4. SentOnce'
  <2> SUFFICES ASSUME NEW i \in DOMAIN log
               PROVE  log[i][2] <= offers'[log[i][1]] /\
                      (log[i][1] \in sending' => log[i][2] # offers'[log[i][1]])
    BY <1>1 DEF SentOnce
  <2>1. log[i][1] \in Collectors /\ log[i][2] \in Nat
    BY DEF PipelineInv
  <2>2. log[i][2] <= offers[log[i][1]] /\ (log[i][1] \in sending => log[i][2] # offers[log[i][1]])
    BY DEF PipelineInv, SentOnce
  <2>3. CASE log[i][1] = c
    BY <1>1, <2>1, <2>2, <2>3 DEF PipelineInv
  <2>4. CASE log[i][1] # c
    BY <1>1, <2>1, <2>2, <2>4 DEF PipelineInv
  <2> QED
    BY <2>3, <2>4
<1>5. Delivered'
  BY <1>1 DEF PipelineInv, Delivered, Lacking
<1> QED
  BY <1>1, <1>2, <1>3, <1>4, <1>5 DEF PipelineInv, Log!logVars

\* main takes a message that it has not taken before.
LEMMA TakePipeline ==
  ASSUME PipelineInv, NEW c \in Collectors, Take(c)
  PROVE  PipelineInv' /\ Log!LogNext
<1> DEFINE m == <<c, offers[c]>>
<1>1. /\ metric = NoMessage /\ c \in sending /\ metric' = m /\ next' = 1
      /\ sending' = sending \ {c} /\ log' = Append(log, m)
      /\ UNCHANGED <<offers, storing, received>>
      /\ offers[c] \in Nat /\ offers[c] # 0 /\ offers[c] <= MaxMessages[c]
      /\ log \in Seq(Collectors \X Nat)
  BY DEF Take, PipelineInv
<1>2. m \in Collectors \X Nat /\ m # NoMessage /\ m[1] = c /\ m[2] = offers[c]
  BY <1>1 DEF NoMessage
<1>3. /\ Len(log') = Len(log) + 1 /\ log'[Len(log) + 1] = m /\ log' \in Seq(Collectors \X Nat)
      /\ DOMAIN log = 1 .. Len(log) /\ DOMAIN log' = 1 .. Len(log) + 1 /\ Len(log) \in Nat
      /\ \A i \in DOMAIN log : log'[i] = log[i]
  BY <1>1, <1>2
<1>4. SentOnce'
  <2> SUFFICES ASSUME NEW i \in DOMAIN log'
               PROVE  log'[i][2] <= offers[log'[i][1]] /\
                      (log'[i][1] \in sending' => log'[i][2] # offers[log'[i][1]])
    BY <1>1 DEF SentOnce
  <2>1. CASE i = Len(log) + 1
    BY <1>1, <1>2, <1>3, <2>1
  <2>2. CASE i \in DOMAIN log
    BY <1>1, <1>3, <2>2 DEF PipelineInv, SentOnce
  <2> QED
    BY <1>3, <2>1, <2>2
<1>5. Delivered'
  <2> SUFFICES ASSUME NEW i \in DOMAIN producerChans
               PROVE  /\ received[producerChans[i]] \in Seq(Collectors \X Nat)
                      /\ log' = Append(received[producerChans[i]], m)
                      /\ Lacking(i)'
    BY <1>1 DEF Delivered
  <2>1. log = received[producerChans[i]]
    BY <1>1 DEF PipelineInv, Delivered, Lacking
  <2>2. Lacking(i)'
    BY <1>1, <1>2, Chans DEF Lacking
  <2> QED
    BY <1>1, <2>1, <2>2
<1>6. m \in Messages
  <2>1. offers[c] \in 1 .. MaxMessages[c]
    BY <1>1, PipelineAssumption
  <2> QED
    BY <2>1 DEF Messages
<1>7. \A i \in DOMAIN log : log[i] # m
  BY <1>1, <1>2 DEF PipelineInv, SentOnce
<1>8. Log!Extend(m)
  BY <1>1, <1>7 DEF Log!Extend
<1>9. 1 \in 1 .. Len(producerChans)
  BY Chans
<1>10. PipelineInv'
  BY <1>1, <1>2, <1>3, <1>4, <1>5, <1>9 DEF PipelineInv
<1> QED
  BY <1>6, <1>8, <1>10 DEF Log!LogNext

\* A producer receives the message that it lacks.
LEMMA BroadcastPipeline ==
  ASSUME PipelineInv, broadcast
  PROVE  PipelineInv' /\ Log!LogNext
<1> DEFINE p == producerChans[next]
<1>1. /\ metric # NoMessage /\ Advance /\ UNCHANGED <<offers, sending, log>>
      /\ received' = [received EXCEPT ![p] = Append(received[p], metric)]
      /\ metric \in Collectors \X Nat /\ next \in DOMAIN producerChans /\ p \in Producers
      /\ received[p] \in Seq(Collectors \X Nat)
  BY Chans DEF broadcast, PipelineInv
<1>2. log = Append(received[p], metric)
  <2>1. Lacking(next)
    BY <1>1, Chans DEF Lacking
  <2> QED
    BY <1>1, <2>1 DEF PipelineInv, Delivered
<1>3. received'[p] = log /\ received' \in [Producers -> Seq(Collectors \X Nat)]
  BY <1>1, <1>2 DEF PipelineInv
<1>4. next' \in 1 .. Len(producerChans) /\ (metric' = NoMessage \/ metric' = metric)
  BY <1>1, Chans DEF Advance
<1>5. Delivered'
  <2> SUFFICES ASSUME NEW i \in DOMAIN producerChans
               PROVE  LET got == received'[producerChans[i]]
                      IN  /\ got \in Seq(Collectors \X Nat)
                          /\ log = IF Lacking(i)' THEN Append(got, metric') ELSE got
    BY <1>1 DEF Delivered
  <2>1. producerChans[i] \in Producers
    BY Chans
  <2>2. CASE i = next
    <3>1. ~Lacking(i)'
      BY <1>1, <2>2, Chans DEF Advance, Lacking
    <3> QED
      BY <1>1, <1>3, <2>1, <2>2, <3>1 DEF PipelineInv
  <2>3. CASE i # next
    <3>1. producerChans[i] # p
      BY <1>1, <2>3, PipelineAssumption
    <3>2. received'[producerChans[i]] = received[producerChans[i]]
      BY <1>1, <2>1, <3>1 DEF PipelineInv
    <3>3. (Lacking(i)' <=> Lacking(i)) /\ (Lacking(i)' => metric' = metric)
      BY <1>1, <2>3, Chans DEF Advance, Lacking
    <3> QED
      BY <2>1, <3>2, <3>3 DEF PipelineInv, Delivered
  <2> QED
    BY <2>2, <2>3
<1>6. SentOnce'
  BY <1>1 DEF PipelineInv, SentOnce
<1>7. PipelineInv'
  BY <1>1, <1>3, <1>4, <1>5, <1>6 DEF PipelineInv
<1>8. Log!Deliver(p)
  <2>1. Len(received[p]) < Len(log) /\ log[Len(received[p]) + 1] = metric
    BY <1>1, <1>2
  <2> QED
    BY <1>1, <2>1 DEF Log!Deliver
<1> QED
  BY <1>1, <1>7, <1>8 DEF Log!LogNext

\* A producer has stored its message.
LEMMA StoredPipeline ==
  ASSUME PipelineInv, NEW p \in Producers, Stored(p)
  PROVE  PipelineInv' /\ UNCHANGED Log!logVars
  BY DEF Stored, PipelineInv, Delivered, Lacking, SentOnce, Log!logVars

\* Every step of the service is a step of the ordered broadcast or leaves it
\* alone.
LEMMA PipelineStep ==
  ASSUME PipelineInv, [ServiceNext]_serviceVars
  PROVE  PipelineInv' /\ (Log!LogNext \/ UNCHANGED Log!logVars)
<1>1. CASE UNCHANGED vars
  BY <1>1 DEF vars, PipelineInv, Delivered, Lacking, SentOnce, Log!logVars
<1>2. CASE \E c \in Collectors : Offer(c)
  BY <1>2, OfferPipeline
<1>3. CASE Broadcasting
  BY <1>3, TakePipeline, BroadcastPipeline, StoredPipeline DEF Broadcasting
<1>4. CASE RunNodePoller
  <2>1. Offer("node")
    BY <1>4 DEF RunNodePoller
  <2> QED
    BY <1>2, <2>1, ServiceAssumption
<1> QED
  BY <1>1, <1>2, <1>3, <1>4 DEF ServiceNext, Boot, RunCollector, serviceVars

\* At the start nothing was sent.
LEMMA PipelineStart == ServiceInit => PipelineInv /\ Log!LogInit
<1> SUFFICES ASSUME ServiceInit PROVE PipelineInv /\ Log!LogInit
  OBVIOUS
<1>1. received = [p \in Producers |-> <<>>] /\ log = <<>> /\ metric = NoMessage /\ next = 1
  BY DEF ServiceInit, Init
<1>2. Delivered
  BY <1>1, Chans DEF Delivered, Lacking
<1>3. SentOnce
  BY <1>1 DEF SentOnce
<1>4. offers = [c \in Collectors |-> 0] /\ sending = {}
  BY DEF ServiceInit, Init
<1>5. \A c \in Collectors : offers[c] <= MaxMessages[c]
  BY <1>4, PipelineAssumption
<1> QED
  BY <1>1, <1>2, <1>3, <1>4, <1>5, Chans DEF PipelineInv, Log!LogInit

\* "Broadcast (many-to-many) messages from the collector to the various
\* producers": there is one order of all messages, and every producer receives
\* them in that order with none lost or repeated (the safety of
\* ImplementsBroadcast; that every message arrives is left to TLC).
THEOREM BroadcastInOrder == ServiceSpec => Log!LogInit /\ [][Log!LogNext]_Log!logVars
<1>1. PipelineInv /\ [ServiceNext]_serviceVars => PipelineInv' /\ [Log!LogNext]_Log!logVars
  BY PipelineStep
<1> QED
  BY <1>1, PipelineStart, PTL DEF ServiceSpec

\* Whatever is slow, at most one message is on its way to a producer.
THEOREM BacklogBounded == ServiceSpec => []OnlyOneUnderWay
<1>1. PipelineInv => OnlyOneUnderWay
  <2> SUFFICES ASSUME PipelineInv, NEW i \in DOMAIN producerChans
               PROVE  Len(log) - Len(received[producerChans[i]]) <= 1
    BY Chans DEF OnlyOneUnderWay
  <2>1. \/ log = received[producerChans[i]]
        \/ log = Append(received[producerChans[i]], metric)
    BY DEF PipelineInv, Delivered
  <2>2. received[producerChans[i]] \in Seq(Collectors \X Nat)
    BY DEF PipelineInv, Delivered
  <2>3. /\ Len(received[producerChans[i]]) \in Nat
        /\ \/ Len(log) = Len(received[producerChans[i]])
           \/ Len(log) = Len(received[producerChans[i]]) + 1
    BY <2>1, <2>2
  <2> QED
    BY <2>3
<1>2. PipelineInv /\ [ServiceNext]_serviceVars => PipelineInv'
  BY PipelineStep
<1> QED
  BY <1>1, <1>2, PipelineStart, PTL DEF ServiceSpec

(***************************************************************************)
(* The start.  What the phases establish stays true in the later ones, and *)
(* no message is sent before the last of them; the collectors that send    *)
(* are the ones the role starts.                                           *)
(***************************************************************************)
ConfigTyped ==
    /\ DOMAIN cfg = {"role", "expiry", "pollPeriod", "iam", "level"}
    /\ cfg.expiry \in Int /\ cfg.pollPeriod \in Int

StartInv ==
    /\ ConfigTyped
    /\ nodeInfo \subseteq {"ip", "mesosID", "clusterID"}
    /\ phase \in {"nodeInfo", "fallback", "client", "level", "running"} =>
           cfg.role \in Roles /\ cfg.expiry >= 2 * cfg.pollPeriod
    /\ phase \in {"client", "level", "running"} => nodeInfo = {"ip", "mesosID", "clusterID"}

SendersStarted ==
    /\ sending \subseteq Started
    /\ \A i \in DOMAIN log : log[i][1] \in Started

\* Settings leave a configuration with all keys, and periods in it.
LEMMA ReplacedTyped ==
  ASSUME ConfigTyped, NEW settings, cfg' = Replaced(settings),
         \A k \in {"expiry", "pollPeriod"} \cap DOMAIN settings : settings[k] \in Int
  PROVE  ConfigTyped'
  BY DEF ConfigTyped, Replaced

\* The steps of the start.
LEMMA StartStep ==
  ASSUME StartInv, StartNext
  PROVE  StartInv' /\ phase # "running"
<1>1. ASSUME NEW flags \in Flags, parseFlags(flags)
      PROVE  StartInv' /\ phase # "running"
  <2>1. phase' \in {"exited", "file", "checks"} /\ phase = "flags"
    BY <1>1 DEF parseFlags
  <2>2. {"expiry", "pollPeriod"} \cap DOMAIN flags.set = {}
    BY FilesAssumption
  <2>3. ConfigTyped'
    BY <1>1, <2>2, ReplacedTyped DEF parseFlags, StartInv
  <2> QED
    BY <1>1, <2>1, <2>3 DEF parseFlags, StartInv
<1>2. CASE loadConfig
  <2>1. phase' \in {"exited", "checks"} /\ phase = "file" /\ nodeInfo' = nodeInfo
    BY <1>2 DEF loadConfig
  <2>2. ASSUME NEW file \in Files, cfg' = Replaced(file)
        PROVE  ConfigTyped'
    BY <2>2, FilesAssumption, ReplacedTyped DEF StartInv
  <2>3. ConfigTyped'
    BY <1>2, <2>2 DEF loadConfig, StartInv, ConfigTyped
  <2> QED
    BY <2>1, <2>3 DEF StartInv
<1>3. CASE checkConfig
  <2>1. CASE cfg.role \in Roles
    <3>1. /\ cfg' = [cfg EXCEPT !.expiry = MinExpiry] /\ phase' = "nodeInfo"
          /\ phase = "checks" /\ nodeInfo' = nodeInfo
      BY <1>3, <2>1 DEF checkConfig
    <3>2. /\ cfg'.role = cfg.role /\ cfg'.expiry = MinExpiry /\ cfg'.pollPeriod = cfg.pollPeriod
          /\ DOMAIN cfg' = DOMAIN cfg
      BY <3>1 DEF StartInv, ConfigTyped
    <3>3. MinExpiry \in Int /\ MinExpiry >= 2 * cfg.pollPeriod
      BY DEF MinExpiry, StartInv, ConfigTyped
    <3> QED
      BY <2>1, <3>1, <3>2, <3>3 DEF StartInv, ConfigTyped
  <2>2. CASE cfg.role \notin Roles
    BY <1>3, <2>2 DEF checkConfig, StartInv, ConfigTyped
  <2> QED
    BY <2>1, <2>2
<1>4. ASSUME phase \in {"nodeInfo", "fallback"}, NEW ssl \in BOOLEAN, getNodeInfo(ssl)
      PROVE  StartInv' /\ phase # "running"
  BY <1>4 DEF getNodeInfo, AfterMesosError, StartInv, ConfigTyped
<1>5. CASE NewMetricsClient \/ main
  BY <1>5 DEF NewMetricsClient, main, StartInv, ConfigTyped
<1> QED
  BY <1>1, <1>2, <1>3, <1>4, <1>5 DEF StartNext

\* Nobody is started before the service runs, and then it stays as it is.
LEMMA ServiceStartStep ==
  ASSUME StartInv, SendersStarted, PipelineInv, [ServiceNext]_serviceVars
  PROVE  StartInv' /\ SendersStarted'
<1>1. CASE Boot
  <2>1. StartInv' /\ Started = {}
    BY <1>1, StartStep DEF Boot, Started
  <2> QED
    BY <1>1, <2>1 DEF Boot, vars, SendersStarted
<1>2. ASSUME UNCHANGED startVars, ~Boot
      PROVE  StartInv' /\ Started' = Started
  BY <1>2 DEF startVars, StartInv, ConfigTyped, Started
<1>3. ASSUME NEW c \in Started, Offer(c), UNCHANGED startVars, ~Boot
      PROVE  StartInv' /\ SendersStarted'
  BY <1>2, <1>3 DEF Offer, SendersStarted
<1>4. ASSUME NEW c \in Collectors, Take(c), UNCHANGED startVars, ~Boot
      PROVE  StartInv' /\ SendersStarted'
  <2>1. log \in Seq(Collectors \X Nat) /\ offers[c] \in Nat
    BY DEF PipelineInv
  <2>2. log' = Append(log, <<c, offers[c]>>) /\ c \in Started /\ sending' \subseteq sending
    BY <1>4 DEF Take, SendersStarted
  <2>3. \A i \in DOMAIN log' : log'[i][1] \in Started
    BY <2>1, <2>2 DEF SendersStarted
  <2> QED
    BY <1>2, <1>4, <2>2, <2>3 DEF SendersStarted
<1>5. ASSUME UNCHANGED <<sending, log>>, UNCHANGED startVars, ~Boot
      PROVE  StartInv' /\ SendersStarted'
  BY <1>2, <1>5 DEF SendersStarted
<1>6. CASE ~Boot
  <2>1. CASE UNCHANGED serviceVars
    BY <1>5, <1>6, <2>1 DEF serviceVars, vars
  <2>2. CASE RunNodePoller \/ \E c \in Collectors : RunCollector(c)
    BY <1>3, <1>6, <2>2 DEF RunNodePoller, RunCollector
  <2>3. CASE Broadcasting /\ UNCHANGED <<startVars, nodeVars>>
    BY <1>4, <1>5, <1>6, <2>3 DEF Broadcasting, broadcast, Stored
  <2> QED
    BY <1>6, <2>1, <2>2, <2>3 DEF ServiceNext
<1> QED
  BY <1>1, <1>6

\* Whatever flags, file and answers of Mesos led there: a service that hands out
\* messages has a role, an identity, an expiry of two polls at least, and as a
\* master no messages but the node's.
THEOREM StartedComplete == ServiceSpec => []RunsComplete
<1>1. ServiceInit => StartInv /\ SendersStarted
  <2> SUFFICES ASSUME ServiceInit PROVE StartInv /\ SendersStarted
    OBVIOUS
  <2>1. cfg = newConfig /\ phase = "flags" /\ nodeInfo = {} /\ sending = {} /\ log = <<>>
    BY DEF ServiceInit, Init, StartInit
  <2>2. cfg = [role |-> "", expiry |-> 2, pollPeriod |-> 1, iam |-> FALSE, level |-> "info"]
    BY <2>1 DEF newConfig
  <2>3. ConfigTyped
    <3>1. DOMAIN cfg = {"role", "expiry", "pollPeriod", "iam", "level"}
      BY <2>2
    <3>2. cfg.expiry = 2 /\ cfg.pollPeriod = 1
      BY <2>2
    <3> QED
      BY <3>1, <3>2 DEF ConfigTyped
  <2> QED
    BY <2>1, <2>3 DEF StartInv, SendersStarted
<1>2. PipelineInv /\ [ServiceNext]_serviceVars => PipelineInv'
  BY PipelineStep
<1>3. StartInv /\ SendersStarted /\ PipelineInv /\ [ServiceNext]_serviceVars
        => StartInv' /\ SendersStarted'
  BY ServiceStartStep
<1>4. StartInv /\ SendersStarted /\ PipelineInv => RunsComplete
  <2> SUFFICES ASSUME StartInv, SendersStarted, PipelineInv, log # <<>>
               PROVE  /\ phase = "running"
                      /\ cfg.role \in Roles
                      /\ cfg.expiry >= 2 * cfg.pollPeriod
                      /\ nodeInfo = {"ip", "mesosID", "clusterID"}
                      /\ cfg.role = "master" => \A i \in DOMAIN log : log[i][1] = "node"
    BY DEF RunsComplete
  <2>1. 1 \in DOMAIN log
    BY DEF PipelineInv
  <2>2. phase = "running"
    BY <2>1 DEF SendersStarted, Started
  <2> QED
    BY <2>2 DEF StartInv, SendersStarted, Started
<1> QED
  BY <1>1, <1>2, <1>3, <1>4, PipelineStart, PTL DEF ServiceSpec

(***************************************************************************)
(* The node collector.  The metrics are the groups of one poll, and except *)
(* on Windows all groups or none.                                          *)
(***************************************************************************)
Groups == Range(nodeMetricPollers)

NodeInv ==
    /\ polls \in Nat
    /\ \E at \in 0 .. polls :
          IF GOOS = "windows"
          THEN nodeMetrics \subseteq {[group |-> p, at |-> at] : p \in Groups}
          ELSE nodeMetrics = {} \/ nodeMetrics = {[group |-> p, at |-> at] : p \in Groups}

\* What getNodeMetrics gets to poll are groups, and all of them if nothing fails.
LEMMA PolledGroups ==
  ASSUME NEW broken
  PROVE  /\ Polled(broken) \subseteq Groups
         /\ broken = {} => Polled(broken) = Groups
<1>1. Groups = {nodeMetricPollers[i] : i \in DOMAIN nodeMetricPollers}
  BY DEF Groups, Range
<1>2. CASE GOOS = "windows"
  BY <1>2 DEF Polled, Groups
<1>3. CASE GOOS # "windows"
  <2> DEFINE reached == {i \in DOMAIN nodeMetricPollers :
                            \A j \in 1 .. i : nodeMetricPollers[j] \notin broken}
  <2>1. Polled(broken) = {nodeMetricPollers[i] : i \in reached}
    BY <1>3 DEF Polled
  <2>2. broken = {} => reached = DOMAIN nodeMetricPollers
    OBVIOUS
  <2> QED
    BY <1>1, <2>1, <2>2
<1> QED
  BY <1>2, <1>3

\* A poll that fails leaves the metrics of an earlier poll, any other replaces them.
LEMMA PollNode ==
  ASSUME NodeInv, NEW broken, NEW use, pollHost(broken, use)
  PROVE  NodeInv'
<1>1. PICK at \in 0 .. polls :
          IF GOOS = "windows"
          THEN nodeMetrics \subseteq {[group |-> p, at |-> at] : p \in Groups}
          ELSE nodeMetrics = {} \/ nodeMetrics = {[group |-> p, at |-> at] : p \in Groups}
  BY DEF NodeInv
<1>2. /\ polls \in Nat /\ polls' = polls + 1 /\ GOOS' = GOOS
      /\ nodeMetrics' = NodeMetricsAfter(broken, polls')
  BY DEF NodeInv, pollHost
<1>3. at \in 0 .. polls' /\ polls' \in 0 .. polls' /\ polls' \in Nat
  BY <1>2
<1>4. CASE Failed(broken)
  <2>1. nodeMetrics' = nodeMetrics
    BY <1>2, <1>4 DEF NodeMetricsAfter
  <2> QED
    BY <1>1, <1>2, <1>3, <2>1 DEF NodeInv, Groups
<1>5. CASE ~Failed(broken)
  <2>1. nodeMetrics' = {[group |-> p, at |-> polls'] : p \in Polled(broken)}
    BY <1>2, <1>5 DEF NodeMetricsAfter, getNodeMetrics
  <2>2. GOOS # "windows" => Polled(broken) = Groups
    BY <1>5, PolledGroups DEF Failed
  <2>3. Polled(broken) \subseteq Groups
    BY PolledGroups
  <2> QED
    BY <1>2, <1>3, <2>1, <2>2, <2>3 DEF NodeInv, Groups
<1> QED
  BY <1>4, <1>5

\* Polls that fail half-way, any number of them, never tear the node's metrics.
THEOREM NodeNeverTorn == ServiceSpec => []NodeWhole
<1>1. ServiceInit => NodeInv
  BY DEF ServiceInit, NodeInit, NodeInv
<1>2. NodeInv /\ [ServiceNext]_serviceVars => NodeInv'
  <2> SUFFICES ASSUME NodeInv, [ServiceNext]_serviceVars PROVE NodeInv'
    OBVIOUS
  <2>1. CASE UNCHANGED nodeVars
    BY <2>1 DEF nodeVars, NodeInv, Groups
  <2>2. CASE NodeNext
    BY <2>2, PollNode DEF NodeNext
  <2> QED
    BY <2>1, <2>2 DEF ServiceNext, serviceVars, Boot, RunNodePoller, RunCollector
<1>3. NodeInv => NodeWhole
  <2> SUFFICES ASSUME NodeInv PROVE NodeWhole
    OBVIOUS
  <2>1. PICK at \in 0 .. polls :
            IF GOOS = "windows"
            THEN nodeMetrics \subseteq {[group |-> p, at |-> at] : p \in Groups}
            ELSE nodeMetrics = {} \/ nodeMetrics = {[group |-> p, at |-> at] : p \in Groups}
    BY DEF NodeInv
  <2>2. \E t \in 0 .. polls, groups \in {{}, Range(nodeMetricPollers)} :
            IF GOOS = "windows" THEN \A g \in nodeMetrics : g.at = t
            ELSE nodeMetrics = {[group |-> p, at |-> t] : p \in groups}
    <3>1. CASE GOOS = "windows"
      BY <2>1, <3>1
    <3>2. CASE GOOS # "windows" /\ nodeMetrics = {}
      <4>1. nodeMetrics = {[group |-> p, at |-> at] : p \in {}}
        BY <3>2
      <4> QED
        BY <2>1, <3>2, <4>1
    <3>3. CASE GOOS # "windows" /\ nodeMetrics # {}
      BY <2>1, <3>3 DEF Groups
    <3> QED
      BY <3>1, <3>2, <3>3
  <2> QED
    BY <2>2 DEF NodeWhole
<1> QED
  BY <1>1, <1>2, <1>3, PTL DEF ServiceSpec

(***************************************************************************)
(* CPU shares.  The counters never fall behind the last sample, and each   *)
(* share is within a half of a hundredth, so that the eleven of them are   *)
(* within five hundredths of one hundred percent, and any four within two  *)
(* of what they are of it.                                                 *)
(***************************************************************************)
SharesInv ==
    /\ cpu \in [CpuStates -> Nat] /\ lastCPU \in [CpuStates -> Nat]
    /\ \A s \in CpuStates : lastCPU[s] <= cpu[s]
    /\ SharesAddUp

\* Division of natural numbers.
LEMMA Division ==
  ASSUME NEW a \in Nat, NEW b \in Nat \ {0}
  PROVE  a \div b \in Nat /\ b * (a \div b) <= a /\ a < b * (a \div b) + b
  OBVIOUS

\* A factor may be taken off both sides.
LEMMA FactorOff ==
  ASSUME NEW d \in Nat \ {0}, NEW x \in Int, NEW y \in Int, d * x <= d * y
  PROVE  x <= y
  OBVIOUS

\* What formatPct returns for a share f of d, both passed with the wrong sign.
LEMMA FormatPct ==
  ASSUME NEW f \in Nat, NEW d \in Nat \ {0}
  PROVE  LET q == formatPct(-f, -d)
         IN  q \in Nat /\ 2 * (d * q) <= 20000 * f + d /\ 20000 * f + d < 2 * (d * q) + 2 * d
<1> DEFINE q == (20000 * f + d) \div (2 * d)
<1>1. q \in Nat /\ (2 * d) * q <= 20000 * f + d /\ 20000 * f + d < (2 * d) * q + (2 * d)
  <2> DEFINE a == 20000 * f + d
             b == 2 * d
  <2>1. a \in Nat /\ b \in Nat \ {0}
    OBVIOUS
  <2> HIDE DEF a, b
  <2>2. a \div b \in Nat /\ b * (a \div b) <= a /\ a < b * (a \div b) + b
    BY <2>1, Division
  <2> QED
    BY <2>2 DEF a, b
<1>2. Quotient(20000 * (-f) + (-d), 2 * (-d)) = q
  BY DEF Quotient
<1>3. Max({q, 0}) = q
  BY <1>1 DEF Max
<1>4. formatPct(-f, -d) = q
  BY <1>2, <1>3 DEF formatPct
<1> QED
  BY <1>1, <1>4

\* Shares of nothing are zero.
LEMMA FormatPctOfNothing == formatPct(0, 0) = 0
<1>1. Quotient(1, 2) = 0
  BY DEF Quotient
<1> QED
  BY <1>1 DEF formatPct, Max

\* Every counter is a number.
Numbers(t) ==
    /\ t["user"] \in Nat /\ t["system"] \in Nat /\ t["nice"] \in Nat /\ t["iowait"] \in Nat
    /\ t["irq"] \in Nat /\ t["softirq"] \in Nat /\ t["steal"] \in Nat /\ t["guest"] \in Nat
    /\ t["guestNice"] \in Nat /\ t["idle"] \in Nat /\ t["stolen"] \in Nat

\* The counters that are reported.
Four(t) == t["user"] + t["system"] + t["idle"] + t["iowait"]

\* Their sum, and the sum of all, are numbers.
LEMMA Totals ==
  ASSUME NEW t, Numbers(t)
  PROVE  Total(t) \in Nat /\ Four(t) \in Nat /\ Four(t) <= Total(t)
  BY DEF Total, Four, Numbers

\* Where nothing was gained, no counter gained.
LEMMA Zeros ==
  ASSUME NEW t, Numbers(t), Total(t) = 0
  PROVE  \A s \in CpuStates : t[s] = 0
<1>1. t["user"] <= Total(t) /\ t["system"] <= Total(t) /\ t["nice"] <= Total(t)
    /\ t["iowait"] <= Total(t)
  BY DEF Total, Numbers
<1>2. t["irq"] <= Total(t) /\ t["softirq"] <= Total(t) /\ t["steal"] <= Total(t) /\ t["guest"] <= Total(t)
  BY DEF Total, Numbers
<1>3. t["guestNice"] <= Total(t) /\ t["idle"] <= Total(t) /\ t["stolen"] <= Total(t)
  BY DEF Total, Numbers
<1> QED
  BY <1>1, <1>2, <1>3 DEF CpuStates, Numbers

\* A factor may be taken out.
LEMMA Distributed ==
  ASSUME NEW d \in Nat, NEW x \in Nat, NEW y \in Nat, NEW z \in Nat, NEW w \in Nat
  PROVE  d * x + d * y + d * z + d * w = d * (x + y + z + w)
  OBVIOUS

\* u has the counters of t, multiplied.
Times(d, t, u) ==
    /\ u["user"] = d * t["user"] /\ u["system"] = d * t["system"]
    /\ u["nice"] = d * t["nice"] /\ u["iowait"] = d * t["iowait"]
    /\ u["irq"] = d * t["irq"] /\ u["softirq"] = d * t["softirq"]
    /\ u["steal"] = d * t["steal"] /\ u["guest"] = d * t["guest"]
    /\ u["guestNice"] = d * t["guestNice"] /\ u["idle"] = d * t["idle"]
    /\ u["stolen"] = d * t["stolen"]

\* The sum in three parts.
One(t)   == t["user"] + t["system"] + t["nice"] + t["iowait"]
Two(t)   == t["irq"] + t["softirq"] + t["steal"] + t["guest"]
Three(t) == t["guestNice"] + t["idle"] + t["stolen"]

\* The parts add up.
LEMMA InParts ==
  ASSUME NEW t, Numbers(t)
  PROVE  /\ One(t) \in Nat /\ Two(t) \in Nat /\ Three(t) \in Nat
         /\ Total(t) = One(t) + Two(t) + Three(t)
  BY DEF Total, One, Two, Three, Numbers

\* The sum of the products is the product of the sum.
LEMMA TotalOfProducts ==
  ASSUME NEW d \in Nat, NEW t, Numbers(t), NEW u, Times(d, t, u)
  PROVE  Numbers(u) /\ Total(u) = d * Total(t) /\ Four(u) = d * Four(t)
<1>1. Numbers(u)
  BY DEF Times, Numbers
<1>2. One(u) = d * One(t)
  BY Distributed DEF Numbers, Times, One
<1>3. Two(u) = d * Two(t)
  BY Distributed DEF Numbers, Times, Two
<1>4. Three(u) = d * Three(t)
  BY DEF Numbers, Times, Three
<1>5. ASSUME NEW a \in Nat, NEW b \in Nat, NEW c \in Nat
      PROVE  d * a + d * b + d * c = d * (a + b + c)
  OBVIOUS
<1>6. Total(u) = d * Total(t)
  BY <1>1, <1>2, <1>3, <1>4, <1>5, InParts
<1>7. Four(u) = d * Four(t)
  BY DEF Four, Numbers, Times
<1> QED
  BY <1>1, <1>6, <1>7

\* u[s] is a share of f[s] in d, rounded.
Near(d, u, f, s) == 2 * u[s] <= 20000 * f[s] + d /\ 20000 * f[s] + d < 2 * u[s] + 2 * d

AllNear(d, u, f) ==
    /\ Near(d, u, f, "user") /\ Near(d, u, f, "system") /\ Near(d, u, f, "nice")
    /\ Near(d, u, f, "iowait") /\ Near(d, u, f, "irq") /\ Near(d, u, f, "softirq")
    /\ Near(d, u, f, "steal") /\ Near(d, u, f, "guest") /\ Near(d, u, f, "guestNice")
    /\ Near(d, u, f, "idle") /\ Near(d, u, f, "stolen")

\* Roundings add up.
LEMMA NearTotal ==
  ASSUME NEW d \in Nat, NEW u, NEW f, Numbers(u), Numbers(f), AllNear(d, u, f)
  PROVE  /\ 2 * Total(u) <= 20000 * Total(f) + 11 * d
         /\ 20000 * Total(f) + 11 * d <= 2 * Total(u) + 22 * d
         /\ 2 * Four(u) <= 20000 * Four(f) + 4 * d
<1>1. 2 * One(u) <= 20000 * One(f) + 4 * d /\ 20000 * One(f) + 4 * d <= 2 * One(u) + 8 * d
  BY DEF AllNear, Near, Numbers, One
<1>2. 2 * Two(u) <= 20000 * Two(f) + 4 * d /\ 20000 * Two(f) + 4 * d <= 2 * Two(u) + 8 * d
  BY DEF AllNear, Near, Numbers, Two
<1>3. 2 * Three(u) <= 20000 * Three(f) + 3 * d
      /\ 20000 * Three(f) + 3 * d <= 2 * Three(u) + 6 * d
  BY DEF AllNear, Near, Numbers, Three
<1>4. 2 * Four(u) <= 20000 * Four(f) + 4 * d
  BY DEF AllNear, Near, Numbers, Four
<1>5. 2 * Total(u) <= 20000 * Total(f) + 11 * d
      /\ 20000 * Total(f) + 11 * d <= 2 * Total(u) + 22 * d
  <2>1. /\ One(u) \in Nat /\ Two(u) \in Nat /\ Three(u) \in Nat
        /\ One(f) \in Nat /\ Two(f) \in Nat /\ Three(f) \in Nat
        /\ Total(u) = One(u) + Two(u) + Three(u) /\ Total(f) = One(f) + Two(f) + Three(f)
    BY InParts
  <2> QED
    BY <1>1, <1>2, <1>3, <2>1
<1> QED
  BY <1>4, <1>5

\* Shares of a whole add up to one hundred percent, but for the rounding, and the
\* reported ones to no more.
LEMMA SharesOfGains ==
  ASSUME NEW d \in Nat \ {0}, NEW f \in [CpuStates -> Nat], NEW q \in [CpuStates -> Nat],
         Total(f) = d,
         \A s \in CpuStates : 2 * (d * q[s]) <= 20000 * f[s] + d
                              /\ 20000 * f[s] + d < 2 * (d * q[s]) + 2 * d
  PROVE  Total(q) \in 10000 - 5 .. 10000 + 5 /\ Four(q) <= 10000 + 2
<1> DEFINE u == [s \in CpuStates |-> d * q[s]]
<1>1. Numbers(f) /\ Numbers(q)
  BY DEF CpuStates, Numbers
<1>2. Times(d, q, u)
  BY DEF Times, CpuStates
<1>3. \A s \in CpuStates : Near(d, u, f, s)
  BY DEF Near
<1> HIDE DEF u
<1>4. AllNear(d, u, f)
  BY <1>3 DEF AllNear, CpuStates
<1>5. /\ Numbers(u) /\ Total(u) = d * Total(q) /\ Four(u) = d * Four(q)
      /\ Total(q) \in Nat /\ Four(q) \in Nat /\ Four(f) \in Nat /\ Four(f) <= d
  BY <1>1, <1>2, TotalOfProducts, Totals
<1>6. /\ 2 * Total(u) <= 20000 * d + 11 * d
      /\ 20000 * d + 11 * d <= 2 * Total(u) + 22 * d
      /\ 2 * Four(u) <= 20000 * Four(f) + 4 * d
  BY <1>1, <1>4, <1>5, NearTotal
<1>7. PICK sum \in Nat, four \in Nat : sum = Total(q) /\ four = Four(q)
  BY <1>5
<1>8. d * (2 * sum) <= d * 20011 /\ d * 20011 <= d * (2 * sum + 22)
  <2>1. Total(u) = d * sum
    BY <1>5, <1>7
  <2>2. 2 * (d * sum) <= 20000 * d + 11 * d /\ 20000 * d + 11 * d <= 2 * (d * sum) + 22 * d
    BY <1>6, <2>1
  <2> QED
    BY <2>2
<1>9. d * (2 * four) <= d * 20004
  <2>1. Four(u) = d * four /\ Four(f) \in Nat /\ Four(f) <= d
    BY <1>5, <1>7
  <2>2. 2 * (d * four) <= 20000 * d + 4 * d
    BY <1>6, <2>1
  <2> QED
    BY <2>2
<1>10. 2 * sum <= 20011 /\ 20011 <= 2 * sum + 22 /\ 2 * four <= 20004
  BY <1>8, <1>9, FactorOff
<1>11. sum \in 10000 - 5 .. 10000 + 5 /\ four <= 10000 + 2
  BY <1>10
<1> QED
  BY <1>7, <1>11

\* A poll samples the counters, which have grown, and takes shares of the growth.
LEMMA PollShares ==
  ASSUME SharesInv, NEW broken, NEW use \in CpuUse, pollHost(broken, use)
  PROVE  SharesInv'
<1> DEFINE grown == [s \in CpuStates |-> cpu[s] + use[s]]
           gain  == [s \in CpuStates |-> grown[s] - lastCPU[s]]
           d     == Total(gain)
<1>1. use \in [CpuStates -> Nat]
  BY NodeAssumption
<1>2. /\ grown \in [CpuStates -> Nat] /\ cpu' = grown
      /\ gain \in [CpuStates -> Nat] /\ lastCPU \in [CpuStates -> Nat]
      /\ lastCPU' = grown \/ lastCPU' = lastCPU
      /\ shares' = calculatePcts(grown, lastCPU) \/ shares' = shares
  BY <1>1 DEF SharesInv, pollHost
<1>3. \A s \in CpuStates : lastCPU'[s] <= cpu'[s]
  BY <1>2 DEF SharesInv
<1>4. CASE shares' = shares
  BY <1>2, <1>3, <1>4 DEF SharesInv, SharesAddUp, Total
<1>5. CASE shares' = calculatePcts(grown, lastCPU)
  <2>1. \A s \in CpuStates : lastCPU[s] - grown[s] = -gain[s] /\ gain[s] \in Nat
    BY <1>2
  <2>2. Total(lastCPU) - Total(grown) = -d /\ d \in Nat
    <3> DEFINE Gains(s) == gain[s] = grown[s] - lastCPU[s]
    <3>1. /\ Gains("user") /\ Gains("system") /\ Gains("nice") /\ Gains("iowait")
          /\ Gains("irq") /\ Gains("softirq") /\ Gains("steal") /\ Gains("guest")
          /\ Gains("guestNice") /\ Gains("idle") /\ Gains("stolen")
      BY DEF CpuStates
    <3>2. Numbers(grown) /\ Numbers(lastCPU) /\ Numbers(gain)
      BY <1>2 DEF Numbers, CpuStates
    <3> HIDE DEF grown, gain
    <3>3. /\ One(gain) = One(grown) - One(lastCPU) /\ Two(gain) = Two(grown) - Two(lastCPU)
          /\ Three(gain) = Three(grown) - Three(lastCPU)
      BY <3>1, <3>2 DEF Numbers, One, Two, Three
    <3> QED
      BY <3>2, <3>3, InParts
  <2>3. DOMAIN shares' = CpuStates /\ shares' = [s \in CpuStates |-> shares'[s]]
        /\ \A s \in CpuStates : shares'[s] = formatPct(-gain[s], -d)
    <3> HIDE DEF gain, d
    <3> QED
      BY <1>5, <2>1, <2>2 DEF calculatePcts
  <2>4. SharesAddUp'
    <3> HIDE DEF gain, grown, d
    <3>1. CASE d = 0
      <4>1. \A s \in CpuStates : gain[s] = 0
        <5>1. Numbers(gain) /\ Total(gain) = 0
          BY <1>2, <3>1 DEF Numbers, CpuStates, d
        <5> QED
          BY <5>1, Zeros
      <4>2. \A s \in CpuStates : shares'[s] = 0
        BY <2>3, <3>1, <4>1, FormatPctOfNothing
      <4> QED
        BY <4>2 DEF SharesAddUp, Total, CpuStates
    <3>2. CASE d # 0
      <4>1. \A s \in CpuStates : shares'[s] \in Nat
                /\ 2 * (d * shares'[s]) <= 20000 * gain[s] + d
                /\ 20000 * gain[s] + d < 2 * (d * shares'[s]) + 2 * d
        BY <2>1, <2>2, <2>3, <3>2, FormatPct
      <4>2. shares' \in [CpuStates -> Nat] /\ gain \in [CpuStates -> Nat] /\ Total(gain) = d
        BY <1>2, <2>3, <4>1 DEF d
      <4> DEFINE q == shares'
      <4>3. Total(q) \in 10000 - 5 .. 10000 + 5 /\ Four(q) <= 10000 + 2
        <5>1. /\ d \in Nat \ {0} /\ q \in [CpuStates -> Nat]
              /\ \A s \in CpuStates : 2 * (d * q[s]) <= 20000 * gain[s] + d
                                      /\ 20000 * gain[s] + d < 2 * (d * q[s]) + 2 * d
          BY <2>2, <3>2, <4>1, <4>2
        <5> HIDE DEF q
        <5> QED
          BY <4>2, <5>1, SharesOfGains
      <4> QED
        BY <4>3 DEF SharesAddUp, Total, Four
    <3> QED
      BY <3>1, <3>2
  <2> QED
    BY <1>2, <1>3, <2>4 DEF SharesInv
<1> QED
  BY <1>2, <1>4, <1>5

\* The CPU shares of a poll are shares of one whole, whatever counters the host has
\* and whichever polls failed since the last sample.
THEOREM SharesOfOneWhole == ServiceSpec => []SharesAddUp
<1>1. ServiceInit => SharesInv
  BY DEF ServiceInit, NodeInit, SharesInv, SharesAddUp, Total, CpuStates
<1>2. SharesInv /\ [ServiceNext]_serviceVars => SharesInv'
  <2> SUFFICES ASSUME SharesInv, [ServiceNext]_serviceVars PROVE SharesInv'
    OBVIOUS
  <2>1. CASE UNCHANGED nodeVars
    BY <2>1 DEF nodeVars, SharesInv, SharesAddUp, Total
  <2>2. CASE NodeNext
    BY <2>2, PollShares DEF NodeNext
  <2> QED
    BY <2>1, <2>2 DEF ServiceNext, serviceVars, Boot, RunNodePoller, RunCollector
<1>3. SharesInv => SharesAddUp
  BY DEF SharesInv
<1> QED
  BY <1>1, <1>2, <1>3, PTL DEF ServiceSpec

-----------------------------------------------------------------------------
(***************************************************************************)
(* The throttle of a connection.  The reset and the read that is being     *)
(* counted race, so the counter is no exact count; but it is never too low *)
(* by more than what had been read before the reset, and without a race it *)
(* is the number of reads that are over.                                   *)
(***************************************************************************)
ConnFields == {"at", "reads", "ahead", "reading", "loaded", "inputBytes", "due", "ended",
               "out", "arrived", "credit", "raced", "from"}

IsConn(c) ==
    /\ DOMAIN c = ConnFields
    /\ c.ahead \in Nat /\ c.loaded \in Nat /\ c.inputBytes \in Nat /\ c.arrived \in Nat
    /\ c.credit \in Int

Counted(c) ==
    /\ c.credit >= 0
    /\ c.credit >= InputLimit - c.inputBytes + c.ahead
    /\ c.reading => c.loaded >= c.inputBytes
    /\ c.at = "limit" => c.ahead > 0
    /\ ~c.raced => c.arrived = c.inputBytes + (IF c.reading THEN 1 ELSE 0)
    /\ ~c.raced /\ c.reading => c.loaded = c.inputBytes

ThrottleInv ==
    /\ conn = [k \in Conns |-> conn[k]]
    /\ \A k \in Conns : IsConn(conn[k]) /\ Counted(conn[k])

\* A step of one connection leaves the others alone.
LEMMA OneConnection ==
  ASSUME ThrottleInv, NEW k \in Conns, NEW c, conn' = [conn EXCEPT ![k] = c],
         IsConn(c), Counted(c)
  PROVE  ThrottleInv'
  BY DEF ThrottleInv

\* What a connection starts with.
LEMMA FreshCounted ==
  /\ IsConn(Framework!Fresh) /\ Counted(Framework!Fresh)
  /\ IsConn([Framework!Fresh EXCEPT !.at = "new"])
  /\ Counted([Framework!Fresh EXCEPT !.at = "new"])
  /\ IsConn(Framework!Closed) /\ Counted(Framework!Closed)
  BY FrameworkAssumption
     DEF Framework!Fresh, Framework!Closed, IsConn, Counted, ConnFields, Framework!Nothing

\* A read begins.
LEMMA ReadLoadCounted ==
  ASSUME NEW c, IsConn(c), Counted(c), ~c.reading
  PROVE  LET d == [c EXCEPT !.reading = TRUE, !.loaded = c.inputBytes,
                            !.reads = @ + 1, !.arrived = @ + 1]
         IN  IsConn(d) /\ Counted(d)
<1> DEFINE d == [c EXCEPT !.reading = TRUE, !.loaded = c.inputBytes,
                          !.reads = @ + 1, !.arrived = @ + 1]
<1>1. /\ DOMAIN d = ConnFields /\ d.reading = TRUE /\ d.loaded = c.inputBytes
      /\ d.arrived = c.arrived + 1 /\ d.at = c.at /\ d.ahead = c.ahead
      /\ d.inputBytes = c.inputBytes /\ d.credit = c.credit
      /\ d.raced = c.raced
  BY DEF IsConn, ConnFields
<1> HIDE DEF d
<1>2. IsConn(d)
  BY <1>1 DEF IsConn
<1>3. Counted(d)
  BY <1>1 DEF IsConn, Counted
<1> QED
  BY <1>2, <1>3 DEF d

\* A read ends.  If a reset came in between, the count of the period before is back.
LEMMA ReadStoreCounted ==
  ASSUME NEW c, IsConn(c), Counted(c), c.reading
  PROVE  LET d == [c EXCEPT !.inputBytes = Framework!Count(c), !.ahead = @ + 1,
                            !.reading = FALSE, !.loaded = 0]
         IN  IsConn(d) /\ Counted(d)
<1> DEFINE d == [c EXCEPT !.inputBytes = Framework!Count(c), !.ahead = @ + 1,
                          !.reading = FALSE, !.loaded = 0]
<1>1. /\ DOMAIN d = ConnFields /\ d.reading = FALSE /\ d.loaded = 0
      /\ d.arrived = c.arrived /\ d.at = c.at /\ d.ahead = c.ahead + 1
      /\ d.inputBytes = c.loaded + 1 /\ d.credit = c.credit
      /\ d.raced = c.raced
  BY DEF IsConn, ConnFields, Framework!Count
<1> HIDE DEF d
<1>2. IsConn(d)
  BY <1>1 DEF IsConn
<1>3. /\ InputLimit \in Nat /\ c.credit \in Int /\ c.inputBytes \in Nat /\ c.ahead \in Nat
      /\ c.loaded \in Nat /\ c.arrived \in Nat
  BY FrameworkAssumption DEF IsConn
<1>4. /\ c.credit >= 0 /\ c.credit >= InputLimit - c.inputBytes + c.ahead
      /\ c.loaded >= c.inputBytes
      /\ ~c.raced => c.arrived = c.inputBytes + 1 /\ c.loaded = c.inputBytes
  BY DEF Counted
<1>5. d.credit >= 0 /\ d.credit >= InputLimit - d.inputBytes + d.ahead
  BY <1>1, <1>3, <1>4
<1>6. d.ahead > 0
  BY <1>1, <1>3
<1>7. ~d.raced => d.arrived = d.inputBytes
  BY <1>1, <1>3, <1>4
<1>8. d.inputBytes + 0 = d.inputBytes
  BY <1>1, <1>3
<1>9. Counted(d)
  BY <1>1, <1>5, <1>6, <1>7, <1>8 DEF Counted
<1> QED
  BY <1>2, <1>9 DEF d

\* The period is over: what may pass in the next one is the limit, and what has been
\* read ahead.
LEMMA ThrottleCounted ==
  ASSUME NEW c, IsConn(c), Counted(c)
  PROVE  LET d == Framework!Throttle(c)
         IN  IsConn(d) /\ Counted(d) /\ d.ahead = c.ahead
<1>1. CASE ~c.due
  BY <1>1 DEF Framework!Throttle
<1>2. CASE c.due
  <2> DEFINE d == Framework!Throttle(c)
  <2>1. /\ DOMAIN d = ConnFields /\ d.reading = c.reading /\ d.loaded = c.loaded
        /\ d.arrived = 0 /\ d.at = c.at /\ d.ahead = c.ahead /\ d.inputBytes = 0
        /\ d.credit = InputLimit + c.ahead /\ d.raced = c.reading
    BY <1>2 DEF IsConn, ConnFields, Framework!Throttle, Framework!Reset
  <2> HIDE DEF d
  <2>2. IsConn(d)
    BY <2>1, FrameworkAssumption DEF IsConn
  <2>3. Counted(d)
    BY <2>1, FrameworkAssumption DEF IsConn, Counted
  <2> QED
    BY <2>1, <2>2, <2>3 DEF d
<1> QED
  BY <1>1, <1>2 DEF IsConn

\* Steps that change neither the counter nor what is left of the limit.
LEMMA MovedCounted ==
  ASSUME NEW c, IsConn(c), Counted(c), NEW d, DOMAIN d = ConnFields,
         d.ahead \in Nat, d.ahead <= c.ahead, d.at = "limit" => d.ahead > 0,
         d.reading = c.reading, d.loaded = c.loaded, d.inputBytes = c.inputBytes,
         d.arrived = c.arrived, d.raced = c.raced,
         \/ d.credit = c.credit
         \/ /\ d.credit = c.credit - 1 /\ d.ahead = c.ahead - 1
            /\ c.inputBytes <= InputLimit
  PROVE  IsConn(d) /\ Counted(d)
<1>1. IsConn(d)
  BY DEF IsConn
<1>2. /\ InputLimit \in Nat /\ c.credit \in Int /\ c.inputBytes \in Nat /\ c.ahead \in Nat
      /\ c.credit >= 0 /\ c.credit >= InputLimit - c.inputBytes + c.ahead
      /\ c.reading => c.loaded >= c.inputBytes
      /\ c.at = "limit" => c.ahead > 0
  BY FrameworkAssumption DEF IsConn, Counted
<1>3. d.credit >= 0 /\ d.credit >= InputLimit - d.inputBytes + d.ahead
  <2>1. CASE d.credit = c.credit
    BY <1>2, <2>1
  <2>2. CASE d.credit = c.credit - 1 /\ d.ahead = c.ahead - 1 /\ c.inputBytes <= InputLimit
    BY <1>2, <2>2
  <2> QED
    BY <2>1, <2>2
<1>4. Counted(d)
  BY <1>3 DEF Counted
<1> QED
  BY <1>1, <1>4

\* Every step of a connection keeps its throttle right.
LEMMA ThrottleStep ==
  ASSUME ThrottleInv, Framework!FrameworkNext
  PROVE  ThrottleInv'
<1>1. PICK k \in Conns :
          \/ Framework!Accept(k) \/ Framework!ReadLoad(k) \/ Framework!ReadStore(k)
          \/ Framework!EndOfStream(k) \/ Framework!Elapse(k) \/ Framework!Unreadable(k)
          \/ Framework!Scan(k) \/ Framework!Drop(k) \/ Framework!Forward(k)
          \/ Framework!Sent(k) \/ Framework!Close(k)
  BY DEF Framework!FrameworkNext
<1> DEFINE c == conn[k]
<1>2. IsConn(c) /\ Counted(c) /\ DOMAIN conn = Conns
  BY DEF ThrottleInv
<1>3. CASE Framework!Accept(k)
  BY <1>3, OneConnection, FreshCounted DEF Framework!Accept
<1>4. CASE Framework!ReadLoad(k)
  <2>1. conn' = [conn EXCEPT ![k] = [c EXCEPT !.reading = TRUE, !.loaded = c.inputBytes,
                                              !.reads = @ + 1, !.arrived = @ + 1]]
    BY <1>2, <1>4 DEF Framework!ReadLoad
  <2>2. ~c.reading
    BY <1>4 DEF Framework!ReadLoad
  <2> QED
    BY <1>2, <2>1, <2>2, ReadLoadCounted, OneConnection
<1>5. CASE Framework!ReadStore(k)
  <2>1. conn' = [conn EXCEPT ![k] = [c EXCEPT !.inputBytes = Framework!Count(c),
                                              !.ahead = @ + 1,
                                              !.reading = FALSE, !.loaded = 0]]
    BY <1>2, <1>5 DEF Framework!ReadStore
  <2>2. c.reading
    BY <1>5 DEF Framework!ReadStore
  <2> QED
    BY <1>2, <2>1, <2>2, ReadStoreCounted, OneConnection
<1>6. CASE Framework!EndOfStream(k)
  <2> DEFINE d == [c EXCEPT !.ended = TRUE]
  <2>1. conn' = [conn EXCEPT ![k] = d]
    BY <1>2, <1>6 DEF Framework!EndOfStream
  <2>2. IsConn(d) /\ Counted(d)
    BY <1>2, MovedCounted DEF IsConn, Counted, ConnFields
  <2> QED
    BY <2>1, <2>2, OneConnection
<1>7. CASE Framework!Elapse(k)
  <2> DEFINE d == [c EXCEPT !.due = TRUE]
  <2>1. conn' = [conn EXCEPT ![k] = d]
    BY <1>2, <1>7 DEF Framework!Elapse
  <2>2. IsConn(d) /\ Counted(d)
    BY <1>2, MovedCounted DEF IsConn, Counted, ConnFields
  <2> QED
    BY <2>1, <2>2, OneConnection
<1>8. CASE Framework!Unreadable(k)
  <2> DEFINE d == [c EXCEPT !.ahead = @ - 1]
  <2>1. conn' = [conn EXCEPT ![k] = d] /\ c.at = "scan" /\ c.ahead > 0
    BY <1>2, <1>8 DEF Framework!Unreadable
  <2>2. IsConn(d) /\ Counted(d)
    BY <1>2, <2>1, MovedCounted DEF IsConn, ConnFields
  <2> QED
    BY <2>1, <2>2, OneConnection
<1>9. CASE Framework!Scan(k)
  <2> DEFINE t == Framework!Throttle(c)
             d == [t EXCEPT !.at = "limit"]
  <2>1. conn' = [conn EXCEPT ![k] = d] /\ c.ahead > 0
    BY <1>9 DEF Framework!Scan
  <2>2. IsConn(t) /\ Counted(t) /\ t.ahead = c.ahead
    BY <1>2, ThrottleCounted
  <2> HIDE DEF t
  <2>3. IsConn(d) /\ Counted(d)
    BY <1>2, <2>1, <2>2, MovedCounted DEF IsConn, ConnFields
  <2> QED
    BY <2>1, <2>3, OneConnection
<1>10. CASE Framework!Drop(k)
  <2> DEFINE d == [c EXCEPT !.at = "scan", !.ahead = @ - 1]
  <2>1. conn' = [conn EXCEPT ![k] = d] /\ c.ahead > 0
    BY <1>2, <1>10 DEF Framework!Drop, Counted
  <2>2. /\ DOMAIN d = ConnFields /\ d.reading = c.reading /\ d.loaded = c.loaded
        /\ d.inputBytes = c.inputBytes /\ d.arrived = c.arrived /\ d.raced = c.raced
        /\ d.at = "scan" /\ d.ahead = c.ahead - 1 /\ d.credit = c.credit
    BY <1>2, <2>1 DEF IsConn, ConnFields
  <2> HIDE DEF d
  <2>3. IsConn(d) /\ Counted(d)
    BY <1>2, <2>1, <2>2, MovedCounted DEF IsConn
  <2> QED
    BY <2>1, <2>3, OneConnection DEF d
<1>11. CASE Framework!Forward(k)
  <2>1. PICK r \in Records :
            conn' = [conn EXCEPT ![k].at = "send", ![k].ahead = @ - 1, ![k].credit = @ - 1,
                                 ![k].out = Framework!transform(r), ![k].from = r]
    BY <1>11 DEF Framework!Forward
  <2> DEFINE d == [c EXCEPT !.at = "send", !.ahead = @ - 1, !.credit = @ - 1,
                            !.out = Framework!transform(r), !.from = r]
  <2>2. conn' = [conn EXCEPT ![k] = d] /\ c.ahead > 0 /\ c.inputBytes <= InputLimit
    BY <1>2, <1>11, <2>1 DEF Framework!Forward, Counted
  <2>3. /\ DOMAIN d = ConnFields /\ d.reading = c.reading /\ d.loaded = c.loaded
        /\ d.inputBytes = c.inputBytes /\ d.arrived = c.arrived /\ d.raced = c.raced
        /\ d.at = "send" /\ d.ahead = c.ahead - 1 /\ d.credit = c.credit - 1
    BY <1>2 DEF IsConn, ConnFields
  <2> HIDE DEF d
  <2>4. IsConn(d) /\ Counted(d)
    BY <1>2, <2>2, <2>3, MovedCounted DEF IsConn
  <2> QED
    BY <2>2, <2>4, OneConnection DEF d
<1>12. CASE Framework!Sent(k)
  <2> DEFINE d == [c EXCEPT !.at = "scan", !.out = Framework!Nothing,
                            !.from = Framework!Nothing]
  <2>1. conn' = [conn EXCEPT ![k] = d]
    BY <1>2, <1>12 DEF Framework!Sent
  <2>2. /\ DOMAIN d = ConnFields /\ d.reading = c.reading /\ d.loaded = c.loaded
        /\ d.inputBytes = c.inputBytes /\ d.arrived = c.arrived /\ d.raced = c.raced
        /\ d.at = "scan" /\ d.ahead = c.ahead /\ d.credit = c.credit
    BY <1>2, <2>1 DEF IsConn, ConnFields
  <2> HIDE DEF d
  <2>3. IsConn(d) /\ Counted(d)
    BY <1>2, <2>1, <2>2, MovedCounted DEF IsConn
  <2> QED
    BY <2>1, <2>3, OneConnection DEF d
<1>13. CASE Framework!Close(k)
  BY <1>13, OneConnection, FreshCounted DEF Framework!Close
<1> QED
  BY <1>1, <1>3, <1>4, <1>5, <1>6, <1>7, <1>8, <1>9, <1>10, <1>11, <1>12, <1>13

\* The invariant of the throttle is inductive.
LEMMA ThrottleInductive ==
  /\ CollectorsInit => ThrottleInv
  /\ ThrottleInv /\ [CollectorsNext]_collectorsVars => ThrottleInv'
<1>1. CollectorsInit => ThrottleInv
  BY FreshCounted DEF CollectorsInit, Framework!FrameworkInit, ThrottleInv
<1>2. ASSUME ThrottleInv, [CollectorsNext]_collectorsVars PROVE ThrottleInv'
  <2>1. CASE UNCHANGED conn
    BY <1>2, <2>1 DEF ThrottleInv
  <2>2. CASE Apps
    BY <1>2, <2>2, ThrottleStep DEF Apps
  <2> QED
    BY <1>2, <2>1, <2>2 DEF CollectorsNext, Agent, collectorsVars
<1> QED
  BY <1>1, <1>2

\* No connection gets more through in a period than its limit and what had been read
\* ahead, although the count and its reset race.
THEOREM ThrottleHolds == CollectorsSpec => []ThrottleBounds
<1>1. ThrottleInv => ThrottleBounds
  BY DEF ThrottleInv, Counted, ThrottleBounds, Framework!ThrottleBounds
<1> QED
  BY <1>1, ThrottleInductive, PTL DEF CollectorsSpec

\* A record is dropped only in a period in which more than the limit has come in, or
\* whose reset raced with a read.
THEOREM DropsJustified == CollectorsSpec => DropsOnlyOverLimit
<1> DEFINE Justified(k) ==
        conn[k].at = "limit" /\ conn'[k].at = "scan" =>
            conn[k].raced \/ conn[k].arrived > InputLimit
<1>1. ASSUME ThrottleInv, Framework!FrameworkNext, NEW k \in Conns
      PROVE  Justified(k)
  <2> SUFFICES ASSUME conn[k].at = "limit", conn'[k].at = "scan", ~conn[k].raced
               PROVE  conn[k].arrived > InputLimit
    BY DEF ThrottleInv, IsConn
  <2>1. PICK j \in Conns :
            \/ Framework!Accept(j) \/ Framework!ReadLoad(j) \/ Framework!ReadStore(j)
            \/ Framework!EndOfStream(j) \/ Framework!Elapse(j) \/ Framework!Unreadable(j)
            \/ Framework!Scan(j) \/ Framework!Drop(j) \/ Framework!Forward(j)
            \/ Framework!Sent(j) \/ Framework!Close(j)
    BY <1>1 DEF Framework!FrameworkNext
  <2>2. IsConn(conn[j]) /\ DOMAIN conn = Conns /\ IsConn(conn[k]) /\ Counted(conn[k])
    BY <1>1 DEF ThrottleInv
  <2>3. Framework!Drop(k)
    <3>1. j = k
      BY <2>1, <2>2 DEF Framework!Accept, Framework!ReadLoad, Framework!ReadStore,
         Framework!EndOfStream, Framework!Elapse, Framework!Unreadable, Framework!Scan,
         Framework!Drop, Framework!Forward, Framework!Sent, Framework!Close
    <3>2. ~Framework!Accept(k) /\ ~Framework!Unreadable(k) /\ ~Framework!Scan(k)
          /\ ~Framework!Sent(k) /\ ~Framework!Close(k)
      BY DEF Framework!Accept, Framework!Unreadable, Framework!Scan, Framework!Sent,
         Framework!Close
    <3>3. ~Framework!ReadLoad(k) /\ ~Framework!ReadStore(k) /\ ~Framework!EndOfStream(k)
          /\ ~Framework!Elapse(k)
      BY <2>2 DEF Framework!ReadLoad, Framework!ReadStore, Framework!EndOfStream,
         Framework!Elapse, IsConn, ConnFields
    <3>4. ~Framework!Forward(k)
      <4> SUFFICES ASSUME Framework!Forward(k) PROVE conn'[k].at = "send"
        OBVIOUS
      <4> QED
        BY <2>2 DEF Framework!Forward, IsConn, ConnFields
    <3> QED
      BY <2>1, <3>1, <3>2, <3>3, <3>4
  <2>4. conn[k].inputBytes > InputLimit
    BY <2>3 DEF Framework!Drop
  <2> QED
    BY <2>2, <2>4, FrameworkAssumption DEF IsConn, Counted
<1>2. ThrottleInv /\ [CollectorsNext]_collectorsVars => [\A k \in Conns : Justified(k)]_conn
  BY <1>1 DEF CollectorsNext, Agent, Apps, collectorsVars
<1> QED
  BY <1>2, ThrottleInductive, PTL
     DEF CollectorsSpec, DropsOnlyOverLimit, Framework!DropsOnlyOverLimit

(***************************************************************************)
(* What extract() makes of a record's tags, one after the other.           *)
(***************************************************************************)
TagNames(r) == TaskLabels \cup {r.tags[i] : i \in 1 .. Len(r.tags)}

LabelMaps(r) == UNION {[D -> {"task", "sender"}] : D \in SUBSET TagNames(r)}

\* Values of the message while a record's tags are extracted.
Extracts(r) ==
    [of : {"", r.of}, task : BOOLEAN, labels : LabelMaps(r), datapoints : {<<>>}]

\* convertLabels takes labels of the task, and a tag of the sender is one more label.
LEMMA LabelsStay ==
  ASSUME NEW r \in Records, NEW labels \in LabelMaps(r), NEW i \in 1 .. Len(r.tags)
  PROVE  /\ Framework!convertLabels(TaskLabels) \in LabelMaps(r)
         /\ Framework!Labelled(labels, r.tags[i]) \in LabelMaps(r)
<1>1. Framework!convertLabels(TaskLabels) \in [TaskLabels \ cosmosLabels -> {"task", "sender"}]
  BY DEF Framework!convertLabels
<1>2. TaskLabels \ cosmosLabels \subseteq TagNames(r)
  BY DEF TagNames
<1>3. PICK D \in SUBSET TagNames(r) : labels \in [D -> {"task", "sender"}]
  BY DEF LabelMaps
<1>4. Framework!Labelled(labels, r.tags[i]) \in [D \cup {r.tags[i]} -> {"task", "sender"}]
  BY <1>3 DEF Framework!Labelled
<1>5. D \cup {r.tags[i]} \subseteq TagNames(r)
  BY DEF TagNames
<1> QED
  BY <1>1, <1>2, <1>4, <1>5 DEF LabelMaps

\* One tag.
LEMMA OneTag ==
  ASSUME NEW r \in Records, NEW m \in Extracts(r), NEW i \in 1 .. Len(r.tags)
  PROVE  Framework!ExtractTag(m, r.tags[i], r.of) \in Extracts(r)
<1>1. m.labels \in LabelMaps(r)
  BY DEF Extracts
<1>2. CASE r.tags[i] = "container_id"
  <2>1. Framework!ExtractTag(m, r.tags[i], r.of) = Framework!KnownTask(m, r.of)
    BY <1>2 DEF Framework!ExtractTag
  <2>2. (IF r.of \in rels THEN Framework!convertLabels(TaskLabels) ELSE m.labels) \in LabelMaps(r)
    BY <1>1, LabelsStay
  <2>3. (r.of \in rels) \in BOOLEAN
    OBVIOUS
  <2> QED
    BY <2>1, <2>2, <2>3 DEF Framework!KnownTask, Extracts
<1>3. CASE r.tags[i] \in {"framework_id", "executor_id"}
  BY <1>3 DEF Framework!ExtractTag
<1>4. CASE r.tags[i] \notin {"container_id", "framework_id", "executor_id"}
  BY <1>1, <1>4, LabelsStay DEF Framework!ExtractTag, Extracts
<1> QED
  BY <1>2, <1>3, <1>4

\* The tags that extract() gets to.
LEMMA GoodTagsRange ==
  ASSUME NEW r \in Records
  PROVE  /\ Framework!GoodTags(r) \in 0 .. Len(r.tags)
         /\ Framework!GoodTags(r) = Len(r.tags) <=> ~Framework!Contains(r.tags, "malformed")
<1> DEFINE bad == {i \in 1 .. Len(r.tags) : r.tags[i] = "malformed"}
           first == Framework!SelectInSeq(r.tags, LAMBDA t : t = "malformed")
<1>1. r.tags \in Seq(STRING) /\ Len(r.tags) \in Nat
  BY FrameworkAssumption
<1>2. first = IF bad # {} THEN Framework!Min(bad) ELSE 0
  BY DEF Framework!SelectInSeq
<1>3. bad # {} => Framework!Min(bad) \in bad
  <2> SUFFICES ASSUME bad # {} PROVE Framework!Min(bad) \in bad
    OBVIOUS
  <2>1. bad \in SUBSET Nat
    OBVIOUS
  <2>2. PICK i \in bad : \A j \in bad : i <= j
    BY <2>1, LeastElement
  <2> QED
    BY <2>2 DEF Framework!Min
<1>4. bad # {} <=> Framework!Contains(r.tags, "malformed")
  BY <1>1 DEF Framework!Contains
<1>5. Framework!GoodTags(r) = IF first = 0 THEN Len(r.tags) ELSE first - 1
  BY DEF Framework!GoodTags
<1> HIDE DEF first
<1> QED
  BY <1>1, <1>2, <1>3, <1>4, <1>5

\* Position of the last container_id, or 0.
LastId(r) == Framework!SelectLastInSeq(r.tags, LAMBDA t : t = "container_id")

\* The sender's tags behind it, up to position i, are labels with the sender's value.
KeptUpTo(r, m, i) ==
    \A j \in LastId(r) + 1 .. i :
        r.tags[j] \notin {"framework_id", "executor_id"} =>
            r.tags[j] \in DOMAIN m.labels /\ m.labels[r.tags[j]] = "sender"

NamesKnownTask(r, m) == m.task => m.of = r.of /\ r.of \in rels

\* Behind the last container_id there is none.
LEMMA LastIdLast ==
  ASSUME NEW r \in Records
  PROVE  /\ LastId(r) \in 0 .. Len(r.tags)
         /\ \A j \in LastId(r) + 1 .. Len(r.tags) : r.tags[j] # "container_id"
<1> DEFINE ids == {i \in 1 .. Len(r.tags) : r.tags[i] = "container_id"}
<1>1. r.tags \in Seq(STRING) /\ Len(r.tags) \in Nat
  BY FrameworkAssumption
<1>2. LastId(r) = IF ids # {} THEN Framework!Max(ids) ELSE 0
  BY DEF LastId, Framework!SelectLastInSeq
<1>3. ASSUME ids # {}
      PROVE  Framework!Max(ids) \in ids /\ \A j \in ids : Framework!Max(ids) >= j
  <2>1. ids \in SUBSET (0 .. Len(r.tags))
    OBVIOUS
  <2>2. PICK x \in ids : \A y \in ids : x >= y
    BY <1>1, <1>3, <2>1, GreatestElement
  <2> QED
    BY <2>2 DEF Framework!Max
<1>4. CASE ids = {}
  BY <1>1, <1>2, <1>4
<1>5. CASE ids # {}
  <2>1. LastId(r) \in ids /\ \A j \in ids : LastId(r) >= j
    BY <1>2, <1>3, <1>5
  <2> QED
    BY <1>1, <2>1
<1> QED
  BY <1>4, <1>5

\* One tag keeps the tags of the sender, and names a task only if it is known.
LEMMA OneTagKeeps ==
  ASSUME NEW r \in Records, NEW m \in Extracts(r), NEW i \in 1 .. Len(r.tags),
         KeptUpTo(r, m, i - 1), NamesKnownTask(r, m)
  PROVE  LET d == Framework!ExtractTag(m, r.tags[i], r.of)
         IN  KeptUpTo(r, d, i) /\ NamesKnownTask(r, d)
<1> DEFINE d == Framework!ExtractTag(m, r.tags[i], r.of)
<1>1. /\ LastId(r) \in Nat /\ i \in Nat
      /\ \A j \in LastId(r) + 1 .. Len(r.tags) : r.tags[j] # "container_id"
  BY LastIdLast
<1>2. m.labels \in LabelMaps(r)
  BY DEF Extracts
<1>3. CASE r.tags[i] = "container_id"
  <2>1. d.of = r.of /\ d.task = (r.of \in rels)
    BY <1>3 DEF Framework!ExtractTag, Framework!KnownTask, Extracts
  <2>2. LastId(r) + 1 .. i = {}
    BY <1>1, <1>3
  <2> QED
    BY <2>1, <2>2 DEF KeptUpTo, NamesKnownTask
<1>4. CASE r.tags[i] \in {"framework_id", "executor_id"}
  <2>1. d = m
    BY <1>4 DEF Framework!ExtractTag
  <2> QED
    BY <1>1, <1>4, <2>1 DEF KeptUpTo, NamesKnownTask
<1>5. CASE r.tags[i] \notin {"container_id", "framework_id", "executor_id"}
  <2>1. d.of = m.of /\ d.task = m.task /\ d.labels = Framework!Labelled(m.labels, r.tags[i])
    BY <1>5 DEF Framework!ExtractTag, Extracts
  <2>2. /\ DOMAIN d.labels = DOMAIN m.labels \cup {r.tags[i]}
        /\ \A l \in DOMAIN d.labels :
              d.labels[l] = IF l = r.tags[i] THEN "sender" ELSE m.labels[l]
    BY <2>1 DEF Framework!Labelled
  <2> HIDE DEF d
  <2>3. KeptUpTo(r, d, i)
    <3> SUFFICES ASSUME NEW j \in LastId(r) + 1 .. i,
                        r.tags[j] \notin {"framework_id", "executor_id"}
                 PROVE  r.tags[j] \in DOMAIN d.labels /\ d.labels[r.tags[j]] = "sender"
      BY DEF KeptUpTo
    <3>1. CASE j = i
      BY <2>2, <3>1
    <3>2. CASE j # i
      <4>1. j \in LastId(r) + 1 .. i - 1
        BY <1>1, <3>2
      <4>2. r.tags[j] \in DOMAIN m.labels /\ m.labels[r.tags[j]] = "sender"
        BY <4>1 DEF KeptUpTo
      <4> QED
        BY <2>2, <4>2
    <3> QED
      BY <3>1, <3>2
  <2>4. NamesKnownTask(r, d)
    BY <2>1 DEF NamesKnownTask
  <2> QED
    BY <2>3, <2>4 DEF d
<1> QED
  BY <1>3, <1>4, <1>5

\* All tags.
LEMMA AllTags ==
  ASSUME NEW r \in Records
  PROVE  LET m == Framework!ExtractTags(r)
         IN  m \in Extracts(r) /\ KeptUpTo(r, m, Framework!GoodTags(r)) /\ NamesKnownTask(r, m)
<1> DEFINE n == Framework!GoodTags(r)
           S == Extracts(r)
           base == Framework!NoDatapoints
           turn == [i \in 1 .. n |-> [m \in S |-> Framework!ExtractTag(m, r.tags[i], r.of)]]
           pmm[i \in 0 .. n] ==
               IF i = 0 THEN base ELSE Framework!ExtractTag(pmm[i - 1], r.tags[i], r.of)
<1>1. n \in Nat /\ n <= Len(r.tags) /\ Len(r.tags) \in Nat /\ r.tags \in Seq(STRING)
  BY GoodTagsRange, FrameworkAssumption
<1>2. Framework!ExtractTags(r) = pmm[n]
  BY DEF Framework!ExtractTags
<1>3. base \in S
  <2>1. <<>> \in [{} -> {"task", "sender"}]
    OBVIOUS
  <2>2. <<>> \in LabelMaps(r)
    BY <2>1 DEF LabelMaps
  <2> QED
    BY <2>2 DEF Framework!NoDatapoints, Extracts
<1>4. turn \in [1 .. n -> [S -> S]]
  BY <1>1, OneTag
<1> HIDE DEF n, S, base
<1>5. PICK f \in [0 .. n -> S] : f[0] = base /\ \A i \in 1 .. n : f[i] = turn[i][f[i - 1]]
  <2>1. turn \in Turns(n, S)
    BY <1>4 DEF Turns
  <2> HIDE DEF turn
  <2>2. Accumulators(n, S, base, turn) # {}
    BY <1>1, <1>3, <2>1, LoopExists
  <2> QED
    BY <2>2 DEF Accumulators
<1>6. f = [i \in 0 .. n |->
              IF i = 0 THEN base ELSE Framework!ExtractTag(f[i - 1], r.tags[i], r.of)]
  <2> SUFFICES ASSUME NEW i \in 0 .. n, i # 0
               PROVE  f[i] = Framework!ExtractTag(f[i - 1], r.tags[i], r.of)
    BY <1>5, Zenon
  <2>1. i \in 1 .. n /\ f[i - 1] \in S
    BY <1>1
  <2> QED
    BY <1>5, <2>1
<1>7. pmm = [i \in 0 .. n |->
              IF i = 0 THEN base ELSE Framework!ExtractTag(pmm[i - 1], r.tags[i], r.of)]
  BY <1>6
<1> HIDE DEF pmm
<1> DEFINE P == {i \in 0 .. n : /\ pmm[i] \in S
                                /\ KeptUpTo(r, pmm[i], i) /\ NamesKnownTask(r, pmm[i])}
<1>8. 0 \in P
  <2>1. pmm[0] = base
    BY <1>1, <1>7
  <2>2. LastId(r) + 1 .. 0 = {}
    BY LastIdLast
  <2>3. ~base.task
    BY DEF base, Framework!NoDatapoints
  <2> QED
    BY <1>1, <1>3, <2>1, <2>2, <2>3 DEF KeptUpTo, NamesKnownTask
<1>9. ASSUME NEW i \in 0 .. n, i # 0, i - 1 \in P
      PROVE  i \in P
  <2>1. pmm[i] = Framework!ExtractTag(pmm[i - 1], r.tags[i], r.of)
    BY <1>7, <1>9
  <2>2. i \in 1 .. Len(r.tags)
    BY <1>1, <1>9
  <2>3. pmm[i - 1] \in Extracts(r)
    BY <1>9 DEF S
  <2>4. pmm[i] \in S
    BY <2>1, <2>2, <2>3, OneTag DEF S
  <2> QED
    BY <1>9, <2>1, <2>2, <2>3, <2>4, OneTagKeeps
<1>10. 0 .. n \subseteq P
  <2> HIDE DEF P
  <2> QED
    BY <1>1, <1>8, <1>9, IndexInduction
<1> QED
  BY <1>1, <1>2, <1>10 DEF n, S

(***************************************************************************)
(* What extract() makes of a record's datapoints: as long as none is       *)
(* malformed, the list has all of them, and the message is not touched.    *)
(***************************************************************************)
Values == STRING \cup {Framework!Sanitized("NaN")}

LoopStates(m) == [pmm : {m}, datapoints : Seq(Values), err : BOOLEAN]

Points(points, i) == [j \in 1 .. i |-> Framework!Sanitized(points[j])]

AfterPoints(t, m, points, i) ==
    /\ t \in LoopStates(m)
    /\ t.err <=> \E j \in 1 .. i : points[j] = "malformed"
    /\ ~t.err => t.datapoints = Points(points, i)

\* A value is one after it was sanitised, and as malformed or infinite as before.
LEMMA SanitizedValue ==
  ASSUME NEW v \in STRING
  PROVE  /\ Framework!Sanitized(v) \in Values
         /\ Framework!Sanitized(v) = "malformed" <=> v = "malformed"
         /\ Framework!Sanitized(v) = "Inf" <=> v = "Inf"
<1>1. CASE v = "NaN"
  <2>1. Framework!Sanitized(v) = "string"
    BY <1>1 DEF Framework!Sanitized
  <2> QED
    BY <1>1, <2>1 DEF Values
<1>2. CASE v # "NaN"
  <2>1. Framework!Sanitized(v) = v
    BY <1>2 DEF Framework!Sanitized
  <2> QED
    BY <2>1 DEF Values
<1> QED
  BY <1>1, <1>2

\* One datapoint.
LEMMA OnePoint ==
  ASSUME NEW m, NEW t \in LoopStates(m), NEW v \in Values
  PROVE  LET u == Framework!AddDatapoint(t, v)
         IN  /\ u \in LoopStates(m)
             /\ u.err <=> t.err \/ v = "malformed"
             /\ ~u.err => u.datapoints = Append(t.datapoints, v)
<1> DEFINE u == Framework!AddDatapoint(t, v)
<1>1. t.pmm = m /\ t.datapoints \in Seq(Values) /\ t.err \in BOOLEAN
  BY DEF LoopStates
<1>2. CASE t.err \/ v = "malformed"
  <2>1. u = [t EXCEPT !.err = TRUE]
    BY <1>2 DEF Framework!AddDatapoint
  <2> QED
    BY <1>2, <2>1 DEF LoopStates
<1>3. CASE ~(t.err \/ v = "malformed")
  <2>1. u = [t EXCEPT !.datapoints = Append(t.datapoints, v)]
    BY <1>3 DEF Framework!AddDatapoint
  <2>2. Append(t.datapoints, v) \in Seq(Values)
    BY <1>1
  <2>3. u \in LoopStates(m) /\ u.err = t.err /\ u.datapoints = Append(t.datapoints, v)
    BY <2>1, <2>2 DEF LoopStates
  <2> QED
    BY <1>3, <2>3
<1> QED
  BY <1>2, <1>3

\* One more.
LEMMA OnePointMore ==
  ASSUME NEW m, NEW points \in Seq(STRING), NEW i \in 1 .. Len(points), NEW t,
         AfterPoints(t, m, points, i - 1)
  PROVE  AfterPoints(Framework!AddDatapoint(t, Framework!Sanitized(points[i])), m, points, i)
<1> DEFINE v == Framework!Sanitized(points[i])
           u == Framework!AddDatapoint(t, v)
<1>1. points[i] \in STRING /\ i \in Nat \ {0} /\ \A j \in 1 .. i : points[j] \in STRING
  OBVIOUS
<1>2. v \in Values /\ (v = "malformed" <=> points[i] = "malformed")
  BY <1>1, SanitizedValue
<1>3. /\ u \in LoopStates(m)
      /\ u.err <=> t.err \/ points[i] = "malformed"
      /\ ~u.err => u.datapoints = Append(t.datapoints, v)
  <2> HIDE DEF v
  <2> QED
    BY <1>2, OnePoint DEF AfterPoints
<1>4. (\E j \in 1 .. i : points[j] = "malformed")
        <=> (\E j \in 1 .. i - 1 : points[j] = "malformed") \/ points[i] = "malformed"
  BY <1>1
<1>5. Append(Points(points, i - 1), v) = Points(points, i)
  <2>1. \A j \in 1 .. i : Framework!Sanitized(points[j]) \in Values
    BY <1>1, SanitizedValue
  <2>2. Points(points, i - 1) \in Seq(Values) /\ Len(Points(points, i - 1)) = i - 1
    BY <1>1, <2>1 DEF Points
  <2> QED
    BY <1>1, <2>1, <2>2 DEF Points
<1> HIDE DEF u, v
<1>6. (u.err <=> \E j \in 1 .. i : points[j] = "malformed")
  BY <1>3, <1>4 DEF AfterPoints
<1>7. ~u.err => u.datapoints = Points(points, i)
  BY <1>3, <1>5 DEF AfterPoints
<1> QED
  BY <1>3, <1>6, <1>7 DEF AfterPoints, u, v

\* All datapoints.
LEMMA AllPoints ==
  ASSUME NEW m, NEW points \in Seq(STRING)
  PROVE  AfterPoints(Framework!Loop(m, points)[Len(points)], m, points, Len(points))
<1> DEFINE n == Len(points)
           S == LoopStates(m)
           base == [pmm |-> m, datapoints |-> <<>>, err |-> FALSE]
           Add(t, i) == Framework!AddDatapoint(t, Framework!Sanitized(points[i]))
           turn == [i \in 1 .. n |-> [t \in S |-> Add(t, i)]]
           s[i \in 0 .. n] == IF i = 0 THEN base ELSE Add(s[i - 1], i)
<1>1. n \in Nat /\ \A i \in 1 .. n : points[i] \in STRING
  OBVIOUS
<1>2. Framework!Loop(m, points) = s
  BY DEF Framework!Loop
<1>3. base \in S /\ base.err = FALSE /\ base.datapoints = <<>>
  BY DEF LoopStates
<1>4. turn \in [1 .. n -> [S -> S]]
  BY <1>1, SanitizedValue, OnePoint
<1> HIDE DEF n, S, base, Add
<1>5. PICK f \in [0 .. n -> S] : f[0] = base /\ \A i \in 1 .. n : f[i] = turn[i][f[i - 1]]
  <2>1. turn \in Turns(n, S)
    BY <1>4 DEF Turns
  <2> HIDE DEF turn
  <2>2. Accumulators(n, S, base, turn) # {}
    BY <1>1, <1>3, <2>1, LoopExists
  <2> QED
    BY <2>2 DEF Accumulators
<1>6. f = [i \in 0 .. n |-> IF i = 0 THEN base ELSE Add(f[i - 1], i)]
  <2> SUFFICES ASSUME NEW i \in 0 .. n, i # 0
               PROVE  f[i] = Add(f[i - 1], i)
    BY <1>5, Zenon
  <2>1. i \in 1 .. n /\ f[i - 1] \in S
    BY <1>1
  <2> QED
    BY <1>5, <2>1
<1>7. s = [i \in 0 .. n |-> IF i = 0 THEN base ELSE Add(s[i - 1], i)]
  BY <1>6
<1> HIDE DEF s
<1> DEFINE P == {i \in 0 .. n : AfterPoints(s[i], m, points, i)}
<1>8. 0 \in P
  <2>1. s[0] = base /\ 1 .. 0 = {}
    BY <1>1, <1>7
  <2>2. Points(points, 0) = <<>>
    BY DEF Points
  <2> QED
    BY <1>1, <1>3, <2>1, <2>2 DEF AfterPoints, S
<1>9. ASSUME NEW i \in 0 .. n, i # 0, i - 1 \in P
      PROVE  i \in P
  <2>1. s[i] = Add(s[i - 1], i) /\ i \in 1 .. n
    BY <1>1, <1>7, <1>9
  <2> QED
    BY <1>9, <2>1, OnePointMore DEF Add, n
<1>10. 0 .. n \subseteq P
  <2> HIDE DEF P
  <2> QED
    BY <1>1, <1>8, <1>9, IndexInduction
<1> QED
  BY <1>1, <1>2, <1>10 DEF n

\* The message that is made of a record: all of its datapoints or none.
LEMMA Transformed ==
  ASSUME NEW r \in Records
  PROVE  LET m == Framework!transform(r)
         IN  /\ m.datapoints = IF Framework!WellFormed(r) THEN Points(r.points, Len(r.points))
                               ELSE <<>>
             /\ NamesKnownTask(r, m)
             /\ Framework!WellFormed(r) => KeptUpTo(r, m, Len(r.tags))
<1> DEFINE e == Framework!ExtractTags(r)
           m == Framework!transform(r)
           n == Len(r.points)
           s == Framework!Loop(e, r.points)[n]
           fails == Framework!TagsFail(r) \/ r.points = Framework!NoList
                    \/ Framework!MarshalFails(r)
           refused == r.points = <<>> \/ \E j \in 1 .. n : r.points[j] = "malformed"
<1>1. e \in Extracts(r) /\ KeptUpTo(r, e, Framework!GoodTags(r)) /\ NamesKnownTask(r, e)
  BY AllTags
<1>2. /\ r.tags \in Seq(STRING) /\ r.points \in Seq(STRING) /\ n \in Nat
      /\ DOMAIN r.points = 1 .. n /\ \A i \in 1 .. n : r.points[i] \in STRING
  BY FrameworkAssumption
<1>3. e.datapoints = <<>>
  BY <1>1 DEF Extracts
<1>4. AfterPoints(s, e, r.points, n)
  BY <1>2, AllPoints
<1>5. Framework!TagsFail(r) <=> r.tags = <<>> \/ Framework!Contains(r.tags, "malformed")
  <2>1. /\ Framework!GoodTags(r) \in 0 .. Len(r.tags) /\ Len(r.tags) \in Nat
        /\ Framework!GoodTags(r) = Len(r.tags) <=> ~Framework!Contains(r.tags, "malformed")
    BY <1>2, GoodTagsRange
  <2> QED
    BY <2>1 DEF Framework!TagsFail
<1>6. Framework!MarshalFails(r) <=> \E i \in 1 .. n : r.points[i] = "Inf"
  BY <1>2, SanitizedValue DEF Framework!MarshalFails
<1>7. Framework!WellFormed(r) <=> ~fails /\ ~refused
  BY <1>2, <1>5, <1>6 DEF Framework!WellFormed
<1>8. s.pmm = e /\ (s.err <=> \E j \in 1 .. n : r.points[j] = "malformed")
      /\ (~s.err => s.datapoints = Points(r.points, n))
  BY <1>4 DEF AfterPoints, LoopStates
<1>9. m = IF fails \/ refused THEN e ELSE [e EXCEPT !.datapoints = Points(r.points, n)]
  <2>1. fails => m = e
    BY DEF Framework!transform
  <2>2. ~fails => m = Framework!ExtractDatapoints(e, r)
    BY DEF Framework!transform
  <2>3. Framework!ExtractDatapoints(e, r) = IF r.points = <<>> \/ s.err THEN s.pmm
                                            ELSE [s.pmm EXCEPT !.datapoints = s.datapoints]
    BY DEF Framework!ExtractDatapoints
  <2> HIDE DEF fails, s, e, m, n
  <2> QED
    BY <1>8, <2>1, <2>2, <2>3
<1> HIDE DEF e, m, n, fails, refused
<1>10. /\ m.datapoints = IF Framework!WellFormed(r) THEN Points(r.points, n) ELSE <<>>
       /\ m.of = e.of /\ m.task = e.task /\ m.labels = e.labels
  BY <1>1, <1>3, <1>7, <1>9 DEF Extracts
<1>11. NamesKnownTask(r, m)
  BY <1>1, <1>10 DEF NamesKnownTask
<1>12. ASSUME Framework!WellFormed(r) PROVE KeptUpTo(r, m, Len(r.tags))
  <2>1. KeptUpTo(r, e, Len(r.tags))
    BY <1>1, <1>12, GoodTagsRange DEF Framework!WellFormed
  <2> QED
    BY <1>10, <2>1 DEF KeptUpTo
<1> QED
  BY <1>10, <1>11, <1>12 DEF m, n

\* A message that is being sent stays as it is, and a new one is made of a record.
LEMMA SendingStep ==
  ASSUME ThrottleInv, Framework!FrameworkNext, NEW k \in Conns, conn'[k].at = "send"
  PROVE  \/ /\ conn[k].at = "send"
            /\ conn'[k].out = conn[k].out /\ conn'[k].from = conn[k].from
         \/ /\ conn[k].at = "limit"
            /\ \E r \in Records : conn'[k].out = Framework!transform(r) /\ conn'[k].from = r
<1>1. PICK j \in Conns :
          \/ Framework!Accept(j) \/ Framework!ReadLoad(j) \/ Framework!ReadStore(j)
          \/ Framework!EndOfStream(j) \/ Framework!Elapse(j) \/ Framework!Unreadable(j)
          \/ Framework!Scan(j) \/ Framework!Drop(j) \/ Framework!Forward(j)
          \/ Framework!Sent(j) \/ Framework!Close(j)
  BY DEF Framework!FrameworkNext
<1>2. DOMAIN conn = Conns /\ IsConn(conn[k]) /\ DOMAIN conn[k] = ConnFields
  BY DEF ThrottleInv, IsConn
<1>3. CASE j # k
  <2>1. conn'[k] = conn[k]
    BY <1>1, <1>2, <1>3 DEF Framework!Accept, Framework!ReadLoad, Framework!ReadStore,
       Framework!EndOfStream, Framework!Elapse, Framework!Unreadable, Framework!Scan,
       Framework!Drop, Framework!Forward, Framework!Sent, Framework!Close
  <2> QED
    BY <2>1
<1>4. CASE j = k
  <2>1. ~Framework!Accept(k) /\ ~Framework!Close(k)
    <3>1. Framework!Fresh.at = "scan" /\ Framework!Closed.at = "closed"
      BY DEF Framework!Fresh, Framework!Closed
    <3> QED
      BY <1>2, <3>1 DEF Framework!Accept, Framework!Close
  <2>2. ~Framework!Scan(k)
    <3>1. "at" \in DOMAIN Framework!Throttle(conn[k])
      BY <1>2, ThrottleCounted DEF ThrottleInv, IsConn, ConnFields
    <3> QED
      BY <1>2, <3>1 DEF Framework!Scan
  <2>3. ~Framework!Drop(k) /\ ~Framework!Sent(k) /\ ~Framework!Unreadable(k)
    BY <1>2 DEF Framework!Drop, Framework!Sent, Framework!Unreadable, ConnFields
  <2>4. CASE Framework!ReadLoad(k) \/ Framework!ReadStore(k)
    BY <1>2, <2>4 DEF Framework!ReadLoad, Framework!ReadStore, ConnFields
  <2>5. CASE Framework!EndOfStream(k) \/ Framework!Elapse(k)
    BY <1>2, <2>5 DEF Framework!EndOfStream, Framework!Elapse, ConnFields
  <2>6. CASE Framework!Forward(k)
    <3>1. PICK r \in Records :
              conn' = [conn EXCEPT ![k].at = "send", ![k].ahead = @ - 1,
                                   ![k].credit = @ - 1,
                                   ![k].out = Framework!transform(r), ![k].from = r]
      BY <2>6 DEF Framework!Forward
    <3>2. conn'[k].out = Framework!transform(r) /\ conn'[k].from = r
      BY <1>2, <3>1 DEF ConnFields
    <3> QED
      BY <2>6, <3>2 DEF Framework!Forward
  <2> QED
    BY <1>1, <1>4, <2>1, <2>2, <2>3, <2>4, <2>5, <2>6
<1> QED
  BY <1>3, <1>4

\* What both properties of messages say of a record r and its message m.
MadeOf(r, m) ==
    /\ r \in Records
    /\ m.datapoints = IF Framework!WellFormed(r) THEN Points(r.points, Len(r.points)) ELSE <<>>
    /\ Framework!WellFormed(r) => KeptUpTo(r, m, Len(r.tags))

MessagesInv ==
    /\ ThrottleInv
    /\ \A k \in Conns : conn[k].at = "send" => MadeOf(conn[k].from, conn[k].out)

\* Steps of either collector preserve it.
LEMMA MessagesStep ==
  ASSUME MessagesInv, [CollectorsNext]_collectorsVars
  PROVE  MessagesInv'
<1>1. ThrottleInv'
  BY ThrottleInductive DEF MessagesInv
<1>2. CASE UNCHANGED conn
  BY <1>1, <1>2 DEF MessagesInv
<1>3. CASE Framework!FrameworkNext
  <2> SUFFICES ASSUME NEW k \in Conns, conn'[k].at = "send"
               PROVE  MadeOf(conn'[k].from, conn'[k].out)
    BY <1>1 DEF MessagesInv
  <2>1. ASSUME NEW r \in Records PROVE MadeOf(r, Framework!transform(r))
    BY Transformed DEF MadeOf
  <2> QED
    BY <1>3, <2>1, SendingStep DEF MessagesInv
<1> QED
  BY <1>2, <1>3 DEF CollectorsNext, Agent, Apps, collectorsVars

\* It holds at the start, and says what the properties say.
LEMMA MessagesStart ==
  /\ CollectorsInit => MessagesInv
  /\ MessagesInv => FailedCarriesNothing /\ SenderTagsKept
<1>1. ASSUME CollectorsInit PROVE MessagesInv
  <2>1. \A k \in Conns : conn[k].at # "send"
    BY <1>1 DEF CollectorsInit, Framework!FrameworkInit, Framework!Fresh
  <2> QED
    BY <1>1, <2>1, ThrottleInductive DEF MessagesInv
<1>2. ASSUME MessagesInv PROVE SenderTagsKept
  BY <1>2 DEF MessagesInv, MadeOf, KeptUpTo, LastId, SenderTagsKept,
     Framework!SenderTagsKept, Framework!Sending
<1>3. ASSUME NEW r \in Records
      PROVE  Points(r.points, Len(r.points))
                 = [i \in DOMAIN r.points |-> Framework!Sanitized(r.points[i])]
  <2>1. DOMAIN r.points = 1 .. Len(r.points)
    BY FrameworkAssumption
  <2> QED
    BY <2>1 DEF Points
<1>4. ASSUME MessagesInv PROVE FailedCarriesNothing
  BY <1>3, <1>4 DEF MessagesInv, MadeOf, FailedCarriesNothing,
     Framework!FailedCarriesNothing, Framework!Sending
<1> QED
  BY <1>1, <1>2, <1>4

\* All or nothing: a message that is sent on has all datapoints of its record, or none
\* if transform() gave up at any of its tags or datapoints, however many it had taken
\* before.
THEOREM FailuresCarryNothing == CollectorsSpec => []FailedCarriesNothing
  BY MessagesStart, MessagesStep, PTL DEF CollectorsSpec

\* Tags that the sender put behind container_id keep the sender's value, whatever
\* labels the task has and whichever poll made it known.
THEOREM SenderTagsWin == CollectorsSpec => []SenderTagsKept
  BY MessagesStart, MessagesStep, PTL DEF CollectorsSpec

(***************************************************************************)
(* The agent collector.  What it knows of the agent is of this poll, or of *)
(* the last one as long as /state has not answered in this poll; the task  *)
(* relations follow one step later.                                        *)
(***************************************************************************)
Since(c, p) == goneIn[c] = 0 \/ goneIn[c] >= p

\* A message is of this poll, its executor is in the state, and its task, too.
MessageAllowed(m) ==
    /\ m.poll = poll
    /\ \E d \in agentState : SameExecutor(d, m.id)
    /\ m.task => m.id \in agentState \cap Tasked

AgentInv ==
    /\ poll \in Nat \ {0} /\ len \in Nat
    /\ life \in [Containers -> {"new", "running", "gone"}]
    /\ goneIn \in [Containers -> Nat]
    /\ \A c \in Containers : goneIn[c] <= poll /\ (life[c] # "gone" => goneIn[c] = 0)
    /\ agentState \subseteq Containers /\ rels \subseteq Containers
    /\ \A c \in agentState : Since(c, IF pc = "state" THEN poll - 1 ELSE poll)
    /\ \A c \in rels : Since(c, IF pc \in {"state", "rels"} THEN poll - 1 ELSE poll)
    /\ pc \in {"containers", "messages", "send"} => rels = agentState \cap Tasked
    /\ out \in Seq(AgentMessages) /\ (out # <<>> => pc = "send")
    /\ \A m \in AgentMessages : MessageAllowed(m)

\* Entries of the array that metricsMessages() turns into messages.
Reported == {i \in 1 .. len : Reports(array[i])}

\* What its loop collects.
LEMMA LoopMessages ==
  ASSUME len \in Nat, metricsMessages
  PROVE  out' \in Seq({Message(array[i]) : i \in Reported})
<1> DEFINE n == len
           M == {Message(array[i]) : i \in Reported}
           S == Seq(M)
           base == <<>>
           turn == [i \in 1 .. n |-> [s \in S |->
                       IF Reports(array[i]) THEN Append(s, Message(array[i])) ELSE s]]
           msgs[i \in 0 .. n] ==
               IF i = 0 THEN base
               ELSE IF Reports(array[i]) THEN Append(msgs[i - 1], Message(array[i]))
               ELSE msgs[i - 1]
<1>1. n \in Nat /\ base \in S
  OBVIOUS
<1>2. out' = msgs[n]
  BY DEF metricsMessages
<1>3. \A i \in 1 .. n : Reports(array[i]) => Message(array[i]) \in M
  BY DEF Reported
<1> HIDE DEF n, M
<1>4. turn \in Turns(n, S)
  BY <1>3 DEF Turns
<1>5. PICK f \in [0 .. n -> S] : f[0] = base /\ \A i \in 1 .. n : f[i] = turn[i][f[i - 1]]
  <2> HIDE DEF turn, S, base
  <2>1. Accumulators(n, S, base, turn) # {}
    BY <1>1, <1>4, LoopExists
  <2> QED
    BY <2>1 DEF Accumulators
<1> HIDE DEF base
<1>6. f = [i \in 0 .. n |->
              IF i = 0 THEN base
              ELSE IF Reports(array[i]) THEN Append(f[i - 1], Message(array[i]))
              ELSE f[i - 1]]
  <2> SUFFICES ASSUME NEW i \in 0 .. n, i # 0
               PROVE  f[i] = IF Reports(array[i]) THEN Append(f[i - 1], Message(array[i]))
                             ELSE f[i - 1]
    BY <1>5, Zenon
  <2>1. i \in 1 .. n /\ f[i - 1] \in S
    BY <1>1
  <2> HIDE DEF S
  <2>2. turn[i] = [s \in S |-> IF Reports(array[i]) THEN Append(s, Message(array[i])) ELSE s]
    BY <2>1
  <2> HIDE DEF turn
  <2> QED
    BY <1>5, <2>1, <2>2
<1>7. msgs = [i \in 0 .. n |->
              IF i = 0 THEN base
              ELSE IF Reports(array[i]) THEN Append(msgs[i - 1], Message(array[i]))
              ELSE msgs[i - 1]]
  BY <1>6
<1> HIDE DEF msgs
<1>8. msgs[0] \in S
  BY <1>1, <1>7
<1>9. ASSUME NEW i \in 1 .. n, msgs[i - 1] \in S
      PROVE  msgs[i] \in S
  <2>1. msgs[i] = IF Reports(array[i]) THEN Append(msgs[i - 1], Message(array[i]))
                  ELSE msgs[i - 1]
    <3>1. i \in 0 .. n /\ i # 0
      BY <1>1
    <3> QED
      BY <1>7, <3>1, Zenon
  <2> QED
    BY <1>3, <1>9, <2>1
<1>10. msgs[n] \in S
  <2> HIDE DEF S
  <2>1. \A i \in 0 .. n : msgs[i] \in S
    BY <1>1, <1>8, <1>9, LoopInvariant
  <2> QED
    BY <1>1, <2>1
<1> QED
  BY <1>2, <1>10 DEF M

\* An element of an answer to /containers.
Answer(c, lacking) ==
    [id |-> c, stats |-> [p \in Parts |-> IF p \in lacking THEN None
                                          ELSE [of |-> c, at |-> poll]]]

\* Answers of /containers list running containers.
LEMMA ResponseShape ==
  ASSUME NEW response \in Responses
  PROVE  /\ Len(response) \in Nat
         /\ DOMAIN response = 1 .. Len(response)
         /\ \A i \in 1 .. Len(response) :
               \E c \in Running, lacking \in SUBSET Parts : response[i] = Answer(c, lacking)
<1>1. IsFiniteSet(Running)
  BY CollectorAssumption, FS_Subset DEF Running
<1> DEFINE n == Cardinality(Running)
<1>2. n \in Nat
  BY <1>1, FS_CardinalityType
<1> HIDE DEF n
<1> DEFINE Lacks == {l \in [Running -> UNION Range(Omissions)] :
                       \A c \in Running : l[c] \in Omissions[c]}
<1>3. PICK order \in SetToSeqs(Running), lacking \in Lacks :
          response = [i \in 1 .. n |-> Answer(order[i], lacking[order[i]])]
  BY DEF Responses, Answer, n
<1>7. \A c \in Running : lacking[c] \in SUBSET Parts
  BY CollectorAssumption DEF Running
<1> HIDE DEF Lacks
<1>4. order \in [1 .. n -> Running]
  BY DEF SetToSeqs, n
<1>5. Len(response) = n
  BY <1>2, <1>3
<1>6. ASSUME NEW i \in 1 .. n
      PROVE  /\ response[i] = Answer(order[i], lacking[order[i]])
             /\ order[i] \in Running /\ lacking[order[i]] \in SUBSET Parts
  BY <1>3, <1>4, <1>7
<1> QED
  BY <1>2, <1>3, <1>5, <1>6

\* Every step of the agent and of its collector preserves the invariant.
LEMMA AgentStep ==
  ASSUME AgentInv, AgentNext
  PROVE  AgentInv'
<1>1. ASSUME NEW c \in Containers, Launch(c)
      PROVE  AgentInv'
  BY <1>1 DEF AgentInv, MessageAllowed, Launch, Since, AgentMessages
<1>2. ASSUME NEW c \in Containers, Finish(c)
      PROVE  AgentInv'
  <2>1. /\ life' = [life EXCEPT ![c] = "gone"] /\ goneIn' = [goneIn EXCEPT ![c] = poll]
        /\ UNCHANGED <<pc, poll, agentState, rels, array, len, fetched, out>>
        /\ poll \in Nat \ {0} /\ poll - 1 \in Nat
    BY <1>2 DEF Finish, AgentInv
  <2>2. \A d \in Containers : goneIn'[d] = IF d = c THEN poll ELSE goneIn[d]
    BY <2>1 DEF AgentInv
  <2>3. \A d \in agentState : Since(d, IF pc = "state" THEN poll - 1 ELSE poll)'
    BY <2>1, <2>2 DEF AgentInv, Since
  <2>4. \A d \in rels : Since(d, IF pc \in {"state", "rels"} THEN poll - 1 ELSE poll)'
    BY <2>1, <2>2 DEF AgentInv, Since
  <2>5. \A d \in Containers : goneIn'[d] <= poll /\ (life'[d] # "gone" => goneIn'[d] = 0)
    BY <2>1, <2>2 DEF AgentInv
  <2> QED
    BY <2>1, <2>3, <2>4, <2>5 DEF AgentInv, MessageAllowed, AgentMessages
<1>3. CASE getAgentState
  <2>1. /\ agentState' \subseteq Running /\ pc = "state" /\ pc' = "rels"
        /\ UNCHANGED <<life, goneIn, poll, rels, array, len, fetched, out>>
    BY <1>3 DEF getAgentState, StateAfterFailure
  <2>2. \A c \in agentState' : c \in Containers /\ goneIn[c] = 0
    BY <2>1 DEF Running, AgentInv
  <2>3. out = <<>>
    BY <2>1 DEF AgentInv
  <2> QED
    BY <2>1, <2>2, <2>3 DEF AgentInv, Since, AgentMessages
<1>4. CASE update
  <2>1. /\ rels' = agentState \cap Tasked /\ pc = "rels" /\ pc' = "containers"
        /\ UNCHANGED <<life, goneIn, poll, agentState, array, len, fetched, out>>
    BY <1>4 DEF update
  <2>2. out = <<>>
    BY <2>1 DEF AgentInv
  <2> QED
    BY <2>1, <2>2 DEF AgentInv, Since, AgentMessages
<1>5. CASE getContainerMetrics
  <2>1. /\ pc = "containers" /\ pc' = "messages"
        /\ UNCHANGED <<life, goneIn, poll, agentState, rels, out>>
    BY <1>5 DEF getContainerMetrics
  <2>2. len' \in Nat
    BY <1>5, ResponseShape DEF getContainerMetrics, AgentInv
  <2>3. out = <<>>
    BY <2>1 DEF AgentInv
  <2> QED
    BY <2>1, <2>2, <2>3 DEF AgentInv, Since, AgentMessages
<1>6. CASE metricsMessages
  <2>1. /\ pc = "messages" /\ pc' = "send"
        /\ UNCHANGED <<life, goneIn, poll, agentState, rels, array, len, fetched>>
    BY <1>6 DEF metricsMessages
  <2> DEFINE M == {Message(array[i]) : i \in Reported}
  <2>2. out' \in Seq(M)
    BY <1>6, LoopMessages DEF AgentInv
  <2>3. \A m \in M : MessageAllowed(m)
    <3> SUFFICES ASSUME NEW i \in Reported
                 PROVE  MessageAllowed(Message(array[i]))
      OBVIOUS
    <3> DEFINE c == array[i].id
    <3>1. /\ Message(array[i]).id = c /\ Message(array[i]).poll = poll
          /\ Message(array[i]).task = HasTaskInfo(c, Executor(c))
      BY DEF Message
    <3>2. Executor(c) # {}
      BY DEF Reported, Reports
    <3>3. \A d \in Executor(c) : d \in agentState /\ SameExecutor(d, c)
      BY DEF Executor, getExecutorInfoByExecutorID, getFrameworkInfoByFrameworkID, SameExecutor
    <3>4. HasTaskInfo(c, Executor(c)) => c \in agentState \cap Tasked
      BY <3>3 DEF HasTaskInfo
    <3> HIDE DEF c
    <3> QED
      BY <3>1, <3>2, <3>3, <3>4 DEF MessageAllowed
  <2> HIDE DEF M
  <2>4. AgentMessages' \subseteq M
    BY <2>2 DEF AgentMessages
  <2>5. out' \in Seq(AgentMessages')
    <3>1. Len(out') \in Nat /\ out' = [i \in 1 .. Len(out') |-> out'[i]]
      BY <2>2
    <3>2. \A i \in 1 .. Len(out') : out'[i] \in AgentMessages'
      BY <2>2 DEF AgentMessages
    <3> QED
      BY <3>1, <3>2
  <2> QED
    BY <2>1, <2>3, <2>4, <2>5 DEF AgentInv, MessageAllowed, Since
<1>7. CASE Send
  <2>1. /\ pc = "send" /\ out # <<>> /\ out' = Tail(out)
        /\ UNCHANGED <<life, goneIn, pc, poll, agentState, rels, array, len, fetched>>
    BY <1>7 DEF Send
  <2>2. out \in Seq(AgentMessages)
    BY DEF AgentInv
  <2>3. out' \in Seq(AgentMessages)
    BY <2>1, <2>2
  <2>4. AgentMessages' \subseteq AgentMessages
    BY <2>3 DEF AgentMessages
  <2>5. out' \in Seq(AgentMessages')
    <3>1. Len(out') \in Nat /\ out' = [i \in 1 .. Len(out') |-> out'[i]]
      BY <2>3
    <3>2. \A i \in 1 .. Len(out') : out'[i] \in AgentMessages'
      BY <2>3 DEF AgentMessages
    <3> QED
      BY <3>1, <3>2
  <2> QED
    BY <2>1, <2>4, <2>5 DEF AgentInv, MessageAllowed, Since
<1>8. CASE NextPoll
  <2>1. /\ pc = "send" /\ out = <<>> /\ pc' = "state" /\ poll' = poll + 1
        /\ UNCHANGED <<life, goneIn, agentState, rels, array, len, fetched, out>>
    BY <1>8 DEF NextPoll
  <2>2. poll' \in Nat \ {0} /\ poll' - 1 = poll
    BY <2>1 DEF AgentInv
  <2>3. \A c \in Containers : goneIn[c] \in Nat
    BY DEF AgentInv
  <2>4. \A c \in Containers : goneIn[c] <= poll' /\ (life[c] # "gone" => goneIn[c] = 0)
    BY <2>1, <2>3 DEF AgentInv
  <2> QED
    BY <2>1, <2>2, <2>4 DEF AgentInv, Since, AgentMessages
<1> QED
  BY <1>1, <1>2, <1>3, <1>4, <1>5, <1>6, <1>7, <1>8 DEF AgentNext

\* The invariant is inductive.
LEMMA AgentInductive ==
  /\ CollectorsInit => AgentInv
  /\ AgentInv /\ [CollectorsNext]_collectorsVars => AgentInv'
<1>1. ASSUME CollectorsInit PROVE AgentInv
  BY <1>1 DEF CollectorsInit, AgentInit, AgentInv, AgentMessages
<1>2. ASSUME AgentInv, [CollectorsNext]_collectorsVars PROVE AgentInv'
  <2>1. CASE UNCHANGED agentVars
    BY <1>2, <2>1 DEF AgentInv, MessageAllowed, agentVars, Since, AgentMessages
  <2>2. CASE AgentNext
    BY <1>2, <2>2, AgentStep
  <2> QED
    BY <1>2, <2>1, <2>2
       DEF CollectorsNext, Agent, Apps, collectorsVars, agentVars, Framework!FrameworkNext,
       Framework!Accept, Framework!ReadLoad, Framework!ReadStore, Framework!EndOfStream,
       Framework!Elapse, Framework!Unreadable, Framework!Scan, Framework!Drop,
       Framework!Forward, Framework!Sent, Framework!Close
<1> QED
  BY <1>1, <1>2

\* A message speaks for a container that had ended before the poll began only where
\* another one has its executor now, and never names a task that is over, or that the
\* framework collector cannot name.
THEOREM NoGhostsEver == CollectorsSpec => []NoGhosts
<1>1. AgentInv => NoGhosts
  <2> SUFFICES ASSUME AgentInv, NEW m \in AgentMessages
               PROVE  LET gone == goneIn[m.id] \notin {0, m.poll}
                      IN  /\ gone => \E d \in agentState \ {m.id} : SameExecutor(d, m.id)
                          /\ m.task => m.id \in rels /\ ~gone
    BY DEF NoGhosts
  <2>1. MessageAllowed(m)
    BY DEF AgentInv
  <2>2. pc = "send"
    BY DEF AgentInv, AgentMessages
  <2>3. ASSUME m.id \in agentState
        PROVE  goneIn[m.id] \in {0, m.poll}
    <3>1. /\ Since(m.id, poll) /\ goneIn[m.id] <= poll /\ goneIn[m.id] \in Nat
          /\ poll \in Nat
      BY <2>2, <2>3 DEF AgentInv
    <3> QED
      BY <2>1, <3>1 DEF Since, MessageAllowed
  <2>4. rels = agentState \cap Tasked
    BY <2>2 DEF AgentInv
  <2>5. goneIn[m.id] \notin {0, m.poll} => \E d \in agentState \ {m.id} : SameExecutor(d, m.id)
    BY <2>1, <2>3 DEF MessageAllowed
  <2>6. m.task => m.id \in rels /\ goneIn[m.id] \in {0, m.poll}
    BY <2>1, <2>3, <2>4 DEF MessageAllowed
  <2> QED
    BY <2>5, <2>6
<1> QED
  BY <1>1, AgentInductive, PTL DEF CollectorsSpec

\* When an application's metrics name a task, its container had not ended before the
\* poll that made the relations, however the lookup falls between the steps of a poll.
THEOREM TasksNeverOutdated == CollectorsSpec => TaskNotOutdated
<1> DEFINE made == IF pc \in {"state", "rels"} THEN poll - 1 ELSE poll
           Recent(k) ==
               LET m == conn'[k].out
               IN  conn[k].at = "limit" /\ conn'[k].at = "send" /\ m.task =>
                       goneIn[m.of] = 0 \/ goneIn[m.of] >= made
<1>1. ASSUME ThrottleInv, AgentInv, Framework!FrameworkNext, NEW k \in Conns
      PROVE  Recent(k)
  <2> SUFFICES ASSUME conn[k].at = "limit", conn'[k].at = "send", conn'[k].out.task
               PROVE  goneIn[conn'[k].out.of] = 0 \/ goneIn[conn'[k].out.of] >= made
    OBVIOUS
  <2>1. PICK r \in Records : conn'[k].out = Framework!transform(r)
    BY <1>1, SendingStep
  <2>2. conn'[k].out.of \in rels
    BY <2>1, Transformed DEF NamesKnownTask
  <2>3. Since(conn'[k].out.of, made)
    BY <1>1, <2>2 DEF AgentInv
  <2> QED
    BY <2>3 DEF Since
<1>2. ThrottleInv /\ AgentInv /\ [CollectorsNext]_collectorsVars
        => [\A k \in Conns : Recent(k)]_collectorsVars
  BY <1>1 DEF CollectorsNext, Agent, Apps
<1> QED
  BY <1>2, ThrottleInductive, AgentInductive, PTL DEF CollectorsSpec, TaskNotOutdated

(***************************************************************************)
(* The reuse of the array.  What is left of an old element is older than   *)
(* the answer that is decoded into it, so it is nobody's in that answer.   *)
(***************************************************************************)
\* What is in the array before /containers has answered is of earlier polls.
Bound == IF pc \in {"state", "rels", "containers"} THEN poll ELSE poll + 1

OlderThan(stats, bound) == \A p \in Parts : stats[p].at \in Nat /\ stats[p].at < bound

\* An entry agrees with the element of the answer that was decoded into it.
Agrees(f, e) == e.id = f.id /\ DOMAIN e.stats = Parts /\ \A p \in Parts : OwnPart(f, e.stats, p)

StatisticsInv ==
    /\ AgentInv
    /\ DOMAIN array = 1 .. Len(array) /\ Len(array) \in Nat /\ len <= Len(array)
    /\ DOMAIN fetched = 1 .. len
    /\ \A i \in 1 .. Len(array) : OlderThan(array[i].stats, Bound)
    /\ \A i \in 1 .. len : Agrees(fetched[i], array[i])
    /\ OwnStatistics

\* What an answer says replaces what was there, and the rest is older than the answer.
LEMMA DecodeOlder ==
  ASSUME NEW old, poll \in Nat \ {0}, OlderThan(old.stats, poll), NEW c, NEW lacking
  PROVE  LET f == Answer(c, lacking)
             e == Decode(old, f)
         IN  /\ e.id = f.id /\ DOMAIN e.stats = Parts
             /\ OlderThan(e.stats, poll + 1)
             /\ \A p \in Parts :
                   /\ f.stats[p] = None \/ f.stats[p].at = poll
                   /\ IF f.stats[p] # None THEN e.stats[p] = f.stats[p]
                      ELSE e.stats[p].at < poll /\ e.stats[p].at \in Nat
<1> DEFINE f == Answer(c, lacking)
           e == Decode(old, f)
<1>1. f.id = c /\ \A p \in Parts : f.stats[p] = None \/ f.stats[p].at = poll
  BY DEF Answer
<1> HIDE DEF f
<1>2. /\ e.id = f.id /\ DOMAIN e.stats = Parts
      /\ \A p \in Parts : e.stats[p] = IF f.stats[p] = None THEN old.stats[p] ELSE f.stats[p]
  BY DEF Decode
<1> HIDE DEF e
<1>3. ASSUME NEW p \in Parts
      PROVE  /\ e.stats[p].at \in Nat /\ e.stats[p].at < poll + 1
             /\ IF f.stats[p] # None THEN e.stats[p] = f.stats[p]
                ELSE e.stats[p].at < poll /\ e.stats[p].at \in Nat
  <2>1. old.stats[p].at \in Nat /\ old.stats[p].at < poll
    BY DEF OlderThan
  <2>2. CASE f.stats[p] = None
    BY <1>2, <2>1, <2>2
  <2>3. CASE f.stats[p] # None
    BY <1>1, <1>2, <2>3
  <2> QED
    BY <2>2, <2>3
<1> QED
  BY <1>1, <1>2, <1>3 DEF OlderThan, f, e

\* An entry that agrees with its element gives a message that does.
LEMMA MessageOwn ==
  ASSUME NEW f, NEW e, Agrees(f, e)
  PROVE  LET m == Message(e)
         IN  m.id = f.id /\ \A p \in Parts : OwnPart(f, m.datapoints, p)
<1> DEFINE shown == addDps(e) \cup deviceStatsToDatapoints(e)
           d == createContainerDatapoints(e)
<1>1. Message(e).id = f.id /\ Message(e).datapoints = d
  BY DEF Message, Agrees
<1>2. DOMAIN d = shown /\ \A p \in shown : d[p] = e.stats[p]
  BY DEF createContainerDatapoints
<1>3. ASSUME NEW p \in Parts, e.stats[p] # None PROVE p \in shown
  BY <1>3 DEF addDps, deviceStatsToDatapoints
<1> HIDE DEF shown, d
<1>4. ASSUME NEW p \in Parts PROVE OwnPart(f, d, p)
  <2>1. OwnPart(f, e.stats, p) /\ p \in DOMAIN e.stats
    BY DEF Agrees
  <2>2. CASE f.stats[p] # None
    <3>1. e.stats[p] = f.stats[p]
      BY <2>1, <2>2 DEF OwnPart
    <3>2. p \in shown
      BY <1>3, <2>2, <3>1
    <3> QED
      BY <1>2, <2>2, <3>1, <3>2 DEF OwnPart
  <2>3. CASE f.stats[p] = None
    <3> SUFFICES ASSUME p \in DOMAIN d, d[p] # None, NEW i \in DOMAIN fetched
                 PROVE  d[p] # fetched[i].stats[p]
      BY <2>3 DEF OwnPart
    <3>1. d[p] = e.stats[p]
      BY <1>2
    <3> QED
      BY <2>1, <2>3, <3>1 DEF OwnPart
  <2> QED
    BY <2>2, <2>3
<1> QED
  BY <1>1, <1>4

\* A step of nobody who changes the array, the answer or the messages but by sending
\* them.
LEMMA StatisticsStay ==
  ASSUME StatisticsInv, AgentInv', UNCHANGED <<array, len, fetched>>,
         AgentMessages' \subseteq AgentMessages, Bound \in Nat, Bound' \in Nat, Bound <= Bound'
  PROVE  StatisticsInv'
<1>1. OwnStatistics'
  BY DEF StatisticsInv, OwnStatistics, OwnPart
<1>2. \A i \in 1 .. len : Agrees(fetched[i], array[i])'
  BY DEF StatisticsInv, Agrees, OwnPart
<1>3. \A i \in 1 .. Len(array) : OlderThan(array[i].stats, Bound')
  <2> SUFFICES ASSUME NEW i \in 1 .. Len(array), NEW p \in Parts
               PROVE  array[i].stats[p].at \in Nat /\ array[i].stats[p].at < Bound'
    BY DEF OlderThan
  <2>1. array[i].stats[p].at \in Nat /\ array[i].stats[p].at < Bound
    BY DEF StatisticsInv, OlderThan
  <2> QED
    BY <2>1
<1> QED
  BY <1>1, <1>2, <1>3 DEF StatisticsInv, OlderThan

\* An answer of /containers is decoded.
LEMMA StatisticsFetch ==
  ASSUME StatisticsInv, AgentInv', pc = "containers", pc' = "messages", UNCHANGED <<poll, out>>,
         NEW response \in Responses, fetched' = response, len' = Len(response),
         array' = IF response = <<>> THEN <<>>
                  ELSE [i \in 1 .. IF Len(response) > Len(array)
                                   THEN Len(response) ELSE Len(array) |->
                           IF i <= Len(response) THEN Decode(Old(i), response[i]) ELSE array[i]]
  PROVE  StatisticsInv'
<1>1. /\ Len(response) \in Nat /\ DOMAIN response = 1 .. Len(response)
      /\ \A i \in 1 .. Len(response) :
            \E c \in Running, lacking \in SUBSET Parts : response[i] = Answer(c, lacking)
  BY ResponseShape
<1> DEFINE n == IF Len(response) > Len(array) THEN Len(response) ELSE Len(array)
<1>2. n \in Nat /\ n >= Len(response) /\ Len(array) \in Nat
      /\ \A i \in 1 .. n : i > Len(response) => i \in 1 .. Len(array)
  BY <1>1 DEF StatisticsInv
<1>3. poll \in Nat \ {0} /\ Bound = poll /\ Bound' = poll + 1 /\ AgentMessages' = {}
  BY DEF StatisticsInv, AgentInv, Bound, AgentMessages
<1>4. OwnStatistics'
  BY <1>3 DEF OwnStatistics
<1>5. CASE response = <<>>
  <2>1. array' = <<>> /\ len' = 0 /\ fetched' = <<>>
    BY <1>5
  <2> QED
    BY <1>4, <2>1 DEF StatisticsInv
<1>6. CASE response # <<>>
  <2>1. array' = [i \in 1 .. n |-> IF i <= Len(response)
                                   THEN Decode(Old(i), response[i]) ELSE array[i]]
    BY <1>6
  <2> HIDE DEF n
  <2>2. Len(array') = n /\ DOMAIN array' = 1 .. n
    BY <1>2, <2>1
  <2>3. ASSUME NEW i \in 1 .. Len(response)
        PROVE  /\ array'[i].id = response[i].id /\ DOMAIN array'[i].stats = Parts
               /\ OlderThan(array'[i].stats, poll + 1)
               /\ \A p \in Parts :
                     /\ response[i].stats[p] = None \/ response[i].stats[p].at = poll
                     /\ IF response[i].stats[p] # None
                        THEN array'[i].stats[p] = response[i].stats[p]
                        ELSE array'[i].stats[p].at < poll /\ array'[i].stats[p].at \in Nat
    <3>1. PICK c \in Running, lacking \in SUBSET Parts : response[i] = Answer(c, lacking)
      BY <1>1
    <3>2. i \in 1 .. n /\ i <= Len(response) /\ i \in Nat
      BY <1>1, <1>2
    <3>3. array'[i] = Decode(Old(i), Answer(c, lacking))
      BY <2>1, <3>1, <3>2
    <3>4. OlderThan(Old(i).stats, poll)
      <4>1. CASE i <= Len(array)
        BY <1>2, <1>3, <3>2, <4>1 DEF Old, StatisticsInv
      <4>2. CASE ~(i <= Len(array))
        <5>1. Old(i) = Zero
          BY <4>2 DEF Old
        <5>2. \A p \in Parts : Zero.stats[p].at = 0
          BY DEF Zero, NoStatistics, None
        <5> QED
          BY <1>3, <5>1, <5>2 DEF OlderThan
      <4> QED
        BY <4>1, <4>2
    <3> QED
      BY <1>3, <3>1, <3>3, <3>4, DecodeOlder
  <2>4. ASSUME NEW i \in 1 .. n PROVE OlderThan(array'[i].stats, poll + 1)
    <3>1. CASE i <= Len(response)
      <4>1. i \in 1 .. Len(response)
        BY <1>1, <1>2, <3>1
      <4> QED
        BY <2>3, <4>1
    <3>2. CASE ~(i <= Len(response))
      <4>1. i \in 1 .. Len(array) /\ array'[i] = array[i]
        BY <1>1, <1>2, <2>1, <3>2
      <4>2. OlderThan(array[i].stats, poll)
        BY <1>3, <4>1 DEF StatisticsInv
      <4>3. \A p \in Parts : array[i].stats[p].at \in Nat /\ array[i].stats[p].at < poll + 1
        BY <1>3, <4>2 DEF OlderThan
      <4> QED
        BY <4>1, <4>3 DEF OlderThan
    <3> QED
      BY <3>1, <3>2
  <2>5. ASSUME NEW i \in 1 .. Len(response) PROVE Agrees(fetched[i], array[i])'
    <3> DEFINE e == array'[i]
               f == response[i]
    <3>1. e.id = f.id /\ DOMAIN e.stats = Parts
      BY <2>3
    <3>2. ASSUME NEW p \in Parts, f.stats[p] = None, e.stats[p] # None,
                 NEW j \in 1 .. Len(response)
          PROVE  e.stats[p] # response[j].stats[p]
      <4>1. e.stats[p].at < poll /\ e.stats[p].at \in Nat
        BY <2>3, <3>2
      <4>2. response[j].stats[p] = None \/ response[j].stats[p].at = poll
        BY <2>3, <3>2
      <4> QED
        BY <1>3, <3>2, <4>1, <4>2
    <3>3. ASSUME NEW p \in Parts, f.stats[p] # None PROVE e.stats[p] = f.stats[p]
      BY <2>3, <3>3
    <3>4. fetched' = response /\ DOMAIN response = 1 .. Len(response)
      BY <1>1
    <3> HIDE DEF e, f
    <3>5. \A p \in Parts : IF f.stats[p] # None THEN p \in DOMAIN e.stats /\ e.stats[p] = f.stats[p]
                          ELSE p \in DOMAIN e.stats /\ e.stats[p] # None =>
                                   \A j \in DOMAIN fetched' : e.stats[p] # fetched'[j].stats[p]
      BY <3>1, <3>2, <3>3, <3>4
    <3> QED
      BY <3>1, <3>4, <3>5 DEF Agrees, OwnPart, e, f
  <2> QED
    BY <1>1, <1>2, <1>3, <1>4, <2>2, <2>4, <2>5 DEF StatisticsInv
<1> QED
  BY <1>5, <1>6

\* The collector's steps.
LEMMA StatisticsStep ==
  ASSUME StatisticsInv, [CollectorsNext]_collectorsVars
  PROVE  StatisticsInv'
<1>1. AgentInv /\ AgentInv' /\ poll \in Nat \ {0} /\ poll' \in Nat \ {0} /\ len \in Nat
      /\ Bound \in Nat /\ Bound' \in Nat
  BY AgentInductive DEF StatisticsInv, AgentInv, Bound
<1>2. CASE getContainerMetrics
  <2>1. pc = "containers" /\ pc' = "messages" /\ UNCHANGED <<poll, out>>
    BY <1>2 DEF getContainerMetrics
  <2>2. CASE UNCHANGED <<array, len, fetched>>
    <3>1. AgentMessages' = AgentMessages /\ Bound <= Bound'
      BY <1>1, <2>1 DEF AgentMessages, Bound
    <3> QED
      BY <1>1, <2>2, <3>1, StatisticsStay
  <2> QED
    BY <1>1, <1>2, <2>1, <2>2, StatisticsFetch DEF getContainerMetrics
<1>3. CASE metricsMessages
  <2>1. UNCHANGED <<array, len, poll, fetched>> /\ Bound' = Bound
    BY <1>3 DEF metricsMessages, Bound
  <2>2. out' \in Seq({Message(array[i]) : i \in Reported})
    BY <1>1, <1>3, LoopMessages
  <2>3. ASSUME NEW m \in AgentMessages'
        PROVE  \E i \in DOMAIN fetched : fetched[i].id = m.id
                   /\ \A p \in Parts : OwnPart(fetched[i], m.datapoints, p)
    <3>1. PICK i \in Reported : m = Message(array[i])
      BY <2>2 DEF AgentMessages
    <3>2. i \in 1 .. len /\ i \in DOMAIN fetched /\ Agrees(fetched[i], array[i])
      BY DEF Reported, StatisticsInv
    <3> QED
      BY <3>1, <3>2, MessageOwn
  <2>4. OwnStatistics'
    BY <2>1, <2>3 DEF OwnStatistics, OwnPart
  <2>5. \A i \in 1 .. len : Agrees(fetched[i], array[i])'
    BY <2>1 DEF StatisticsInv, Agrees, OwnPart
  <2> QED
    BY <1>1, <2>1, <2>4, <2>5 DEF StatisticsInv, OlderThan
<1>4. CASE Send
  <2>1. UNCHANGED <<array, len, poll, pc, fetched>> /\ out' = Tail(out) /\ out # <<>>
    BY <1>4 DEF Send
  <2>2. out \in Seq(AgentMessages)
    BY <1>1 DEF AgentInv
  <2>3. out' \in Seq(AgentMessages)
    BY <2>1, <2>2
  <2>4. AgentMessages' \subseteq AgentMessages
    BY <2>3 DEF AgentMessages
  <2>5. Bound' = Bound
    BY <2>1 DEF Bound
  <2> QED
    BY <1>1, <2>1, <2>4, <2>5, StatisticsStay
<1>5. ASSUME UNCHANGED <<array, len, fetched, out>>, Bound <= Bound'
      PROVE  StatisticsInv'
  <2>1. AgentMessages' = AgentMessages
    BY <1>5 DEF AgentMessages
  <2> QED
    BY <1>1, <1>5, <2>1, StatisticsStay
<1>6. CASE NextPoll
  <2>1. UNCHANGED <<array, len, fetched, out>> /\ poll' = poll + 1 /\ pc = "send"
        /\ pc' = "state"
    BY <1>6 DEF NextPoll
  <2> QED
    BY <1>1, <1>5, <2>1 DEF Bound
<1>7. CASE getAgentState \/ update
  <2>1. UNCHANGED <<array, len, fetched, out, poll>> /\ Bound' = Bound
    BY <1>7 DEF getAgentState, update, Bound
  <2> QED
    BY <1>1, <1>5, <2>1
<1>8. CASE UNCHANGED <<array, len, fetched, out, poll, pc>>
  <2>1. Bound' = Bound
    BY <1>8 DEF Bound
  <2> QED
    BY <1>1, <1>5, <1>8, <2>1
<1> QED
  BY <1>2, <1>3, <1>4, <1>6, <1>7, <1>8
     DEF CollectorsNext, Agent, AgentNext, Apps, collectorsVars, agentVars, Launch, Finish

\* The reuse of the array never mixes up the containers of an answer, whatever parts of
\* the statistics it leaves out of which of them: a message has all that it says of its
\* container, and of another one at most what an earlier answer said.
THEOREM StatisticsNeverMixed == CollectorsSpec => []OwnStatistics
<1>1. CollectorsInit => StatisticsInv
  <2> SUFFICES ASSUME CollectorsInit PROVE StatisticsInv
    OBVIOUS
  <2>1. array = <<>> /\ len = 0 /\ out = <<>> /\ fetched = <<>> /\ AgentInv
    BY AgentInductive DEF CollectorsInit, AgentInit
  <2> QED
    BY <2>1 DEF StatisticsInv, OwnStatistics, AgentMessages
<1>2. StatisticsInv /\ [CollectorsNext]_collectorsVars => StatisticsInv'
  BY StatisticsStep
<1>3. StatisticsInv => OwnStatistics
  BY DEF StatisticsInv
<1> QED
  BY <1>1, <1>2, <1>3, PTL DEF CollectorsSpec
=============================================================================
