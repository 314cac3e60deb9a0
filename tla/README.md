# A TLA+ model of dcos-metrics

dcos-metrics collects metrics on the nodes of a DC/OS cluster.  It has two
programs.  The *Mesos module* (`mesos_module/`, C++) is loaded into the Mesos
agent: it gives every container a UDP endpoint for statsd data and forwards
what it receives there, as Avro over TCP or as statsd over UDP.  The *metrics
service* (Go) runs beside the agent: it collects metrics from the module, from
the Mesos agent and from the host, keeps the latest values and serves them over
HTTP and to Prometheus.

This directory models the parts of both whose correctness depends on
interleavings, failures and time.  `PROJECT.json` maps every definition to the
lines it stands for and lists the runs, mutants, findings, hazards and theorems.

## 1. The system

| Component | State it keeps | Operations | Interacts with |
|---|---|---|---|
| Isolator (`isolator_module.cpp`) | `registered`: the containers it tracks | `recover`, `prepare`, `cleanup`, served one at a time by a libprocess actor | called by Mesos; calls ContainerAssigner |
| ContainerAssigner (`container_assigner.cpp`) | none of its own (a mutex) | `register_container` (waits up to 5 s), `unregister_container`, `recover_containers` | dispatches jobs to the io thread |
| Strategies, RangePool (`container_assigner_strategy.cpp`, `range_pool.hpp`) | container -> reader; used ports | `register`, `insert` (recovered), `unregister` | open and close container readers |
| State cache (`container_state_cache_impl.cpp`) | one file per container | `add`, `remove`, `get` | survives the agent process |
| io runner, `sync_util` (`io_runner_impl.cpp`, `sync_util.*`) | asio queue; outstanding tickets | `dispatch`, `dispatch_get`, `dispatch_run` | every other thread -> io thread |
| Container reader (`container_reader_impl.cpp`) | socket, byte count, registered containers | receive, split, throttle, shut down | output writers |
| Output writers (`collector_output_writer.cpp`, `statsd_output_writer.cpp`) | chunk under construction, timer | write, flush, shut down | TCP or UDP sender |
| TCP sender (`metrics_tcp_sender.cpp`) | connection state, back-off, pending bytes, two timers | `start`, `send`, handlers, destructor | framework collector |
| UDP sender (`metrics_udp_sender.cpp`) | socket, resolved addresses, timer | `send`, lookup handler | a statsd server |
| Framework collector (`collectors/framework`) | per connection: byte count | accept, decode, throttle, tag | `ContainerTaskRels`, main |
| Mesos agent collector (`collectors/mesos/agent`) | `agentState`, `containerMetrics`, `ContainerTaskRels` | poll, build messages | Mesos agent, main |
| Node collector (`collectors/node`) | metrics of the latest complete poll, last CPU counters | poll, transform | host, main |
| Configuration and start-up (`config.go`, `main`) | `Config`, `nodeInfo` | flags, file, checks, node info, client | file, Mesos |
| main (`dcos-metrics.go`) | none | select, `broadcast` | all collectors and producers, over unbuffered channels |
| Producers (`producers/http`, `producers/prometheus`) | store: key -> latest message | write, janitor | main |
| HTTP API, Prometheus endpoint (`handlers.go`, `prometheus.go`) | none | list, combine, collect | reads the stores; clients, plugins, Prometheus |
| Plugins (`plugins/`) | none | poll the HTTP API, forward | HTTP API |

What is hard in it, and what correctness means there:

* **The agent dies and restarts while its containers go on.**  A container keeps
  the endpoint it was launched with; the restarted module knows it only from the
  state cache.  What was told has to be on disk first, and a recovered port must
  not be given to anybody else.
* **A caller gives up, its job does not.**  `prepare` returns after five seconds;
  the job still opens a reader.  No reader, port or result may get lost or reach
  the wrong caller, and no callback may write into a stack frame that is gone.
* **Cancelled handlers run.**  In asio a cancelled timer or a closed socket
  completes its operations with an error, later; the TCP sender's handlers do
  not all look at it.  The connection has to survive that.
* **A cache that expires by wall-clock time** is filled by a poller whose period
  is of the same order, with timestamps cut to seconds.
* **Two requests describe one moment.**  `/state` and `/containers` are fetched
  one after the other, while containers come and go, and either may fail.
* **Unbuffered channels all the way.**  Whoever is slow delays everybody.
* **One step of several fails.**  A poll of the host, a record, a round of a
  plugin, an attempt to find out the node's identity: the code goes on with what
  it has, and that must be something consistent.
* **Shared without a lock.**  A goroutine inside the Avro library counts bytes
  while the connection's goroutine resets the count; destructors set flags that
  callbacks read; task relations are replaced while they are read.
* **A plugin asks in several requests** about a store that is written datapoint by
  datapoint and swept object by object.

## 2. The modules

### ContainerPorts, ContainerAssigner

`ContainerPorts` holds the three strategies and the pool.  A reader is known by
its port: `reader` stands for `container_to_reader`, `used` for `RangePool::used`
as the set of marked ports, `fatal` for having reached a `LOG(FATAL)` of `put`.
Each operation of a strategy is an operator with the outcome as a parameter:
`RangeRegister(c, result)` has one disjunct for the reuse of a reader, for
success, for a failed open (the port is put back) and for a depleted pool.

`ContainerAssigner` adds the isolator actor, the queue of the io thread, the
state cache and the life of containers as Mesos sees it.  `Prepare`, `Cleanup`
and `Recover` are the actor's handlers; `RunRegister`, `RunUnregister` and
`RunRecover` are the jobs.  `recover_containers_imp` reads the disk and sorts
the containers in one step and then handles them one at a time
(`RecoverInsert`, `RecoverRemove`, `RecoverRegister`, in the order of the code's
loops), since the agent may die in between; the io thread runs no other job
meanwhile.  `Prepare` blocks the actor (`caller`) until `RunRegister` answers or
`PrepareTimeout` happens.  `Crash` loses all but `cache`, `phase` and `told`, and
may leave the file that was being written torn; `Restart` may bring other
parameters.  `told[c]` is the port in the environment of a container that runs.

Not in the model: the assigner's mutex (the actor is its only user) and its
`init` and destructor; hosts of endpoints (`listen_host` is fixed per process);
the contents of files beyond id and port.

### SyncCall, SyncUtil

`SyncCall` says what `dispatch_get` promises: its function runs at most once,
and the call returns the result of this function or nothing.  `SyncUtil` is the
code, one step per critical section of the ticket mutex: `TakeTicket`,
`DispatchPosted` or (on the io thread itself) `DispatchInline`, `FirstCheck`,
`Wake`, `Timeout`, and on the io thread `RunJob` (the function) and `FinishJob`
(the ticket check and hand-over).  `out` and `notified` are one cell per thread,
not per call: the successive frames of a thread lie at the same addresses, which
is the case a stale pointer would corrupt silently.  `wild` records a write to a
frame that was left.

### TcpSender

The variables of `MetricsTCPSender`, the outstanding operations (`connecting`,
`retry`, `deadline`, `writes`) and the queue `ready` of handlers whose operations
have completed.  Each handler is an action that runs when it is at the head of
the queue.  asio is modelled from how the sender uses it: re-arming a timer and
closing the socket put the handlers of what was outstanding into the queue, and
`async_write` sends in pieces.  `stream` records which buffer each byte came
from; `PendingExact` adds sizes up with `SumOf` (module `Sums`).  `Shutdown` is the
destructor's assignment from another thread, which a running handler may overwrite.
The throughput log timer and the byte counters it prints are left out, and so is
what runs after the object is gone.

### ContainerReader, OutputWriters, UdpSender

One process of callbacks on the io thread, from the socket of a container to the
sockets of the two senders.  `ContainerReader` has the receive loop (`recv_cb`,
and `recv_cb_error`, which ends it), the throttle with its timer
(`limit_reset_cb`, which also writes the reader's own two metrics) and the
shutdown: `Destroy` is the flag the destructor sets on any thread, `shutdown_cb`,
`Drain` and `Close` are what it dispatches.  A packet is the sequence of the sizes
of its lines.  `OutputWriters` holds the two writers as operators on their state:
`collector_write` counts datapoints modulo `SizeT`, from a value that the
constructor leaves uninitialised (`WriterInit` takes any); `statsd_write` packs
tagged entries into a chunk, with the arithmetic of the code; the loop over the
entries of a packet is a recursive function of the index.  `UdpSender` is the
periodic lookup: `dest_resolve_cb` with each result a lookup may have, `move` of
the socket, which may fail.

### MetricsStore

The store of the HTTP (or Prometheus) producer with its two goroutines, and the
collector that feeds it, over a clock in ticks.  Timestamps are rounded down to
seconds (`Unix`).  `JanitorStart` takes the copy that `Objects()` returns;
`JanitorVisit` judges an object of the copy and deletes from the store.
`CacheExpiry` is the configured value as `getNewConfig` corrects it.  How fast
the goroutines are is a parameter (`FetchTime`, `StoreTime`, `JanitorTime`).

### AgentCollector, FrameworkCollector, Collectors

One poll of `AgentCollector` is `getAgentState`, `update`, `getContainerMetrics`,
`metricsMessages` and one `Send` per message, with `Launch` and `Finish` of
containers in between.  The backing array of `containerMetrics` is kept from poll
to poll, and `Decode` is what `encoding/json` does to a reused element.
Statistics are a record of parts, each abstracted to whose it is and of which
poll; which parts an answer may lack is a parameter (`Omissions`).
`createContainerDatapoints` says which datapoints they give, by part.  Executors are
looked up by framework and executor id (`ExecutorOf`), which an executor that is
launched again, in a new container, keeps.

`FrameworkCollector` has one record of state per connection: `ReadLoad` and
`ReadStore` are the goroutine inside goavro, whose addition to `inputBytes` is not
atomic; `Scan`, `Drop`, `Forward`, `Sent` are `handleConnection`; `transform` is
the decoding of a record, with tags in order, labels of the task, values that
JSON does not have, and the half-filled message of a record that fails: each turn of
`extract`'s loop (`AddDatapoint`), its early return, and the assignment behind it
(`ExtractDatapoints`) are there as in the code.  The loops of both (over tags, over
datapoints, over the array) are recursive functions of their index.

`Collectors` composes the two: they share `rels` (`ContainerTaskRels`), which one
replaces and the other reads.

### MetricsApi, Plugin

`MetricsApi` is what the stores hold by key (`MetricsStore` models the times):
`Receive` and `writeObjectToStore`, datapoint by datapoint, `janitor`, which may take
any object at any time, as it goes by age alone, the handlers as sets of possible
responses (which object of a map comes last is not determined), and the routes of
both roles.  `Series` is what the Prometheus endpoint makes of an object, with labels
padded to the union of their names and everything sanitised (`Sanitized` says which
names change, and into which), `Conflict` the check of the client library's registry
that leaves metrics out.

`Plugin` is `plugins/plugin.go`, one action per request, and the six connectors as
what they may get out of a round: `datadogConnector`, `statsdConnector` and so on yield
outcomes, with the datapoints that were sent, the messages that met an error of the
network (`faulty`) and the datapoints that were too old for librato (`old`).  Which
connector a plugin has is left open until it runs one, since only the statsd plugin
keeps anything between rounds: its client, which holds a nil connection if `Dial`
failed (`NewClient`), and then panics (`Panics`).

### NodeCollector, StartUp, OrderedBroadcast, Pipeline, Service

`NodeCollector` is a poll of the host: groups polled in order up to the first
error (on Windows, without those that fail), the metrics that are kept then, and the
shares of all eleven CPU counters with their rounding.  The datapoints of a group are
left out; a group is read as a whole.  `StartUp` is one action per stage of
`getNewConfig` and `main`, each of which may end the process.  `Pipeline` is
`main`'s select loop and `broadcast` over unbuffered channels; `OrderedBroadcast`
is the service it gives: one order of all messages, and every producer gets all of
them in that order.  `Service` composes them: collectors run once start-up has
come to its end, those of the role that was configured.

## 3. The runs

| Run | Checks | Bounds and why they are enough |
|---|---|---|
| `assigner_faults` | `TypeOK`, `NeverFatal`, `PoolMatchesReaders`, `ReadersTracked` | 3 containers on a range of 2 ports (depletion), all strategies, every file operation and open may fail, 1 crash with any change of strategy |
| `assigner_recovery` | `ToldPortsPersisted`, `ReaderOnToldPort`, `EachIsGivenADifferentPort`, `DeadContainersForgotten`, `PrepareReturns` | 3 containers, one of class DEBUG; 2 crashes, so that a recovery is itself interrupted; range and ephemeral ports, so that a restart meets ports outside its range; no faults, as with them the code promises nothing |
| `sync_util` | `NoWildWrite`, `NoStaleResult`, `ImplementsContract`, `CallsReturn` | 2 threads (one with a timeout, one without) and the io thread, 2 calls each, so that a second call meets the first one's late result; the io_service may be stopped |
| `tcp_sender` | `TypeOK`, `NeverStuck`, `PendingExact`, `HeaderFirst`, `KeepsConnectionAlive`, `HungConnectsEnd` | 3 sends of 1 or 2 bytes against a limit of 3, a header of 2, 3 faults: reset, reconnect, timeout and reset again with data in flight |
| `tcp_blocks` | `BlocksContiguous` is violated | 2 sends, no fault |
| `statsd_output` | `ChunkSound`, `SocketFollowsLookups`, `DataMovesOn` | 1 container, 3 packets of two entries (sizes 1 and 2) or of one that is too big (7) for a chunk of 7 or, tagged, for a datagram of 8; limit 3, reached by the first packet; `size_t` modulo 3 with a capacity of 2 datapoints, so that every initial count, also one that wraps to 0, is met; lookups that fail, or give one address or another, for a host that is an address or not |
| `store_http` | `StaleBounded`, `NoGaps` | 2 keys, poll period and janitor interval of 6 ticks of half a second, all delays 1; 40 ticks are over 6 polls; with these values the slack of the theorem is used up exactly |
| `store_prometheus` | `NoGaps` is violated | the default proportions (expiry = poll period), no delays at all |
| `collectors` | `OwnStatistics`, `NoGhosts`, `FailedCarriesNothing`, `ThrottleBounds`, `SenderTagsKept`, `DropsOnlyOverLimit`, `TaskNotOutdated` | 3 containers: two of one executor, which is launched again, and a custom executor without tasks; the second has no block devices; 2 polls, so that the array is reused, also with fewer, more or other containers in other places, and either request may fail; 1 connection (they share nothing but `rels`) with 2 records of 6 kinds, limit 1 and 2 records read ahead: one passes, one is dropped or comes after a reset |
| `collector_no_statistics` | `NoStatisticsNoMessage` is violated | 2 containers that may both lack all statistics, 3 polls |
| `service` | `OnlyOneUnderWay`, `RunsComplete`, `NodeWhole`, `SharesAddUp`, `ImplementsBroadcast` | 3 collectors with 2, 1 and 2 messages, 2 producers; flags with good and bad roles, a level, a version and one that does not exist, with files that set a role, a bad level, short expiries or IAM; CPU counters that stand still or gain amounts of all eleven states that have to be rounded; polls that break nowhere, before the CPU or behind it; Linux and Windows |
| `plugins` | `PluginSurvives`, `RoundCovers`, `NoCollateral`, `ScrapeComplete` | 2 containers, 5 messages: the node's, an application's two datapoints of one name with different tags, of which one has no time, or is NaN in a later message, a record without container id whose name and tag are changed by sanitising into ones that exist, a container's; plugins of a master, of an agent, and with a role that does not exist, beside services of both roles; any connector; messages and evictions come between any two requests; rounds go on for ever |

Deadlock is not checked: in each model the bounded counters run out, or the
process has ended.  That the systems do not get stuck is what the liveness
properties say.

Every property of a passing run has a mutant, a variant of a definition as a
plausible bug would make it (marked `Mutant` in the modules), under which TLC
finds the property violated.

### Fairness

* `ContainerAssigner`: the io thread is scheduled (it blocks on nothing), an
  agent that died is restarted (systemd) and calls `recover` once (Mesos does).
  Nothing is assumed of `prepare`'s timeout, of Mesos' calls or of crashes.
* `SyncUtil`: threads are scheduled, and an armed timeout fires.
* `TcpSender`: the io thread and the timers.  `KeepsConnectionAlive` assumes in
  addition that the network, between its finitely many faults, completes connects
  and writes; `HungConnectsEnd` assumes nothing of the network.
* `ContainerReader`: receives complete when there is data, timers fire, and what
  was dispatched runs.  Nothing is assumed of receives that fail or of lookups.
* `Service`: goroutines are scheduled, and storing a message ends (it is a loop over
  the message that takes an uncontended mutex).  Nothing is assumed of start-up: its
  requests have no time limit (`helpers.go:76`) and may hang for ever.

### What the violations say

* `tcp_blocks`: `send` starts a write while others are outstanding.  A partial
  write continues behind the next block, so blocks are mixed in the stream.
* `store_prometheus`: only the HTTP producer's expiry is raised to two poll
  periods.  At its default the Prometheus producer drops data of running tasks.
* `collector_no_statistics`: a container without statistics in the response keeps
  those of whatever container was at its index before, and is reported with them.

### Behaviours worth knowing that are in the models

These follow from the code; the properties name them as exceptions or are stated
so as to bear them.

* A recovered port that another process has taken is put back into the pool while
  its container still sends to it (`container_assigner_strategy.cpp:311`); the
  property `EachIsGivenADifferentPort` is checked where opening does not fail.
* An object that is written between the janitor's copy and its deletion is deleted
  although it is fresh (`http.go:154`); it is back after the next poll.
* Any error of a receive ends the read loop of a container for good, as
  `operation_aborted` is tested as a constant (`container_reader_impl.cpp:178`).
* If the UDP socket cannot be opened it stays closed until the result of the
  lookup changes (`metrics_udp_sender.cpp:188`).
* The configuration file replaces what flags have set (`config.go:239`), although
  the comment of `getNewConfig` (`config.go:215`) has it the other way round.  No
  property depends on which of them wins.
* If `/containers` fails, the containers of the poll before are reported again.  One
  that has ended is reported, too, if its executor was launched again meanwhile: it is
  found in `/state` by its executor id, though in another container.  No task is named
  then, as tasks are looked up by container (`agent.go:197`, `agent.go:252`).
* A container for which `/containers` lists no block devices has those of whichever
  container had its place in an earlier answer (`container.go:139`).
* The CPU shares that are reported (user, system, idle, wait) leave out seven of the
  eleven states, so they add up to 100 % only on a host without nice, interrupts,
  steal and guests; all eleven together do, but for rounding.
* A statsd plugin whose `Dial` failed, because a name did not resolve, say, panics at
  the first number of a round: the client keeps the nil connection and writes to it
  (`vendor/github.com/etsy/statsd/examples/go/statsd.go:33`, `:175`).
* One NaN of an application makes the librato plugin lose a whole round, and a
  record without container id ends a plugin that polls.
* Between list and requests the janitor may evict objects of containers that run, if
  polls have been missed; a round lacks them then.
* Metrics are left out of a scrape of the Prometheus endpoint when sanitising makes
  them equal: two labels of a metric that become one, or a tag with the name of a
  dimension, may hide another metric of the same name.  So do two metric names that
  become one, and one name used for the node, a container and an application: the kind
  of a metric is no label.  `ScrapeComplete` is about metrics of one name and one kind.
* A reset of the framework collector's byte count that races with a read can be
  undone by it; the connection is then throttled for another period.

## 4. What is proved

Every invariant and every safety action property that a passing run checks is a
theorem as well, for all values of the constants that satisfy the `ASSUME`s of the
modules: any containers, ports and parameters with `start < end`, any number of
crashes and faults, of threads, calls, connections, polls and messages, any sizes,
limits and periods.  Three theorems need more and say so as a hypothesis of their own
(`PortsGivenOnce`, `JanitorKeepsUp`, `ExpirySuffices`); `PROJECT.json` lists each with the property it states.

**ContainerAssigner_proofs.**

* `TypeCorrect`, `PutNeverAborts` (`NeverFatal`), `PoolExact`
  (`PoolMatchesReaders`), `PortsExclusive` and `RecoveryFresh`, from one inductive
  invariant.  That `put` is never called with a foreign port needs that every
  reader's port is marked and in range; that closing one reader unmarks exactly its
  port needs that no two readers share one; and that `insert_container`, which
  overwrites an existing reader without closing it, does no harm needs that it is
  only called for containers without a reader.  This in turn holds because a
  recovery job is only ever in the queue behind nothing: the actor accepts no other
  call before `recover`.  The strategies' part (`PortsInv`) is proved once per
  strategy operation, as lemmas.
* `ReadersNeverLeak` (`ReadersTracked`).  `TrackInv` says that whatever will yet
  open a reader (a job in the queue, a recovery under way) is tracked as the reader
  would be, and that a register job of a container that is not tracked any more is
  followed by its unregister job.
* `ToldPortsSurvive` and `RecoveredReadersAgree`, from `ToldInv`: what phases go
  with which jobs (`LifeInv`, `JobsInv`), and that what a recovery removes is dead,
  what it registers anew was told no port, and what it inserts goes to the port that
  was told (`RecoveryInv`).
* `PortsGivenOnce` (`EachIsGivenADifferentPort`), under the hypothesis
  `Undisturbed`: opens and the disk do not fail and no agent is in single-port mode.
  Without it the property is false, see above.  `PlaceInv` says that entries of
  living containers name different ports, and that after a recovery each is held by
  a reader or lies outside the range from which ports are now taken.

**SyncUtil_proofs.**  `FramesSafe` (`NoWildWrite`) and `ResultsFresh`
(`NoStaleResult`).  The invariant says that the outstanding tickets are exactly
those of the calls in scope, that tickets are not used twice, and that a job whose
ticket belongs to a thread's current call is a job of that call.  `Refinement`
(`ImplementsContract`): `SyncUtil` implements `SyncCall`, step by step.  It needs in
addition which calls have run and that each is in the queue at most once
(`CallsInv`, `QueueInv`).

**MetricsStore_proofs.**  `JanitorKeepsUp`: if the lag of a message is not itself
longer than the expiry (`LagCovered`), `StaleBounded` holds, whether or not polls
miss containers.  `ExpirySuffices`: for the HTTP producer, if polls report every
container and `Slack` holds (two polls, the storing of a message, a janitor run
and a second of rounding fit into one poll period), `NoGaps` holds: doubling the
poll period is exactly what pays for those delays.  The invariant keeps track of
who is on time (`Timing`), of what the latest janitor run has left (`Swept`) and
of how old the data of running containers can be (`Fresh`).

**TcpSender_proofs.**  `Typed`, `SenderNeverStuck` (`NeverStuck`),
`HeaderAlwaysFirst` (`HeaderFirst`) and `PendingAlwaysExact` (`PendingExact`).  What
makes them hard are the handlers of cancelled operations, which run among those of
the next attempt.  `AttemptInv` says that at most one attempt is under way in one of
its forms (timer, connect, handler), and that the writes of a lost connection are
over before the next attempt succeeds: a partial write that still wants to continue
stands in the queue before the attempt.  On it rests `HeaderInv`: a buffer that is
written is the rest of the header, or data behind the header, and until the header
is out nothing else is.  `PendingInv` compares sums: bytes are pending only while
data is accepted, and those are the data of outstanding writes and of completed ones
whose handlers wait; `close` moves all of the former to the latter.

**ContainerReader_proofs.**  `ChunkAlwaysSound` (`ChunkSound`),
`SocketAlwaysFollows` (`SocketFollowsLookups`), and `MapBounded`: types, and that the
map of the collector writer never holds more than its capacity.  The count that its
constructor leaves uninitialised may wrap to 0 once; so the invariant allows the map
to be one ahead of the count, and requires the count to be below the capacity when
there is anything in the map.  The destination needs that a host which is an address
resolves to nothing else.

**Service_proofs**, first for `Service`:

* `BroadcastInOrder`: the select loop and `broadcast` implement the safety part of
  `OrderedBroadcast` (the run checks the fair one), and `BacklogBounded`
  (`OnlyOneUnderWay`).  `PipelineInv` knows from the loop's index what each producer
  lacks.
* `StartedComplete` (`RunsComplete`), from what each stage of start-up has
  established (`StartInv`) and that nobody sends before (`SendersStarted`).
* `NodeNeverTorn` (`NodeWhole`) and `SharesOfOneWhole` (`SharesAddUp`), the latter
  for any counters that do not decrease: each of the eleven shares is within half a
  hundredth of a percent of its quotient (`Near`), multiplied by the total gain these
  are the gains (`TotalOfProducts`), and so the total is at most 5 away from 10000, in
  hundredths of a percent.

Then for `Collectors`:

* `ThrottleHolds` (`ThrottleBounds`) and `DropsJustified` (`DropsOnlyOverLimit`).
  The counter is not exact, because reset and addition race; `ThrottleInv` says by
  how much it can be too low, and that it is exact without a race.
* `FailuresCarryNothing` (`FailedCarriesNothing`) and `SenderTagsWin`
  (`SenderTagsKept`), for any sequences of tags and datapoints: what the loops have done
  up to an index.  Of the loop over datapoints: before a malformed one it has them all
  in a list of its own, behind it it has failed, and it never touches the message
  (`AfterPoints`).
* `NoGhostsEver` (`NoGhosts`) and `TasksNeverOutdated` (`TaskNotOutdated`), from how
  old what the collector knows may be at each step of a poll (`AgentInv`), and from
  which executor a message's container was found by.
* `StatisticsNeverMixed` (`OwnStatistics`), whatever parts the answers lack.  What an
  element of the array keeps of earlier answers is older than the latest one
  (`OlderThan`), so it is never a neighbour's of the same answer; and what the answer
  has is decoded over it (`DecodeOlder`).

**Plugin_proofs.**  `PluginAlwaysSurvives` (`PluginSurvives`), `RoundAlwaysCovers`
(`RoundCovers`), `NeverCollateral` (`NoCollateral`) and `ScrapeAlwaysComplete`
(`ScrapeComplete`).  The argument: what the producer keeps was fed to it (`StoreInv`),
only containers that were listed are asked for (`CourseInv`), and a key that has been
stored ever since the ids were listed belongs to a container that is still to be asked
for, or is in the round (`CoverInv`).  What a connector loses is bounded connector by
connector (`SentInv`).  For the scrape: if no two labels of a name become one, padded
and sanitised labels determine the labels, and those the tags that have a value.

**Iteration.**  The library's induction theorems quantify over operators, which the
provers here cannot instantiate.  But loops of the code are loops over indices, and
for these a first-order form is enough: a set that has 0 and with each index its
successor has all of them (`IndexInduction`, from the well-foundedness of the
numbers); a loop whose turns, given as functions, keep its accumulator in a set has
such an accumulator (`LoopExists`), and what each turn preserves it has at the end
(`LoopInvariant`).  For this reason the loops over tags, array elements and entries,
and sums (`Sums`), are recursive functions of an index in the models.  What is known
of sums (`SumJoined` and its neighbours) is proved here, too.

Only model-checked: liveness, that is `KeepsConnectionAlive`, `HungConnectsEnd`,
`DataMovesOn`, `PrepareReturns`, `CallsReturn`, `DeadContainersForgotten` and the
fairness part of `ImplementsBroadcast`.  Liveness under fairness, and `ENABLED`, are
beyond the prover.

The type invariants of `AgentCollector`, `FrameworkCollector`, `NodeCollector`,
`StartUp`, `MetricsApi`, `Plugin` and `Pipeline` are in their modules for the reader;
no run lists them, as the other invariants of those runs say more, and the inductive
invariants contain the types that their proofs need.

## 5. What is not modelled, and the plan

Left out, with the reason:

* **Texts**: statsd tagging (`statsd_tagger.cpp`; only that tags make an entry
  longer is kept), `getTopic`, the names and titles that plugins build, and that the
  prometheus plugin and the statsd client print such texts as formats (`Fprintf`).
  They are editing of strings, one function at a time; of Prometheus' sanitising only
  which names change, and into which, is kept, as a parameter.
* **The Avro encoding**: the library's, from generated code.
* **The destructors of the output writers and of the UDP sender**, which cancel a
  timer, and handlers that run on an object that is gone.
* **Endpoints that read one store once**: the single-metric endpoint, `ping`, the
  debug router and the profiler.
* **Values and names of metrics**: the host's readings but for the CPU counters, what
  datapoints a group has, and units.  So it is not seen that the container datapoints
  `net.tx.*` are read from the `NetRx` fields (`agent/metrics.go:240-258`).  A time is
  there or not, and old or not, as the plugins tell it apart.
* **CPU counters that decrease**, as iowait may on Linux.
* **The exit of the HTTP client on status 401**, and executor labels of the agent
  collector, which are attached like those of tasks.
* **Scrapes of the prometheus plugin**, which write into a map of the snapshot
  they share (`plugins/prometheus/prometheus.go:152`): two at a time end the
  process, which is a race of the Go runtime and not a state of the plugin.
* **Vendored code, examples, build files.**

What could be added, in this order:

1. a composition of `ContainerReader` with `TcpSender` and of that with
   `FrameworkCollector`, so that a datapoint can be followed from a container to the
   service, and what is lost on the way is bounded;
2. a composition of `MetricsStore` (times) with `MetricsApi` (keys);
3. proofs of the type invariants that no theorem states yet.
