---------------------------- MODULE MetricsStore ----------------------------
(***************************************************************************)
(* A metrics producer's store (producers/http/http.go; the Prometheus      *)
(* producer's is "borrowed wholesale" from it): the goroutine that writes  *)
(* received messages, datapoint by datapoint, and the janitor goroutine    *)
(* that evicts what has not been written for CacheExpiry.  The Mesos agent *)
(* collector's polling loop (collectors/mesos/agent/agent.go) feeds it.    *)
(*                                                                         *)
(* Time counts in ticks.  MetricsMessage.Timestamp is in whole seconds, so *)
(* it is rounded down.  The three goroutines run as fast as the constants  *)
(* FetchTime, StoreTime and JanitorTime promise: time does not pass while  *)
(* one of them is due.                                                     *)
(***************************************************************************)
EXTENDS Integers

CONSTANTS
    Keys,             \* names of datapoints, each of one container
    Producer,         \* "http" or "prometheus"
    ConfiguredExpiry, \* CacheExpiry, as configured for the producer
    PollPeriod,       \* PollPeriod of the Mesos agent collector
    JanitorInterval,  \* janitorRunInterval
    TicksPerSecond,
    FetchTime,        \* the longest poll, until its message is taken
    StoreTime,        \* the longest writing of a message
    JanitorTime,      \* the longest run of the janitor
    MayMiss,          \* whether a poll may fail to report a running container
    MaxTime           \* bound: length of a behaviour

ASSUME StoreAssumption ==
    /\ Producer \in {"http", "prometheus"}
    /\ ConfiguredExpiry \in Nat
    /\ PollPeriod \in Nat \ {0}
    /\ JanitorInterval \in Nat \ {0}
    /\ TicksPerSecond \in Nat \ {0}
    /\ FetchTime \in Nat /\ StoreTime \in Nat /\ JanitorTime \in Nat
    /\ MayMiss \in BOOLEAN
    /\ MaxTime \in Nat

\* The producer keeps up: messages and janitor runs end before the next ones.
ASSUME PaceAssumption ==
    /\ StoreTime < PollPeriod
    /\ JanitorTime < JanitorInterval

VARIABLES
    now,
    life,        \* key -> whether its container is "new", "running" or "gone"
    fetching,    \* the collector is polling (else it sleeps)
    wake,        \* when its sleep ends
    polledAt,    \* when its latest poll began
    sentAt,      \* when its latest message was taken
    message,     \* Timestamp of the message that is being stored
    pending,     \* datapoints of it that are not stored yet
    store,       \* key -> Timestamp of the stored message, or Absent
    swept,       \* the janitor's copy of the store (Objects()), unvisited part
    sweptAt,     \* when that copy was made
    nextSweep    \* next tick of the janitor's ticker

vars == <<now, life, fetching, wake, polledAt, sentAt, message, pending, store,
          swept, sweptAt, nextSweep>>

Absent == -1

\* time.Unix(): whole seconds.
Unix(t) == t - (t % TicksPerSecond)

\* Mutant: the expiry is not raised to two poll periods.
UnenforcedExpiry == ConfiguredExpiry

\* getNewConfig() raises the HTTP producer's expiry, and only that one's.
CacheExpiry ==
    IF Producer = "http" /\ ConfiguredExpiry < 2 * PollPeriod
    THEN 2 * PollPeriod
    ELSE ConfiguredExpiry

TypeOK ==
    /\ now \in Nat
    /\ life \in [Keys -> {"new", "running", "gone"}]
    /\ fetching \in BOOLEAN
    /\ wake \in Nat
    /\ polledAt \in Nat
    /\ sentAt \in Nat
    /\ message \in Nat
    /\ pending \subseteq Keys
    /\ store \in [Keys -> Nat \cup {Absent}]
    /\ swept \in [Keys -> Nat \cup {Absent}]
    /\ sweptAt \in Nat
    /\ nextSweep \in Nat

Init ==
    /\ now \in 0 .. TicksPerSecond - 1
    /\ life \in [Keys -> {"new", "running"}]
    /\ fetching = FALSE
    /\ wake = now
    /\ polledAt = now
    /\ sentAt = now
    /\ message = Unix(now)
    /\ pending = {}
    /\ store = [k \in Keys |-> Absent]
    /\ swept = [k \in Keys |-> Absent]
    /\ sweptAt = now
    /\ nextSweep = now + JanitorInterval

(***************************************************************************)
(* Containers.                                                             *)
(***************************************************************************)
Begin(k) ==
    /\ life[k] = "new"
    /\ life' = [life EXCEPT ![k] = "running"]
    /\ UNCHANGED <<now, fetching, wake, polledAt, sentAt, message, pending, store,
                   swept, sweptAt, nextSweep>>

End(k) ==
    /\ life[k] = "running"
    /\ life' = [life EXCEPT ![k] = "gone"]
    /\ UNCHANGED <<now, fetching, wake, polledAt, sentAt, message, pending, store,
                   swept, sweptAt, nextSweep>>

(***************************************************************************)
(* The collector: RunPoller.                                               *)
(***************************************************************************)
Poll ==
    /\ ~fetching /\ now >= wake
    /\ fetching' = TRUE
    /\ polledAt' = now
    /\ UNCHANGED <<now, life, wake, sentAt, message, pending, store, swept, sweptAt,
                   nextSweep>>

Running == {k \in Keys : life[k] = "running"}

\* The producer's goroutine takes the message, the collector goes to sleep.
Send(reported) ==
    /\ fetching /\ pending = {}
    /\ reported \subseteq Running
    /\ ~MayMiss => reported = Running
    /\ fetching' = FALSE
    /\ wake' = now + PollPeriod
    /\ sentAt' = now
    /\ message' = Unix(polledAt)
    /\ pending' = reported
    /\ UNCHANGED <<now, life, polledAt, store, swept, sweptAt, nextSweep>>

(***************************************************************************)
(* The producer.                                                           *)
(***************************************************************************)
writeObjectToStore(k) ==
    /\ k \in pending
    /\ store' = [store EXCEPT ![k] = message]
    /\ pending' = pending \ {k}
    /\ UNCHANGED <<now, life, fetching, wake, polledAt, sentAt, message, swept,
                   sweptAt, nextSweep>>

Sweeping == \E k \in Keys : swept[k] # Absent

\* The janitor's ticker fires: copy the store.
JanitorStart ==
    /\ now >= nextSweep /\ ~Sweeping
    /\ swept' = store
    /\ sweptAt' = now
    /\ nextSweep' = nextSweep + JanitorInterval
    /\ UNCHANGED <<now, life, fetching, wake, polledAt, sentAt, message, pending, store>>

\* Mutant: an object expires only when its age has doubled.
ExpiredAtDouble(timestamp) == now - timestamp > 2 * CacheExpiry

Expired(timestamp) == now - timestamp > CacheExpiry

\* The janitor looks at the copy and deletes from the store.
JanitorVisit(k) ==
    /\ swept[k] # Absent
    /\ swept' = [swept EXCEPT ![k] = Absent]
    /\ store' = IF Expired(swept[k]) THEN [store EXCEPT ![k] = Absent] ELSE store
    /\ UNCHANGED <<now, life, fetching, wake, polledAt, sentAt, message, pending,
                   sweptAt, nextSweep>>

(***************************************************************************)
(* The clock.                                                              *)
(***************************************************************************)
Tick ==
    /\ now < MaxTime
    /\ IF fetching THEN now < polledAt + FetchTime ELSE now < wake
    /\ pending # {} => now < sentAt + StoreTime
    /\ Sweeping => now < sweptAt + JanitorTime
    /\ now < nextSweep
    /\ now' = now + 1
    /\ UNCHANGED <<life, fetching, wake, polledAt, sentAt, message, pending, store,
                   swept, sweptAt, nextSweep>>

Next ==
    \/ \E k \in Keys : Begin(k) \/ End(k) \/ writeObjectToStore(k) \/ JanitorVisit(k)
    \/ Poll
    \/ \E reported \in SUBSET Keys : Send(reported)
    \/ JanitorStart
    \/ Tick

Spec == Init /\ [][Next]_vars

(***************************************************************************)
(* Properties.                                                             *)
(***************************************************************************)

\* config.go: expiries are set "to avoid missing data for long-running tasks".
\* What is stored of a container stays stored as long as the container runs.
NoGaps ==
    [][\A k \in Running : store[k] # Absent => store'[k] # Absent]_vars

\* What a container that is gone left behind does not stay: an object is never
\* older than the expiry, plus the time from one run of the janitor to the end
\* of the next.
StaleBounded ==
    \A k \in Keys : store[k] # Absent =>
        now - store[k] <= CacheExpiry + JanitorInterval + JanitorTime
=============================================================================
