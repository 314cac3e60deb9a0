---------------------------- MODULE NodeCollector ----------------------------
(***************************************************************************)
(* The node collector (collectors/node): a goroutine that asks the host    *)
(* for its metrics, one group after the other, sends them, and sleeps.     *)
(* Only this goroutine uses the state, so a poll is one step.              *)
(***************************************************************************)
EXTENDS Integers, Sequences, FiniteSets, FiniteSetsExt, Functions

CONSTANTS
    CpuUse,        \* what the CPU counters may gain between two polls
    Breakages      \* sets of groups that fail in one poll

\* Where the time of a CPU goes: the counters of gopsutil's TimesStat.
CpuStates ==
    {"user", "system", "nice", "iowait", "irq", "softirq", "steal", "guest", "guestNice",
     "idle", "stolen"}

ASSUME NodeAssumption == CpuUse \subseteq [CpuStates -> Nat]

VARIABLES
    GOOS,          \* "linux" or "windows"
    polls,         \* polls so far, which is also the time
    cpu,           \* the host's CPU counters
    lastCPU,       \* lastCPU.times
    nodeMetrics,   \* latest metrics of the collector: groups and when they were read
    shares,        \* the CPU shares among them, in hundredths of a percent
    messageTime    \* Timestamp of the message that is sent

nodeVars == <<GOOS, polls, cpu, lastCPU, nodeMetrics, shares, messageTime>>

nodeMetricPollers ==
    <<"uptime", "cpu", "load", "filesystem", "memory", "network", "process">>

NodeTypeOK ==
    /\ GOOS \in {"linux", "windows"}
    /\ polls \in Nat
    /\ cpu \in [CpuStates -> Nat] /\ lastCPU \in [CpuStates -> Nat]
    /\ \A g \in nodeMetrics : g.at \in 1 .. polls
    /\ shares \in [CpuStates -> Nat]
    /\ messageTime \in 0 .. polls

NodeInit ==
    /\ GOOS \in {"linux", "windows"}
    /\ polls = 0
    /\ cpu = [s \in CpuStates |-> 0]
    /\ lastCPU = cpu                       \* init(): the counters at the start
    /\ nodeMetrics = {}
    /\ shares = [s \in CpuStates |-> 0]
    /\ messageTime = 0

(***************************************************************************)
(* CPU shares.                                                             *)
(***************************************************************************)
Total(times) ==
    times["user"] + times["system"] + times["nice"] + times["iowait"] + times["irq"]
    + times["softirq"] + times["steal"] + times["guest"] + times["guestNice"]
    + times["idle"] + times["stolen"]

\* Floor of a quotient whose divisor may be negative.
Quotient(a, b) == IF b > 0 THEN a \div b ELSE (-a) \div (-b)

\* Mutant: a divisor of zero is left to the caller, who gets one hundred percent.
FormatPctOfZero(f, div) ==
    IF div = 0 THEN 10000 ELSE Max({Quotient(20000 * f + div, 2 * div), 0})

\* In hundredths: floor(f / div * 10000 + .5), and at least 0.
formatPct(f, div) ==
    LET d == IF div = 0 THEN 1 ELSE div
    IN  Max({Quotient(20000 * f + d, 2 * d), 0})

\* Its caller passes the current times as lastTimes and the last ones as curTimes,
\* so all differences are negative.
calculatePcts(lastTimes, curTimes) ==
    [s \in CpuStates |->
        formatPct(curTimes[s] - lastTimes[s], Total(curTimes) - Total(lastTimes))]

(***************************************************************************)
(* The collector.                                                          *)
(***************************************************************************)

\* Groups that getNodeMetrics gets to poll: it returns at the first error, except
\* on Windows, where groups that fail are left out.
Polled(broken) ==
    IF GOOS = "windows" THEN Range(nodeMetricPollers) \ broken
    ELSE {nodeMetricPollers[i] : i \in {i \in DOMAIN nodeMetricPollers :
                                            \A j \in 1 .. i : nodeMetricPollers[j] \notin broken}}

Failed(broken) == GOOS # "windows" /\ broken # {}

getNodeMetrics(broken, at) == {[group |-> p, at |-> at] : p \in Polled(broken)}

\* Mutant: what was read before the error is taken.
NodeMetricsPartly(broken, at) == getNodeMetrics(broken, at)

\* After an error the metrics of an earlier poll stay.
NodeMetricsAfter(broken, at) ==
    IF Failed(broken) THEN nodeMetrics ELSE getNodeMetrics(broken, at)

\* pollHost and transform: the message has the time of this poll in any case.
\* The last CPU times are those of this poll once its group was polled.
pollHost(broken, use) ==
    LET now == [s \in CpuStates |-> cpu[s] + use[s]]
        sampled == "cpu" \in Polled(broken)
    IN  /\ polls' = polls + 1
        /\ messageTime' = polls'
        /\ cpu' = now
        /\ lastCPU' = IF sampled THEN now ELSE lastCPU
        /\ shares' = IF sampled /\ ~Failed(broken) THEN calculatePcts(now, lastCPU) ELSE shares
        /\ nodeMetrics' = NodeMetricsAfter(broken, polls')
        /\ UNCHANGED GOOS

NodeNext == \E broken \in Breakages, use \in CpuUse : pollHost(broken, use)

(***************************************************************************)
(* Properties.                                                             *)
(***************************************************************************)

\* A poll that fails half-way, or several of them, never tears the metrics: they
\* are all of one poll, with its time, and all there are (but on Windows).
NodeWhole ==
    \E at \in 0 .. polls, groups \in {{}, Range(nodeMetricPollers)} :
        IF GOOS = "windows" THEN \A g \in nodeMetrics : g.at = at
        ELSE nodeMetrics = {[group |-> p, at |-> at] : p \in groups}

\* CPU shares are shares, whatever sits between two samples: polls that failed
\* before or after the CPU, or no time at all.  All of them together are the whole,
\* but for half a hundredth of a percent each; the ones that are reported, cpu.user,
\* cpu.system, cpu.idle and cpu.wait, are at most that, and what they lack of it was
\* spent in the other states.
SharesAddUp ==
    /\ Total(shares) = 0 \/ Total(shares) \in 10000 - 5 .. 10000 + 5
    /\ shares["user"] + shares["system"] + shares["idle"] + shares["iowait"] <= 10000 + 2
=============================================================================
