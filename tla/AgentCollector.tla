--------------------------- MODULE AgentCollector ---------------------------
(***************************************************************************)
(* The Mesos agent collector (collectors/mesos/agent): it polls /state and *)
(* /containers of the local Mesos agent, maps containers to tasks for the  *)
(* framework collector (ContainerTaskRels), and turns every container's    *)
(* statistics into a message.  The agent goes on launching and ending      *)
(* containers between the two requests, and either request may fail.       *)
(*                                                                         *)
(* containerMetrics is decoded into again at every poll.  As Go's          *)
(* encoding/json does it, element i of the new array is decoded into       *)
(* element i of the old backing array, also beyond the old length: a field *)
(* the JSON does not mention keeps its old value.  Only a longer array     *)
(* than fits adds zeroed elements, and only an empty one drops them all.   *)
(***************************************************************************)
EXTENDS Naturals, Sequences, FiniteSets, SequencesExt

CONSTANTS
    Containers,      \* container ids
    FrameworkOf,     \* container -> framework that launched it
    ExecutorOf,      \* container -> id of its executor; launched again, an executor
                     \* has its id still, in a new container
    Tasked,          \* the ones that run a task (a custom executor runs none)
    Omissions,       \* container -> the sets of parts of "statistics" that
                     \* /containers may leave out of it
    FetchMayFail,    \* whether a request may fail
    MaxPolls         \* bound: polls

\* Parts of resourceStatistics; an isolator of the agent supplies all of a part's
\* fields, or none.
Parts == {"processes", "cpus", "mem", "disk", "net", "blkio"}

ASSUME CollectorAssumption ==
    /\ IsFiniteSet(Containers)
    /\ Tasked \subseteq Containers
    /\ Omissions \in [Containers -> SUBSET SUBSET Parts]
    /\ FetchMayFail \in BOOLEAN
    /\ MaxPolls \in Nat

VARIABLES
    life,        \* container -> "new", "running" or "gone" on the Mesos agent
    goneIn,      \* container -> the poll it ended in, or 0
    pc,          \* the next step of pollMesosAgent, or "send"
    poll,        \* number of the current poll; stands for c.timestamp, too
    agentState,  \* containers whose executors are listed in c.agentState
    rels,        \* containers that ContainerTaskRels has a task for
    array,       \* backing array of c.containerMetrics
    len,         \* its length
    fetched,     \* the latest /containers response
    out          \* messages still to be sent

agentVars == <<life, goneIn, pc, poll, agentState, rels, array, len, fetched, out>>

None == [of |-> "none", at |-> 0]

\* A value is known by whose it is and in which poll it was taken.
Sample == {None} \cup [of : Containers, at : 1 .. MaxPolls]

\* A nil pointer.
NoStatistics == [p \in Parts |-> None]

Zero == [id |-> "none", stats |-> NoStatistics]

IsEntry(e) == e.id \in Containers /\ e.stats \in [Parts -> Sample]

IsMessage(m) ==
    /\ m.id \in Containers
    /\ DOMAIN m.datapoints \subseteq Parts
    /\ \A p \in DOMAIN m.datapoints : m.datapoints[p] \in Sample
    /\ m.poll \in 1 .. MaxPolls
    /\ m.task \in BOOLEAN

AgentTypeOK ==
    /\ life \in [Containers -> {"new", "running", "gone"}]
    /\ goneIn \in [Containers -> 0 .. MaxPolls]
    /\ pc \in {"state", "rels", "containers", "messages", "send"}
    /\ poll \in 1 .. MaxPolls
    /\ agentState \subseteq Containers
    /\ rels \subseteq Tasked
    /\ \A i \in DOMAIN array : array[i] = Zero \/ IsEntry(array[i])
    /\ len \in 0 .. Len(array)
    /\ \A i \in DOMAIN fetched : IsEntry(fetched[i])
    /\ \A i \in DOMAIN out : IsMessage(out[i])

Running == {c \in Containers : life[c] = "running"}

SameExecutor(c, d) == FrameworkOf[c] = FrameworkOf[d] /\ ExecutorOf[c] = ExecutorOf[d]

AgentInit ==
    /\ life \in [Containers -> {"new", "running"}]
    /\ \A c, d \in Running : SameExecutor(c, d) => c = d
    /\ goneIn = [c \in Containers |-> 0]
    /\ pc = "state"
    /\ poll = 1
    /\ agentState = {}
    /\ rels = {}
    /\ array = <<>>
    /\ len = 0
    /\ fetched = <<>>
    /\ out = <<>>

(***************************************************************************)
(* The Mesos agent.                                                        *)
(***************************************************************************)
\* An executor runs in one container at a time.
Launch(c) ==
    /\ life[c] = "new"
    /\ \A d \in Running : ~SameExecutor(c, d)
    /\ life' = [life EXCEPT ![c] = "running"]
    /\ UNCHANGED <<goneIn, pc, poll, agentState, rels, array, len, fetched, out>>

Finish(c) ==
    /\ life[c] = "running"
    /\ life' = [life EXCEPT ![c] = "gone"]
    /\ goneIn' = [goneIn EXCEPT ![c] = poll]
    /\ UNCHANGED <<pc, poll, agentState, rels, array, len, fetched, out>>

\* The possible answers to /containers: every running container, in any order.
Responses ==
    {[i \in 1 .. Cardinality(Running) |->
        [id |-> order[i],
         stats |-> [p \in Parts |->
             IF p \in lacking[order[i]] THEN None ELSE [of |-> order[i], at |-> poll]]]] :
     order \in SetToSeqs(Running),
     lacking \in {l \in [Running -> UNION Range(Omissions)] :
                     \A c \in Running : l[c] \in Omissions[c]}}

(***************************************************************************)
(* pollMesosAgent.                                                         *)
(***************************************************************************)

\* Mutant: the old state is kept when the request fails.
StateKept == agentState

StateAfterFailure == {}

\* getAgentState: c.agentState is emptied first.
getAgentState ==
    /\ pc = "state"
    /\ pc' = "rels"
    /\ \/ agentState' = Running
       \/ FetchMayFail /\ agentState' = StateAfterFailure
    /\ UNCHANGED <<life, goneIn, poll, rels, array, len, fetched, out>>

\* ContainerTaskRels.update
update ==
    /\ pc = "rels"
    /\ pc' = "containers"
    /\ rels' = agentState \cap Tasked
    /\ UNCHANGED <<life, goneIn, poll, agentState, array, len, fetched, out>>

\* Decoding an element into an old one.
Decode(old, new) ==
    [id |-> new.id,
     stats |-> [p \in Parts |->
         IF new.stats[p] = None THEN old.stats[p] ELSE new.stats[p]]]

Old(i) == IF i <= Len(array) THEN array[i] ELSE Zero

\* getContainerMetrics
getContainerMetrics ==
    /\ pc = "containers"
    /\ pc' = "messages"
    /\ \/ \E response \in Responses :
              /\ fetched' = response
              /\ len' = Len(response)
              /\ array' = IF response = <<>> THEN <<>>
                          ELSE [i \in 1 .. IF Len(response) > Len(array)
                                           THEN Len(response) ELSE Len(array) |->
                                   IF i <= Len(response)
                                   THEN Decode(Old(i), response[i])
                                   ELSE array[i]]
       \/ FetchMayFail /\ UNCHANGED <<array, len, fetched>>
    /\ UNCHANGED <<life, goneIn, poll, agentState, rels, out>>

\* Parts that always have datapoints, zero values where the agent gave none.
addDps(e) == Parts \ {"blkio"}

\* Block devices have datapoints if the agent lists them.
deviceStatsToDatapoints(e) == {p \in {"blkio"} : e.stats[p] # None}

\* Mutant: the statistics are reached through a pointer to the loop's variable.
DatapointsOfLast(e) ==
    [p \in addDps(e) \cup deviceStatsToDatapoints(e) |-> array[len].stats[p]]

\* The datapoints and their values, by part.
createContainerDatapoints(e) ==
    [p \in addDps(e) \cup deviceStatsToDatapoints(e) |-> e.stats[p]]

\* The executors of a framework in the state; none if it is not listed.
getFrameworkInfoByFrameworkID(f) == {c \in agentState : FrameworkOf[c] = f}

\* The executor of that id, known by its container in the state; at most one of a
\* framework's.  It need not be the container that is looked up.
getExecutorInfoByExecutorID(e, executors) == {d \in executors : ExecutorOf[d] = e}

\* getTaskInfoByContainerID: the executor's tasks that run in this container.
HasTaskInfo(c, executor) == c \in executor /\ c \in Tasked

Executor(c) ==
    getExecutorInfoByExecutorID(ExecutorOf[c], getFrameworkInfoByFrameworkID(FrameworkOf[c]))

\* The containers metricsMessages() skips have no statistics, or no framework
\* or executor in the state.
Reports(e) == e.stats # NoStatistics /\ Executor(e.id) # {}

Message(e) ==
    [id |-> e.id, datapoints |-> createContainerDatapoints(e), poll |-> poll,
     task |-> HasTaskInfo(e.id, Executor(e.id))]

metricsMessages ==
    /\ pc = "messages"
    /\ pc' = "send"
    /\ LET msgs[i \in 0 .. len] ==
               IF i = 0 THEN <<>>
               ELSE IF Reports(array[i]) THEN Append(msgs[i - 1], Message(array[i]))
               ELSE msgs[i - 1]
       IN  out' = msgs[len]
    /\ UNCHANGED <<life, goneIn, poll, agentState, rels, array, len, fetched>>

\* The channel takes the next message.
Send ==
    /\ pc = "send" /\ out # <<>>
    /\ out' = Tail(out)
    /\ UNCHANGED <<life, goneIn, pc, poll, agentState, rels, array, len, fetched>>

\* The sleep ends, the next poll begins.
NextPoll ==
    /\ pc = "send" /\ out = <<>> /\ poll < MaxPolls
    /\ pc' = "state"
    /\ poll' = poll + 1
    /\ UNCHANGED <<life, goneIn, agentState, rels, array, len, fetched, out>>

AgentNext ==
    \/ \E c \in Containers : Launch(c) \/ Finish(c)
    \/ getAgentState
    \/ update
    \/ getContainerMetrics
    \/ metricsMessages
    \/ Send
    \/ NextPoll

AgentSpec == AgentInit /\ [][AgentNext]_agentVars

(***************************************************************************)
(* Properties.                                                             *)
(***************************************************************************)
AgentMessages == {out[i] : i \in DOMAIN out}

\* What e, a container's entry or its datapoints, says of part p agrees with f, what
\* /containers answered of it: its own values where there are some, and otherwise
\* none that the same answer has for another container.
OwnPart(f, stats, p) ==
    IF f.stats[p] # None THEN p \in DOMAIN stats /\ stats[p] = f.stats[p]
    ELSE p \in DOMAIN stats /\ stats[p] # None =>
             \A i \in DOMAIN fetched : stats[p] # fetched[i].stats[p]

\* However containers change their number and their places from poll to poll, whichever
\* of them lack block devices, and although the array that is decoded into is used
\* again, a message is that of one container of the latest answer of /containers, with
\* all that the answer says of it.  A part that it lacks may be an old one's, never
\* that of its neighbour.
OwnStatistics ==
    \A m \in AgentMessages : \E i \in DOMAIN fetched :
        /\ fetched[i].id = m.id
        /\ \A p \in Parts : OwnPart(fetched[i], m.datapoints, p)

\* When /containers fails, the collector keeps the containers of an earlier poll.
\* A message speaks for one that was gone before this poll began only if its executor
\* was launched again, in another container that the state lists.  And a task is
\* named only of a container that was not gone, and that the framework collector
\* can name it for, too.
NoGhosts ==
    \A m \in AgentMessages :
        LET gone == goneIn[m.id] \notin {0, m.poll}
        IN  /\ gone => \E d \in agentState \ {m.id} : SameExecutor(d, m.id)
            /\ m.task => m.id \in rels /\ ~gone

\* agent.go: if a container "did not supply any statistics", then "no metrics
\* message will be sent".
NoStatisticsNoMessage ==
    \A m \in AgentMessages : \E i \in DOMAIN fetched :
        fetched[i].id = m.id /\ fetched[i].stats # NoStatistics
=============================================================================
