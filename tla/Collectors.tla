----------------------------- MODULE Collectors -----------------------------
(***************************************************************************)
(* The Mesos agent collector and the framework collector together.  They   *)
(* share ContainerTaskRels: the poller replaces its map, the goroutines of *)
(* the connections look containers up in it, at any time in between.       *)
(***************************************************************************)
EXTENDS AgentCollector

CONSTANTS Conns, Records, TaskLabels, cosmosLabels, InputLimit, ReadAhead, MaxRecords

ASSUME FrameworkAssumption ==
    /\ IsFiniteSet(Conns)
    /\ InputLimit \in Nat
    /\ ReadAhead \in Nat \ {0}
    /\ MaxRecords \in Nat
    /\ \A r \in Records : r.tags \in Seq(STRING) /\ r.points \in Seq(STRING)

VARIABLES listening, conn

Framework == INSTANCE FrameworkCollector WITH
    rels <- rels, listening <- listening, conn <- conn

collectorsVars == <<agentVars, listening, conn>>

CollectorsInit == AgentInit /\ Framework!FrameworkInit

\* The listener's goroutines; they only read rels.
Apps ==
    /\ Framework!FrameworkNext
    /\ UNCHANGED <<life, goneIn, pc, poll, agentState, array, len, fetched, out>>

Agent == AgentNext /\ UNCHANGED <<listening, conn>>

CollectorsNext == Agent \/ Apps

CollectorsSpec == CollectorsInit /\ [][CollectorsNext]_collectorsVars

(***************************************************************************)
(* Properties.                                                             *)
(***************************************************************************)

CollectorsTypeOK == AgentTypeOK /\ Framework!FrameworkTypeOK

\* Records that transform() rejects leave nothing in the stores.
FailedCarriesNothing == Framework!FailedCarriesNothing

\* handleConnection lets no more through in a period than its limit and what had
\* been read before.
ThrottleBounds == Framework!ThrottleBounds

\* Tags of the sender survive the labels of the task that extract() looks up.
SenderTagsKept == Framework!SenderTagsKept

\* handleConnection drops a record only in a period with too many of them.
DropsOnlyOverLimit == Framework!DropsOnlyOverLimit

\* The task of an application's metrics is looked up in relations that may be
\* old, and that a failed poll empties.  Still, when a task is named, its container
\* had not ended before the poll that made them, which is the latest one from update()
\* on, and the one before it until then.
TaskNotOutdated ==
    [][\A k \in Conns :
        LET m == conn'[k].out
            made == IF pc \in {"state", "rels"} THEN poll - 1 ELSE poll
        IN  conn[k].at = "limit" /\ conn'[k].at = "send" /\ m.task =>
                goneIn[m.of] = 0 \/ goneIn[m.of] >= made]_collectorsVars
=============================================================================
