----------------------------- MODULE MCService -----------------------------
(***************************************************************************)
(* An instance of Service for TLC.                                         *)
(***************************************************************************)
EXTENDS Service

MCChans == SelectSeq(<<"http", "prometheus", "kafka">>, producerIsConfigured)

MCMaxMessages == [c \in Collectors |-> IF c = "agent" THEN 1 ELSE 2]

MCFlags ==
    {[set |-> [role |-> r], version |-> FALSE, config |-> f, valid |-> TRUE] :
        r \in {"master", "agent", "master agent"}, f \in BOOLEAN} \cup
    {[set |-> <<>>, version |-> FALSE, config |-> TRUE, valid |-> TRUE],
     [set |-> [role |-> "agent"], version |-> TRUE, config |-> FALSE, valid |-> TRUE],
     [set |-> [role |-> "agent", level |-> "warning"], version |-> FALSE, config |-> TRUE,
      valid |-> TRUE],
     [set |-> <<>>, version |-> FALSE, config |-> FALSE, valid |-> FALSE]}

\* One file changes the role, one the poll period behind the default expiry, one
\* the expiry, one has an IAM configuration, one a level that is none.
MCFiles ==
    {[role |-> "agent", iam |-> TRUE], [pollPeriod |-> 2], [expiry |-> 1],
     [pollPeriod |-> 2, expiry |-> 5, iam |-> TRUE], [level |-> "loud"]}

\* No time at all, and shares of all states that are rounded.
MCCpuUse ==
    {[s \in CpuStates |-> 0], [s \in CpuStates |-> IF s \in {"idle", "stolen"} THEN 2 ELSE 3]}

MCBreakages == {{}, {"uptime"}, {"load"}}
=============================================================================
