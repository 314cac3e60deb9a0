-------------------------- MODULE MCAgentCollector --------------------------
(***************************************************************************)
(* An instance of AgentCollector for TLC.                                  *)
(***************************************************************************)
EXTENDS AgentCollector

CONSTANTS c1, c2, f

MCContainers == {c1, c2}
MCFrameworkOf == [c \in MCContainers |-> f]
MCExecutorOf == [c \in MCContainers |-> c]
MCOmissions == [c \in MCContainers |-> {{}, Parts}]
=============================================================================
