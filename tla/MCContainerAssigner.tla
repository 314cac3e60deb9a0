------------------------ MODULE MCContainerAssigner -------------------------
(***************************************************************************)
(* Instances of ContainerAssigner for TLC.                                 *)
(***************************************************************************)
EXTENDS ContainerAssigner

RangeConfig == [mode |-> "range", start |-> 1, end |-> 2]
EphemeralConfig == [mode |-> "ephemeral"]
SingleConfig == [mode |-> "single", port |-> 3]

MCContainers == 1 .. 3
MCTwoContainers == 1 .. 2
MCPorts == 1 .. 3
MCAllConfigs == {RangeConfig, EphemeralConfig, SingleConfig}
MCRangeConfigs == {RangeConfig}
MCPerContainerConfigs == {RangeConfig, EphemeralConfig}
MCDebugContainers == {3}
MCNoDebug == {}
MCFilename == [c \in Containers |-> <<"file", c>>]
=============================================================================
