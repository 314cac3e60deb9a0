------------------------- MODULE MCContainerReader -------------------------
(***************************************************************************)
(* An instance of ContainerReader for TLC.                                 *)
(***************************************************************************)
EXTENDS ContainerReader

CONSTANTS c1

MCContainers == {c1}

\* Two entries, and one that is too big: for a chunk, or for a packet once the ids
\* of a container are added.
MCPackets == {<<1, 2>>, <<7>>}
=============================================================================
