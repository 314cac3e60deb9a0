---------------------------- MODULE MCCollectors ----------------------------
(***************************************************************************)
(* An instance of Collectors for TLC.                                      *)
(***************************************************************************)
EXTENDS Collectors

CONSTANTS c1, c2, c3, e, e3, f, k1

\* One executor may be launched again, in c2; the other is a custom one.
MCContainers == {c1, c2, c3}
MCFrameworkOf == [c \in MCContainers |-> f]
MCExecutorOf == [c \in MCContainers |-> IF c = c3 THEN e3 ELSE e]
MCTasked == {c1, c2}
\* The container that comes later has no statistics of block devices.
MCOmissions == [c \in MCContainers |-> IF c = c2 THEN {{"blkio"}} ELSE {{}}]
MCConns == {k1}
MCTaskLabels == {"team", "DCOS_PACKAGE_SOURCE"}
MCCosmosLabels == {"DCOS_PACKAGE_SOURCE"}

\* A plain record with a value that JSON lacks and with a tag of the sender, one of a
\* custom executor, and the ways in which a record can be unusable.
MCRecords == {
    [of |-> c1, tags |-> <<"container_id", "team">>, points |-> <<"float", "NaN">>],
    [of |-> c3, tags |-> <<"framework_id", "container_id">>, points |-> <<"float">>],
    [of |-> c1, tags |-> <<"container_id", "malformed">>, points |-> <<"float">>],
    [of |-> c1, tags |-> <<"container_id">>, points |-> <<"float", "malformed">>],
    [of |-> c1, tags |-> <<"container_id">>, points |-> <<"Inf">>],
    [of |-> c1, tags |-> <<"container_id">>, points |-> <<"no list">>]}
=============================================================================
