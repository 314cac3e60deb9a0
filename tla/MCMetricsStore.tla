--------------------------- MODULE MCMetricsStore ---------------------------
(***************************************************************************)
(* Instances of MetricsStore for TLC.                                      *)
(***************************************************************************)
EXTENDS MetricsStore

CONSTANTS k1, k2

MCKeys == {k1, k2}
=============================================================================
