----------------------------- MODULE MCSyncUtil -----------------------------
(***************************************************************************)
(* Instances of SyncUtil for TLC.                                          *)
(***************************************************************************)
EXTENDS SyncUtil

CONSTANTS t1, t2

MCThreads == {t1, t2}
MCTimed == {t1}
=============================================================================
