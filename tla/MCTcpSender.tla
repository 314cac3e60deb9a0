---------------------------- MODULE MCTcpSender -----------------------------
(***************************************************************************)
(* Instances of TcpSender for TLC.                                         *)
(***************************************************************************)
EXTENDS TcpSender

MCBlockSizes == {1, 2}
MCOneSize == {2}
=============================================================================
