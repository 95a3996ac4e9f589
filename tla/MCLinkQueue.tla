---------------------------- MODULE MCLinkQueue ----------------------------
(***************************************************************************)
(* Instances of LinkQueue for TLC.                                         *)
(***************************************************************************)
EXTENDS LinkQueue

MCTxTimes == {0, 2}
MCDelays == {0, 2}
MCLimits == {2, 4}
=============================================================================
