---------------------------- MODULE MCTcpSender ----------------------------
(***************************************************************************)
(* Windows of 0, 1 and 3 packets: nothing may be sent, one packet at a     *)
(* time, and enough behind a lost packet for duplicate acknowledgements.   *)
(***************************************************************************)
EXTENDS TcpSender

MCShares == {0, 1, 3}
=============================================================================
