----------------------------- MODULE MCMapping -----------------------------
(***************************************************************************)
(* Two racks of two hosts, and five links: one at each of three hosts and  *)
(* two between switches.                                                   *)
(***************************************************************************)
EXTENDS Mapping

MCLink == 0..4
MCHostLinks == [h \in Host |-> IF h < 3 THEN {h} ELSE {}]
=============================================================================
