---------------------------- MODULE MCSchedulers ----------------------------
(***************************************************************************)
(* Instances of Schedulers for TLC.                                        *)
(***************************************************************************)
EXTENDS Schedulers

\* Nine different times make the calendar grow; the tenth event ties with an earlier one.
Crowded == [times |-> <<1, 3, 4, 6, 8, 9, 11, 13, 3, 14>>, before |-> 10]
Sparse == [times |-> <<4, 2, 4>>, before |-> 2]

MCScripts == {Crowded, Sparse}
MCMaxSets == [s \in MCScripts |-> IF s = Crowded THEN 1 ELSE 3]
MCRevoked == {3}
\* At 3, a Tcl callback may schedule events before the one that the loop has looked at.
MCTimesOfDay == {2, 3, 12}
MCDelays == {0, 3}
MCWidths == {1, 3}
Sym == Permutations(Timers)
=============================================================================
