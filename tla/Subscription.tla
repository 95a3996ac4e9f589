---------------------------- MODULE Subscription ----------------------------
(***************************************************************************)
(* What statistics sharing promises one host about one link of a rack peer *)
(* when no request is lost: the peer's count is always a value that the    *)
(* host's own number of flows had, and it goes through these values in     *)
(* order, one at a time, missing none.                                     *)
(***************************************************************************)
EXTENDS Integers, Sequences

VARIABLES
    want,    \* number of the host's flows over the link
    seen,    \* the peer's count for the host
    lag      \* values of want that the peer has yet to see, oldest first

subVars == <<want, seen, lag>>

Init == want = 0 /\ seen = 0 /\ lag = <<>>

\* A flow starts or ends.
Change ==
    /\ want' \in {want + 1, want - 1} \cap Nat
    /\ lag' = Append(lag, want')
    /\ UNCHANGED seen

\* The peer hears of the next value.
Learn ==
    /\ lag # <<>>
    /\ seen' = Head(lag)
    /\ lag' = Tail(lag)
    /\ UNCHANGED want

Next == Change \/ Learn

Spec == Init /\ [][Next]_subVars
=============================================================================
