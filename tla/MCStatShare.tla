---------------------------- MODULE MCStatShare ----------------------------
(***************************************************************************)
(* One rack of two hosts.  e1 and e2 are the edge links of h1 and h2, c1   *)
(* and c2 links further into the network, for which h1 and h2 are          *)
(* responsible.                                                            *)
(***************************************************************************)
EXTENDS StatShare, TLC

CONSTANTS h1, h2, e1, e2, c1, c2, f1, f2, f3

MCHost == {h1, h2}
MCLink == {e1, e2, c1, c2}

\* Two flows of h1 share a link of h2: two subscriptions of one host.
PairFlow == {f1, f2}
PairSrc == f1 :> h1 @@ f2 :> h1
PairEdge == f1 :> e1 @@ f2 :> e1
PairCore == f1 :> {c2} @@ f2 :> {c2}

\* f1 of h1 and f3 of h2 share a link of h2: one asks for it, the other manages it.
SharedFlow == {f1, f3}
SharedSrc == f1 :> h1 @@ f3 :> h2
SharedEdge == f1 :> e1 @@ f3 :> e2
SharedCore == f1 :> {c2} @@ f3 :> {c2}

\* Two flows of h1 and one of h2, all over c2.
TrioFlow == {f1, f2, f3}
TrioSrc == f1 :> h1 @@ f2 :> h1 @@ f3 :> h2
TrioEdge == f1 :> e1 @@ f2 :> e1 @@ f3 :> e2
TrioCore == f1 :> {c2} @@ f2 :> {c2} @@ f3 :> {c2}
\* f1 and f2 differ in nothing but their name.
TrioSymmetry == Permutations({f1, f2})

\* Two flows of h1 over a link that h1 manages itself.
OwnFlow == {f1, f2}
OwnSrc == f1 :> h1 @@ f2 :> h1
OwnEdge == f1 :> e1 @@ f2 :> e1
OwnCore == f1 :> {c1} @@ f2 :> {c1}

MCResp == [h \in MCHost |-> e1 :> h1 @@ e2 :> h2 @@ c1 :> h1 @@ c2 :> h2]
MCCapacity == [l \in MCLink |-> 3]
=============================================================================
