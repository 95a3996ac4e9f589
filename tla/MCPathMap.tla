----------------------------- MODULE MCPathMap -----------------------------
(***************************************************************************)
(* Instances of PathMap: hosts e, f, g, h; switches s, t.                  *)
(***************************************************************************)
EXTENDS PathMap, TLC

CONSTANTS a, b, d

\* 0: h to s, 1: s to t, 2: t to g, 3: e to t, 4: f to t.
MCLink == 0..4
MCEnds == 0 :> <<"h", "s">> @@ 1 :> <<"s", "t">> @@ 2 :> <<"t", "g">>
          @@ 3 :> <<"e", "t">> @@ 4 :> <<"f", "t">>

\* Flows from h, e and f to g.  In a tree of more than 256 nodes, the address of f is that
\* of e plus 256: d has the key of b.
MCTuple == a :> <<0, 300, 1, 7>> @@ b :> <<2, 301, 1, 8>> @@ d :> <<258, 301, 1, 8>>
MCPath == a :> <<0, 1, 2>> @@ b :> <<3, 2>> @@ d :> <<4, 2>>
=============================================================================
