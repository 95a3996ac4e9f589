----------------------------- MODULE MCRouting -----------------------------
(***************************************************************************)
(* Two networks in one instance: a square s, a, t, z with the diagonal     *)
(* from s to t, where a lost link leaves s with two routes of equal cost,  *)
(* and a triangle q, x, y with the tail u, where metrics count to INFINITY *)
(* in spite of poisoned reverse.  The destination tells which of them is   *)
(* at work.                                                                *)
(***************************************************************************)
EXTENDS Routing

CONSTANTS s, a, z, t, q, x, y, u

MCNode == {s, a, z, t, q, x, y, u}
MCNbr ==
    (s :> {a, z, t}) @@ (a :> {s, t}) @@ (z :> {s, t}) @@ (t :> {s, a, z})
    @@ (u :> {q}) @@ (q :> {u, x, y}) @@ (x :> {q, y}) @@ (y :> {q, x})
MCDest == {t, u}
MCDynamic == {{s, t}, {a, t}, {z, t}, {q, u}}
=============================================================================
