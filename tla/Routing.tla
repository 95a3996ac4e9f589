------------------------------ MODULE Routing ------------------------------
(***************************************************************************)
(* Routes of the simulated network: distance-vector routing (rtObject,     *)
(* Agent/rtProto/Direct and Agent/rtProto/DV of                            *)
(* tcl/rtglib/route-proto.tcl) and the multi-path classifiers into which a *)
(* node puts the routes of equal cost (tcl/lib/ns-node.tcl, classifier.cc  *)
(* and classifier-mpath.cc).  The scripts ask for "rtproto DV" and         *)
(* multiPath_ 1.                                                           *)
(*                                                                         *)
(* A node knows for each neighbour the metrics it last heard, keeps for    *)
(* each destination the neighbours of least metric, and tells its          *)
(* neighbours when its routes change, and from time to time.  Updates wait *)
(* in the links' queues and may be lost; links go down, which empties      *)
(* them, and come up.                                                      *)
(*                                                                         *)
(* The model follows one destination, any of Dest.  Destinations only      *)
(* share updates: one that is sent because of another destination is like  *)
(* a periodic one, and computing a route again from the same metrics does  *)
(* not change it.  What DV keeps about the node itself as a destination is *)
(* left out, since rtObject does not look at it.                           *)
(*                                                                         *)
(* Next hops are named by the neighbour.  Metrics of peers have the cost   *)
(* of the link, 1, added.  DV's preference_ is the same for all peers.     *)
(***************************************************************************)
EXTENDS Integers, Sequences, FiniteSets, SequencesExt

CONSTANTS
    Node,         \* nodes
    Nbr,          \* Nbr[n]: neighbor_ of node n
    Dest,         \* destinations to follow
    INFINITY,     \* INFINITY
    Dynamic,      \* the links of an rtmodel, which may change
    MaxInFlight,  \* bound: updates in one direction of a link
    MaxChanges,   \* bound: how often links go down and come up
    None          \* an empty slot

Channel == {p \in Node \X Node : p[1] \in Nbr[p[2]]}
Link == {{c[1], c[2]} : c \in Channel}

ASSUME RoutingAssumption ==
    /\ IsFiniteSet(Node) /\ Dest \subseteq Node /\ None \notin Node
    /\ Nbr \in [Node -> SUBSET Node]
    /\ \A n \in Node : n \notin Nbr[n] /\ \A m \in Nbr[n] : n \in Nbr[m]
    /\ INFINITY \in Nat /\ INFINITY > 1 /\ Dynamic \subseteq Link
    /\ MaxInFlight \in Nat /\ MaxChanges \in Nat

VARIABLES
    dst,      \* the destination
    up,       \* the links that are up
    changes,  \* how often links have changed
    peer,     \* peer[n][m]: metric_ of peer m at node n
    dv,       \* dv[n]: nextHop_ and metric_ of DV at n
    rt,       \* rt[n]: nextHop_, metric_ and rtVia_ of rtObject at n
    table,    \* table[n]: whether mpathClsfr_ exists, and its slots, or the one route in
              \* the node's classifier
    wire      \* wire[<<m, n>>]: updates on their way from m to n

vars == <<dst, up, changes, peer, dv, rt, table, wire>>

NoRoute == [nextHop |-> <<>>, metric |-> -1, via |-> "none"]
Local == [nextHop |-> <<>>, metric |-> 0, via |-> "Local"]

\* Agent/rtProto/Direct compute-routes: a neighbour whose link is in u.
Direct(n, u) == IF dst \in Nbr[n] /\ {dst, n} \in u THEN <<dst>> ELSE <<>>

\* After init-all of rtObject and DV.
Init ==
    /\ dst \in Dest /\ up = Link /\ changes = 0
    /\ peer = [n \in Node |-> [m \in Nbr[n] |-> INFINITY]]
    /\ dv = [n \in Node |-> [nextHop |-> <<>>, metric |-> -1]]
    /\ rt = [n \in Node |->
                IF dst = n THEN Local
                ELSE IF dst \in Nbr[n] THEN [nextHop |-> <<dst>>, metric |-> 1, via |-> "Direct"]
                ELSE NoRoute]
    /\ table = [n \in Node |->
                   [multi |-> FALSE, slots |-> IF dst \in Nbr[n] THEN <<dst>> ELSE <<>>]]
    /\ wire = [c \in Channel |-> <<>>]

-----------------------------------------------------------------------------
(***************************************************************************)
(* DV compute-routes.  New next hops come in the order of a Tcl array,     *)
(* that is, in any.                                                        *)
(***************************************************************************)
Least(pm) == CHOOSE x \in {pm[m] : m \in DOMAIN pm} \cup {INFINITY} :
                 \A m \in DOMAIN pm : x <= pm[m]

\* Those of the next hops old that remain among nh come first in s, in their order.
KeepsOrder(s, old, nh) ==
    LET kept == SelectSeq(old, LAMBDA m : m \in nh)
    IN  SubSeq(s, 1, Len(kept)) = kept

\* Mutant: neighbours one farther count as equal.
DVRoutesLoose(e, pm) ==
    LET metric == IF e.nextHop = <<>> THEN e.metric ELSE pm[Head(e.nextHop)]
        mt == Least(pm)
        nh == {m \in DOMAIN pm : pm[m] < INFINITY /\ pm[m] <= mt + 1}
    IN  IF mt >= INFINITY \/ (metric >= 0 /\ mt > metric)
        THEN {[nextHop |-> e.nextHop, metric |-> metric]}
        ELSE {[nextHop |-> s, metric |-> mt] : s \in SetToSeqs(nh)}

\* Mutant: a route that is no more is given up.
DVRoutesEmptied(e, pm) ==
    LET mt == Least(pm)
    IN  IF mt >= INFINITY THEN {[nextHop |-> <<>>, metric |-> mt]}
        ELSE {[nextHop |-> s, metric |-> mt] :
                 s \in SetToSeqs({m \in DOMAIN pm : pm[m] = mt})}

\* Mutant: the metric of the next hops is not looked up again.
DVRoutesStale(e, pm) ==
    LET mt == Least(pm)
    IN  IF mt >= INFINITY \/ (e.metric >= 0 /\ mt > e.metric)
        THEN {e}
        ELSE {[nextHop |-> s, metric |-> mt] :
                 s \in SetToSeqs({m \in DOMAIN pm : pm[m] = mt})}

\* What compute-routes may make of the entry e if the peers' metrics are pm.
DVRoutes(e, pm) ==
    LET metric == IF e.nextHop = <<>> THEN e.metric ELSE pm[Head(e.nextHop)]
        mt == Least(pm)
        nh == {m \in DOMAIN pm : pm[m] = mt}
    IN  IF mt >= INFINITY \/ (metric >= 0 /\ mt > metric)
        THEN {[nextHop |-> e.nextHop, metric |-> metric]}
        ELSE {[nextHop |-> s, metric |-> mt] :
                 s \in {s \in SetToSeqs(nh) : mt < metric \/ KeepsOrder(s, e.nextHop, nh)}}

-----------------------------------------------------------------------------
(***************************************************************************)
(* Node add-routes and delete-routes, on the classifiers' slots.  Every    *)
(* add-routes follows a delete-routes, which leaves routes_ at 0 or below  *)
(* as long as there is no multi-path classifier: nothing is migrated.      *)
(***************************************************************************)
\* Classifier::clear of the slots of ifs: maxslot_ falls to the last that is filled.
Cleared(slots, ifs) ==
    LET left == [i \in DOMAIN slots |-> IF slots[i] \in ToSet(ifs) THEN None ELSE slots[i]]
        last == Max({0} \cup {i \in DOMAIN slots : left[i] # None})
    IN  SubSeq(left, 1, last)

\* Mutant: only the slot of the first interface is cleared.
DeleteRoutesFirst(t, ifs) ==
    [multi |-> t.multi, slots |-> IF t.multi THEN Cleared(t.slots, SubSeq(ifs, 1, 1)) ELSE <<>>]

DeleteRoutes(t, ifs) ==
    [multi |-> t.multi, slots |-> IF t.multi THEN Cleared(t.slots, ifs) ELSE <<>>]

AddRoutes(t, ifs) ==
    [multi |-> t.multi \/ Len(ifs) > 1, slots |-> t.slots \o ifs]

\* MultiPathForwarder::classify: the slot for the hash ms, or the next that is filled.
Classify(slots, ms) ==
    LET size == Len(slots)
        probe(i) == (ms + i) % size
        filled == {i \in 0..(size - 1) : slots[probe(i) + 1] # None}
    IN  probe(IF filled = {} THEN size - 1 ELSE Min(filled))

-----------------------------------------------------------------------------
(***************************************************************************)
(* rtObject compute-routes, with the links u up and the entry v of DV      *)
(***************************************************************************)
\* The best route that the protocols have: Direct has the better preference_.
Best(n, v, u) ==
    IF dst = n THEN Local
    ELSE IF Direct(n, u) # <<>> THEN [nextHop |-> <<dst>>, metric |-> 1, via |-> "Direct"]
    ELSE IF v.nextHop # <<>> THEN [nextHop |-> v.nextHop, metric |-> v.metric, via |-> "DV"]
    ELSE NoRoute

\* The next hops that are taken out for a route b: if it is of another protocol, the ones
\* that the old protocol has now.
Replaced(n, v, u, b) ==
    IF b.via = rt[n].via \/ b.nextHop = <<>> THEN rt[n].nextHop
    ELSE IF rt[n].via = "Direct" THEN Direct(n, u)
    ELSE IF rt[n].via = "DV" THEN v.nextHop ELSE <<>>

Installed(n, v, u) ==
    LET b == Best(n, v, u)
    IN  IF b.via = rt[n].via /\ b.nextHop = rt[n].nextHop
        THEN table[n]
        ELSE AddRoutes(DeleteRoutes(table[n], Replaced(n, v, u, b)), b.nextHop)

\* DV send-to-peer: split horizon with poisoned reverse.
UpdateFor(m, r) ==
    IF r.metric < 0 \/ m \in ToSet(r.nextHop) THEN INFINITY ELSE r.metric

\* Mutant: the cost of the link is left out.
HeardFree(x) == x

\* The metric of a peer that advertises x.
Heard(x) == IF x + 1 > INFINITY THEN INFINITY ELSE x + 1

\* An update x on its way to a node that has the metric known of its sender.  A full queue
\* drops it.  One that says what the node knows, or will know from the update before it, is
\* left out: recv-update would ignore it.
Queued(q, x, known) ==
    IF \/ Len(q) >= MaxInFlight
       \/ Heard(x) = IF q = <<>> THEN known ELSE Heard(Last(q))
    THEN q ELSE Append(q, x)

\* DV send-updates of the nodes S, to all peers whose link is up; p are the peers' metrics.
\* What the destination itself hears of others is left out.
Sent(w, S, r, u, p) ==
    [c \in Channel |-> IF c[1] \in S /\ c[2] # dst /\ {c[1], c[2]} \in u
                       THEN Queued(w[c], UpdateFor(c[2], r[c[1]]), p[c[2]][c[1]]) ELSE w[c]]

\* compute-routes of DV and rtObject at the nodes S, with the links u up, the peers'
\* metrics p and w on the wires; nodes with a new route send updates.
Recompute(S, p, u, w) ==
    LET computed == [n \in S |-> DVRoutes(dv[n], p[n])]
    IN  /\ peer' = p
        /\ \E v \in [S -> UNION {computed[n] : n \in S}] :
              /\ \A n \in S : v[n] \in computed[n]
              /\ dv' = [n \in Node |-> IF n \in S THEN v[n] ELSE dv[n]]
              /\ rt' = [n \in Node |-> IF n \in S THEN Best(n, v[n], u) ELSE rt[n]]
              /\ table' = [n \in Node |-> IF n \in S THEN Installed(n, v[n], u) ELSE table[n]]
        /\ wire' = Sent(w, {n \in S : rt'[n] # rt[n]}, rt', u, p)

-----------------------------------------------------------------------------
\* send-periodic-update
Periodic(n) ==
    /\ UNCHANGED <<dst, up, changes, peer, dv, rt, table>>
    /\ wire' = Sent(wire, {n}, rt, up, peer)

\* recv-update: an update of m comes to n.
Deliver(m, n) ==
    LET c == <<m, n>>
        metric == Heard(Head(wire[c]))
        w == [wire EXCEPT ![c] = Tail(@)]
    IN  /\ wire[c] # <<>> /\ UNCHANGED <<dst, up, changes>>
        /\ IF metric = peer[n][m]
           THEN wire' = w /\ UNCHANGED <<peer, dv, rt, table>>
           ELSE Recompute({n}, [peer EXCEPT ![n][m] = metric], up, w)

\* The queue of the link drops an update.
Lose(m, n) ==
    /\ wire[<<m, n>>] # <<>>
    /\ wire' = [wire EXCEPT ![<<m, n>>] = Tail(@)]
    /\ UNCHANGED <<dst, up, changes, peer, dv, rt, table>>

\* rtModel down and notify: the link is reset, and its ends forget each other's metrics.
LinkDown(l) ==
    /\ changes < MaxChanges /\ l \in up
    /\ up' = up \ {l} /\ changes' = changes + 1 /\ dst' = dst
    /\ Recompute(l, [n \in Node |-> [m \in Nbr[n] |-> IF {m, n} = l THEN INFINITY ELSE peer[n][m]]],
                 up \ {l},
                 [c \in Channel |-> IF {c[1], c[2]} = l THEN <<>> ELSE wire[c]])

\* rtModel up and notify.
LinkUp(l) ==
    /\ changes < MaxChanges /\ l \notin up
    /\ up' = up \cup {l} /\ changes' = changes + 1 /\ dst' = dst
    /\ Recompute(l, peer, up \cup {l}, wire)

Next ==
    \/ \E n \in Node : Periodic(n)
    \/ \E c \in Channel : Deliver(c[1], c[2]) \/ Lose(c[1], c[2])
    \/ \E l \in Dynamic : LinkDown(l) \/ LinkUp(l)

Spec == Init /\ [][Next]_vars

\* The timers of periodic updates are set again whenever they fire, and links do not lose
\* every update: strong fairness of Deliver, which is enabled while an update is on its way.
Fairness ==
    /\ WF_vars(\E n \in Node : Periodic(n))
    /\ \/ <>[](\A c \in Channel : wire[c] = <<>>)
       \/ []<><<\E c \in Channel : Deliver(c[1], c[2])>>_vars

FairSpec == Spec /\ Fairness

-----------------------------------------------------------------------------
(***************************************************************************)
(* Properties                                                              *)
(***************************************************************************)
NextHops(n) == ToSet(rt[n].nextHop)

\* What a node's own metric is to others.
Value(n) == IF rt[n].metric < 0 THEN INFINITY ELSE rt[n].metric

\* The variables have their types; metrics do not exceed INFINITY.
TypeOK ==
    /\ dst \in Dest /\ up \subseteq Link /\ changes \in 0..MaxChanges
    /\ \A n \in Node :
          /\ peer[n] \in [Nbr[n] -> 0..INFINITY]
          /\ dv[n] \in [nextHop : Seq(Nbr[n]), metric : -1..INFINITY]
          /\ rt[n] \in [nextHop : Seq(Nbr[n]), metric : -1..INFINITY,
                        via : {"none", "Local", "Direct", "DV"}]
          /\ table[n] \in [multi : BOOLEAN, slots : Seq(Nbr[n] \cup {None})]
    /\ wire \in [Channel -> Seq(0..INFINITY)]

\* As long as no link has changed, every next hop is nearer to the destination than the node
\* by its own metric, whatever updates are lost or late: packets do not go in circles.
NoLoops == changes = 0 => \A n \in Node : \A m \in NextHops(n) : Value(m) < Value(n)

\* The nodes at the end of a walk of k links from d, with all links up.
Walks(d, k) ==
    {w \in [0..k -> Node] : w[0] = d /\ \A i \in 1..k : w[i] \in Nbr[w[i - 1]]}

Reached == [d \in Dest |-> [k \in 0..(INFINITY - 1) |-> {w[k] : w \in Walks(d, k)}]]

\* No metric is below the distance: there is a way to the destination of as many links as a
\* node's metric says, updates that are late and links that have failed included.
NeverTooShort == \A n \in Node : Value(n) < INFINITY => n \in Reached[dst][Value(n)]

\* The slots of a classifier are the next hops, each once and in order.  Before them, only a
\* multi-path classifier at a neighbour has slots for the link to the destination, which
\* delete-routes has missed because Direct no longer had the route: at most one for each time
\* that the link has recovered and failed again, after it has failed once.
SlotsAreNextHops ==
    \A n \in Node :
        LET slots == table[n].slots
            stale == Len(slots) - Len(rt[n].nextHop)
        IN  /\ stale >= 0
            /\ slots = [i \in 1..stale |-> dst] \o rt[n].nextHop
            /\ stale > 0 => 2 * stale + 1 <= changes /\ dst \in Nbr[n] /\ table[n].multi

\* A multi-path classifier has a filled slot for every hash: classify does not divide by
\* zero and never drops a packet.
HashFindsSlot ==
    \A n \in Node : table[n].multi =>
        LET slots == table[n].slots
        IN  /\ slots # <<>>
            /\ \A ms \in 0..Len(slots) : slots[Classify(slots, ms) + 1] \in Nbr[n]

\* Every node is one link farther from the destination than the nearest of its neighbours,
\* and has all of those as next hops: only the distances solve these equations.
Settled ==
    \A n \in Node \ {dst} :
        LET via == [m \in {m \in Nbr[n] : {m, n} \in up} |-> Value(m) + 1]
            near == Least(via)
        IN  /\ Value(n) = near
            /\ near < INFINITY => NextHops(n) = {m \in DOMAIN via : via[m] = near}

\* Once links stop changing, routes settle, although updates are lost and metrics may have
\* to count up to INFINITY.
Converges == <>[]Settled
=============================================================================
