--------------------------- MODULE RoutingProofs ---------------------------
(***************************************************************************)
(* Proofs about Routing, for any network and any bounds: metrics are never *)
(* too short; as long as links do not change, updates that are late or     *)
(* lost do not make loops; and the slots of a classifier are the next hops *)
(* of its route, so that every hash finds one.                             *)
(***************************************************************************)
EXTENDS Routing, TLAPS, FiniteSetTheorems, SequenceTheorems, WellFoundedInduction

Metric == 0..INFINITY
DVEntry(S) == [nextHop : Seq(S), metric : -1..INFINITY]
Route(S) == [nextHop : Seq(S), metric : -1..INFINITY, via : {"none", "Local", "Direct", "DV"}]
Slots(S) == [multi : BOOLEAN, slots : Seq(S \cup {None})]

\* TypeOK says nothing of the nodes for which there are metrics of peers.
TypeInv == TypeOK /\ DOMAIN peer = Node

\* The metric of a route or entry to others.
ValueOf(r) == IF r.metric < 0 THEN INFINITY ELSE r.metric

-----------------------------------------------------------------------------
(***************************************************************************)
(* Operators                                                               *)
(***************************************************************************)
LEMMA LeastOfSet ==
    ASSUME NEW S, S \subseteq Nat, S # {}
    PROVE  \E x \in S : \A y \in S : x <= y
<1>1. PICK x \in S : \A y \in S : ~(<<y, x>> \in OpToRel(<, Nat))
  BY NatLessThanWellFounded, WFMin
<1>2. \A y \in S : ~(y < x)
  BY <1>1 DEF OpToRel
<1>3. QED
  BY <1>2

LEMMA GreatestOfSet ==
    ASSUME NEW k \in Nat, NEW S, S \subseteq 0..k, S # {}
    PROVE  Max(S) \in S /\ \A y \in S : Max(S) >= y
<1> DEFINE T == {k - y : y \in S}
<1>1. T \subseteq Nat /\ T # {}
  <2>1. \A y \in S : k - y \in Nat
    OBVIOUS
  <2>2. QED
    BY <2>1
<1>2. PICK x \in T : \A y \in T : x <= y
  BY <1>1, LeastOfSet
<1>3. PICK z \in S : x = k - z
  BY <1>2
<1>4. \A y \in S : z >= y
  <2> TAKE y \in S
  <2>1. k - y \in T
    OBVIOUS
  <2>2. k - z <= k - y /\ y \in 0..k /\ z \in 0..k
    BY <1>2, <1>3, <2>1
  <2>3. QED
    BY <2>2
<1>5. QED
  BY <1>3, <1>4 DEF Max

LEMMA LeastMetric ==
    ASSUME NEW S, NEW pm \in [S -> Metric]
    PROVE  /\ Least(pm) \in Metric
           /\ \A m \in S : Least(pm) <= pm[m]
           /\ Least(pm) = INFINITY \/ \E m \in S : pm[m] = Least(pm)
<1> DEFINE T == {pm[m] : m \in DOMAIN pm} \cup {INFINITY}
<1>1. INFINITY \in Nat
  BY RoutingAssumption
<1>2. T \subseteq Metric /\ T # {} /\ T \subseteq Nat
  BY <1>1 DEF Metric
<1>3. PICK x \in T : \A y \in T : x <= y
  BY <1>2, LeastOfSet
<1>4. \A m \in DOMAIN pm : x <= pm[m]
  BY <1>3
<1>5. Least(pm) \in T /\ \A m \in DOMAIN pm : Least(pm) <= pm[m]
  BY <1>3, <1>4 DEF Least
<1>6. QED
  BY <1>2, <1>5

LEMMA NextHopsInOrder ==
    ASSUME NEW S, IsFiniteSet(S), NEW s \in SetToSeqs(S)
    PROVE  /\ s \in Seq(S) /\ ToSet(s) \subseteq S
           /\ S # {} => s # <<>>
<1>1. Cardinality(S) \in Nat
  BY FS_CardinalityType
<1>2. s \in [1..Cardinality(S) -> S]
  BY DEF SetToSeqs
<1>3. s \in Seq(S) /\ Len(s) = Cardinality(S)
  BY <1>1, <1>2
<1>4. ToSet(s) \subseteq S
  BY <1>2 DEF ToSet
<1>5. S # {} => Cardinality(S) # 0
  BY FS_EmptySet
<1>6. QED
  BY <1>3, <1>4, <1>5

\* What DV compute-routes may result in: the entry as it was, with the metric that its
\* first next hop has now, or neighbours of least metric.
LEMMA DVRoutesCases ==
    ASSUME NEW S, IsFiniteSet(S), NEW e \in DVEntry(S), NEW pm \in [S -> Metric],
           NEW v \in DVRoutes(e, pm)
    PROVE  LET metric == IF e.nextHop = <<>> THEN e.metric ELSE pm[Head(e.nextHop)]
           IN  /\ metric \in -1..INFINITY
               /\ \/ /\ v = [nextHop |-> e.nextHop, metric |-> metric]
                     /\ \/ Least(pm) = INFINITY
                        \/ metric >= 0 /\ Least(pm) > metric
                  \/ /\ v.metric = Least(pm) /\ Least(pm) < INFINITY
                     /\ v.nextHop \in Seq(S) /\ v.nextHop # <<>>
                     /\ \A m \in ToSet(v.nextHop) : m \in S /\ pm[m] = Least(pm)
                     /\ v = [nextHop |-> v.nextHop, metric |-> v.metric]
<1> DEFINE metric == IF e.nextHop = <<>> THEN e.metric ELSE pm[Head(e.nextHop)]
           mt == Least(pm)
           nh == {m \in DOMAIN pm : pm[m] = mt}
<1>1. INFINITY \in Nat
  BY RoutingAssumption
<1>2. e.nextHop \in Seq(S) /\ e.metric \in -1..INFINITY
  BY DEF DVEntry
<1>3. metric \in -1..INFINITY
  <2>1. CASE e.nextHop = <<>>
    BY <1>2, <2>1
  <2>2. CASE e.nextHop # <<>>
    <3>1. Head(e.nextHop) \in S
      BY <1>2, <2>2
    <3>2. pm[Head(e.nextHop)] \in Metric
      BY <3>1
    <3>3. QED
      BY <1>1, <2>2, <3>2 DEF Metric
  <2>3. QED
    BY <2>1, <2>2
<1>4. mt \in Metric /\ (mt = INFINITY \/ \E m \in S : pm[m] = mt)
  BY LeastMetric
<1>5. CASE mt >= INFINITY \/ (metric >= 0 /\ mt > metric)
  <2>1. v = [nextHop |-> e.nextHop, metric |-> metric]
    BY <1>5 DEF DVRoutes
  <2>2. mt >= INFINITY => mt = INFINITY
    BY <1>1, <1>4 DEF Metric
  <2>3. QED
    BY <1>3, <1>5, <2>1, <2>2
<1>6. CASE ~(mt >= INFINITY \/ (metric >= 0 /\ mt > metric))
  <2>1. PICK s \in SetToSeqs(nh) : v = [nextHop |-> s, metric |-> mt]
    BY <1>6 DEF DVRoutes
  <2>2. nh \subseteq S /\ IsFiniteSet(nh)
    BY FS_Subset
  <2>3. nh # {} /\ mt < INFINITY
    BY <1>1, <1>4, <1>6 DEF Metric
  <2>4. s \in Seq(nh) /\ ToSet(s) \subseteq nh /\ s # <<>>
    BY <2>2, <2>3, NextHopsInOrder
  <2>5. s \in Seq(S)
    BY <2>2, <2>4, SeqMonotonic
  <2>6. v.nextHop = s /\ v.metric = mt
    BY <2>1
  <2>7. \A m \in ToSet(v.nextHop) : m \in S /\ pm[m] = Least(pm)
    BY <2>4, <2>6
  <2>8. QED
    BY <1>3, <2>1, <2>3, <2>4, <2>5, <2>6, <2>7
<1>7. QED
  BY <1>5, <1>6

LEMMA DVRoutesTyped ==
    ASSUME NEW S, IsFiniteSet(S), NEW e \in DVEntry(S), NEW pm \in [S -> Metric],
           NEW v \in DVRoutes(e, pm)
    PROVE  v \in DVEntry(S)
<1> DEFINE metric == IF e.nextHop = <<>> THEN e.metric ELSE pm[Head(e.nextHop)]
<1>1. /\ metric \in -1..INFINITY
      /\ \/ v = [nextHop |-> e.nextHop, metric |-> metric]
         \/ /\ v.metric = Least(pm) /\ v.nextHop \in Seq(S)
            /\ v = [nextHop |-> v.nextHop, metric |-> v.metric]
  BY DVRoutesCases
<1>2. Least(pm) \in -1..INFINITY
  BY LeastMetric, RoutingAssumption DEF Metric
<1>3. e.nextHop \in Seq(S)
  BY DEF DVEntry
<1> HIDE DEF metric
<1>4. QED
  BY <1>1, <1>2, <1>3 DEF DVEntry

LEMMA ClearedTyped ==
    ASSUME NEW S, NEW slots \in Seq(S \cup {None}), NEW ifs
    PROVE  Cleared(slots, ifs) \in Seq(S \cup {None})
<1> DEFINE left == [i \in DOMAIN slots |-> IF slots[i] \in ToSet(ifs) THEN None ELSE slots[i]]
           F == {0} \cup {i \in DOMAIN slots : left[i] # None}
<1>1. Len(slots) \in Nat /\ DOMAIN slots = 1..Len(slots)
  OBVIOUS
<1>2. \A i \in 1..Len(slots) : slots[i] \in S \cup {None}
  OBVIOUS
<1>3. left \in [1..Len(slots) -> S \cup {None}]
  BY <1>1, <1>2
<1>4. left \in Seq(S \cup {None}) /\ Len(left) = Len(slots)
  BY <1>1, <1>3
<1>5. F \subseteq 0..Len(slots) /\ F # {}
  BY <1>1
<1> HIDE DEF F
<1>6. Max(F) \in 0..Len(slots)
  BY <1>1, <1>5, GreatestOfSet
<1> HIDE DEF left
<1>7. SubSeq(left, 1, Max(F)) \in Seq(S \cup {None})
  BY <1>1, <1>4, <1>6
<1>8. Cleared(slots, ifs) = SubSeq(left, 1, Max(F))
  BY DEF Cleared, left, F
<1>9. QED
  BY <1>7, <1>8

LEMMA TableTyped ==
    ASSUME NEW S, NEW tb \in Slots(S), NEW old, NEW ifs \in Seq(S)
    PROVE  AddRoutes(DeleteRoutes(tb, old), ifs) \in Slots(S)
<1>1. tb.multi \in BOOLEAN /\ tb.slots \in Seq(S \cup {None})
  BY DEF Slots
<1>2. DeleteRoutes(tb, old) \in Slots(S)
  <2>1. Cleared(tb.slots, old) \in Seq(S \cup {None})
    BY <1>1, ClearedTyped, Zenon
  <2>2. <<>> \in Seq(S \cup {None})
    OBVIOUS
  <2>3. QED
    BY <1>1, <2>1, <2>2 DEF Slots, DeleteRoutes
<1> DEFINE d == DeleteRoutes(tb, old)
<1>3. d.multi \in BOOLEAN /\ d.slots \in Seq(S \cup {None})
  BY <1>2 DEF Slots
<1> HIDE DEF d
<1>4. ifs \in Seq(S \cup {None})
  BY SeqMonotonic
<1>5. d.slots \o ifs \in Seq(S \cup {None}) /\ (d.multi \/ Len(ifs) > 1) \in BOOLEAN
  BY <1>3, <1>4
<1>6. AddRoutes(d, ifs) \in Slots(S)
  BY <1>5 DEF Slots, AddRoutes
<1>7. QED
  BY <1>6 DEF d

LEMMA NbrFacts ==
    ASSUME NEW n \in Node
    PROVE  /\ Nbr[n] \subseteq Node /\ IsFiniteSet(Nbr[n]) /\ n \notin Nbr[n]
           /\ \A m \in Nbr[n] : n \in Nbr[m] /\ <<m, n>> \in Channel /\ <<n, m>> \in Channel
<1>1. Nbr[n] \subseteq Node /\ IsFiniteSet(Node)
  BY RoutingAssumption
<1>2. IsFiniteSet(Nbr[n])
  BY <1>1, FS_Subset
<1>3. n \notin Nbr[n] /\ \A m \in Nbr[n] : n \in Nbr[m]
  BY RoutingAssumption
<1>4. QED
  BY <1>1, <1>2, <1>3 DEF Channel

LEMMA ChannelFacts ==
    ASSUME NEW c \in Channel
    PROVE  /\ c[1] \in Node /\ c[2] \in Node /\ c = <<c[1], c[2]>>
           /\ c[1] \in Nbr[c[2]] /\ c[2] \in Nbr[c[1]]
           /\ <<c[2], c[1]>> \in Channel
<1>1. c[1] \in Node /\ c[2] \in Node /\ c = <<c[1], c[2]>> /\ c[1] \in Nbr[c[2]]
  BY DEF Channel
<1>2. QED
  BY <1>1, NbrFacts

LEMMA UpdateTyped ==
    ASSUME NEW S, NEW r \in Route(S), NEW m
    PROVE  UpdateFor(m, r) \in Metric
BY RoutingAssumption DEF UpdateFor, Route, Metric

LEMMA HeardTyped ==
    ASSUME NEW h \in Metric
    PROVE  Heard(h) \in Metric
BY RoutingAssumption DEF Heard, Metric

\* An update is put at the end of the queue, or not at all.
LEMMA QueuedCases ==
    ASSUME NEW q \in Seq(Metric), NEW h \in Metric, NEW known
    PROVE  /\ Queued(q, h, known) \in Seq(Metric)
           /\ Queued(q, h, known) \in {q, Append(q, h)}
<1>1. Queued(q, h, known) \in {q, Append(q, h)}
  BY DEF Queued
<1>2. Append(q, h) \in Seq(Metric)
  OBVIOUS
<1>3. QED
  BY <1>1, <1>2

\* r is the route that rtObject chooses at n for the destination d, with the entry v of DV.
Chosen(d, n, v, u, r) ==
    \/ d = n /\ r = Local
    \/ /\ d # n /\ d \in Nbr[n] /\ {d, n} \in u
       /\ r = [nextHop |-> <<d>>, metric |-> 1, via |-> "Direct"]
    \/ /\ d # n /\ ~(d \in Nbr[n] /\ {d, n} \in u) /\ v.nextHop # <<>>
       /\ r = [nextHop |-> v.nextHop, metric |-> v.metric, via |-> "DV"]
    \/ /\ d # n /\ ~(d \in Nbr[n] /\ {d, n} \in u) /\ v.nextHop = <<>>
       /\ r = NoRoute

LEMMA BestIsChosen ==
    ASSUME NEW n, NEW v, NEW u
    PROVE  Chosen(dst, n, v, u, Best(n, v, u))
<1>1. Direct(n, u) # <<>> <=> dst \in Nbr[n] /\ {dst, n} \in u
  BY DEF Direct
<1>2. QED
  BY <1>1 DEF Chosen, Best

LEMMA Singleton ==
    ASSUME NEW S, NEW d \in S
    PROVE  <<d>> \in Seq(S)
OBVIOUS

LEMMA ChosenTyped ==
    ASSUME NEW n \in Node, NEW d, NEW v \in DVEntry(Nbr[n]), NEW u, NEW r, Chosen(d, n, v, u, r)
    PROVE  r \in Route(Nbr[n])
<1>1. INFINITY \in Nat /\ INFINITY > 1
  BY RoutingAssumption
<1>2. Local \in Route(Nbr[n]) /\ NoRoute \in Route(Nbr[n])
  BY <1>1 DEF Local, NoRoute, Route
<1>3. ASSUME d \in Nbr[n]
      PROVE  [nextHop |-> <<d>>, metric |-> 1, via |-> "Direct"] \in Route(Nbr[n])
  <2>1. <<d>> \in Seq(Nbr[n])
    BY <1>3, Singleton
  <2>2. QED
    BY <1>1, <2>1 DEF Route
<1>4. [nextHop |-> v.nextHop, metric |-> v.metric, via |-> "DV"] \in Route(Nbr[n])
  BY DEF Route, DVEntry
<1>5. QED
  BY <1>2, <1>3, <1>4 DEF Chosen

-----------------------------------------------------------------------------
(***************************************************************************)
(* Computing routes at the nodes S                                         *)
(***************************************************************************)
\* The parts of Recompute: an entry that DV may compute for each node of S.
LEMMA RecomputeParts ==
    ASSUME NEW S \in SUBSET Node, NEW p, NEW u, NEW w, Recompute(S, p, u, w)
    PROVE  /\ peer' = p
           /\ dv' = [n \in Node |-> dv'[n]] /\ rt' = [n \in Node |-> rt'[n]]
           /\ \A n \in S : /\ dv'[n] \in DVRoutes(dv[n], p[n])
                            /\ Chosen(dst, n, dv'[n], u, rt'[n])
                            /\ \/ table'[n] = table[n]
                               \/ \E old : table'[n] = AddRoutes(DeleteRoutes(table[n], old),
                                                               rt'[n].nextHop)
           /\ \A n \in Node \ S : dv'[n] = dv[n] /\ rt'[n] = rt[n] /\ table'[n] = table[n]
           /\ \E T : wire' = Sent(w, T, rt', u, p)
<1> DEFINE computed == [n \in S |-> DVRoutes(dv[n], p[n])]
<1>1. /\ peer' = p
      /\ wire' = Sent(w, {n \in S : rt'[n] # rt[n]}, rt', u, p)
  BY DEF Recompute
<1>2. PICK v \in [S -> UNION {computed[n] : n \in S}] :
        /\ \A n \in S : v[n] \in computed[n]
        /\ dv' = [n \in Node |-> IF n \in S THEN v[n] ELSE dv[n]]
        /\ rt' = [n \in Node |-> IF n \in S THEN Best(n, v[n], u) ELSE rt[n]]
        /\ table' = [n \in Node |-> IF n \in S THEN Installed(n, v[n], u) ELSE table[n]]
  BY DEF Recompute
<1>3. \A n \in S : dv'[n] = v[n] /\ v[n] \in DVRoutes(dv[n], p[n])
  BY <1>2
<1>4. \A n \in S : rt'[n] = Best(n, dv'[n], u) /\ table'[n] = Installed(n, dv'[n], u)
  BY <1>2, <1>3
<1>4a. ASSUME NEW n \in S
      PROVE  Chosen(dst, n, dv'[n], u, rt'[n])
  BY <1>4, BestIsChosen
<1>4b. ASSUME NEW n \in S
      PROVE  \/ table'[n] = table[n]
             \/ \E old : table'[n] = AddRoutes(DeleteRoutes(table[n], old), rt'[n].nextHop)
  BY <1>4 DEF Installed
<1>5. \A n \in Node \ S : dv'[n] = dv[n] /\ rt'[n] = rt[n] /\ table'[n] = table[n]
  BY <1>2
<1>6. dv' = [n \in Node |-> dv'[n]] /\ rt' = [n \in Node |-> rt'[n]]
  BY <1>2
<1>7. QED
  BY <1>1, <1>3, <1>4a, <1>4b, <1>5, <1>6

\* new is w with the updates of some nodes with the routes r added.
Extends(d, w, r, new) ==
    \A c \in Channel :
        \/ new[c] = w[c]
        \/ c[2] # d /\ new[c] = Append(w[c], UpdateFor(c[2], r[c[1]]))

LEMMA SentCases ==
    ASSUME NEW S, NEW r, NEW u, NEW p, NEW w \in [Channel -> Seq(Metric)],
           \A n \in Node : r[n] \in Route(Nbr[n])
    PROVE  /\ Sent(w, S, r, u, p) \in [Channel -> Seq(Metric)]
           /\ Extends(dst, w, r, Sent(w, S, r, u, p))
<1> DEFINE h(c) == UpdateFor(c[2], r[c[1]])
           q(c) == Queued(w[c], h(c), p[c[2]][c[1]])
           new == Sent(w, S, r, u, p)
<1>1. \A c \in Channel : h(c) \in Metric /\ w[c] \in Seq(Metric)
  <2> TAKE c \in Channel
  <2>1. c[1] \in Node
    BY ChannelFacts
  <2>2. r[c[1]] \in Route(Nbr[c[1]])
    BY <2>1
  <2>3. h(c) \in Metric
    BY <2>2, UpdateTyped
  <2>4. QED
    BY <2>3
<1>2. \A c \in Channel : q(c) \in Seq(Metric) /\ q(c) \in {w[c], Append(w[c], h(c))}
  BY <1>1, QueuedCases
<1>3. new = [c \in Channel |-> IF c[1] \in S /\ c[2] # dst /\ {c[1], c[2]} \in u
                               THEN q(c) ELSE w[c]]
  BY DEF Sent
<1> HIDE DEF q, h, new
<1>4. new \in [Channel -> Seq(Metric)]
  BY <1>1, <1>2, <1>3
<1>5. \A c \in Channel : new[c] = w[c] \/ (c[2] # dst /\ new[c] = Append(w[c], h(c)))
  BY <1>2, <1>3
<1>6. QED
  BY <1>4, <1>5 DEF new, h, Extends

LEMMA RecomputeTyped ==
    ASSUME NEW S \in SUBSET Node, NEW p, NEW u, NEW w \in [Channel -> Seq(Metric)],
           TypeInv, DOMAIN p = Node, \A n \in Node : p[n] \in [Nbr[n] -> Metric],
           Recompute(S, p, u, w)
    PROVE  /\ DOMAIN peer' = Node
           /\ \A n \in Node :
                 /\ peer'[n] \in [Nbr[n] -> Metric]
                 /\ dv'[n] \in DVEntry(Nbr[n])
                 /\ rt'[n] \in Route(Nbr[n])
                 /\ table'[n] \in Slots(Nbr[n])
           /\ wire' \in [Channel -> Seq(Metric)]
<1>1. \A n \in Node : /\ dv[n] \in DVEntry(Nbr[n]) /\ rt[n] \in Route(Nbr[n])
                      /\ table[n] \in Slots(Nbr[n])
  BY DEF TypeInv, TypeOK, DVEntry, Route, Slots
<1>2. \A n \in Node : dv'[n] \in DVEntry(Nbr[n])
  <2> TAKE n \in Node
  <2>1. CASE n \in S
    <3>1. dv'[n] \in DVRoutes(dv[n], p[n])
      BY <2>1, RecomputeParts
    <3>2. IsFiniteSet(Nbr[n]) /\ dv[n] \in DVEntry(Nbr[n]) /\ p[n] \in [Nbr[n] -> Metric]
      BY <1>1, NbrFacts
    <3>3. QED
      BY <3>1, <3>2, DVRoutesTyped
  <2>2. CASE n \notin S
    BY <1>1, <2>2, RecomputeParts
  <2>3. QED
    BY <2>1, <2>2
<1>3. \A n \in Node : rt'[n] \in Route(Nbr[n])
  <2> TAKE n \in Node
  <2>1. CASE n \in S
    <3>1. Chosen(dst, n, dv'[n], u, rt'[n])
      BY <2>1, RecomputeParts
    <3>2. QED
      BY <1>2, <3>1, ChosenTyped
  <2>2. CASE n \notin S
    BY <1>1, <2>2, RecomputeParts
  <2>3. QED
    BY <2>1, <2>2
<1>4. \A n \in Node : table'[n] \in Slots(Nbr[n])
  <2> TAKE n \in Node
  <2>1. CASE n \in S
    <3>1. \/ table'[n] = table[n]
          \/ \E old : table'[n] = AddRoutes(DeleteRoutes(table[n], old), rt'[n].nextHop)
      BY <2>1, RecomputeParts
    <3>2. rt'[n].nextHop \in Seq(Nbr[n]) /\ table[n] \in Slots(Nbr[n])
      BY <1>1, <1>3 DEF Route
    <3>3. \A old : AddRoutes(DeleteRoutes(table[n], old), rt'[n].nextHop) \in Slots(Nbr[n])
      BY <3>2, TableTyped
    <3>4. QED
      BY <3>1, <3>2, <3>3
  <2>2. CASE n \notin S
    BY <1>1, <2>2, RecomputeParts
  <2>3. QED
    BY <2>1, <2>2
<1>5. wire' \in [Channel -> Seq(Metric)]
  <2>1. PICK T : wire' = Sent(w, T, rt', u, p)
    BY RecomputeParts
  <2>2. QED
    BY <1>3, <2>1, SentCases
<1>6. peer' = p
  BY RecomputeParts
<1>7. QED
  BY <1>2, <1>3, <1>4, <1>5, <1>6

LEMMA RecomputeExtends ==
    ASSUME NEW S \in SUBSET Node, NEW p, NEW u, NEW w \in [Channel -> Seq(Metric)],
           TypeInv, DOMAIN p = Node, \A n \in Node : p[n] \in [Nbr[n] -> Metric],
           Recompute(S, p, u, w)
    PROVE  Extends(dst, w, rt', wire')
<1>1. \A n \in Node : rt'[n] \in Route(Nbr[n])
  BY RecomputeTyped
<1>2. PICK T : wire' = Sent(w, T, rt', u, p)
  BY RecomputeParts
<1>3. QED
  BY <1>1, <1>2, SentCases

-----------------------------------------------------------------------------
(***************************************************************************)
(* Types                                                                   *)
(***************************************************************************)
\* The peers' metrics with which a link's end computes its routes after it went down.
Forgotten(l) ==
    [n \in Node |-> [m \in Nbr[n] |-> IF {m, n} = l THEN INFINITY ELSE peer[n][m]]]

Emptied(l) == [c \in Channel |-> IF {c[1], c[2]} = l THEN <<>> ELSE wire[c]]

LEMMA LinkIsNodes == \A l \in Link : l \in SUBSET Node
<1> SUFFICES ASSUME NEW l \in Link PROVE l \in SUBSET Node
  OBVIOUS
<1>1. PICK c \in Channel : l = {c[1], c[2]}
  BY DEF Link
<1>2. QED
  BY <1>1, ChannelFacts

\* A step is one of five: a node sends, an update is taken off a link and ignored or lost,
\* an update is heard, and a link goes down or comes up.
LEMMA StepCases ==
    ASSUME Next
    PROVE  /\ dst' = dst
           /\ \/ /\ UNCHANGED <<up, changes, peer, dv, rt, table>>
                 /\ \E n \in Node : wire' = Sent(wire, {n}, rt, up, peer)
              \/ /\ UNCHANGED <<up, changes, peer, dv, rt, table>>
                 /\ \E c \in Channel : wire[c] # <<>> /\ wire' = [wire EXCEPT ![c] = Tail(@)]
              \/ /\ UNCHANGED <<up, changes>>
                 /\ \E c \in Channel :
                       /\ wire[c] # <<>>
                       /\ Recompute({c[2]}, [peer EXCEPT ![c[2]][c[1]] = Heard(Head(wire[c]))],
                                    up, [wire EXCEPT ![c] = Tail(@)])
              \/ /\ changes < MaxChanges /\ changes' = changes + 1
                 /\ \E l \in Link : /\ up' = up \ {l}
                                    /\ Recompute(l, Forgotten(l), up \ {l}, Emptied(l))
              \/ /\ changes < MaxChanges /\ changes' = changes + 1
                 /\ \E l \in Link : /\ up' = up \cup {l}
                                    /\ Recompute(l, peer, up \cup {l}, wire)
<1>1. ASSUME NEW n \in Node, Periodic(n)
      PROVE  /\ UNCHANGED <<dst, up, changes, peer, dv, rt, table>>
             /\ wire' = Sent(wire, {n}, rt, up, peer)
  BY <1>1 DEF Periodic
<1>2. ASSUME NEW c \in Channel, Deliver(c[1], c[2])
      PROVE  /\ UNCHANGED <<dst, up, changes>> /\ wire[c] # <<>>
             /\ \/ /\ UNCHANGED <<peer, dv, rt, table>>
                   /\ wire' = [wire EXCEPT ![c] = Tail(@)]
                \/ Recompute({c[2]}, [peer EXCEPT ![c[2]][c[1]] = Heard(Head(wire[c]))],
                              up, [wire EXCEPT ![c] = Tail(@)])
  <2>1. c = <<c[1], c[2]>>
    BY ChannelFacts
  <2>2. QED
    BY <1>2, <2>1 DEF Deliver
<1>3. ASSUME NEW c \in Channel, Lose(c[1], c[2])
      PROVE  /\ UNCHANGED <<dst, up, changes, peer, dv, rt, table>> /\ wire[c] # <<>>
             /\ wire' = [wire EXCEPT ![c] = Tail(@)]
  <2>1. c = <<c[1], c[2]>>
    BY ChannelFacts
  <2>2. QED
    BY <1>3, <2>1 DEF Lose
<1>4. ASSUME NEW l \in Dynamic, LinkDown(l)
      PROVE  /\ dst' = dst /\ changes < MaxChanges /\ changes' = changes + 1 /\ l \in Link
             /\ up' = up \ {l} /\ Recompute(l, Forgotten(l), up \ {l}, Emptied(l))
  BY <1>4, RoutingAssumption DEF LinkDown, Forgotten, Emptied
<1>5. ASSUME NEW l \in Dynamic, LinkUp(l)
      PROVE  /\ dst' = dst /\ changes < MaxChanges /\ changes' = changes + 1 /\ l \in Link
             /\ up' = up \cup {l} /\ Recompute(l, peer, up \cup {l}, wire)
  BY <1>5, RoutingAssumption DEF LinkUp
<1>6. CASE \E n \in Node : Periodic(n)
  BY <1>1, <1>6
<1>7. CASE \E c \in Channel : Deliver(c[1], c[2])
  BY <1>2, <1>7
<1>8. CASE \E c \in Channel : Lose(c[1], c[2])
  BY <1>3, <1>8
<1>9. CASE \E l \in Dynamic : LinkDown(l)
  BY <1>4, <1>9
<1>10. CASE \E l \in Dynamic : LinkUp(l)
  BY <1>5, <1>10
<1>11. QED
  BY <1>6, <1>7, <1>8, <1>9, <1>10 DEF Next

LEMMA TailTyped ==
    ASSUME NEW w \in [Channel -> Seq(Metric)], NEW c \in Channel, w[c] # <<>>
    PROVE  /\ [w EXCEPT ![c] = Tail(@)] \in [Channel -> Seq(Metric)]
           /\ Head(w[c]) \in Metric
<1>1. w[c] \in Seq(Metric)
  OBVIOUS
<1>2. Tail(w[c]) \in Seq(Metric) /\ Head(w[c]) \in Metric
  BY <1>1
<1>3. QED
  BY <1>2

LEMMA HeardPeers ==
    ASSUME TypeInv, NEW c \in Channel, NEW h \in Metric
    PROVE  LET p == [peer EXCEPT ![c[2]][c[1]] = h]
           IN  /\ DOMAIN p = Node
               /\ \A n \in Node : p[n] \in [Nbr[n] -> Metric]
               /\ \A n \in Node : n # c[2] => p[n] = peer[n]
               /\ p[c[2]] = [peer[c[2]] EXCEPT ![c[1]] = h]
<1>1. DOMAIN peer = Node /\ \A n \in Node : peer[n] \in [Nbr[n] -> Metric]
  BY DEF TypeInv, TypeOK, Metric
<1>2. c[2] \in Node /\ c[1] \in Nbr[c[2]]
  BY ChannelFacts
<1>3. QED
  BY <1>1, <1>2

LEMMA ForgottenPeers ==
    ASSUME TypeInv, NEW l
    PROVE  /\ DOMAIN Forgotten(l) = Node
           /\ \A n \in Node : Forgotten(l)[n] \in [Nbr[n] -> Metric]
           /\ Emptied(l) \in [Channel -> Seq(Metric)]
<1>1. \A n \in Node : peer[n] \in [Nbr[n] -> Metric]
  BY DEF TypeInv, TypeOK, Metric
<1>2. INFINITY \in Metric
  BY RoutingAssumption DEF Metric
<1>3. wire \in [Channel -> Seq(Metric)] /\ <<>> \in Seq(Metric)
  BY DEF TypeInv, TypeOK, Metric
<1>4. QED
  BY <1>1, <1>2, <1>3 DEF Forgotten, Emptied

LEMMA InitTyped == Init => TypeInv
<1> SUFFICES ASSUME Init PROVE TypeInv
  OBVIOUS
<1>1. INFINITY \in Nat /\ INFINITY > 1 /\ MaxChanges \in Nat
  BY RoutingAssumption
<1>2. dst \in Dest /\ up \subseteq Link /\ changes \in 0..MaxChanges
  BY <1>1 DEF Init
<1>3. ASSUME NEW n \in Node
      PROVE  /\ peer[n] \in [Nbr[n] -> Metric]
             /\ dv[n] \in DVEntry(Nbr[n])
             /\ rt[n] \in Route(Nbr[n])
             /\ table[n] \in Slots(Nbr[n])
  <2>1. peer[n] \in [Nbr[n] -> Metric]
    BY <1>1 DEF Init, Metric
  <2>2. dv[n] = [nextHop |-> <<>>, metric |-> -1]
    BY DEF Init
  <2>3. dv[n] \in DVEntry(Nbr[n])
    BY <1>1, <2>2 DEF DVEntry
  <2>4. dst \in Nbr[n] => <<dst>> \in Seq(Nbr[n]) /\ <<dst>> \in Seq(Nbr[n] \cup {None})
    BY Singleton
  <2>5. rt[n] \in Route(Nbr[n])
    <3>1. rt[n] = IF dst = n THEN Local
                  ELSE IF dst \in Nbr[n] THEN [nextHop |-> <<dst>>, metric |-> 1, via |-> "Direct"]
                  ELSE NoRoute
      BY DEF Init
    <3>2. Local \in Route(Nbr[n]) /\ NoRoute \in Route(Nbr[n])
      BY <1>1 DEF Local, NoRoute, Route
    <3>3. dst \in Nbr[n] => [nextHop |-> <<dst>>, metric |-> 1, via |-> "Direct"] \in Route(Nbr[n])
      BY <1>1, <2>4 DEF Route
    <3>4. QED
      BY <3>1, <3>2, <3>3
  <2>6. table[n] = [multi |-> FALSE, slots |-> IF dst \in Nbr[n] THEN <<dst>> ELSE <<>>]
    BY DEF Init
  <2>7. <<>> \in Seq(Nbr[n] \cup {None})
    OBVIOUS
  <2>8. table[n] \in Slots(Nbr[n])
    BY <2>4, <2>6, <2>7 DEF Slots
  <2>9. QED
    BY <2>1, <2>3, <2>5, <2>8
<1>4. wire \in [Channel -> Seq(Metric)]
  BY DEF Init
<1>5. DOMAIN peer = Node
  BY DEF Init
<1>6. QED
  BY <1>2, <1>3, <1>4, <1>5 DEF TypeInv, TypeOK, Metric, DVEntry, Route, Slots

LEMMA StepTyped == TypeInv /\ [Next]_vars => TypeInv'
<1> SUFFICES ASSUME TypeInv, [Next]_vars PROVE TypeInv'
  OBVIOUS
<1> USE DEF Metric
<1>1. /\ dst \in Dest /\ up \subseteq Link /\ changes \in 0..MaxChanges /\ MaxChanges \in Nat
      /\ wire \in [Channel -> Seq(Metric)] /\ DOMAIN peer = Node
      /\ \A n \in Node : /\ peer[n] \in [Nbr[n] -> Metric] /\ dv[n] \in DVEntry(Nbr[n])
                         /\ rt[n] \in Route(Nbr[n]) /\ table[n] \in Slots(Nbr[n])
  BY RoutingAssumption DEF TypeInv, TypeOK, DVEntry, Route, Slots
<1> DEFINE Typed ==
      /\ DOMAIN peer' = Node
      /\ \A n \in Node : /\ peer'[n] \in [Nbr[n] -> Metric] /\ dv'[n] \in DVEntry(Nbr[n])
                         /\ rt'[n] \in Route(Nbr[n]) /\ table'[n] \in Slots(Nbr[n])
      /\ wire' \in [Channel -> Seq(Metric)]
<1>2. ASSUME dst' = dst, up' \subseteq Link, changes' \in 0..MaxChanges, Typed
      PROVE  TypeInv'
  BY <1>1, <1>2 DEF TypeInv, TypeOK, DVEntry, Route, Slots
<1>3. CASE UNCHANGED vars
  BY <1>1, <1>2, <1>3 DEF vars
<1>4. ASSUME Next
      PROVE  TypeInv'
  <2> USE <1>4
  <2>1. CASE /\ UNCHANGED <<up, changes, peer, dv, rt, table>>
             /\ \E n \in Node : wire' = Sent(wire, {n}, rt, up, peer)
    <3>1. wire' \in [Channel -> Seq(Metric)]
      BY <1>1, <2>1, SentCases
    <3>2. QED
      BY <1>1, <1>2, <2>1, <3>1, StepCases
  <2>2. CASE /\ UNCHANGED <<up, changes, peer, dv, rt, table>>
             /\ \E c \in Channel : wire[c] # <<>> /\ wire' = [wire EXCEPT ![c] = Tail(@)]
    <3>1. wire' \in [Channel -> Seq(Metric)]
      BY <1>1, <2>2, TailTyped
    <3>2. QED
      BY <1>1, <1>2, <2>2, <3>1, StepCases
  <2>3. ASSUME NEW c \in Channel, UNCHANGED <<up, changes>>, wire[c] # <<>>,
               Recompute({c[2]}, [peer EXCEPT ![c[2]][c[1]] = Heard(Head(wire[c]))],
                         up, [wire EXCEPT ![c] = Tail(@)])
        PROVE  TypeInv'
    <3> DEFINE p == [peer EXCEPT ![c[2]][c[1]] = Heard(Head(wire[c]))]
               w == [wire EXCEPT ![c] = Tail(@)]
    <3>1. w \in [Channel -> Seq(Metric)] /\ Heard(Head(wire[c])) \in Metric
      BY <1>1, <2>3, TailTyped, HeardTyped
    <3>2. DOMAIN p = Node /\ \A n \in Node : p[n] \in [Nbr[n] -> Metric]
      BY <3>1, HeardPeers
    <3>3. {c[2]} \in SUBSET Node
      BY ChannelFacts
    <3>4. Recompute({c[2]}, p, up, w)
      BY <2>3
    <3> HIDE DEF p, w
    <3>5. Typed
      BY <3>1, <3>2, <3>3, <3>4, RecomputeTyped
    <3>6. QED
      BY <1>1, <1>2, <2>3, <3>5, StepCases
  <2>4. ASSUME NEW l \in Link, changes < MaxChanges, changes' = changes + 1, up' = up \ {l},
               Recompute(l, Forgotten(l), up \ {l}, Emptied(l))
        PROVE  TypeInv'
    <3>1. Typed
      BY <2>4, ForgottenPeers, RecomputeTyped, LinkIsNodes
    <3>2. QED
      BY <1>1, <1>2, <2>4, <3>1, StepCases
  <2>5. ASSUME NEW l \in Link, changes < MaxChanges, changes' = changes + 1, up' = up \cup {l},
               Recompute(l, peer, up \cup {l}, wire)
        PROVE  TypeInv'
    <3>1. Typed
      BY <1>1, <2>5, RecomputeTyped, LinkIsNodes
    <3>2. QED
      BY <1>1, <1>2, <2>5, <3>1, StepCases
  <2>6. QED
    BY <2>1, <2>2, <2>3, <2>4, <2>5, StepCases
<1>5. QED
  BY <1>3, <1>4

\* The variables keep their types, and metrics stay within INFINITY.
THEOREM RoutingTypes == Spec => []TypeOK
<1>1. Spec => []TypeInv
  BY InitTyped, StepTyped, PTL DEF Spec
<1>2. TypeInv => TypeOK
  BY DEF TypeInv
<1>3. QED
  BY <1>1, <1>2, PTL

-----------------------------------------------------------------------------
(***************************************************************************)
(* Metrics are never too short                                             *)
(***************************************************************************)
\* Whatever says that the destination d is k links away says so rightly: the metrics of
\* peers, the updates on their way, and the entries and routes of nodes.
Way(d, n, k) == k < INFINITY => n \in Reached[d][k]
WayPeers(d, p) == \A n \in Node : \A m \in Nbr[n] : Way(d, n, p[n][m])
WayWire(d, w) == \A c \in Channel : \A i \in DOMAIN w[c] : Way(d, c[1], w[c][i])

ShortInv ==
    /\ TypeInv
    /\ WayPeers(dst, peer) /\ WayWire(dst, wire)
    /\ \A n \in Node : Way(dst, n, ValueOf(dv[n])) /\ Way(dst, n, ValueOf(rt[n]))

LEMMA WayHome == \A d \in Dest : Way(d, d, 0)
<1> SUFFICES ASSUME NEW d \in Dest PROVE d \in Reached[d][0]
  BY RoutingAssumption DEF Way
<1>1. INFINITY \in Nat /\ INFINITY > 1 /\ d \in Node
  BY RoutingAssumption
<1> DEFINE w == [i \in 0..0 |-> d]
<1>2. w \in Walks(d, 0)
  BY <1>1 DEF Walks
<1>3. w[0] = d
  OBVIOUS
<1> HIDE DEF w
<1>4. Reached[d][0] = {v[0] : v \in Walks(d, 0)}
  BY <1>1 DEF Reached
<1>5. QED
  BY <1>2, <1>3, <1>4

\* A neighbour is one link farther; a metric is capped when it is heard.
LEMMA WayHeard ==
    ASSUME NEW d \in Dest, NEW n \in Node, NEW m \in Nbr[n], NEW k \in Metric, Way(d, m, k)
    PROVE  Way(d, n, Heard(k))
<1>1. INFINITY \in Nat /\ k \in Nat
  BY RoutingAssumption DEF Metric
<1> SUFFICES ASSUME Heard(k) < INFINITY
             PROVE  n \in Reached[d][Heard(k)]
  BY DEF Way
<1>2. Heard(k) = k + 1 /\ k + 1 < INFINITY
  BY <1>1 DEF Heard
<1>3. m \in Reached[d][k]
  BY <1>1, <1>2 DEF Way
<1>4. Reached[d][k] = {w[k] : w \in Walks(d, k)}
  BY <1>1, <1>2 DEF Reached
<1>5. PICK w \in Walks(d, k) : w[k] = m
  BY <1>3, <1>4
<1>6. /\ w \in [0..k -> Node] /\ w[0] = d
      /\ \A i \in 1..k : w[i] \in Nbr[w[i - 1]]
  BY DEF Walks
<1> DEFINE v == [i \in 0..(k + 1) |-> IF i = k + 1 THEN n ELSE w[i]]
<1>7. n \in Nbr[m]
  BY NbrFacts
<1>8. v \in [0..(k + 1) -> Node] /\ v[0] = d /\ v[k + 1] = n
  BY <1>1, <1>6
<1>9. \A i \in 1..(k + 1) : v[i] \in Nbr[v[i - 1]]
  <2> TAKE i \in 1..(k + 1)
  <2>1. CASE i = k + 1
    <3>1. v[i] = n /\ v[i - 1] = w[k]
      BY <1>1, <2>1
    <3>2. QED
      BY <1>5, <1>7, <3>1
  <2>2. CASE i # k + 1
    <3>1. i \in 1..k /\ v[i] = w[i] /\ v[i - 1] = w[i - 1]
      BY <1>1, <2>2
    <3>2. QED
      BY <1>6, <3>1
  <2>3. QED
    BY <2>1, <2>2
<1>10. v \in Walks(d, k + 1)
  BY <1>8, <1>9 DEF Walks
<1> HIDE DEF v
<1>11. Reached[d][k + 1] = {z[k + 1] : z \in Walks(d, k + 1)}
  BY <1>1, <1>2 DEF Reached
<1>12. QED
  BY <1>2, <1>8, <1>10, <1>11

\* An update says INFINITY or the metric of the sender's route.
LEMMA UpdateValue ==
    ASSUME NEW S, NEW r \in Route(S), NEW m
    PROVE  /\ UpdateFor(m, r) \in {INFINITY, ValueOf(r)}
           /\ UpdateFor(m, r) # ValueOf(r) => m \in ToSet(r.nextHop)
BY DEF UpdateFor, ValueOf, Route

LEMMA WayBeyond ==
    ASSUME NEW d, NEW n
    PROVE  Way(d, n, INFINITY)
BY RoutingAssumption DEF Way

LEMMA WaySent ==
    ASSUME NEW d, NEW w \in [Channel -> Seq(Metric)], NEW r, NEW new, NEW to,
           Extends(to, w, r, new),
           \A n \in Node : r[n] \in Route(Nbr[n]) /\ Way(d, n, ValueOf(r[n])),
           WayWire(d, w)
    PROVE  WayWire(d, new)
<1> SUFFICES ASSUME NEW c \in Channel
             PROVE  \A i \in DOMAIN new[c] : Way(d, c[1], new[c][i])
  BY DEF WayWire
<1> DEFINE h == UpdateFor(c[2], r[c[1]])
<1>1. new[c] = w[c] \/ new[c] = Append(w[c], h)
  BY DEF Extends
<1>2. \A i \in DOMAIN w[c] : Way(d, c[1], w[c][i])
  BY DEF WayWire
<1>3. c[1] \in Node /\ r[c[1]] \in Route(Nbr[c[1]])
  BY ChannelFacts
<1>4. Way(d, c[1], h)
  <2>1. h \in {INFINITY, ValueOf(r[c[1]])}
    BY <1>3, UpdateValue
  <2>2. QED
    BY <1>3, <2>1, WayBeyond
<1>5. w[c] \in Seq(Metric)
  OBVIOUS
<1> HIDE DEF h
<1>6. CASE new[c] = w[c]
  BY <1>2, <1>6
<1>7. CASE new[c] = Append(w[c], h)
  <2>1. /\ DOMAIN w[c] = 1..Len(w[c]) /\ Len(w[c]) \in Nat
        /\ DOMAIN new[c] = 1..(Len(w[c]) + 1)
        /\ new[c][Len(w[c]) + 1] = h
        /\ \A i \in 1..Len(w[c]) : new[c][i] = w[c][i]
    BY <1>5, <1>7
  <2>2. QED
    BY <1>2, <1>4, <2>1
<1>8. QED
  BY <1>1, <1>6, <1>7

LEMMA WayTail ==
    ASSUME NEW w \in [Channel -> Seq(Metric)], NEW d, NEW c \in Channel, w[c] # <<>>,
           WayWire(d, w)
    PROVE  WayWire(d, [w EXCEPT ![c] = Tail(@)]) /\ Way(d, c[1], Head(w[c]))
<1> DEFINE new == [w EXCEPT ![c] = Tail(@)]
<1>1. w[c] \in Seq(Metric) /\ \A e \in Channel : e # c => new[e] = w[e]
  OBVIOUS
<1>2. new[c] = Tail(w[c])
  OBVIOUS
<1>3. /\ DOMAIN w[c] = 1..Len(w[c]) /\ Len(w[c]) \in Nat \ {0}
      /\ DOMAIN new[c] = 1..(Len(w[c]) - 1)
      /\ \A i \in 1..(Len(w[c]) - 1) : new[c][i] = w[c][i + 1]
      /\ Head(w[c]) = w[c][1]
  BY <1>1, <1>2
<1> HIDE DEF new
<1>4. \A i \in DOMAIN new[c] : Way(d, c[1], new[c][i])
  <2> TAKE i \in DOMAIN new[c]
  <2>1. new[c][i] = w[c][i + 1] /\ i + 1 \in DOMAIN w[c]
    BY <1>3
  <2>2. QED
    BY <2>1 DEF WayWire
<1>5. Way(d, c[1], Head(w[c]))
  BY <1>3 DEF WayWire
<1>6. WayWire(d, new)
  BY <1>1, <1>4 DEF WayWire
<1>7. QED
  BY <1>5, <1>6 DEF new

LEMMA WayEntry ==
    ASSUME NEW n \in Node, NEW d, NEW e \in DVEntry(Nbr[n]), NEW pm \in [Nbr[n] -> Metric],
           NEW v \in DVRoutes(e, pm),
           Way(d, n, ValueOf(e)), \A m \in Nbr[n] : Way(d, n, pm[m])
    PROVE  Way(d, n, ValueOf(v))
<1> DEFINE metric == IF e.nextHop = <<>> THEN e.metric ELSE pm[Head(e.nextHop)]
<1>1. IsFiniteSet(Nbr[n])
  BY NbrFacts
<1>2. \/ v = [nextHop |-> e.nextHop, metric |-> metric]
      \/ /\ v.metric = Least(pm) /\ Least(pm) < INFINITY
  BY <1>1, DVRoutesCases
<1>3. /\ Least(pm) \in Metric
      /\ Least(pm) = INFINITY \/ \E m \in Nbr[n] : pm[m] = Least(pm)
  BY LeastMetric
<1>4. CASE v.metric = Least(pm) /\ Least(pm) < INFINITY
  <2>1. ValueOf(v) = Least(pm)
    BY <1>3, <1>4, RoutingAssumption DEF ValueOf, Metric
  <2>2. QED
    BY <1>3, <2>1, WayBeyond
<1>5. CASE v = [nextHop |-> e.nextHop, metric |-> metric]
  <2>1. CASE e.nextHop = <<>>
    <3>1. ValueOf(v) = ValueOf(e)
      BY <1>5, <2>1 DEF ValueOf
    <3>2. QED
      BY <3>1
  <2>2. CASE e.nextHop # <<>>
    <3>1. e.nextHop \in Seq(Nbr[n])
      BY DEF DVEntry
    <3>2. Head(e.nextHop) \in Nbr[n]
      BY <2>2, <3>1
    <3>3. pm[Head(e.nextHop)] \in Metric /\ v.metric = pm[Head(e.nextHop)]
      BY <1>5, <2>2, <3>2
    <3>4. ValueOf(v) = pm[Head(e.nextHop)]
      BY <3>3, RoutingAssumption DEF ValueOf, Metric
    <3>5. QED
      BY <3>2, <3>4
  <2>3. QED
    BY <2>1, <2>2
<1>6. QED
  BY <1>2, <1>4, <1>5

LEMMA WayChosen ==
    ASSUME NEW n \in Node, NEW d \in Dest, NEW v \in DVEntry(Nbr[n]), NEW u, NEW r,
           Chosen(d, n, v, u, r), Way(d, n, ValueOf(v))
    PROVE  Way(d, n, ValueOf(r))
<1>1. INFINITY \in Nat /\ INFINITY > 1
  BY RoutingAssumption
<1>2. CASE d = n /\ r = Local
  <2>1. ValueOf(r) = 0
    BY <1>2 DEF ValueOf, Local
  <2>2. QED
    BY <1>2, <2>1, WayHome
<1>3. CASE d \in Nbr[n] /\ r = [nextHop |-> <<d>>, metric |-> 1, via |-> "Direct"]
  <2>1. ValueOf(r) = 1 /\ Heard(0) = 1 /\ 0 \in Metric
    BY <1>1, <1>3 DEF ValueOf, Heard, Metric
  <2>2. QED
    BY <1>3, <2>1, WayHome, WayHeard
<1>4. CASE r = [nextHop |-> v.nextHop, metric |-> v.metric, via |-> "DV"]
  <2>1. ValueOf(r) = ValueOf(v)
    BY <1>4 DEF ValueOf
  <2>2. QED
    BY <2>1
<1>5. CASE r = NoRoute
  <2>1. ValueOf(r) = INFINITY
    BY <1>5 DEF ValueOf, NoRoute
  <2>2. QED
    BY <2>1, WayBeyond
<1>6. QED
  BY <1>2, <1>3, <1>4, <1>5 DEF Chosen

LEMMA LinkOf ==
    ASSUME NEW n \in Node, NEW m \in Nbr[n]
    PROVE  {m, n} \in Link
<1>1. <<m, n>> \in Channel
  BY NbrFacts
<1>2. QED
  BY <1>1 DEF Link

LEMMA InitChosen ==
    ASSUME Init, NEW n \in Node
    PROVE  Chosen(dst, n, dv[n], Link, rt[n])
<1>1. dv[n].nextHop = <<>>
  BY DEF Init
<1>2. rt[n] = IF dst = n THEN Local
              ELSE IF dst \in Nbr[n] THEN [nextHop |-> <<dst>>, metric |-> 1, via |-> "Direct"]
              ELSE NoRoute
  BY DEF Init
<1>3. dst \in Nbr[n] => {dst, n} \in Link
  BY LinkOf
<1>4. QED
  BY <1>1, <1>2, <1>3 DEF Chosen

LEMMA InitShort == Init => ShortInv
<1> SUFFICES ASSUME Init PROVE ShortInv
  OBVIOUS
<1>1. TypeInv
  BY InitTyped
<1>2. dst \in Dest
  BY DEF Init
<1>3. WayPeers(dst, peer)
  <2>1. \A n \in Node : \A m \in Nbr[n] : peer[n][m] = INFINITY
    BY DEF Init
  <2>2. QED
    BY <2>1, WayBeyond DEF WayPeers
<1>4. WayWire(dst, wire)
  <2>1. \A c \in Channel : wire[c] = <<>>
    BY DEF Init
  <2>2. QED
    BY <2>1 DEF WayWire
<1>5. ASSUME NEW n \in Node
      PROVE  Way(dst, n, ValueOf(dv[n])) /\ Way(dst, n, ValueOf(rt[n]))
  <2>1. ValueOf(dv[n]) = INFINITY
    BY DEF Init, ValueOf
  <2>2. dv[n] \in DVEntry(Nbr[n])
    BY <1>1 DEF TypeInv, TypeOK, DVEntry
  <2>3. Way(dst, n, ValueOf(dv[n]))
    BY <2>1, WayBeyond
  <2>4. QED
    BY <1>2, <2>2, <2>3, InitChosen, WayChosen
<1>6. QED
  BY <1>1, <1>3, <1>4, <1>5 DEF ShortInv

LEMMA RecomputeShort ==
    ASSUME NEW S \in SUBSET Node, NEW p, NEW u, NEW w \in [Channel -> Seq(Metric)],
           ShortInv, DOMAIN p = Node, \A n \in Node : p[n] \in [Nbr[n] -> Metric],
           WayPeers(dst, p), WayWire(dst, w),
           Recompute(S, p, u, w)
    PROVE  /\ WayPeers(dst, peer') /\ WayWire(dst, wire')
           /\ \A n \in Node : Way(dst, n, ValueOf(dv'[n])) /\ Way(dst, n, ValueOf(rt'[n]))
<1>1. TypeInv /\ dst \in Dest
  BY DEF ShortInv, TypeInv, TypeOK
<1>2. \A n \in Node : dv'[n] \in DVEntry(Nbr[n]) /\ rt'[n] \in Route(Nbr[n])
  BY <1>1, RecomputeTyped
<1>3. \A n \in Node : dv[n] \in DVEntry(Nbr[n])
  BY <1>1 DEF TypeInv, TypeOK, DVEntry
<1>4. \A n \in Node : Way(dst, n, ValueOf(dv[n])) /\ Way(dst, n, ValueOf(rt[n]))
  BY DEF ShortInv
<1>5. \A n \in Node : Way(dst, n, ValueOf(dv'[n]))
  <2> TAKE n \in Node
  <2>1. CASE n \in S
    <3>1. dv'[n] \in DVRoutes(dv[n], p[n])
      BY <2>1, RecomputeParts
    <3>2. \A m \in Nbr[n] : Way(dst, n, p[n][m])
      BY DEF WayPeers
    <3>3. QED
      BY <1>3, <1>4, <3>1, <3>2, WayEntry
  <2>2. CASE n \notin S
    BY <1>4, <2>2, RecomputeParts
  <2>3. QED
    BY <2>1, <2>2
<1>6. \A n \in Node : Way(dst, n, ValueOf(rt'[n]))
  <2> TAKE n \in Node
  <2>1. CASE n \in S
    <3>1. Chosen(dst, n, dv'[n], u, rt'[n])
      BY <2>1, RecomputeParts
    <3>2. QED
      BY <1>1, <1>2, <1>5, <3>1, WayChosen
  <2>2. CASE n \notin S
    BY <1>4, <2>2, RecomputeParts
  <2>3. QED
    BY <2>1, <2>2
<1>7. peer' = p
  BY RecomputeParts
<1>8. Extends(dst, w, rt', wire')
  BY <1>1, RecomputeExtends
<1>9. WayWire(dst, wire')
  BY <1>2, <1>6, <1>8, WaySent
<1>10. QED
  BY <1>5, <1>6, <1>7, <1>9

LEMMA StepShort == ShortInv /\ [Next]_vars => ShortInv'
<1> SUFFICES ASSUME ShortInv, [Next]_vars PROVE ShortInv'
  OBVIOUS
<1>1. TypeInv /\ TypeInv'
  BY StepTyped DEF ShortInv
<1>2. /\ dst \in Dest /\ wire \in [Channel -> Seq(Metric)] /\ DOMAIN peer = Node
      /\ \A n \in Node : peer[n] \in [Nbr[n] -> Metric] /\ rt[n] \in Route(Nbr[n])
  BY <1>1 DEF TypeInv, TypeOK, Metric, Route
<1>3. /\ WayPeers(dst, peer) /\ WayWire(dst, wire)
      /\ \A n \in Node : Way(dst, n, ValueOf(dv[n])) /\ Way(dst, n, ValueOf(rt[n]))
  BY DEF ShortInv
<1> DEFINE Short == /\ WayPeers(dst, peer') /\ WayWire(dst, wire')
                    /\ \A n \in Node : Way(dst, n, ValueOf(dv'[n])) /\ Way(dst, n, ValueOf(rt'[n]))
<1>4. ASSUME dst' = dst, Short
      PROVE  ShortInv'
  BY <1>1, <1>4 DEF ShortInv
<1>5. CASE UNCHANGED vars
  BY <1>3, <1>4, <1>5 DEF vars
<1>6. ASSUME Next
      PROVE  ShortInv'
  <2>1. dst' = dst
    BY <1>6, StepCases
  <2>2. ASSUME UNCHANGED <<up, changes, peer, dv, rt, table>>,
               NEW n \in Node, wire' = Sent(wire, {n}, rt, up, peer)
        PROVE  Short
    <3>1. Extends(dst, wire, rt, wire')
      BY <1>2, <2>2, SentCases
    <3>2. WayWire(dst, wire')
      BY <1>2, <1>3, <3>1, WaySent
    <3>3. QED
      BY <1>3, <2>2, <3>2
  <2>3. ASSUME UNCHANGED <<up, changes, peer, dv, rt, table>>,
               NEW c \in Channel, wire[c] # <<>>, wire' = [wire EXCEPT ![c] = Tail(@)]
        PROVE  Short
    <3>1. WayWire(dst, wire')
      BY <1>2, <1>3, <2>3, WayTail
    <3>2. QED
      BY <1>3, <2>3, <3>1
  <2>4. ASSUME NEW c \in Channel, wire[c] # <<>>,
               Recompute({c[2]}, [peer EXCEPT ![c[2]][c[1]] = Heard(Head(wire[c]))],
                         up, [wire EXCEPT ![c] = Tail(@)])
        PROVE  Short
    <3> DEFINE h == Heard(Head(wire[c]))
               p == [peer EXCEPT ![c[2]][c[1]] = h]
               w == [wire EXCEPT ![c] = Tail(@)]
    <3>1. w \in [Channel -> Seq(Metric)] /\ Head(wire[c]) \in Metric
      BY <1>2, <2>4, TailTyped
    <3>2. h \in Metric
      BY <3>1, HeardTyped
    <3>3. /\ DOMAIN p = Node /\ \A n \in Node : p[n] \in [Nbr[n] -> Metric]
          /\ \A n \in Node : n # c[2] => p[n] = peer[n]
          /\ p[c[2]] = [peer[c[2]] EXCEPT ![c[1]] = h]
      BY <1>1, <3>2, HeardPeers
    <3>4. WayWire(dst, w) /\ Way(dst, c[1], Head(wire[c]))
      BY <1>2, <1>3, <2>4, WayTail
    <3>5. c[1] \in Nbr[c[2]] /\ c[2] \in Node
      BY ChannelFacts
    <3>6. Way(dst, c[2], h)
      BY <1>2, <3>1, <3>4, <3>5, WayHeard
    <3>7. Recompute({c[2]}, p, up, w)
      BY <2>4
    <3> HIDE DEF h, p, w
    <3>8. WayPeers(dst, p)
      <4> SUFFICES ASSUME NEW n \in Node, NEW m \in Nbr[n]
                   PROVE  Way(dst, n, p[n][m])
        BY DEF WayPeers
      <4>1. p[n][m] = peer[n][m] \/ (n = c[2] /\ p[n][m] = h)
        BY <1>2, <3>3
      <4>2. QED
        BY <1>3, <3>6, <4>1 DEF WayPeers
    <3>9. {c[2]} \in SUBSET Node
      BY <3>5
    <3>10. QED
      BY <3>1, <3>3, <3>4, <3>7, <3>8, <3>9, RecomputeShort
  <2>5. ASSUME NEW l \in Link, Recompute(l, Forgotten(l), up \ {l}, Emptied(l))
        PROVE  Short
    <3> DEFINE p == Forgotten(l)
               w == Emptied(l)
               v == up \ {l}
    <3>1. /\ DOMAIN p = Node /\ \A n \in Node : p[n] \in [Nbr[n] -> Metric]
          /\ w \in [Channel -> Seq(Metric)]
      BY <1>1, ForgottenPeers
    <3>2. \A n \in Node : \A m \in Nbr[n] : p[n][m] \in {INFINITY, peer[n][m]}
      BY DEF Forgotten
    <3>3. \A c \in Channel : w[c] \in {<<>>, wire[c]}
      BY DEF Emptied
    <3>4. Recompute(l, p, v, w) /\ l \in SUBSET Node
      BY <2>5, LinkIsNodes
    <3> HIDE DEF p, w, v
    <3>5. WayPeers(dst, p)
      BY <1>3, <3>2, WayBeyond DEF WayPeers
    <3>6. WayWire(dst, w)
      <4> SUFFICES ASSUME NEW c \in Channel, NEW i \in DOMAIN w[c]
                   PROVE  Way(dst, c[1], w[c][i])
        BY DEF WayWire
      <4>1. w[c] = wire[c]
        BY <3>3
      <4>2. QED
        BY <1>3, <4>1 DEF WayWire
    <3>7. QED
      BY <3>1, <3>4, <3>5, <3>6, RecomputeShort
  <2>6. ASSUME NEW l \in Link, Recompute(l, peer, up \cup {l}, wire)
        PROVE  Short
    BY <1>2, <1>3, <2>6, LinkIsNodes, RecomputeShort
  <2>7. QED
    BY <1>4, <1>6, <2>1, <2>2, <2>3, <2>4, <2>5, <2>6, StepCases
<1>7. QED
  BY <1>5, <1>6

\* No node claims a way that is shorter than any there is, however links fail and come back
\* and updates are lost or late.
THEOREM MetricsNeverTooShort == Spec => []NeverTooShort
<1>1. Spec => []ShortInv
  BY InitShort, StepShort, PTL DEF Spec
<1>2. ShortInv => NeverTooShort
  BY DEF ShortInv, NeverTooShort, Value, ValueOf, Way
<1>3. QED
  BY <1>1, <1>2, PTL

-----------------------------------------------------------------------------
(***************************************************************************)
(* No loops while links do not change                                      *)
(*                                                                         *)
(* A node's metric only falls then.  Peers know metrics that are not too   *)
(* small, updates on their way are in falling order, and an INFINITY       *)
(* between them (poisoned reverse) finds the receiver already nearer than  *)
(* anything that it was told before on this channel: it cannot take away a *)
(* next hop.                                                               *)
(***************************************************************************)
\* The updates q from a node with metric vm to one with metric vn, which has the metric p
\* of its peer.
Truth(q, p, vm, vn) ==
    /\ p = INFINITY \/ p > vm
    /\ \A i \in DOMAIN q : q[i] = INFINITY \/ q[i] >= vm
    /\ \A i \in DOMAIN q : q[i] < INFINITY /\ p < INFINITY => q[i] < p
    /\ \A i, j \in DOMAIN q : i < j /\ q[i] < INFINITY /\ q[j] < INFINITY => q[j] <= q[i]
    /\ \A i \in DOMAIN q : q[i] = INFINITY =>
          /\ p < INFINITY => vn < p
          /\ \A j \in DOMAIN q : j < i /\ q[j] < INFINITY => vn <= q[j]

AllTruth(w, p, r) ==
    \A c \in Channel : Truth(w[c], p[c[2]][c[1]], ValueOf(r[c[1]]), ValueOf(r[c[2]]))

\* The entry of DV at a node with peers' metrics pm: no route, or nearest neighbours.
Computed(pm, e) ==
    \/ e.nextHop = <<>> /\ e.metric = -1 /\ \A m \in DOMAIN pm : pm[m] = INFINITY
    \/ /\ e.nextHop # <<>> /\ e.metric \in 0..(INFINITY - 1)
       /\ \A m \in ToSet(e.nextHop) : pm[m] = e.metric
       /\ \A m \in DOMAIN pm : e.metric <= pm[m]

Far(d, n) == n # d /\ d \notin Nbr[n]

Sane(d, p, v, r) ==
    \A n \in Node : Chosen(d, n, v[n], Link, r[n]) /\ (Far(d, n) => Computed(p[n], v[n]))

LoopInv ==
    /\ TypeInv
    /\ changes = 0 => up = Link /\ Sane(dst, peer, dv, rt) /\ AllTruth(wire, peer, rt)

LEMMA TruthFalls ==
    ASSUME NEW q \in Seq(Metric), NEW p \in Metric, NEW vm \in Metric, NEW vn \in Metric,
           NEW um \in Metric, NEW un \in Metric, Truth(q, p, vm, vn), um <= vm, un <= vn
    PROVE  Truth(q, p, um, un)
<1>1. DOMAIN q = 1..Len(q) /\ \A i \in DOMAIN q : q[i] \in Metric
  OBVIOUS
<1>2. INFINITY \in Nat
  BY RoutingAssumption
<1>3. QED
  BY <1>1, <1>2 DEF Truth, Metric

LEMMA TruthTail ==
    ASSUME NEW q \in Seq(Metric), NEW p \in Metric, NEW vm \in Metric, NEW vn \in Metric,
           Truth(q, p, vm, vn), q # <<>>
    PROVE  /\ Truth(Tail(q), p, vm, vn)
           /\ Truth(Tail(q), Heard(Head(q)), vm, vn)
           /\ Heard(Head(q)) <= p \/ vn < p
<1> DEFINE t == Tail(q)
           h == Heard(q[1])
<1>1. INFINITY \in Nat
  BY RoutingAssumption
<1>2. /\ DOMAIN q = 1..Len(q) /\ Len(q) \in Nat \ {0}
      /\ \A i \in 1..Len(q) : q[i] \in Metric
      /\ DOMAIN t = 1..(Len(q) - 1)
      /\ \A i \in 1..(Len(q) - 1) : t[i] = q[i + 1]
      /\ Head(q) = q[1]
  OBVIOUS
<1>3. q[1] \in 0..INFINITY /\ p \in 0..INFINITY
  BY <1>2 DEF Metric
<1>4. h = (IF q[1] + 1 > INFINITY THEN INFINITY ELSE q[1] + 1)
  BY DEF Heard
<1> HIDE DEF t, h
<1>5. /\ p = INFINITY \/ p > vm
      /\ \A i \in 1..Len(q) : q[i] = INFINITY \/ q[i] >= vm
      /\ \A i \in 1..Len(q) : q[i] < INFINITY /\ p < INFINITY => q[i] < p
      /\ \A i, j \in 1..Len(q) : i < j /\ q[i] < INFINITY /\ q[j] < INFINITY => q[j] <= q[i]
      /\ \A i \in 1..Len(q) : q[i] = INFINITY =>
            /\ p < INFINITY => vn < p
            /\ \A j \in 1..Len(q) : j < i /\ q[j] < INFINITY => vn <= q[j]
  BY <1>2 DEF Truth
<1>5a. \A i \in DOMAIN t : i \in Nat /\ i + 1 \in 1..Len(q) /\ 1 < i + 1 /\ t[i] = q[i + 1]
  BY <1>2
<1>5b. vm \in 0..INFINITY /\ vn \in 0..INFINITY
  BY DEF Metric
<1>5c. \A i \in DOMAIN t : t[i] = INFINITY \/ t[i] >= vm
  BY <1>5, <1>5a
<1>5d. \A i, j \in DOMAIN t : i < j /\ t[i] < INFINITY /\ t[j] < INFINITY => t[j] <= t[i]
  <2> SUFFICES ASSUME NEW i \in DOMAIN t, NEW j \in DOMAIN t, i < j, t[i] < INFINITY, t[j] < INFINITY
               PROVE  t[j] <= t[i]
    OBVIOUS
  <2>1. i + 1 < j + 1 /\ i + 1 \in 1..Len(q) /\ j + 1 \in 1..Len(q) /\ t[i] = q[i + 1] /\ t[j] = q[j + 1]
    BY <1>5a
  <2>2. QED
    BY <1>5, <2>1
<1>5e. ASSUME NEW i \in DOMAIN t, t[i] = INFINITY
       PROVE  /\ p < INFINITY => vn < p
              /\ q[1] < INFINITY => vn <= q[1]
              /\ \A j \in DOMAIN t : j < i /\ t[j] < INFINITY => vn <= t[j]
  <2>1. /\ i + 1 \in 1..Len(q) /\ q[i + 1] = INFINITY /\ 1 \in 1..Len(q) /\ 1 < i + 1
    BY <1>2, <1>5a, <1>5e
  <2>2. /\ p < INFINITY => vn < p
        /\ \A j \in 1..Len(q) : j < i + 1 /\ q[j] < INFINITY => vn <= q[j]
    BY <1>5, <2>1
  <2>3. \A j \in DOMAIN t : j < i => j + 1 < i + 1 /\ j + 1 \in 1..Len(q) /\ t[j] = q[j + 1]
    BY <1>5a
  <2>4. QED
    BY <2>1, <2>2, <2>3
<1>6. Truth(t, p, vm, vn)
  <2>1. \A i \in DOMAIN t : t[i] < INFINITY /\ p < INFINITY => t[i] < p
    BY <1>5, <1>5a
  <2>2. QED
    BY <1>5, <1>5c, <1>5d, <1>5e, <2>1 DEF Truth
<1>6a. q[1] = INFINITY \/ q[1] >= vm
  BY <1>2, <1>5
<1>7. Truth(t, h, vm, vn)
  <2>1. CASE q[1] + 1 >= INFINITY
    <3>1. h = INFINITY
      BY <1>1, <1>3, <1>4, <2>1
    <3>2. ~(h < INFINITY)
      BY <1>1, <3>1
    <3>3. QED
      BY <1>5c, <1>5d, <1>5e, <3>1, <3>2 DEF Truth
  <2>2. CASE q[1] + 1 < INFINITY
    <3>1. h = q[1] + 1 /\ h > vm /\ q[1] < INFINITY
      BY <1>1, <1>3, <1>4, <1>5b, <1>6a, <2>2
    <3>2. \A i \in DOMAIN t : t[i] < INFINITY => t[i] < h
      <4> SUFFICES ASSUME NEW i \in DOMAIN t, t[i] < INFINITY
                   PROVE  t[i] < h
        OBVIOUS
      <4>1. i + 1 \in 1..Len(q) /\ 1 \in 1..Len(q) /\ 1 < i + 1 /\ q[i + 1] = t[i]
        BY <1>2, <1>5a
      <4>2. q[i + 1] <= q[1] /\ q[i + 1] \in Metric
        BY <1>2, <1>5, <3>1, <4>1
      <4>3. QED
        BY <1>1, <1>3, <3>1, <4>1, <4>2 DEF Metric
    <3>3. \A i \in DOMAIN t : t[i] = INFINITY => vn < h
      BY <1>3, <1>5b, <1>5e, <3>1
    <3>4. QED
      BY <1>5c, <1>5d, <1>5e, <3>1, <3>2, <3>3 DEF Truth
  <2>3. QED
    BY <1>1, <1>3, <2>1, <2>2
<1>8. h <= p \/ vn < p
  <2>1. 1 \in 1..Len(q)
    BY <1>2
  <2>2. /\ q[1] < INFINITY /\ p < INFINITY => q[1] < p
        /\ q[1] = INFINITY => (p < INFINITY => vn < p)
    BY <1>5, <2>1
  <2>3. QED
    BY <1>1, <1>3, <1>4, <2>2
<1>9. QED
  BY <1>2, <1>6, <1>7, <1>8 DEF t, h

LEMMA TruthAppend ==
    ASSUME NEW q \in Seq(Metric), NEW p \in Metric, NEW vm \in Metric, NEW vn \in Metric,
           NEW x \in {INFINITY, vm}, Truth(q, p, vm, vn),
           x # vm => vn < vm
    PROVE  Truth(Append(q, x), p, vm, vn)
<1> DEFINE a == Append(q, x)
<1>1. INFINITY \in Nat /\ p \in 0..INFINITY /\ vm \in 0..INFINITY /\ vn \in 0..INFINITY
  BY RoutingAssumption DEF Metric
<1>2. /\ DOMAIN q = 1..Len(q) /\ Len(q) \in Nat
      /\ \A i \in 1..Len(q) : q[i] \in 0..INFINITY
  <2>1. DOMAIN q = 1..Len(q) /\ Len(q) \in Nat /\ \A i \in 1..Len(q) : q[i] \in Metric
    OBVIOUS
  <2>2. QED
    BY <2>1 DEF Metric
<1>3. /\ DOMAIN a = 1..(Len(q) + 1)
      /\ \A i \in 1..Len(q) : a[i] = q[i]
      /\ a[Len(q) + 1] = x
  OBVIOUS
<1> HIDE DEF a
<1>4. /\ p = INFINITY \/ p > vm
      /\ \A i \in 1..Len(q) : q[i] = INFINITY \/ q[i] >= vm
      /\ \A i \in 1..Len(q) : q[i] < INFINITY /\ p < INFINITY => q[i] < p
      /\ \A i, j \in 1..Len(q) : i < j /\ q[i] < INFINITY /\ q[j] < INFINITY => q[j] <= q[i]
      /\ \A i \in 1..Len(q) : q[i] = INFINITY =>
            /\ p < INFINITY => vn < p
            /\ \A j \in 1..Len(q) : j < i /\ q[j] < INFINITY => vn <= q[j]
  BY <1>2 DEF Truth
<1>5. \A i \in 1..(Len(q) + 1) : i \in 1..Len(q) \/ i = Len(q) + 1
  BY <1>2
<1>6. \A i \in DOMAIN a : a[i] = INFINITY \/ a[i] >= vm
  BY <1>1, <1>3, <1>4, <1>5
<1>7. \A i \in DOMAIN a : a[i] < INFINITY /\ p < INFINITY => a[i] < p
  BY <1>1, <1>3, <1>4, <1>5
<1>8. \A i, j \in DOMAIN a : i < j /\ a[i] < INFINITY /\ a[j] < INFINITY => a[j] <= a[i]
  <2> SUFFICES ASSUME NEW i \in DOMAIN a, NEW j \in DOMAIN a, i < j, a[i] < INFINITY, a[j] < INFINITY
               PROVE  a[j] <= a[i]
    OBVIOUS
  <2>1. i \in 1..Len(q) /\ a[i] = q[i] /\ q[i] >= vm
    BY <1>1, <1>2, <1>3, <1>4
  <2>2. CASE j \in 1..Len(q)
    BY <1>3, <1>4, <2>1, <2>2
  <2>3. CASE j = Len(q) + 1
    <3>1. a[j] = vm
      BY <1>1, <1>3, <2>3
    <3>2. QED
      BY <2>1, <3>1
  <2>4. QED
    BY <1>3, <1>5, <2>2, <2>3
<1>9. \A i \in DOMAIN a : a[i] = INFINITY =>
          /\ p < INFINITY => vn < p
          /\ \A j \in DOMAIN a : j < i /\ a[j] < INFINITY => vn <= a[j]
  <2> SUFFICES ASSUME NEW i \in DOMAIN a, a[i] = INFINITY
               PROVE  /\ p < INFINITY => vn < p
                      /\ \A j \in DOMAIN a : j < i /\ a[j] < INFINITY => vn <= a[j]
    OBVIOUS
  <2>1. CASE i \in 1..Len(q)
    BY <1>2, <1>3, <1>4, <2>1
  <2>2. CASE i = Len(q) + 1
    <3>1. x = INFINITY /\ (vm = INFINITY \/ vn < vm)
      BY <1>3, <2>2
    <3>2. p < INFINITY => vn < p
      BY <1>1, <1>4, <3>1
    <3>3. \A j \in 1..Len(q) : q[j] < INFINITY => vn <= q[j]
      BY <1>1, <1>2, <1>4, <3>1
    <3>4. QED
      BY <1>2, <1>3, <2>2, <3>2, <3>3
  <2>3. QED
    BY <1>3, <1>5, <2>1, <2>2
<1>10. QED
  BY <1>4, <1>6, <1>7, <1>8, <1>9 DEF Truth, a

\* A metric that falls, or that is not the least, leaves a node with nearest neighbours and
\* a metric that has not risen.
LEMMA ComputedStep ==
    ASSUME NEW S, IsFiniteSet(S), NEW e \in DVEntry(S), NEW pm \in [S -> Metric], NEW m \in S,
           NEW h \in Metric, Computed(pm, e), h <= pm[m] \/ ValueOf(e) < pm[m],
           NEW v \in DVRoutes(e, [pm EXCEPT ![m] = h])
    PROVE  Computed([pm EXCEPT ![m] = h], v) /\ ValueOf(v) <= ValueOf(e)
<1> DEFINE pn == [pm EXCEPT ![m] = h]
           metric == IF e.nextHop = <<>> THEN e.metric ELSE pn[Head(e.nextHop)]
<1>1. INFINITY \in Nat /\ Metric = 0..INFINITY
  BY RoutingAssumption DEF Metric
<1>2. /\ pn \in [S -> Metric] /\ pn[m] = h
      /\ \A k \in S : k # m => pn[k] = pm[k]
  OBVIOUS
<1>3. /\ metric \in -1..INFINITY
      /\ \/ /\ v = [nextHop |-> e.nextHop, metric |-> metric]
            /\ \/ Least(pn) = INFINITY
               \/ metric >= 0 /\ Least(pn) > metric
         \/ /\ v.metric = Least(pn) /\ Least(pn) < INFINITY
            /\ v.nextHop \in Seq(S) /\ v.nextHop # <<>>
            /\ \A k \in ToSet(v.nextHop) : k \in S /\ pn[k] = Least(pn)
  <2>1. v \in DVRoutes(e, pn) /\ pn \in [S -> Metric]
    BY <1>2
  <2> HIDE DEF pn
  <2>2. QED
    BY <2>1, DVRoutesCases
<1>4. Least(pn) \in Metric /\ \A k \in S : Least(pn) <= pn[k]
  BY <1>2, LeastMetric
<1> HIDE DEF pn
<1>5. ASSUME v.metric = Least(pn), Least(pn) < INFINITY, v.nextHop # <<>>,
             \A k \in ToSet(v.nextHop) : k \in S /\ pn[k] = Least(pn)
      PROVE  Computed(pn, v) /\ ValueOf(v) = Least(pn)
  <2>1. v.metric \in 0..(INFINITY - 1)
    BY <1>1, <1>4, <1>5
  <2>2. QED
    BY <1>2, <1>4, <1>5, <2>1 DEF Computed, ValueOf
<1>6. CASE e.nextHop = <<>>
  <2>1. e.metric = -1 /\ metric = -1 /\ ValueOf(e) = INFINITY
    BY <1>6 DEF Computed, ValueOf
  <2>2. CASE v = [nextHop |-> e.nextHop, metric |-> metric] /\ Least(pn) = INFINITY
    <3>1. \A k \in S : pn[k] = INFINITY
      BY <1>1, <1>2, <1>4, <2>2
    <3>2. v.nextHop = <<>> /\ v.metric = -1
      BY <1>6, <2>1, <2>2
    <3>3. Computed(pn, v)
      BY <1>2, <3>1, <3>2 DEF Computed
    <3>4. ValueOf(v) = INFINITY
      BY <3>2 DEF ValueOf
    <3>5. QED
      BY <1>1, <2>1, <3>3, <3>4 DEF pn
  <2>3. CASE /\ v.metric = Least(pn) /\ Least(pn) < INFINITY /\ v.nextHop # <<>>
             /\ \A k \in ToSet(v.nextHop) : k \in S /\ pn[k] = Least(pn)
    <3>1. Computed(pn, v) /\ ValueOf(v) = Least(pn)
      BY <1>5, <2>3
    <3>2. Least(pn) <= INFINITY
      BY <1>1, <1>4
    <3>3. QED
      BY <2>1, <3>1, <3>2 DEF pn
  <2>4. QED
    BY <1>3, <2>1, <2>2, <2>3
<1>7. CASE e.nextHop # <<>>
  <2> DEFINE k == Head(e.nextHop)
  <2>1. e.nextHop \in Seq(S)
    BY DEF DVEntry
  <2>2. k \in S /\ k \in ToSet(e.nextHop)
    BY <1>7, <2>1 DEF ToSet
  <2>3. e.metric \in 0..(INFINITY - 1) /\ pm[k] = e.metric
    BY <1>7, <2>2 DEF Computed
  <2>4. ValueOf(e) = e.metric
    BY <1>1, <2>3 DEF ValueOf
  <2>5. pn[k] <= e.metric
    <3>1. CASE k = m
      BY <1>1, <1>2, <2>3, <2>4, <3>1
    <3>2. CASE k # m
      BY <1>1, <1>2, <2>2, <2>3, <3>2
    <3>3. QED
      BY <3>1, <3>2
  <2>6. metric = pn[k] /\ pn[k] \in Metric
    BY <1>2, <1>7, <2>2
  <2> HIDE DEF k, metric
  <2>7. Least(pn) <= metric /\ Least(pn) <= e.metric /\ Least(pn) < INFINITY
    BY <1>1, <1>4, <2>2, <2>3, <2>5, <2>6
  <2>8. /\ v.metric = Least(pn) /\ v.nextHop # <<>>
        /\ \A j \in ToSet(v.nextHop) : j \in S /\ pn[j] = Least(pn)
    BY <1>1, <1>3, <1>4, <2>7
  <2>9. QED
    BY <1>5, <2>4, <2>7, <2>8 DEF pn
<1>8. QED
  BY <1>6, <1>7

LEMMA ValueTyped ==
    ASSUME NEW S, NEW r \in Route(S)
    PROVE  ValueOf(r) \in Metric
BY RoutingAssumption DEF ValueOf, Route, Metric

\* Next hops are neighbours and nearer.
LEMMA HopsNearer ==
    ASSUME NEW d \in Node, NEW p, NEW v, NEW r, NEW w,
           \A n \in Node : /\ p[n] \in [Nbr[n] -> Metric] /\ v[n] \in DVEntry(Nbr[n])
                           /\ r[n] \in Route(Nbr[n]),
           Sane(d, p, v, r), AllTruth(w, p, r),
           NEW n \in Node, NEW m \in ToSet(r[n].nextHop)
    PROVE  m \in Nbr[n] /\ ValueOf(r[m]) < ValueOf(r[n])
<1>1. INFINITY \in Nat /\ INFINITY > 1
  BY RoutingAssumption
<1>2. Chosen(d, n, v[n], Link, r[n]) /\ Chosen(d, d, v[d], Link, r[d])
  BY DEF Sane
<1>3. CASE r[n] \in {Local, NoRoute}
  <2>1. r[n].nextHop = <<>>
    BY <1>3 DEF Local, NoRoute
  <2>2. QED
    BY <2>1 DEF ToSet
<1>4. CASE d \in Nbr[n] /\ r[n] = [nextHop |-> <<d>>, metric |-> 1, via |-> "Direct"]
  <2>1. m = d /\ ValueOf(r[n]) = 1
    BY <1>4 DEF ToSet, ValueOf
  <2>2. r[d] = Local
    BY <1>2 DEF Chosen
  <2>3. ValueOf(r[d]) = 0
    BY <2>2 DEF ValueOf, Local
  <2>4. QED
    BY <1>4, <2>1, <2>3
<1>5. CASE /\ d # n /\ ~(d \in Nbr[n] /\ {d, n} \in Link) /\ v[n].nextHop # <<>>
           /\ r[n] = [nextHop |-> v[n].nextHop, metric |-> v[n].metric, via |-> "DV"]
  <2>1. d \notin Nbr[n]
    BY <1>5, LinkOf
  <2>2. Computed(p[n], v[n])
    BY <1>5, <2>1 DEF Sane, Far
  <2>3. /\ v[n].metric \in 0..(INFINITY - 1)
        /\ \A k \in ToSet(v[n].nextHop) : p[n][k] = v[n].metric
    BY <1>5, <2>2 DEF Computed
  <2>4. p[n][m] = v[n].metric /\ ValueOf(r[n]) = v[n].metric
    BY <1>1, <1>5, <2>3 DEF ValueOf
  <2>5. m \in Nbr[n]
    <3>1. v[n].nextHop \in Seq(Nbr[n]) /\ m \in ToSet(v[n].nextHop)
      BY <1>5 DEF DVEntry
    <3>2. QED
      BY <3>1 DEF ToSet
  <2>6. <<m, n>> \in Channel
    BY <2>5, NbrFacts
  <2>7. Truth(w[<<m, n>>], p[n][m], ValueOf(r[m]), ValueOf(r[n]))
    BY <2>6 DEF AllTruth
  <2>8. p[n][m] > ValueOf(r[m])
    BY <1>1, <2>3, <2>4, <2>7 DEF Truth
  <2>9. m \in Node
    BY <2>5, NbrFacts
  <2>10. ValueOf(r[m]) \in Metric
    BY <2>9, ValueTyped
  <2>11. QED
    BY <2>3, <2>4, <2>5, <2>8, <2>10 DEF Metric
<1>6. QED
  BY <1>2, <1>3, <1>4, <1>5 DEF Chosen

LEMMA SentTruth ==
    ASSUME NEW d \in Node, NEW p, NEW v, NEW r, NEW w \in [Channel -> Seq(Metric)], NEW new,
           \A n \in Node : /\ p[n] \in [Nbr[n] -> Metric] /\ v[n] \in DVEntry(Nbr[n])
                           /\ r[n] \in Route(Nbr[n]),
           Sane(d, p, v, r), AllTruth(w, p, r), Extends(d, w, r, new)
    PROVE  AllTruth(new, p, r)
<1> SUFFICES ASSUME NEW c \in Channel
             PROVE  Truth(new[c], p[c[2]][c[1]], ValueOf(r[c[1]]), ValueOf(r[c[2]]))
  BY DEF AllTruth
<1> DEFINE h == UpdateFor(c[2], r[c[1]])
           vm == ValueOf(r[c[1]])
           vn == ValueOf(r[c[2]])
           k == p[c[2]][c[1]]
<1>1. c[1] \in Node /\ c[2] \in Node /\ c[1] \in Nbr[c[2]]
  BY ChannelFacts
<1>2. Truth(w[c], k, vm, vn)
  BY DEF AllTruth
<1>3. w[c] \in Seq(Metric) /\ k \in Metric
  BY <1>1
<1>4. vm \in Metric /\ vn \in Metric
  BY <1>1, ValueTyped
<1>5. h \in {INFINITY, vm} /\ (h # vm => c[2] \in ToSet(r[c[1]].nextHop))
  BY <1>1, UpdateValue
<1>6. h # vm => vn < vm
  BY <1>1, <1>5, HopsNearer
<1>7. new[c] = w[c] \/ new[c] = Append(w[c], h)
  BY DEF Extends
<1> HIDE DEF h, vm, vn, k
<1>8. Truth(Append(w[c], h), k, vm, vn)
  BY <1>2, <1>3, <1>4, <1>5, <1>6, TruthAppend
<1>9. Truth(new[c], k, vm, vn)
  BY <1>2, <1>7, <1>8
<1>10. QED
  BY <1>9 DEF k, vm, vn

\* While the links stay as they are, a node far from the destination has DV's metric.
LEMMA FarValue ==
    ASSUME NEW d, NEW n \in Node, NEW pm, NEW e, NEW r,
           Far(d, n), Chosen(d, n, e, Link, r), Computed(pm, e)
    PROVE  ValueOf(r) = ValueOf(e)
<1>1. d # n /\ d \notin Nbr[n]
  BY DEF Far
<1>2. CASE e.nextHop # <<>>
  <2>1. r = [nextHop |-> e.nextHop, metric |-> e.metric, via |-> "DV"]
    BY <1>1, <1>2 DEF Chosen
  <2>2. QED
    BY <2>1 DEF ValueOf
<1>3. CASE e.nextHop = <<>>
  <2>1. r = NoRoute /\ e.metric = -1
    BY <1>1, <1>3 DEF Chosen, Computed
  <2>2. QED
    BY <2>1 DEF ValueOf, NoRoute
<1>4. QED
  BY <1>2, <1>3

\* At a node that is the destination or a neighbour of it, nothing changes.
LEMMA NearValue ==
    ASSUME NEW d \in Node, NEW n \in Node, NEW e, NEW r, ~Far(d, n), Chosen(d, n, e, Link, r)
    PROVE  ValueOf(r) = IF d = n THEN 0 ELSE 1
<1>1. CASE d = n
  <2>1. r = Local
    BY <1>1 DEF Chosen
  <2>2. QED
    BY <1>1, <2>1 DEF ValueOf, Local
<1>2. CASE d # n
  <2>1. d \in Nbr[n] /\ {d, n} \in Link
    BY <1>2, LinkOf DEF Far
  <2>2. r = [nextHop |-> <<d>>, metric |-> 1, via |-> "Direct"]
    BY <1>2, <2>1 DEF Chosen
  <2>3. QED
    BY <1>2, <2>2 DEF ValueOf
<1>3. QED
  BY <1>1, <1>2

LEMMA InitLoop == Init => LoopInv
<1> SUFFICES ASSUME Init PROVE LoopInv
  OBVIOUS
<1>1. TypeInv /\ up = Link
  BY InitTyped DEF Init
<1>2. INFINITY \in Nat
  BY RoutingAssumption
<1>3. \A n \in Node : peer[n] = [m \in Nbr[n] |-> INFINITY]
  BY DEF Init
<1>4. \A n \in Node : dv[n].nextHop = <<>> /\ dv[n].metric = -1
  BY DEF Init
<1>5. Sane(dst, peer, dv, rt)
  BY <1>3, <1>4, InitChosen DEF Sane, Computed
<1>6. AllTruth(wire, peer, rt)
  <2> SUFFICES ASSUME NEW c \in Channel
               PROVE  Truth(wire[c], peer[c[2]][c[1]], ValueOf(rt[c[1]]), ValueOf(rt[c[2]]))
    BY DEF AllTruth
  <2>1. wire[c] = <<>>
    BY DEF Init
  <2>2. peer[c[2]][c[1]] = INFINITY
    <3>1. c[2] \in Node /\ c[1] \in Nbr[c[2]]
      BY ChannelFacts
    <3>2. QED
      BY <1>3, <3>1
  <2>3. QED
    BY <2>1, <2>2 DEF Truth
<1>7. QED
  BY <1>1, <1>5, <1>6 DEF LoopInv

\* An update is heard while the links are as they were.
LEMMA HeardLoop ==
    ASSUME TypeInv, Sane(dst, peer, dv, rt), AllTruth(wire, peer, rt), dst' = dst,
           NEW c \in Channel, wire[c] # <<>>,
           Recompute({c[2]}, [peer EXCEPT ![c[2]][c[1]] = Heard(Head(wire[c]))],
                     Link, [wire EXCEPT ![c] = Tail(@)])
    PROVE  Sane(dst, peer', dv', rt') /\ AllTruth(wire', peer', rt')
<1> DEFINE q == wire[c]
           h == Heard(Head(wire[c]))
           p == [peer EXCEPT ![c[2]][c[1]] = h]
           w == [wire EXCEPT ![c] = Tail(@)]
           m == c[1]
           n == c[2]
<1>1. /\ dst \in Node /\ wire \in [Channel -> Seq(Metric)] /\ DOMAIN peer = Node
      /\ \A k \in Node : /\ peer[k] \in [Nbr[k] -> Metric] /\ dv[k] \in DVEntry(Nbr[k])
                         /\ rt[k] \in Route(Nbr[k])
  BY RoutingAssumption DEF TypeInv, TypeOK, Metric, Route, DVEntry
<1>2. /\ n \in Node /\ m \in Node /\ m \in Nbr[n] /\ c = <<m, n>> /\ m # n
  BY ChannelFacts, NbrFacts
<1>3. q \in Seq(Metric) /\ w \in [Channel -> Seq(Metric)] /\ h \in Metric
  BY <1>1, TailTyped, HeardTyped
<1>4. /\ DOMAIN p = Node /\ \A k \in Node : p[k] \in [Nbr[k] -> Metric]
      /\ \A k \in Node : k # n => p[k] = peer[k]
      /\ p[n] = [peer[n] EXCEPT ![m] = h]
  BY <1>3, HeardPeers
<1>5. w[c] = Tail(q) /\ \A e \in Channel : e # c => w[e] = wire[e]
  BY <1>1
<1>6. Recompute({n}, p, Link, w) /\ {n} \in SUBSET Node
  BY <1>2
<1>7. h = Heard(Head(q))
  OBVIOUS
<1> HIDE DEF q, h, p, w, m, n
<1>8. /\ peer' = p
      /\ dv'[n] \in DVRoutes(dv[n], p[n])
      /\ Chosen(dst, n, dv'[n], Link, rt'[n])
      /\ \A k \in Node : k # n => dv'[k] = dv[k] /\ rt'[k] = rt[k]
  BY <1>6, RecomputeParts
<1>9. \A k \in Node : /\ dv'[k] \in DVEntry(Nbr[k]) /\ rt'[k] \in Route(Nbr[k])
  BY <1>3, <1>4, <1>6, RecomputeTyped
<1>10. Extends(dst, w, rt', wire')
  BY <1>3, <1>4, <1>6, RecomputeExtends
<1> DEFINE vm == ValueOf(rt[m])
           vn == ValueOf(rt[n])
           k0 == peer[n][m]
<1>11. vm \in Metric /\ vn \in Metric /\ k0 \in Metric
  BY <1>1, <1>2, ValueTyped
<1>12. Truth(q, k0, vm, vn)
  BY <1>2 DEF AllTruth, q, m, n
<1>13. /\ Truth(Tail(q), h, vm, vn)
       /\ h <= k0 \/ vn < k0
  <2> HIDE DEF vm, vn, k0
  <2>1. q # <<>>
    BY DEF q
  <2>2. QED
    BY <1>3, <1>7, <1>11, <1>12, <2>1, TruthTail
<1>14. Chosen(dst, n, dv[n], Link, rt[n])
  BY <1>2 DEF Sane
<1>15. /\ ValueOf(rt'[n]) <= vn
       /\ Far(dst, n) => Computed(p[n], dv'[n])
  <2>1. CASE Far(dst, n)
    <3>1. Computed(peer[n], dv[n])
      BY <1>2, <2>1 DEF Sane
    <3>2. ValueOf(dv[n]) = vn
      BY <1>2, <1>14, <2>1, <3>1, FarValue
    <3>3. IsFiniteSet(Nbr[n])
      BY <1>2, NbrFacts
    <3>4. h <= peer[n][m] \/ ValueOf(dv[n]) < peer[n][m]
      BY <1>13, <3>2
    <3>5. dv'[n] \in DVRoutes(dv[n], [peer[n] EXCEPT ![m] = h])
      BY <1>4, <1>8
    <3>6. dv[n] \in DVEntry(Nbr[n]) /\ peer[n] \in [Nbr[n] -> Metric]
      BY <1>1, <1>2
    <3>7. Computed([peer[n] EXCEPT ![m] = h], dv'[n]) /\ ValueOf(dv'[n]) <= ValueOf(dv[n])
      BY <1>2, <1>3, <3>1, <3>3, <3>4, <3>5, <3>6, ComputedStep
    <3>8. Computed(p[n], dv'[n])
      BY <1>4, <3>7
    <3>9. ValueOf(rt'[n]) = ValueOf(dv'[n])
      BY <1>2, <1>8, <2>1, <3>8, FarValue
    <3>10. QED
      BY <3>2, <3>7, <3>8, <3>9
  <2>2. CASE ~Far(dst, n)
    <3>1. ValueOf(rt'[n]) = vn
      <4>1. ValueOf(rt'[n]) = IF dst = n THEN 0 ELSE 1
        BY <1>1, <1>2, <1>8, <2>2, NearValue
      <4>2. ValueOf(rt[n]) = IF dst = n THEN 0 ELSE 1
        BY <1>1, <1>2, <1>14, <2>2, NearValue
      <4>3. QED
        BY <4>1, <4>2
    <3>2. QED
      BY <1>11, <2>2, <3>1 DEF Metric
  <2>3. QED
    BY <2>1, <2>2
<1>16. Sane(dst, p, dv', rt')
  <2> SUFFICES ASSUME NEW k \in Node
               PROVE  Chosen(dst, k, dv'[k], Link, rt'[k]) /\ (Far(dst, k) => Computed(p[k], dv'[k]))
    BY DEF Sane
  <2>1. CASE k = n
    BY <1>8, <1>15, <2>1
  <2>2. CASE k # n
    <3>1. dv'[k] = dv[k] /\ rt'[k] = rt[k] /\ p[k] = peer[k]
      BY <1>4, <1>8, <2>2
    <3>2. QED
      BY <3>1 DEF Sane
  <2>3. QED
    BY <2>1, <2>2
<1>17. AllTruth(w, p, rt')
  <2> SUFFICES ASSUME NEW e \in Channel
               PROVE  Truth(w[e], p[e[2]][e[1]], ValueOf(rt'[e[1]]), ValueOf(rt'[e[2]]))
    BY DEF AllTruth
  <2>1. e[1] \in Node /\ e[2] \in Node /\ e = <<e[1], e[2]>> /\ e[1] \in Nbr[e[2]]
    BY ChannelFacts
  <2>2. \A k \in Node : /\ ValueOf(rt'[k]) \in Metric /\ ValueOf(rt[k]) \in Metric
                         /\ ValueOf(rt'[k]) <= ValueOf(rt[k])
    <3> TAKE k \in Node
    <3>1. ValueOf(rt'[k]) \in Metric /\ ValueOf(rt[k]) \in Metric
      BY <1>1, <1>9, ValueTyped
    <3>2. CASE k = n
      BY <1>15, <3>1, <3>2
    <3>3. CASE k # n
      BY <1>8, <3>1, <3>3 DEF Metric
    <3>4. QED
      BY <3>1, <3>2, <3>3
  <2> DEFINE x == p[e[2]][e[1]]
             em == ValueOf(rt[e[1]])
             en == ValueOf(rt[e[2]])
             fm == ValueOf(rt'[e[1]])
             fn == ValueOf(rt'[e[2]])
  <2>3. w[e] \in Seq(Metric) /\ x \in Metric
    BY <1>3, <1>4, <2>1
  <2>4. Truth(w[e], x, em, en)
    <3>1. CASE e = c
      <4>1. e[1] = m /\ e[2] = n /\ x = h
        BY <1>1, <1>2, <1>4, <3>1 DEF m, n
      <4>2. QED
        BY <1>5, <1>13, <3>1, <4>1
    <3>2. CASE e # c
      <4>1. e[2] # n \/ e[1] # m
        BY <1>2, <2>1, <3>2
      <4>2. x = peer[e[2]][e[1]]
        BY <1>1, <1>2, <1>4, <2>1, <4>1
      <4>3. QED
        BY <1>5, <3>2, <4>2 DEF AllTruth
    <3>3. QED
      BY <3>1, <3>2
  <2>5. /\ em \in Metric /\ en \in Metric /\ fm \in Metric /\ fn \in Metric
        /\ fm <= em /\ fn <= en
    BY <2>1, <2>2
  <2> HIDE DEF x, em, en, fm, fn
  <2>6. Truth(w[e], x, fm, fn)
    BY <2>3, <2>4, <2>5, TruthFalls
  <2>7. QED
    BY <2>6 DEF x, fm, fn
<1>18. AllTruth(wire', p, rt')
  <2>1. \A k \in Node : /\ p[k] \in [Nbr[k] -> Metric] /\ dv'[k] \in DVEntry(Nbr[k])
                         /\ rt'[k] \in Route(Nbr[k])
    BY <1>4, <1>9
  <2>2. QED
    BY <1>1, <1>3, <1>10, <1>16, <1>17, <2>1, SentTruth
<1>19. QED
  BY <1>8, <1>16, <1>18

LEMMA StepLoop == LoopInv /\ [Next]_vars => LoopInv'
<1> SUFFICES ASSUME LoopInv, [Next]_vars PROVE LoopInv'
  OBVIOUS
<1>1. TypeInv /\ TypeInv'
  BY StepTyped DEF LoopInv
<1>2. /\ dst \in Node /\ wire \in [Channel -> Seq(Metric)] /\ changes \in Nat
      /\ \A k \in Node : /\ peer[k] \in [Nbr[k] -> Metric] /\ dv[k] \in DVEntry(Nbr[k])
                         /\ rt[k] \in Route(Nbr[k])
  <2>1. dst \in Node /\ wire \in [Channel -> Seq(Metric)] /\ changes \in Nat
    BY <1>1, RoutingAssumption DEF TypeInv, TypeOK, Metric
  <2>2. \A k \in Node : peer[k] \in [Nbr[k] -> Metric]
    BY <1>1 DEF TypeInv, TypeOK, Metric
  <2>3. \A k \in Node : dv[k] \in DVEntry(Nbr[k]) /\ rt[k] \in Route(Nbr[k])
    BY <1>1 DEF TypeInv, TypeOK, Route, DVEntry
  <2>4. QED
    BY <2>1, <2>2, <2>3
<1>3. ASSUME dst' = dst, changes' = 0, changes = 0, up' = up,
             Sane(dst, peer', dv', rt'), AllTruth(wire', peer', rt')
      PROVE  LoopInv'
  BY <1>1, <1>3 DEF LoopInv
<1>4. changes' # 0 => LoopInv'
  BY <1>1 DEF LoopInv
<1>5. ASSUME changes' = 0, UNCHANGED vars
      PROVE  LoopInv'
  BY <1>1, <1>5 DEF LoopInv, vars
<1>6. ASSUME changes' = 0, Next
      PROVE  LoopInv'
  <2>1. dst' = dst
    BY <1>6, StepCases
  <2>2. ASSUME UNCHANGED <<up, changes, peer, dv, rt, table>>,
               NEW n \in Node, wire' = Sent(wire, {n}, rt, up, peer)
        PROVE  LoopInv'
    <3>1. Sane(dst, peer, dv, rt) /\ AllTruth(wire, peer, rt)
      BY <1>6, <2>2 DEF LoopInv
    <3>2. Extends(dst, wire, rt, wire')
      BY <1>2, <2>2, SentCases
    <3>3. AllTruth(wire', peer, rt)
      BY <1>2, <3>1, <3>2, SentTruth
    <3>4. QED
      BY <1>3, <1>6, <2>1, <2>2, <3>1, <3>3
  <2>3. ASSUME UNCHANGED <<up, changes, peer, dv, rt, table>>,
               NEW c \in Channel, wire[c] # <<>>, wire' = [wire EXCEPT ![c] = Tail(@)]
        PROVE  LoopInv'
    <3>1. Sane(dst, peer, dv, rt) /\ AllTruth(wire, peer, rt)
      BY <1>6, <2>3 DEF LoopInv
    <3>2. AllTruth(wire', peer, rt)
      <4> SUFFICES ASSUME NEW e \in Channel
                   PROVE  Truth(wire'[e], peer[e[2]][e[1]], ValueOf(rt[e[1]]), ValueOf(rt[e[2]]))
        BY DEF AllTruth
      <4> DEFINE x == peer[e[2]][e[1]]
                 em == ValueOf(rt[e[1]])
                 en == ValueOf(rt[e[2]])
      <4>1. e[1] \in Node /\ e[2] \in Node /\ e[1] \in Nbr[e[2]]
        BY ChannelFacts
      <4>2. /\ x \in Metric /\ em \in Metric /\ en \in Metric /\ wire[e] \in Seq(Metric)
        BY <1>2, <4>1, ValueTyped
      <4>3. Truth(wire[e], x, em, en)
        BY <3>1 DEF AllTruth
      <4>4. wire'[e] = IF e = c THEN Tail(wire[e]) ELSE wire[e]
        BY <1>2, <2>3
      <4> HIDE DEF x, em, en
      <4>5. e = c => Truth(Tail(wire[e]), x, em, en)
        BY <2>3, <4>2, <4>3, TruthTail
      <4>6. Truth(wire'[e], x, em, en)
        BY <4>3, <4>4, <4>5
      <4>7. QED
        BY <4>6 DEF x, em, en
    <3>3. QED
      BY <1>3, <1>6, <2>1, <2>3, <3>1, <3>2
  <2>4. ASSUME UNCHANGED <<up, changes>>, NEW c \in Channel, wire[c] # <<>>,
               Recompute({c[2]}, [peer EXCEPT ![c[2]][c[1]] = Heard(Head(wire[c]))],
                         up, [wire EXCEPT ![c] = Tail(@)])
        PROVE  LoopInv'
    <3>1. up = Link /\ Sane(dst, peer, dv, rt) /\ AllTruth(wire, peer, rt)
      BY <1>6, <2>4 DEF LoopInv
    <3>2. Recompute({c[2]}, [peer EXCEPT ![c[2]][c[1]] = Heard(Head(wire[c]))],
                    Link, [wire EXCEPT ![c] = Tail(@)])
      BY <2>4, <3>1
    <3>3. Sane(dst, peer', dv', rt') /\ AllTruth(wire', peer', rt')
      BY <1>1, <2>1, <2>4, <3>1, <3>2, HeardLoop
    <3>4. QED
      BY <1>3, <1>6, <2>1, <2>4, <3>3
  <2>5. changes' # changes + 1
    BY <1>2, <1>6
  <2>6. QED
    BY <1>6, <2>2, <2>3, <2>4, <2>5, StepCases
<1>7. QED
  BY <1>4, <1>5, <1>6

\* As long as no link has changed, every next hop is nearer to the destination by its own
\* metric, in any network, whatever updates are lost, late or in flight.
THEOREM RoutesHaveNoLoops == Spec => []NoLoops
<1>1. Spec => []LoopInv
  BY InitLoop, StepLoop, PTL DEF Spec
<1>2. LoopInv => NoLoops
  <2> SUFFICES ASSUME LoopInv, changes = 0, NEW n \in Node, NEW m \in NextHops(n)
               PROVE  Value(m) < Value(n)
    BY DEF NoLoops
  <2>1. /\ dst \in Node
        /\ \A k \in Node : /\ peer[k] \in [Nbr[k] -> Metric] /\ dv[k] \in DVEntry(Nbr[k])
                           /\ rt[k] \in Route(Nbr[k])
    BY RoutingAssumption DEF LoopInv, TypeInv, TypeOK, Metric, Route, DVEntry
  <2>2. Sane(dst, peer, dv, rt) /\ AllTruth(wire, peer, rt) /\ m \in ToSet(rt[n].nextHop)
    BY DEF LoopInv, NextHops
  <2>3. ValueOf(rt[m]) < ValueOf(rt[n])
    BY <2>1, <2>2, HopsNearer
  <2>4. QED
    BY <2>3 DEF Value, ValueOf
<1>3. QED
  BY <1>1, <1>2, PTL

-----------------------------------------------------------------------------
(***************************************************************************)
(* Slots of the multi-path classifiers.  delete-routes clears the slots of *)
(* the interfaces that it is given, so what it is given must cover the     *)
(* next hops that are there.  It does unless a direct route is lost, whose *)
(* slot then stays.  When the direct route comes back, the next hops that  *)
(* DV has now are taken out: computing again from the same metrics must    *)
(* not have changed them.                                                  *)
(***************************************************************************)
\* The next hops of the entry e are all the peers of least metric in pm, unless all of
\* those have been given up.
Stable(e, pm) ==
    e.nextHop # <<>> => \/ Least(pm) = INFINITY
                        \/ ToSet(e.nextHop) = {m \in DOMAIN pm : pm[m] = Least(pm)}

\* The changes that the slots missed so far can have taken: the last one that brought the link
\* from n to d up is not among them, as only the next failure makes it count.
Budget(d, n, u, ch) == IF {d, n} \in u THEN ch - 1 ELSE ch

\* The slots of tb are some for the link to d, two changes for each and one for the classifier
\* to become multi-path, and then the next hops of r.
HopsAfterStale(d, n, tb, r, c) ==
    \E k \in Nat :
        /\ Len(tb.slots) = k + Len(r.nextHop)
        /\ \A i \in 1..k : tb.slots[i] = d
        /\ \A j \in 1..Len(r.nextHop) : tb.slots[k + j] = r.nextHop[j]
        /\ k > 0 => d \in Nbr[n] /\ tb.multi
        /\ d \in Nbr[n] /\ tb.multi => 2 * k + 1 <= c

SlotInv ==
    /\ TypeInv
    /\ \A n \in Node :
          /\ Chosen(dst, n, dv[n], up, rt[n])
          /\ Stable(dv[n], peer[n])
          /\ table[n].multi => dv[n].nextHop # <<>> /\ n # dst
          /\ dst \in Nbr[n] /\ {dst, n} \notin up => changes > 0
          /\ HopsAfterStale(dst, n, table[n], rt[n], Budget(dst, n, up, changes))

LEMMA AllInOrder ==
    ASSUME NEW S, IsFiniteSet(S), NEW s \in SetToSeqs(S)
    PROVE  ToSet(s) = S
<1>1. Cardinality(S) \in Nat
  BY FS_CardinalityType
<1>2. /\ s \in [1..Cardinality(S) -> S]
      /\ \A i, j \in 1..Cardinality(S) : i # j => s[i] # s[j]
  BY DEF SetToSeqs
<1>3. ToSet(s) \subseteq S
  BY <1>2 DEF ToSet
<1>4. ASSUME NEW m \in S, m \notin ToSet(s)
      PROVE  FALSE
  <2>1. s \in [1..Cardinality(S) -> S \ {m}]
    BY <1>2, <1>4 DEF ToSet
  <2>2. IsFiniteSet(S \ {m}) /\ Cardinality(S \ {m}) = Cardinality(S) - 1
    BY FS_RemoveElement
  <2>3. IsFiniteSet(1..Cardinality(S)) /\ Cardinality(1..Cardinality(S)) = Cardinality(S)
    <3>1. /\ IsFiniteSet(1..Cardinality(S))
          /\ Cardinality(1..Cardinality(S)) =
                IF 1 > Cardinality(S) THEN 0 ELSE Cardinality(S) - 1 + 1
      BY <1>1, FS_Interval
    <3>2. QED
      BY <1>1, <3>1
  <2>4. Cardinality(S \ {m}) < Cardinality(1..Cardinality(S))
    BY <1>1, <2>2, <2>3
  <2> DEFINE D == 1..Cardinality(S)
             T == S \ {m}
  <2>5. s \in [D -> T] /\ IsFiniteSet(D) /\ IsFiniteSet(T) /\ Cardinality(T) < Cardinality(D)
    BY <2>1, <2>2, <2>3, <2>4
  <2> HIDE DEF D, T
  <2>6. \E i, j \in D : i # j /\ s[i] = s[j]
    BY <2>5, FS_PigeonHole
  <2>7. QED
    BY <1>2, <2>6 DEF D
<1>5. QED
  BY <1>3, <1>4

\* The first k slots are for d; the others are for interfaces of ifs.
FirstFor(d, k, slots, ifs) ==
    /\ k <= Len(slots)
    /\ \A i \in 1..k : slots[i] = d
    /\ \A i \in 1..Len(slots) : i > k => slots[i] \in ToSet(ifs)

\* The slots that are cleared are those from k + 1 on, and perhaps all.
LEMMA ClearedHops ==
    ASSUME NEW S, None \notin S, NEW slots \in Seq(S), NEW d, NEW ifs,
           NEW k \in Nat, FirstFor(d, k, slots, ifs)
    PROVE  /\ Cleared(slots, ifs) \in Seq(S)
           /\ Len(Cleared(slots, ifs)) <= k
           /\ \A i \in 1..Len(Cleared(slots, ifs)) : Cleared(slots, ifs)[i] = d
<1> USE DEF FirstFor
<1> DEFINE left == [i \in DOMAIN slots |-> IF slots[i] \in ToSet(ifs) THEN None ELSE slots[i]]
           F == {0} \cup {i \in DOMAIN slots : left[i] # None}
           j == Max(F)
<1>1. Len(slots) \in Nat /\ DOMAIN slots = 1..Len(slots)
  OBVIOUS
<1>2. F \subseteq 0..Len(slots) /\ F # {}
  BY <1>1
<1>3. j \in F
  BY <1>1, <1>2, GreatestOfSet
<1>4. \A i \in 1..Len(slots) : slots[i] \in S /\ slots[i] # None
  OBVIOUS
<1>5. ASSUME j # 0
      PROVE  j \in 1..k /\ d \notin ToSet(ifs)
  <2>1. j \in 1..Len(slots) /\ left[j] # None
    BY <1>1, <1>3, <1>5
  <2>2. slots[j] \notin ToSet(ifs)
    BY <1>1, <2>1
  <2>3. QED
    BY <2>1, <2>2
<1>6. j \in 0..k
  BY <1>5
<1>7. \A i \in 1..j : left[i] = d /\ d \in S
  <2> TAKE i \in 1..j
  <2>1. i \in 1..k /\ d \notin ToSet(ifs)
    BY <1>5, <1>6
  <2>2. i \in 1..Len(slots) /\ slots[i] = d
    BY <1>1, <2>1
  <2>3. QED
    BY <1>1, <1>4, <2>1, <2>2
<1>8. left \in Seq(S \cup {None}) /\ Len(left) = Len(slots)
  <2>1. left \in [1..Len(slots) -> S \cup {None}]
    BY <1>1, <1>4
  <2>2. QED
    BY <1>1, <2>1
<1>9. Cleared(slots, ifs) = SubSeq(left, 1, j)
  BY DEF Cleared
<1> HIDE DEF left, j
<1>10. /\ Len(SubSeq(left, 1, j)) = j
       /\ \A i \in 1..j : SubSeq(left, 1, j)[i] = left[i]
       /\ SubSeq(left, 1, j) = [i \in 1..j |-> left[i]]
  BY <1>1, <1>6, <1>8
<1>11. SubSeq(left, 1, j) \in Seq(S)
  <2>1. [i \in 1..j |-> left[i]] \in [1..j -> S]
    BY <1>7
  <2>2. j \in Nat
    BY <1>6
  <2>3. QED
    BY <1>10, <2>1, <2>2
<1>12. QED
  BY <1>6, <1>7, <1>9, <1>10, <1>11

\* Without interfaces, nothing is cleared.
LEMMA ClearedNothing ==
    ASSUME NEW S, None \notin S, NEW slots \in Seq(S)
    PROVE  Cleared(slots, <<>>) = slots
<1> DEFINE left == [i \in DOMAIN slots |-> IF slots[i] \in ToSet(<<>>) THEN None ELSE slots[i]]
           F == {0} \cup {i \in DOMAIN slots : left[i] # None}
<1>1. Len(slots) \in Nat /\ DOMAIN slots = 1..Len(slots)
  OBVIOUS
<1>2. ToSet(<<>>) = {}
  BY DEF ToSet
<1>3. left = slots
  BY <1>2
<1>4. F = 0..Len(slots)
  <2>1. \A i \in 1..Len(slots) : slots[i] # None
    OBVIOUS
  <2>2. QED
    BY <1>1, <1>3, <2>1
<1>5. Max(F) = Len(slots)
  <2> HIDE DEF F
  <2>1. F \subseteq 0..Len(slots) /\ F # {} /\ Len(slots) \in F
    BY <1>1, <1>4
  <2>2. Max(F) \in F /\ \A y \in F : Max(F) >= y
    BY <1>1, <2>1, GreatestOfSet
  <2>3. QED
    BY <1>1, <1>4, <2>1, <2>2
<1>6. Cleared(slots, <<>>) = SubSeq(left, 1, Max(F))
  BY DEF Cleared
<1> HIDE DEF left, F
<1>7. QED
  BY <1>1, <1>3, <1>5, <1>6

\* The slots of a classifier name neighbours: none is empty.
LEMMA SlotsFilled ==
    ASSUME NEW n \in Node, NEW d, NEW tb \in Slots(Nbr[n]), NEW r, r.nextHop \in Seq(Nbr[n]),
           NEW c, HopsAfterStale(d, n, tb, r, c)
    PROVE  tb.slots \in Seq(Nbr[n]) /\ None \notin Nbr[n]
<1>1. tb.slots \in Seq(Nbr[n] \cup {None})
  BY DEF Slots
<1>2. PICK k \in Nat :
        /\ Len(tb.slots) = k + Len(r.nextHop)
        /\ \A i \in 1..k : tb.slots[i] = d
        /\ \A j \in 1..Len(r.nextHop) : tb.slots[k + j] = r.nextHop[j]
        /\ k > 0 => d \in Nbr[n]
  BY DEF HopsAfterStale
<1> DEFINE len == Len(tb.slots)
<1>3. len \in Nat /\ Len(r.nextHop) \in Nat /\ tb.slots = [i \in 1..len |-> tb.slots[i]]
  BY <1>1
<1>4. \A i \in 1..len : tb.slots[i] \in Nbr[n]
  <2> TAKE i \in 1..len
  <2>1. CASE i <= k
    BY <1>2, <1>3, <2>1
  <2>2. CASE i > k
    <3>1. i - k \in 1..Len(r.nextHop) /\ k + (i - k) = i
      BY <1>2, <1>3, <2>2
    <3>2. r.nextHop[i - k] \in Nbr[n]
      BY <3>1
    <3>3. QED
      BY <1>2, <3>1, <3>2
  <2>3. QED
    BY <1>3, <2>1, <2>2
<1>5. tb.slots \in [1..len -> Nbr[n]]
  BY <1>3, <1>4
<1>6. None \notin Nbr[n]
  BY NbrFacts, RoutingAssumption
<1>7. QED
  BY <1>3, <1>5, <1>6

\* Adding routes after slots for the link to d only.
LEMMA SlotsAdded ==
    ASSUME NEW n \in Node, NEW d, NEW S, NEW t2, t2.slots \in Seq(S),
           \A i \in 1..Len(t2.slots) : t2.slots[i] = d,
           NEW b, b.nextHop \in Seq(S), NEW c \in Int,
           Len(t2.slots) > 0 => d \in Nbr[n] /\ t2.multi,
           d \in Nbr[n] /\ (t2.multi \/ Len(b.nextHop) > 1) => 2 * Len(t2.slots) + 1 <= c
    PROVE  HopsAfterStale(d, n, AddRoutes(t2, b.nextHop), b, c)
<1> DEFINE k == Len(t2.slots)
           a == t2.slots
           h == b.nextHop
           tb == AddRoutes(t2, h)
<1>1. k \in Nat /\ Len(h) \in Nat /\ a \in Seq(S) /\ h \in Seq(S)
  OBVIOUS
<1>2. tb.slots = a \o h /\ tb.multi = (t2.multi \/ Len(h) > 1)
  BY DEF AddRoutes
<1>3. /\ Len(a \o h) = k + Len(h)
      /\ \A i \in 1..k : (a \o h)[i] = a[i]
      /\ \A j \in 1..Len(h) : (a \o h)[k + j] = h[j]
  <2> HIDE DEF a, h
  <2>1. k = Len(a)
    BY DEF a
  <2>2. QED
    BY <1>1, <2>1, ConcatProperties
<1>4. /\ k > 0 => d \in Nbr[n] /\ tb.multi
      /\ d \in Nbr[n] /\ tb.multi => 2 * k + 1 <= c
  BY <1>2
<1>5. \A i \in 1..k : (a \o h)[i] = d
  BY <1>3
<1> HIDE DEF k, a, h, tb
<1>6. /\ Len(tb.slots) = k + Len(h)
      /\ \A i \in 1..k : tb.slots[i] = d
      /\ \A j \in 1..Len(h) : tb.slots[k + j] = h[j]
  BY <1>2, <1>3, <1>5
<1>7. HopsAfterStale(d, n, tb, b, c)
  BY <1>1, <1>4, <1>6 DEF HopsAfterStale, h
<1>8. QED
  BY <1>7 DEF tb, h

\* If delete-routes is given all next hops, they leave no slot behind.
LEMMA SlotsReplaced ==
    ASSUME NEW n \in Node, NEW d, NEW tb \in Slots(Nbr[n]), NEW r, r.nextHop \in Seq(Nbr[n]),
           NEW c \in Int, HopsAfterStale(d, n, tb, r, c),
           NEW ifs, tb.multi => ToSet(r.nextHop) \subseteq ToSet(ifs),
           NEW b, b.nextHop \in Seq(Nbr[n]), d \in Nbr[n] /\ Len(b.nextHop) > 1 => 1 <= c
    PROVE  HopsAfterStale(d, n, AddRoutes(DeleteRoutes(tb, ifs), b.nextHop), b, c)
<1> DEFINE t2 == DeleteRoutes(tb, ifs)
<1>1. /\ t2.multi = tb.multi
      /\ t2.slots = IF tb.multi THEN Cleared(tb.slots, ifs) ELSE <<>>
  BY DEF DeleteRoutes
<1>2. tb.slots \in Seq(Nbr[n]) /\ None \notin Nbr[n]
  BY SlotsFilled
<1> HIDE DEF t2
<1>3. CASE ~tb.multi
  <2>1. t2.slots = <<>>
    BY <1>1, <1>3
  <2>2. /\ t2.slots \in Seq(Nbr[n]) /\ Len(t2.slots) = 0
        /\ \A i \in 1..Len(t2.slots) : t2.slots[i] = d
    BY <2>1
  <2>3. ~t2.multi
    BY <1>1, <1>3
  <2>4. 1 <= c <=> 2 * Len(t2.slots) + 1 <= c
    BY <2>2
  <2>5. /\ Len(t2.slots) > 0 => d \in Nbr[n] /\ t2.multi
        /\ d \in Nbr[n] /\ (t2.multi \/ Len(b.nextHop) > 1) => 2 * Len(t2.slots) + 1 <= c
    BY <2>2, <2>3, <2>4
  <2>6. HopsAfterStale(d, n, AddRoutes(t2, b.nextHop), b, c)
    BY <2>2, <2>5, SlotsAdded
  <2>7. QED
    BY <2>6 DEF t2
<1>4. CASE tb.multi
  <2>1. PICK k \in Nat :
          /\ Len(tb.slots) = k + Len(r.nextHop)
          /\ \A i \in 1..k : tb.slots[i] = d
          /\ \A j \in 1..Len(r.nextHop) : tb.slots[k + j] = r.nextHop[j]
          /\ k > 0 => d \in Nbr[n] /\ tb.multi
          /\ d \in Nbr[n] /\ tb.multi => 2 * k + 1 <= c
    BY DEF HopsAfterStale
  <2>2. Len(r.nextHop) \in Nat /\ Len(tb.slots) \in Nat
    BY <1>2
  <2>3. ASSUME NEW i \in 1..Len(tb.slots), i > k
        PROVE  tb.slots[i] \in ToSet(ifs)
    <3>1. i - k \in 1..Len(r.nextHop) /\ k + (i - k) = i
      BY <2>1, <2>2, <2>3
    <3>2. r.nextHop[i - k] \in ToSet(r.nextHop)
      BY <3>1 DEF ToSet
    <3>3. QED
      BY <1>4, <2>1, <3>1, <3>2
  <2>4. /\ Cleared(tb.slots, ifs) \in Seq(Nbr[n])
        /\ Len(Cleared(tb.slots, ifs)) <= k
        /\ \A i \in 1..Len(Cleared(tb.slots, ifs)) : Cleared(tb.slots, ifs)[i] = d
    <3>1. k <= Len(tb.slots)
      BY <2>1, <2>2
    <3> DEFINE slots == tb.slots
               S == Nbr[n]
    <3>2. None \notin S /\ slots \in Seq(S) /\ FirstFor(d, k, slots, ifs)
      BY <1>2, <2>1, <2>3, <3>1 DEF FirstFor
    <3> HIDE DEF slots, S
    <3>3. /\ Cleared(slots, ifs) \in Seq(S)
          /\ Len(Cleared(slots, ifs)) <= k
          /\ \A i \in 1..Len(Cleared(slots, ifs)) : Cleared(slots, ifs)[i] = d
      BY <3>2, ClearedHops
    <3>4. QED
      BY <3>3 DEF slots, S
  <2>5. t2.slots = Cleared(tb.slots, ifs)
    BY <1>1, <1>4
  <2>6. /\ Len(t2.slots) > 0 => d \in Nbr[n] /\ t2.multi
        /\ d \in Nbr[n] => 2 * Len(t2.slots) + 1 <= c
    BY <1>1, <1>4, <2>1, <2>4, <2>5
  <2>7. HopsAfterStale(d, n, AddRoutes(t2, b.nextHop), b, c)
    BY <2>4, <2>5, <2>6, SlotsAdded
  <2>8. QED
    BY <2>7 DEF t2
<1>5. QED
  BY <1>3, <1>4

\* If delete-routes is given nothing, the slot of a direct route stays.
LEMMA SlotMissed ==
    ASSUME NEW n \in Node, NEW d \in Nbr[n], NEW tb \in Slots(Nbr[n]), tb.multi,
           NEW r, r.nextHop = <<d>>,
           NEW c0 \in Int, HopsAfterStale(d, n, tb, r, c0), NEW c \in Int, c0 + 2 <= c,
           NEW b, b.nextHop \in Seq(Nbr[n])
    PROVE  HopsAfterStale(d, n, AddRoutes(DeleteRoutes(tb, <<>>), b.nextHop), b, c)
<1> DEFINE t2 == DeleteRoutes(tb, <<>>)
<1>1. t2.multi /\ t2.slots = Cleared(tb.slots, <<>>)
  BY DEF DeleteRoutes
<1>2. r.nextHop \in Seq(Nbr[n])
  BY Singleton
<1>3. tb.slots \in Seq(Nbr[n]) /\ None \notin Nbr[n]
  BY <1>2, SlotsFilled
<1> HIDE DEF t2
<1>4. t2.slots = tb.slots
  BY <1>1, <1>3, ClearedNothing
<1>5. PICK k \in Nat :
        /\ Len(tb.slots) = k + Len(r.nextHop)
        /\ \A i \in 1..k : tb.slots[i] = d
        /\ \A j \in 1..Len(r.nextHop) : tb.slots[k + j] = r.nextHop[j]
        /\ 2 * k + 1 <= c0
  BY DEF HopsAfterStale
<1>6. Len(r.nextHop) = 1 /\ r.nextHop[1] = d
  OBVIOUS
<1>7. \A i \in 1..Len(tb.slots) : tb.slots[i] = d
  BY <1>5, <1>6
<1>8. 2 * Len(t2.slots) + 1 <= c
  BY <1>4, <1>5, <1>6
<1>9. HopsAfterStale(d, n, AddRoutes(t2, b.nextHop), b, c)
  BY <1>1, <1>3, <1>4, <1>7, <1>8, SlotsAdded
<1>10. QED
  BY <1>9 DEF t2

\* The next hops that DV computes: those that it had, if no peer has a route, or all peers
\* of least metric.
LEMMA DVHops ==
    ASSUME NEW S, IsFiniteSet(S), NEW e \in DVEntry(S), NEW pm \in [S -> Metric],
           NEW v \in DVRoutes(e, pm)
    PROVE  \/ v.nextHop = e.nextHop /\ (Least(pm) = INFINITY \/ e.nextHop = <<>>)
           \/ /\ Least(pm) # INFINITY /\ v.nextHop # <<>>
              /\ ToSet(v.nextHop) = {m \in DOMAIN pm : pm[m] = Least(pm)}
<1> DEFINE metric == IF e.nextHop = <<>> THEN e.metric ELSE pm[Head(e.nextHop)]
           mt == Least(pm)
           nh == {m \in DOMAIN pm : pm[m] = mt}
<1>1. INFINITY \in Nat
  BY RoutingAssumption
<1>2. /\ mt \in Metric /\ (mt = INFINITY \/ \E m \in S : pm[m] = mt)
      /\ \A m \in S : mt <= pm[m]
  BY LeastMetric
<1>3. ASSUME e.nextHop # <<>>
      PROVE  ~(mt > metric)
  <2>1. Head(e.nextHop) \in S
    BY <1>3 DEF DVEntry
  <2>2. metric \in Metric /\ mt <= metric
    BY <1>2, <1>3, <2>1
  <2>3. QED
    BY <1>1, <1>2, <2>2 DEF Metric
<1>4. CASE mt >= INFINITY \/ (metric >= 0 /\ mt > metric)
  <2>1. v = [nextHop |-> e.nextHop, metric |-> metric]
    BY <1>4 DEF DVRoutes
  <2>2. v.nextHop = e.nextHop
    BY <2>1
  <2>3. mt = INFINITY \/ e.nextHop = <<>>
    BY <1>1, <1>2, <1>3, <1>4 DEF Metric
  <2>4. QED
    BY <2>2, <2>3
<1>5. CASE ~(mt >= INFINITY \/ (metric >= 0 /\ mt > metric))
  <2>1. PICK s \in SetToSeqs(nh) : v = [nextHop |-> s, metric |-> mt]
    BY <1>5 DEF DVRoutes
  <2>2. nh \subseteq S /\ IsFiniteSet(nh)
    BY FS_Subset
  <2>3. nh # {} /\ mt # INFINITY
    BY <1>1, <1>2, <1>5 DEF Metric
  <2> HIDE DEF nh
  <2>4. s # <<>> /\ ToSet(s) = nh
    BY <2>2, <2>3, NextHopsInOrder, AllInOrder
  <2>5. v.nextHop = s
    BY <2>1
  <2>6. QED
    BY <2>3, <2>4, <2>5 DEF nh
<1>6. QED
  BY <1>4, <1>5

\* Computing makes the next hops stable, never empty, and does not change stable ones.
LEMMA DVHopsStable ==
    ASSUME NEW S, IsFiniteSet(S), NEW e \in DVEntry(S), NEW pm \in [S -> Metric],
           NEW v \in DVRoutes(e, pm)
    PROVE  /\ Stable(v, pm)
           /\ e.nextHop # <<>> => v.nextHop # <<>>
           /\ e.nextHop # <<>> /\ Stable(e, pm) => ToSet(v.nextHop) = ToSet(e.nextHop)
<1>1. \/ v.nextHop = e.nextHop /\ (Least(pm) = INFINITY \/ e.nextHop = <<>>)
      \/ /\ Least(pm) # INFINITY /\ v.nextHop # <<>>
         /\ ToSet(v.nextHop) = {m \in DOMAIN pm : pm[m] = Least(pm)}
  BY DVHops
<1>2. QED
  BY <1>1 DEF Stable

LEMMA StaleCount ==
    ASSUME NEW d, NEW n, NEW tb, NEW r, NEW c \in Int, NEW c2 \in Int, c <= c2,
           HopsAfterStale(d, n, tb, r, c)
    PROVE  HopsAfterStale(d, n, tb, r, c2)
<1>1. \A k \in Nat : 2 * k + 1 <= c => 2 * k + 1 <= c2
  OBVIOUS
<1>2. QED
  BY <1>1 DEF HopsAfterStale

\* A change adds to the budget what the loss of a direct route takes from it.
LEMMA BudgetGrows ==
    ASSUME NEW d, NEW n, NEW u, NEW u2, NEW ch \in Nat, NEW ch2 \in Nat, ch <= ch2,
           ({d, n} \in u) # ({d, n} \in u2) => ch < ch2
    PROVE  /\ Budget(d, n, u, ch) \in Int /\ Budget(d, n, u2, ch2) \in Int
           /\ Budget(d, n, u, ch) <= Budget(d, n, u2, ch2)
           /\ {d, n} \in u /\ {d, n} \notin u2 => Budget(d, n, u, ch) + 2 <= Budget(d, n, u2, ch2)
  BY DEF Budget

\* What rtObject compute-routes installs at a node: slots for the next hops of the best
\* route.  A direct route is lost only if the links change, and found only by a link that
\* comes up, when the metrics of the peers are as they were.
LEMMA InstalledSlots ==
    ASSUME SlotInv, NEW n \in Node, NEW pm \in [Nbr[n] -> Metric], NEW u,
           NEW v \in DVRoutes(dv[n], pm),
           NEW ch \in Nat, changes <= ch,
           ({dst, n} \in up) # ({dst, n} \in u) => changes < ch,
           {dst, n} \in u /\ {dst, n} \notin up => pm = peer[n]
    PROVE  /\ HopsAfterStale(dst, n, Installed(n, v, u), Best(n, v, u), Budget(dst, n, u, ch))
           /\ dst \in Nbr[n] /\ {dst, n} \notin u => ch > 0
           /\ Installed(n, v, u).multi => v.nextHop # <<>> /\ n # dst
<1> DEFINE tb == table[n]
           r == rt[n]
           b == Best(n, v, u)
           e == dv[n]
           ifs == Replaced(n, v, u, b)
           added == AddRoutes(DeleteRoutes(tb, ifs), b.nextHop)
           c0 == Budget(dst, n, up, changes)
           c == Budget(dst, n, u, ch)
<1>1. /\ tb \in Slots(Nbr[n]) /\ r \in Route(Nbr[n]) /\ e \in DVEntry(Nbr[n])
      /\ peer[n] \in [Nbr[n] -> Metric] /\ changes \in Nat
  <2>1. TypeOK
    BY DEF SlotInv, TypeInv
  <2>2. changes \in 0..MaxChanges /\ MaxChanges \in Nat
    BY <2>1, RoutingAssumption DEF TypeOK
  <2>3. /\ tb \in Slots(Nbr[n]) /\ r \in Route(Nbr[n]) /\ e \in DVEntry(Nbr[n])
        /\ peer[n] \in [Nbr[n] -> Metric]
    BY <2>1 DEF TypeOK, Slots, Route, DVEntry, Metric
  <2>4. changes \in Nat
    BY <2>2
  <2>5. QED
    BY <2>3, <2>4
<1>2. /\ Chosen(dst, n, e, up, r) /\ Stable(e, peer[n])
      /\ tb.multi => e.nextHop # <<>> /\ n # dst
      /\ dst \in Nbr[n] /\ {dst, n} \notin up => changes > 0
      /\ HopsAfterStale(dst, n, tb, r, c0)
  BY DEF SlotInv
<1>3. Chosen(dst, n, v, u, b)
  BY BestIsChosen
<1>4. /\ e.nextHop # <<>> => v.nextHop # <<>>
      /\ e.nextHop # <<>> /\ Stable(e, pm) => ToSet(v.nextHop) = ToSet(e.nextHop)
      /\ v \in DVEntry(Nbr[n])
  BY <1>1, NbrFacts, DVHopsStable, DVRoutesTyped
<1>5. b \in Route(Nbr[n])
  BY <1>3, <1>4, ChosenTyped
<1>6. r.nextHop \in Seq(Nbr[n]) /\ b.nextHop \in Seq(Nbr[n])
  BY <1>1, <1>5 DEF Route
<1>7. /\ c0 \in Int /\ c \in Int /\ c0 <= c
      /\ {dst, n} \in up /\ {dst, n} \notin u => c0 + 2 <= c
  BY <1>1, BudgetGrows
<1>8. Installed(n, v, u) = IF b.via = r.via /\ b.nextHop = r.nextHop THEN tb ELSE added
  BY DEF Installed
<1>9. /\ ifs = IF b.via = r.via \/ b.nextHop = <<>> THEN r.nextHop
               ELSE IF r.via = "Direct" THEN Direct(n, u)
               ELSE IF r.via = "DV" THEN v.nextHop ELSE <<>>
      /\ added.multi = (tb.multi \/ Len(b.nextHop) > 1)
  BY DEF Replaced, AddRoutes, DeleteRoutes
<1>10. /\ dst \in Nbr[n] /\ {dst, n} \notin u => ch > 0
       /\ {dst, n} \notin u => c = ch
  BY <1>1, <1>2 DEF Budget
<1> HIDE DEF tb, r, b, e, ifs, added, c0, c
<1>11. HopsAfterStale(dst, n, tb, r, c)
  BY <1>2, <1>7, StaleCount
<1>12. dst \in Nbr[n] /\ Len(b.nextHop) > 1 => 1 <= c
  <2>1. ~(Len(<<>>) > 1) /\ ~(Len(<<dst>>) > 1) /\ Local.nextHop = <<>> /\ NoRoute.nextHop = <<>>
    BY DEF Local, NoRoute
  <2>2. \/ b = Local \/ b = NoRoute \/ b.nextHop = <<dst>>
        \/ ~(dst \in Nbr[n] /\ {dst, n} \in u)
    BY <1>3 DEF Chosen
  <2>3. dst \in Nbr[n] /\ Len(b.nextHop) > 1 => ch > 0 /\ c = ch
    BY <1>10, <2>1, <2>2
  <2>4. QED
    BY <2>3
<1>13. Len(b.nextHop) > 1 => v.nextHop # <<>> /\ n # dst
  <2>1. ~(Len(<<>>) > 1) /\ ~(Len(<<dst>>) > 1) /\ Local.nextHop = <<>> /\ NoRoute.nextHop = <<>>
    BY DEF Local, NoRoute
  <2>2. \/ b = Local \/ b = NoRoute \/ b.nextHop = <<dst>>
        \/ v.nextHop # <<>> /\ n # dst
    BY <1>3 DEF Chosen
  <2>3. QED
    BY <2>1, <2>2
<1>14. ASSUME b.via = r.via, b.nextHop = r.nextHop
       PROVE  HopsAfterStale(dst, n, tb, b, c)
  BY <1>11, <1>14 DEF HopsAfterStale
<1>15. HopsAfterStale(dst, n, added, b, c)
  <2>1. ASSUME tb.multi => ToSet(r.nextHop) \subseteq ToSet(ifs)
        PROVE  HopsAfterStale(dst, n, added, b, c)
    BY <1>1, <1>6, <1>7, <1>11, <1>12, <2>1, SlotsReplaced DEF added
  <2>2. CASE b.via = r.via \/ b.nextHop = <<>>
    BY <1>9, <2>1, <2>2
  <2>3. CASE ~tb.multi
    BY <2>1, <2>3
  <2>4. ASSUME tb.multi, b.via # r.via, b.nextHop # <<>>
        PROVE  HopsAfterStale(dst, n, added, b, c)
    <3>1. e.nextHop # <<>> /\ v.nextHop # <<>> /\ n # dst
      BY <1>2, <1>4, <2>4
    <3>2. CASE dst \in Nbr[n] /\ {dst, n} \in up
      <4>1. r.nextHop = <<dst>> /\ r.via = "Direct"
        BY <1>2, <3>1, <3>2 DEF Chosen
      <4>2. {dst, n} \notin u
        BY <1>3, <2>4, <3>1, <3>2, <4>1 DEF Chosen
      <4>3. ifs = <<>>
        BY <1>9, <2>4, <4>1, <4>2 DEF Direct
      <4>4. c0 + 2 <= c
        BY <1>7, <3>2, <4>2
      <4>5. QED
        BY <1>1, <1>2, <1>6, <1>7, <2>4, <3>2, <4>1, <4>3, <4>4, SlotMissed DEF added
    <3>3. CASE ~(dst \in Nbr[n] /\ {dst, n} \in up)
      <4>1. r.nextHop = e.nextHop /\ r.via = "DV"
        BY <1>2, <3>1, <3>3 DEF Chosen
      <4>2. dst \in Nbr[n] /\ {dst, n} \in u
        BY <1>3, <2>4, <3>1, <4>1 DEF Chosen
      <4>3. pm = peer[n]
        BY <3>3, <4>2
      <4>4. ifs = v.nextHop
        BY <1>9, <2>4, <4>1
      <4>5. ToSet(r.nextHop) \subseteq ToSet(ifs)
        BY <1>2, <1>4, <3>1, <4>1, <4>3, <4>4
      <4>6. QED
        BY <2>1, <4>5
    <3>4. QED
      BY <3>2, <3>3
  <2>5. QED
    BY <2>2, <2>3, <2>4
<1>16. tb.multi => v.nextHop # <<>> /\ n # dst
  BY <1>2, <1>4
<1>17. QED
  <2>1. HopsAfterStale(dst, n, Installed(n, v, u), b, c)
    BY <1>8, <1>14, <1>15
  <2>2. Installed(n, v, u).multi => tb.multi \/ Len(b.nextHop) > 1
    BY <1>8, <1>9
  <2>3. QED
    BY <1>13, <1>16, <1>10, <2>1, <2>2 DEF b, c

LEMMA RecomputeInstalls ==
    ASSUME NEW S \in SUBSET Node, NEW p, NEW u, NEW w, Recompute(S, p, u, w)
    PROVE  \A n \in S : rt'[n] = Best(n, dv'[n], u) /\ table'[n] = Installed(n, dv'[n], u)
<1> DEFINE computed == [n \in S |-> DVRoutes(dv[n], p[n])]
<1>1. PICK v \in [S -> UNION {computed[n] : n \in S}] :
        /\ dv' = [n \in Node |-> IF n \in S THEN v[n] ELSE dv[n]]
        /\ rt' = [n \in Node |-> IF n \in S THEN Best(n, v[n], u) ELSE rt[n]]
        /\ table' = [n \in Node |-> IF n \in S THEN Installed(n, v[n], u) ELSE table[n]]
  BY DEF Recompute
<1>2. \A n \in S : dv'[n] = v[n]
  BY <1>1
<1>3. QED
  BY <1>1, <1>2

\* What SlotInv says of a node.
SlotsAt(d, n, v, u, r, pm, tb, ch) ==
    /\ Chosen(d, n, v, u, r)
    /\ Stable(v, pm)
    /\ tb.multi => v.nextHop # <<>> /\ n # d
    /\ d \in Nbr[n] /\ {d, n} \notin u => ch > 0
    /\ HopsAfterStale(d, n, tb, r, Budget(d, n, u, ch))

LEMMA RecomputeSlots ==
    ASSUME SlotInv, NEW S \in SUBSET Node, NEW p, NEW u, NEW w,
           \A n \in Node : p[n] \in [Nbr[n] -> Metric],
           Recompute(S, p, u, w),
           NEW ch \in Nat, changes <= ch,
           \A n \in S : /\ ({dst, n} \in up) # ({dst, n} \in u) => changes < ch
                        /\ {dst, n} \in u /\ {dst, n} \notin up => p[n] = peer[n],
           \A n \in Node \ S : p[n] = peer[n] /\ ({dst, n} \in u <=> {dst, n} \in up)
    PROVE  \A n \in Node : SlotsAt(dst, n, dv'[n], u, rt'[n], peer'[n], table'[n], ch)
<1>1. TypeInv /\ changes \in Nat
  <2>1. TypeInv /\ changes \in 0..MaxChanges /\ MaxChanges \in Nat
    BY RoutingAssumption DEF SlotInv, TypeInv, TypeOK
  <2>2. QED
    BY <2>1
<1>2. peer' = p
  BY RecomputeParts
<1>3. ASSUME NEW n \in S
      PROVE  SlotsAt(dst, n, dv'[n], u, rt'[n], peer'[n], table'[n], ch)
  <2>1. n \in Node /\ IsFiniteSet(Nbr[n])
    BY NbrFacts
  <2>2. dv[n] \in DVEntry(Nbr[n]) /\ p[n] \in [Nbr[n] -> Metric]
    BY <1>1, <2>1 DEF TypeInv, TypeOK, DVEntry
  <2>3. dv'[n] \in DVRoutes(dv[n], p[n]) /\ Chosen(dst, n, dv'[n], u, rt'[n])
    BY RecomputeParts
  <2>4. Stable(dv'[n], p[n])
    BY <2>1, <2>2, <2>3, DVHopsStable
  <2>5. rt'[n] = Best(n, dv'[n], u) /\ table'[n] = Installed(n, dv'[n], u)
    BY RecomputeInstalls
  <2>6. /\ ({dst, n} \in up) # ({dst, n} \in u) => changes < ch
        /\ {dst, n} \in u /\ {dst, n} \notin up => p[n] = peer[n]
    OBVIOUS
  <2> DEFINE v == dv'[n]
             pm == p[n]
  <2>7. v \in DVRoutes(dv[n], pm) /\ pm \in [Nbr[n] -> Metric]
    BY <2>2, <2>3
  <2>8. {dst, n} \in u /\ {dst, n} \notin up => pm = peer[n]
    BY <2>6
  <2> HIDE DEF v, pm
  <2>9. /\ HopsAfterStale(dst, n, Installed(n, v, u), Best(n, v, u), Budget(dst, n, u, ch))
        /\ dst \in Nbr[n] /\ {dst, n} \notin u => ch > 0
        /\ Installed(n, v, u).multi => v.nextHop # <<>> /\ n # dst
    BY <2>1, <2>6, <2>7, <2>8, InstalledSlots
  <2>10. QED
    BY <1>2, <2>3, <2>4, <2>5, <2>9 DEF SlotsAt, v
<1>4. ASSUME NEW n \in Node \ S
      PROVE  SlotsAt(dst, n, dv'[n], u, rt'[n], peer'[n], table'[n], ch)
  <2>1. dv'[n] = dv[n] /\ rt'[n] = rt[n] /\ table'[n] = table[n] /\ peer'[n] = peer[n]
    BY <1>2, RecomputeParts
  <2>2. /\ Chosen(dst, n, dv[n], up, rt[n]) /\ Stable(dv[n], peer[n])
        /\ table[n].multi => dv[n].nextHop # <<>> /\ n # dst
        /\ dst \in Nbr[n] /\ {dst, n} \notin up => changes > 0
        /\ HopsAfterStale(dst, n, table[n], rt[n], Budget(dst, n, up, changes))
    BY DEF SlotInv
  <2>3. {dst, n} \in u <=> {dst, n} \in up
    OBVIOUS
  <2>4. Chosen(dst, n, dv[n], u, rt[n])
    BY <2>2, <2>3 DEF Chosen
  <2> DEFINE c0 == Budget(dst, n, up, changes)
             c == Budget(dst, n, u, ch)
  <2>5. c0 \in Int /\ c \in Int /\ c0 <= c
    <3>1. ({dst, n} \in up) # ({dst, n} \in u) => changes < ch
      BY <2>3
    <3>2. QED
      BY <1>1, <3>1, BudgetGrows
  <2> HIDE DEF c
  <2>6. HopsAfterStale(dst, n, table[n], rt[n], c)
    BY <2>2, <2>5, StaleCount
  <2>7. dst \in Nbr[n] /\ {dst, n} \notin u => ch > 0
    BY <1>1, <2>2, <2>3
  <2>8. QED
    BY <2>1, <2>2, <2>4, <2>6, <2>7 DEF SlotsAt, c
<1>5. QED
  BY <1>3, <1>4

LEMMA InitSlots == Init => SlotInv
<1> SUFFICES ASSUME Init PROVE SlotInv
  OBVIOUS
<1>1. TypeInv
  BY InitTyped
<1>2. ASSUME NEW n \in Node
      PROVE  /\ Chosen(dst, n, dv[n], up, rt[n]) /\ Stable(dv[n], peer[n])
             /\ table[n].multi => dv[n].nextHop # <<>> /\ n # dst
             /\ dst \in Nbr[n] /\ {dst, n} \notin up => changes > 0
             /\ HopsAfterStale(dst, n, table[n], rt[n], Budget(dst, n, up, changes))
  <2>1. Chosen(dst, n, dv[n], up, rt[n])
    BY InitChosen DEF Init
  <2>2. dv[n].nextHop = <<>>
    BY DEF Init
  <2>3. /\ table[n].multi = FALSE
        /\ table[n].slots = IF dst \in Nbr[n] THEN <<dst>> ELSE <<>>
    BY DEF Init
  <2>4. rt[n].nextHop = IF dst \in Nbr[n] THEN <<dst>> ELSE <<>>
    <3>1. dst = n => dst \notin Nbr[n]
      BY NbrFacts
    <3>2. QED
      BY <3>1 DEF Init, Local, NoRoute
  <2>5. HopsAfterStale(dst, n, table[n], rt[n], Budget(dst, n, up, changes))
    <3> DEFINE h == rt[n].nextHop
    <3>1. table[n].slots = h /\ Len(h) \in Nat
      BY <2>3, <2>4
    <3> HIDE DEF h
    <3>2. Len(h) = 0 + Len(h) /\ \A j \in 1..Len(h) : 0 + j = j
      BY <3>1
    <3>3. ~table[n].multi
      BY <2>3
    <3>4. /\ Len(table[n].slots) = 0 + Len(h)
          /\ \A i \in 1..0 : table[n].slots[i] = dst
          /\ \A j \in 1..Len(h) : table[n].slots[0 + j] = h[j]
      BY <3>1, <3>2
    <3>5. 0 \in Nat /\ ~(0 > 0)
      OBVIOUS
    <3> DEFINE c == Budget(dst, n, up, changes)
    <3> HIDE DEF c
    <3>6. HopsAfterStale(dst, n, table[n], rt[n], c)
      BY <3>3, <3>4, <3>5, Zenon DEF HopsAfterStale, h
    <3>7. QED
      BY <3>6 DEF c
  <2>6. dst \in Nbr[n] => {dst, n} \in up
    <3>1. up = Link
      BY DEF Init
    <3>2. ASSUME dst \in Nbr[n]
          PROVE  {dst, n} \in Link
      <4>1. <<dst, n>> \in Channel
        BY <3>2, NbrFacts
      <4>2. {<<dst, n>>[1], <<dst, n>>[2]} \in Link
        BY <4>1 DEF Link
      <4>3. QED
        BY <4>2
    <3>3. QED
      BY <3>1, <3>2
  <2>7. QED
    BY <2>1, <2>2, <2>3, <2>5, <2>6 DEF Stable
<1>3. QED
  BY <1>1, <1>2 DEF SlotInv

LEMMA StepSlots == SlotInv /\ [Next]_vars => SlotInv'
<1> SUFFICES ASSUME SlotInv, [Next]_vars PROVE SlotInv'
  OBVIOUS
<1>1. TypeInv /\ TypeInv'
  BY StepTyped DEF SlotInv
<1>2. /\ changes \in Nat /\ wire \in [Channel -> Seq(Metric)]
      /\ \A n \in Node : peer[n] \in [Nbr[n] -> Metric]
  <2>1. changes \in 0..MaxChanges /\ MaxChanges \in Nat
    BY <1>1, RoutingAssumption DEF TypeInv, TypeOK
  <2>2. changes \in Nat
    BY <2>1
  <2>3. QED
    BY <1>1, <2>2 DEF TypeInv, TypeOK, Metric
<1>3. ASSUME dst' = dst,
             \A n \in Node : SlotsAt(dst, n, dv'[n], up', rt'[n], peer'[n], table'[n], changes')
      PROVE  SlotInv'
  BY <1>1, <1>3 DEF SlotInv, SlotsAt
<1>4. ASSUME UNCHANGED <<dst, up, changes, peer, dv, rt, table>>
      PROVE  SlotInv'
  BY <1>1, <1>4 DEF SlotInv
<1>5. ASSUME Next
      PROVE  SlotInv'
  <2>1. dst' = dst
    BY <1>5, StepCases
  <2>2. ASSUME NEW c \in Channel, UNCHANGED <<up, changes>>, wire[c] # <<>>,
               Recompute({c[2]}, [peer EXCEPT ![c[2]][c[1]] = Heard(Head(wire[c]))],
                         up, [wire EXCEPT ![c] = Tail(@)])
        PROVE  SlotInv'
    <3> DEFINE p == [peer EXCEPT ![c[2]][c[1]] = Heard(Head(wire[c]))]
               w == [wire EXCEPT ![c] = Tail(@)]
    <3>1. Heard(Head(wire[c])) \in Metric
      BY <1>2, <2>2, TailTyped, HeardTyped
    <3>2. /\ \A n \in Node : p[n] \in [Nbr[n] -> Metric]
          /\ \A n \in Node \ {c[2]} : p[n] = peer[n]
      BY <1>1, <3>1, HeardPeers
    <3> DEFINE S == {c[2]}
               u == up
               ch == changes
    <3>3. S \in SUBSET Node
      BY ChannelFacts
    <3>4. /\ Recompute(S, p, u, w) /\ ch \in Nat /\ changes <= ch
          /\ \A n \in S : /\ ({dst, n} \in up) # ({dst, n} \in u) => changes < ch
                          /\ {dst, n} \in u /\ {dst, n} \notin up => p[n] = peer[n]
          /\ \A n \in Node \ S : p[n] = peer[n] /\ ({dst, n} \in u <=> {dst, n} \in up)
      BY <1>2, <2>2, <3>2
    <3>5. up' = u /\ changes' = ch
      BY <2>2
    <3> HIDE DEF p, w, S, u, ch
    <3>6. \A n \in Node : SlotsAt(dst, n, dv'[n], u, rt'[n], peer'[n], table'[n], ch)
      BY <3>2, <3>3, <3>4, RecomputeSlots
    <3>7. QED
      BY <1>3, <2>1, <3>5, <3>6
  <2>3. ASSUME NEW l \in Link, changes' = changes + 1, up' = up \ {l},
               Recompute(l, Forgotten(l), up \ {l}, Emptied(l))
        PROVE  SlotInv'
    <3> DEFINE p == Forgotten(l)
               w == Emptied(l)
               u == up \ {l}
               ch == changes + 1
    <3>1. l \in SUBSET Node /\ \A n \in Node : p[n] \in [Nbr[n] -> Metric]
      BY <1>1, LinkIsNodes, ForgottenPeers
    <3>2. ASSUME NEW n \in Node \ l
          PROVE  p[n] = peer[n] /\ ({dst, n} \in u <=> {dst, n} \in up)
      <4>1. \A m : {m, n} # l
        OBVIOUS
      <4>2. p[n] = [m \in Nbr[n] |-> peer[n][m]]
        BY <4>1 DEF Forgotten
      <4>3. peer[n] = [m \in Nbr[n] |-> peer[n][m]]
        BY <1>2
      <4>4. QED
        BY <4>1, <4>2, <4>3
    <3>3. ch \in Nat /\ changes < ch /\ changes <= ch /\ \A n : {dst, n} \in u => {dst, n} \in up
      BY <1>2
    <3>4. Recompute(l, p, u, w)
      BY <2>3
    <3>5. up' = u /\ changes' = ch
      BY <2>3
    <3> HIDE DEF p, w, u, ch
    <3>6. \A n \in Node : SlotsAt(dst, n, dv'[n], u, rt'[n], peer'[n], table'[n], ch)
      BY <3>1, <3>2, <3>3, <3>4, RecomputeSlots
    <3>7. QED
      BY <1>3, <2>1, <3>5, <3>6
  <2>4. ASSUME NEW l \in Link, changes' = changes + 1, up' = up \cup {l},
               Recompute(l, peer, up \cup {l}, wire)
        PROVE  SlotInv'
    <3> DEFINE u == up \cup {l}
               ch == changes + 1
    <3>1. l \in SUBSET Node
      BY LinkIsNodes
    <3>2. \A n \in Node \ l : {dst, n} \in u <=> {dst, n} \in up
      OBVIOUS
    <3>3. ch \in Nat /\ changes < ch /\ changes <= ch
      BY <1>2
    <3>4. Recompute(l, peer, u, wire)
      BY <2>4
    <3>5. up' = u /\ changes' = ch
      BY <2>4
    <3> HIDE DEF u, ch
    <3>6. \A n \in Node : SlotsAt(dst, n, dv'[n], u, rt'[n], peer'[n], table'[n], ch)
      BY <1>2, <3>1, <3>2, <3>3, <3>4, RecomputeSlots
    <3>7. QED
      BY <1>3, <2>1, <3>5, <3>6
  <2>5. QED
    BY <1>4, <1>5, <2>1, <2>2, <2>3, <2>4, StepCases
<1>6. QED
  BY <1>4, <1>5 DEF vars

\* Whatever updates are lost or late and whatever links fail and recover, the slots of every
\* node's classifier are the next hops of its route, each once and in order; before them are
\* only slots for a link to the destination, at most one for each time that the link has failed
\* after the first.
THEOREM SlotsAreNextHopsAlways == Spec => []SlotsAreNextHops
<1>1. Spec => []SlotInv
  BY InitSlots, StepSlots, PTL DEF Spec
<1>2. SlotInv => SlotsAreNextHops
  <2> SUFFICES ASSUME SlotInv, NEW n \in Node
               PROVE  LET slots == table[n].slots
                          stale == Len(slots) - Len(rt[n].nextHop)
                      IN  /\ stale >= 0
                          /\ slots = [i \in 1..stale |-> dst] \o rt[n].nextHop
                          /\ stale > 0 => 2 * stale + 1 <= changes /\ dst \in Nbr[n] /\ table[n].multi
    BY DEF SlotsAreNextHops
  <2> DEFINE slots == table[n].slots
             h == rt[n].nextHop
             S == Nbr[n] \cup {None, dst}
  <2>1. slots \in Seq(Nbr[n] \cup {None}) /\ h \in Seq(Nbr[n])
    BY DEF SlotInv, TypeInv, TypeOK
  <2>2. slots \in Seq(S) /\ h \in Seq(S) /\ dst \in S
    BY <2>1, SeqMonotonic
  <2>3. PICK k \in Nat :
          /\ Len(slots) = k + Len(h)
          /\ \A i \in 1..k : slots[i] = dst
          /\ \A j \in 1..Len(h) : slots[k + j] = h[j]
          /\ k > 0 => dst \in Nbr[n] /\ table[n].multi
          /\ dst \in Nbr[n] /\ table[n].multi => 2 * k + 1 <= Budget(dst, n, up, changes)
    BY DEF SlotInv, HopsAfterStale
  <2>4. k > 0 => 2 * k + 1 <= changes
    <3>1. changes \in 0..MaxChanges /\ MaxChanges \in Nat
      BY RoutingAssumption DEF SlotInv, TypeInv, TypeOK
    <3>2. Budget(dst, n, up, changes) \in Int /\ Budget(dst, n, up, changes) <= changes
      BY <3>1 DEF Budget
    <3>3. QED
      BY <2>3, <3>1, <3>2
  <2> DEFINE front == [i \in 1..k |-> dst]
  <2> HIDE DEF slots, h, S
  <2>5. front \in Seq(S) /\ Len(front) = k
    <3>1. front \in [1..k -> S]
      BY <2>2
    <3>2. QED
      BY <3>1
  <2>6. \A i \in 1..k : front[i] = dst
    OBVIOUS
  <2> HIDE DEF front
  <2>7. front \o h \in Seq(S) /\ Len(front \o h) = Len(slots)
    BY <2>2, <2>3, <2>5, ConcatProperties
  <2>8. \A i \in 1..Len(slots) : (front \o h)[i] = slots[i]
    <3> TAKE i \in 1..Len(slots)
    <3>1. Len(h) \in Nat
      BY <2>2
    <3>2. CASE i <= k
      BY <2>2, <2>3, <2>5, <2>6, <3>1, <3>2
    <3>3. CASE i > k
      <4>1. i - k \in 1..Len(h) /\ k + (i - k) = i
        BY <2>3, <3>1, <3>3
      <4>2. (front \o h)[i] = h[i - k]
        BY <2>2, <2>5, <3>1, <3>3, <4>1
      <4>3. QED
        BY <2>3, <4>1, <4>2
    <3>4. i <= k \/ i > k
      BY <2>2
    <3>5. QED
      BY <3>2, <3>3, <3>4
  <2>9. slots = front \o h
    BY <2>2, <2>7, <2>8, SeqEqual
  <2>10. Len(slots) - Len(h) = k
    BY <2>2, <2>3
  <2>11. QED
    BY <2>3, <2>4, <2>9, <2>10 DEF slots, h, front
<1>3. QED
  BY <1>1, <1>2, PTL

\* classify ends at a slot if all are filled.
LEMMA ClassifyWithin ==
    ASSUME NEW S, None \notin S, NEW slots \in Seq(S), slots # <<>>, NEW ms \in Nat
    PROVE  Classify(slots, ms) + 1 \in 1..Len(slots)
<1> DEFINE size == Len(slots)
           probe(i) == (ms + i) % size
           filled == {i \in 0..(size - 1) : slots[probe(i) + 1] # None}
<1>1. size \in Nat /\ size > 0
  OBVIOUS
<1>2. ASSUME NEW i \in 0..(size - 1)
      PROVE  probe(i) \in 0..(size - 1)
  <2>1. ms + i \in Nat
    BY <1>1
  <2> HIDE DEF size
  <2>2. QED
    BY <1>1, <2>1
<1>3. ASSUME NEW i \in 0..(size - 1)
      PROVE  slots[probe(i) + 1] # None
  <2> HIDE DEF probe
  <2>1. probe(i) + 1 \in 1..Len(slots)
    BY <1>1, <1>2
  <2>2. QED
    BY <2>1
<1>4. filled \subseteq Nat /\ filled # {}
  <2>1. 0 \in 0..(size - 1) /\ 0..(size - 1) \subseteq Nat
    BY <1>1
  <2> HIDE DEF probe, size
  <2>2. QED
    BY <1>3, <2>1
<1>5. Classify(slots, ms) = probe(IF filled = {} THEN size - 1 ELSE Min(filled))
  BY DEF Classify
<1> HIDE DEF filled
<1>6. Min(filled) \in filled
  <2>1. \E x \in filled : \A y \in filled : x <= y
    BY <1>4, LeastOfSet
  <2>2. QED
    BY <2>1 DEF Min
<1>7. Min(filled) \in 0..(size - 1)
  BY <1>6 DEF filled
<1> HIDE DEF probe
<1>8. Classify(slots, ms) \in 0..(size - 1)
  BY <1>2, <1>4, <1>5, <1>7
<1>9. QED
  BY <1>1, <1>8

\* A multi-path classifier is never empty, and every hash leads to a neighbour.
THEOREM HashFindsSlotAlways == Spec => []HashFindsSlot
<1>1. Spec => []SlotInv
  BY InitSlots, StepSlots, PTL DEF Spec
<1>2. SlotInv => HashFindsSlot
  <2> SUFFICES ASSUME SlotInv, NEW n \in Node, table[n].multi
               PROVE  /\ table[n].slots # <<>>
                      /\ \A ms \in 0..Len(table[n].slots) :
                            table[n].slots[Classify(table[n].slots, ms) + 1] \in Nbr[n]
    BY DEF HashFindsSlot
  <2> DEFINE slots == table[n].slots
             S == Nbr[n]
  <2>1. table[n] \in Slots(Nbr[n]) /\ rt[n] \in Route(Nbr[n])
    BY DEF SlotInv, TypeInv, TypeOK, Slots, Route
  <2>2. /\ Chosen(dst, n, dv[n], up, rt[n]) /\ dv[n].nextHop # <<>> /\ n # dst
        /\ HopsAfterStale(dst, n, table[n], rt[n], Budget(dst, n, up, changes))
    BY DEF SlotInv
  <2>3. rt[n].nextHop \in Seq(Nbr[n])
    BY <2>1 DEF Route
  <2>4. slots \in Seq(S) /\ None \notin S
    BY <2>1, <2>2, <2>3, SlotsFilled
  <2>5. rt[n].nextHop # <<>>
    <3>1. rt[n].nextHop \in {<<dst>>, dv[n].nextHop}
      BY <2>2 DEF Chosen
    <3>2. QED
      BY <2>2, <3>1
  <2>6. slots # <<>>
    <3>1. \E k \in Nat : Len(slots) = k + Len(rt[n].nextHop)
      BY <2>2 DEF HopsAfterStale
    <3>2. Len(rt[n].nextHop) \in Nat /\ Len(rt[n].nextHop) > 0
      BY <2>3, <2>5
    <3>3. Len(slots) > 0
      BY <3>1, <3>2
    <3>4. QED
      BY <2>4, <3>3
  <2> HIDE DEF slots, S
  <2>7. ASSUME NEW ms \in 0..Len(slots)
        PROVE  slots[Classify(slots, ms) + 1] \in S
    <3>1. ms \in Nat
      BY <2>4
    <3>2. Classify(slots, ms) + 1 \in 1..Len(slots)
      BY <2>4, <2>6, <3>1, ClassifyWithin
    <3>3. QED
      BY <2>4, <3>2
  <2>8. QED
    BY <2>6, <2>7 DEF slots, S
<1>3. QED
  BY <1>1, <1>2, PTL
=============================================================================
