--------------------------- MODULE FatTreeProofs ---------------------------
(***************************************************************************)
(* Proofs about FatTree, for trees of every order: what the generator      *)
(* writes is the k-ary fat tree, links are known by their ends, queue n of *)
(* the script is link n, and agents are connected in pairs.                *)
(***************************************************************************)
EXTENDS FatTree, FiniteSetTheorems, SequenceTheorems, TLAPS

-----------------------------------------------------------------------------
(***************************************************************************)
(* The inductive invariant                                                 *)
(***************************************************************************)
Nodes == 0..(NumNodes - 1)

Scripting == pc \in {"script", "agents", "done"}

\* The loops' indices are in range and in step with each other.
LoopsInStep ==
    /\ k \in Ks /\ pc \in {"host", "pod", "core", "script", "agents", "done"}
    /\ host \in 0..NumHosts /\ (pc = "host" <=> host < NumHosts)
    /\ pc = "host" => edgeSwitchIndex = host \div Half
    /\ pod \in 0..(k - 1) /\ edge \in 0..(Half - 1) /\ agg \in 0..(Half - 1)
    /\ coreSwitchIndex \in 0..(NumCores - 1) /\ pod_count = coreSwitchIndex \div Half
    /\ pc = "host" => pod = 0
    /\ pc # "pod" => edge = 0 /\ agg = 0
    /\ pc # "core" => coreSwitchIndex = 0

\* The passes of the three loops that are over.
HostDone(h) == h < host
PodDone(p, e, a) ==
    \/ pc = "core" \/ Scripting
    \/ /\ pc = "pod"
       /\ p < pod \/ (p = pod /\ (e < edge \/ (e = edge /\ a < agg)))
CoreDone(p, c) ==
    \/ Scripting
    \/ pc = "core" /\ (p < pod \/ (p = pod /\ c < coreSwitchIndex))

\* What each loop links; u is the lower node.
HostLinked(u, v) ==
    \E h \in 0..(NumHosts - 1) : HostDone(h) /\ u = h /\ v = EdgeSwitch(h \div Half)
PodLinked(u, v) ==
    \E p \in 0..(k - 1), e, a \in 0..(Half - 1) :
        PodDone(p, e, a) /\ u = EdgeSwitch(p * Half + e) /\ v = AggSwitch(p * Half + a)
CoreLinked(u, v) ==
    \E p \in 0..(k - 1), c \in 0..(NumCores - 1) :
        CoreDone(p, c) /\ u = AggSwitch(p * Half + (c \div Half)) /\ v = CoreSwitch(c)
UpLinked(u, v) == HostLinked(u, v) \/ PodLinked(u, v) \/ CoreLinked(u, v)

\* out.txt lists what the passes have linked, in both directions, and nothing else,
LinksAsDone == \A u, v \in Nodes : Linked(u, v) <=> UpLinked(u, v) \/ UpLinked(v, u)

\* ... each link followed by its reverse,
Reversed == \A n \in 1..Len(links) : n % 2 = 1 =>
                n + 1 <= Len(links) /\ links[n + 1] = <<links[n][2], links[n][1]>>

\* ... and this many.
PodPasses == IF pc = "host" THEN 0
             ELSE IF pc = "pod" THEN (pod * Half + edge) * Half + agg ELSE NumSwitches * Half
CorePasses == IF pc \in {"host", "pod"} THEN 0
              ELSE IF pc = "core" THEN pod * NumCores + coreSwitchIndex ELSE k * NumCores
LinksCounted ==
    /\ links \in Seq(Nodes \X Nodes)
    /\ Len(links) = 2 * (host + PodPasses + CorePasses)

\* The script has created the queues of the links before link.
QueuesInStep ==
    /\ queues \in Seq(Nodes \X Nodes)
    /\ link \in Nat
    /\ ~Scripting => link = 0
    /\ Scripting => link <= Len(links) /\ (pc = "script" <=> link < Len(links))
    /\ Len(queues) = IF link % 2 = 0 THEN link ELSE link + 1
    /\ \A n \in 1..Len(queues) : queues[n] = links[n]

\* Pairs of agents that are connected, with a <= b.
Paired(a, b) == a < i \/ (a = i /\ b < j)
AgentsInStep ==
    /\ pc \notin {"agents", "done"} => i = 0 /\ j = 0 /\ ite = 0
    /\ i \in 0..NumNodes /\ j \in i..NumNodes /\ ite = NumNodes * i + j
    /\ pc = "done" <=> i = NumNodes
    /\ peer \in [0..(NumNodes * NumNodes - 1) -> Int]
    /\ \A a, b \in Nodes : a <= b /\ Paired(a, b) =>
          peer[NumNodes * a + b] = NumNodes * b + a /\ peer[NumNodes * b + a] = NumNodes * a + b

IInv == LoopsInStep /\ LinksAsDone /\ LinksKnownByEnds /\ Reversed /\ LinksCounted
            /\ QueuesInStep /\ AgentsInStep

-----------------------------------------------------------------------------
(***************************************************************************)
(* Arithmetic                                                              *)
(***************************************************************************)
LEMMA DivMod ==
    ASSUME NEW h \in Nat, NEW r \in Nat \ {0}
    PROVE  /\ h \div r \in Nat /\ h % r \in 0..(r - 1)
           /\ h = r * (h \div r) + (h % r)
<1>1. h \div r \in Int /\ h % r \in 0..(r - 1) /\ h \div r >= 0
  OBVIOUS
<1>2. h = r * (h \div r) + (h % r)
  OBVIOUS
<1>3. QED
  BY <1>1, <1>2

LEMMA DivUnique ==
    ASSUME NEW r \in Nat \ {0}, NEW q \in Nat, NEW n \in 0..(r - 1)
    PROVE  /\ r * q + n \in Nat /\ q * r + n = r * q + n
           /\ (r * q + n) \div r = q /\ (r * q + n) % r = n
OBVIOUS

\* Pairs of a quotient and a remainder are numbered without repetition,
LEMMA PairUnique ==
    ASSUME NEW r \in Nat \ {0}, NEW q \in Nat, NEW p \in Nat,
           NEW m \in 0..(r - 1), NEW n \in 0..(r - 1), r * q + m = r * p + n
    PROVE  q = p /\ m = n
BY DivUnique

LEMMA MulMono ==
    ASSUME NEW a \in Nat, NEW b \in Nat, NEW c \in Nat, a <= b
    PROVE  c * a <= c * b
OBVIOUS

\* ... from 0 up to the product.
LEMMA PairBound ==
    ASSUME NEW r \in Nat \ {0}, NEW s \in Nat, NEW q \in 0..(s - 1), NEW n \in 0..(r - 1)
    PROVE  r * q + n \in 0..(r * s - 1)
<1>1. r * (q + 1) <= r * s
  BY MulMono
<1>2. r * (q + 1) = r * q + r /\ r * q \in Nat /\ r * s \in Nat
  OBVIOUS
<1> DEFINE x == r * q
           y == r * s
           z == r * (q + 1)
<1>3. z <= y /\ z = x + r /\ x \in Nat /\ y \in Nat
  BY <1>1, <1>2
<1> HIDE DEF x, y, z
<1>4. x + n \in 0..(y - 1)
  BY <1>3
<1>5. QED
  BY <1>4 DEF x, y

LEMMA DivBound ==
    ASSUME NEW r \in Nat \ {0}, NEW s \in Nat, NEW h \in 0..(r * s - 1)
    PROVE  h \div r \in 0..(s - 1)
<1> DEFINE q == h \div r
<1>1. r * s \in Nat
  OBVIOUS
<1>2. h \in Nat /\ h < r * s
  BY <1>1
<1>3. q \in Nat /\ h >= r * q
  <2> DEFINE n == h % r
  <2>1. q \in Nat /\ n \in 0..(r - 1) /\ h = r * q + n
    BY <1>2, DivMod
  <2> HIDE DEF q, n
  <2>2. r * q \in Nat
    BY <2>1
  <2>3. QED
    BY <2>1, <2>2
<1> HIDE DEF q
<1>4. q < s
  <2> SUFFICES ASSUME s <= q
               PROVE  FALSE
    BY <1>3
  <2>1. r * s <= r * q
    BY <1>3, MulMono
  <2>2. r * q \in Nat
    BY <1>3
  <2>3. QED
    BY <1>1, <1>2, <1>3, <2>1, <2>2
<1>5. QED
  BY <1>3, <1>4 DEF q

\* The quotient of the successor.
LEMMA DivNext ==
    ASSUME NEW r \in Nat \ {0}, NEW h \in Nat
    PROVE  (h + 1) \div r = IF (h + 1) % r = 0 THEN (h \div r) + 1 ELSE h \div r
<1> DEFINE q == h \div r
           m == h % r
<1>1. q \in Nat /\ m \in 0..(r - 1) /\ h = r * q + m
  BY DivMod
<1> HIDE DEF q, m
<1>2. CASE m + 1 < r
  <2>1. h + 1 = r * q + (m + 1) /\ m + 1 \in 0..(r - 1)
    BY <1>1, <1>2
  <2>2. (h + 1) \div r = q /\ (h + 1) % r = m + 1
    BY <1>1, <2>1, DivUnique
  <2>3. QED
    BY <1>1, <2>2 DEF q
<1>3. CASE m + 1 = r
  <2>1. h + 1 = r * (q + 1) + 0 /\ 0 \in 0..(r - 1) /\ q + 1 \in Nat
    BY <1>1, <1>3
  <2> DEFINE q1 == q + 1
  <2>2. h + 1 = r * q1 + 0 /\ q1 \in Nat
    BY <2>1
  <2> HIDE DEF q1
  <2>3. q1 \in Nat /\ 0 \in 0..(r - 1)
    BY <2>2
  <2>4. (r * q1 + 0) \div r = q1 /\ (r * q1 + 0) % r = 0
    BY <2>3, DivUnique, Zenon
  <2>5. QED
    BY <2>2, <2>4 DEF q, q1
<1>4. QED
  BY <1>1, <1>2, <1>3

\* The sizes of the tree.
LEMMA TreeSizes ==
    ASSUME k \in Ks
    PROVE  /\ Half \in Nat \ {0} /\ k \in Nat \ {0} /\ k = 2 * Half
           /\ NumCores \in Nat \ {0} /\ NumCores = Half * Half /\ NumCores \div Half = Half
           /\ NumSwitches \in Nat \ {0} /\ NumSwitches = Half * k /\ NumSwitches = 2 * NumCores
           /\ NumHosts \in Nat \ {0} /\ NumHosts = Half * NumSwitches
           /\ NumNodes \in Nat \ {0} /\ NumNodes = NumHosts + 2 * NumSwitches + NumCores
<1>1. k \in Nat /\ k >= 2 /\ k % 2 = 0
  BY OrderAssumption
<1>2. Half \in Nat \ {0} /\ k = 2 * Half
  BY <1>1 DEF Half
<1>3. NumCores \in Nat \ {0} /\ NumCores = Half * Half
  BY <1>2 DEF NumCores
<1>4. NumCores \div Half = Half
  <2>1. NumCores = Half * Half + 0 /\ 0 \in 0..(Half - 1)
    BY <1>2, <1>3
  <2>2. QED
    BY <1>2, <2>1, DivUnique
<1>5. NumSwitches \in Nat \ {0} /\ NumSwitches = Half * k
  BY <1>1, <1>2 DEF NumSwitches
<1>6. NumSwitches = 2 * NumCores
  BY <1>2, <1>3, <1>5
<1>7. NumHosts \in Nat \ {0} /\ NumHosts = Half * NumSwitches
  <2> DEFINE x == Half * NumSwitches
  <2>1. x \in Nat \ {0}
    BY <1>2, <1>5
  <2>2. k * k * k = 4 * x
    BY <1>2, <1>5
  <2> HIDE DEF x
  <2>3. (4 * x) \div 4 = x
    BY <2>1
  <2>4. NumHosts = x
    BY <2>2, <2>3 DEF NumHosts
  <2>5. QED
    BY <2>1, <2>4 DEF x
<1>8. NumNodes \in Nat \ {0} /\ NumNodes = NumHosts + 2 * NumSwitches + NumCores
  BY <1>3, <1>5, <1>7 DEF NumNodes
<1>9. QED
  BY <1>1, <1>2, <1>3, <1>4, <1>5, <1>6, <1>7, <1>8

LEMMA SizesKept ==
    ASSUME k' = k
    PROVE  /\ Half' = Half /\ NumCores' = NumCores /\ NumSwitches' = NumSwitches
           /\ NumHosts' = NumHosts /\ NumNodes' = NumNodes /\ Nodes' = Nodes
BY DEF Half, NumCores, NumSwitches, NumHosts, NumNodes, Nodes

-----------------------------------------------------------------------------
(***************************************************************************)
(* Nodes and links                                                         *)
(***************************************************************************)
\* The four kinds of nodes have numbers of their own.
LEMMA NodeKinds ==
    ASSUME k \in Ks
    PROVE  /\ \A h \in 0..(NumHosts - 1) : h \in Nodes
           /\ \A e \in 0..(NumSwitches - 1) :
                 EdgeSwitch(e) \in Nodes /\ NumHosts <= EdgeSwitch(e)
                 /\ EdgeSwitch(e) < NumHosts + NumSwitches
           /\ \A a \in 0..(NumSwitches - 1) :
                 AggSwitch(a) \in Nodes /\ NumHosts + NumSwitches <= AggSwitch(a)
                 /\ AggSwitch(a) < NumHosts + 2 * NumSwitches
           /\ \A c \in 0..(NumCores - 1) :
                 CoreSwitch(c) \in Nodes /\ NumHosts + 2 * NumSwitches <= CoreSwitch(c)
<1> DEFINE H == NumHosts
           S == NumSwitches
           C == NumCores
<1>1. H \in Nat /\ S \in Nat /\ C \in Nat /\ NumNodes = H + 2 * S + C
  BY TreeSizes
<1>2. /\ \A e : EdgeSwitch(e) = H + e
      /\ \A a : AggSwitch(a) = H + S + a
      /\ \A c : CoreSwitch(c) = H + 2 * S + c
  BY DEF EdgeSwitch, AggSwitch, CoreSwitch
<1> HIDE DEF H, S, C
<1>3. \A h \in 0..(H - 1) : h \in Nodes
  BY <1>1 DEF Nodes
<1>4. \A e \in 0..(S - 1) : EdgeSwitch(e) \in Nodes /\ H <= EdgeSwitch(e) /\ EdgeSwitch(e) < H + S
  BY <1>1, <1>2 DEF Nodes
<1>5. \A a \in 0..(S - 1) :
         AggSwitch(a) \in Nodes /\ H + S <= AggSwitch(a) /\ AggSwitch(a) < H + 2 * S
  BY <1>1, <1>2 DEF Nodes
<1>6. \A c \in 0..(C - 1) : CoreSwitch(c) \in Nodes /\ H + 2 * S <= CoreSwitch(c)
  BY <1>1, <1>2 DEF Nodes
<1>7. QED
  BY <1>3, <1>4, <1>5, <1>6 DEF H, S, C

\* Indices of switches: those of a pod, and those that the loops compute by division.
LEMMA SwitchIndex ==
    ASSUME k \in Ks
    PROVE  /\ \A p \in 0..(k - 1), n \in 0..(Half - 1) :
                 /\ p * Half + n \in 0..(NumSwitches - 1)
                 /\ (p * Half + n) \div Half = p /\ (p * Half + n) % Half = n
           /\ \A h \in 0..(NumHosts - 1) : h \div Half \in 0..(NumSwitches - 1)
           /\ \A c \in 0..(NumCores - 1) : c \div Half \in 0..(Half - 1)
<1>1. ASSUME NEW p \in 0..(k - 1), NEW n \in 0..(Half - 1)
      PROVE  /\ p * Half + n \in 0..(NumSwitches - 1)
             /\ (p * Half + n) \div Half = p /\ (p * Half + n) % Half = n
  <2>1. Half \in Nat \ {0} /\ k \in Nat /\ p \in Nat /\ NumSwitches = Half * k
    BY TreeSizes
  <2>2. p * Half + n = Half * p + n
    BY <2>1, DivUnique, Zenon
  <2>3. Half * p + n \in 0..(Half * k - 1)
    BY <2>1, PairBound, Zenon
  <2>4. (Half * p + n) \div Half = p /\ (Half * p + n) % Half = n
    BY <2>1, DivUnique, Zenon
  <2>5. QED
    BY <2>1, <2>2, <2>3, <2>4, Zenon
<1>2. ASSUME NEW h \in 0..(NumHosts - 1)
      PROVE  h \div Half \in 0..(NumSwitches - 1)
  <2>1. Half \in Nat \ {0} /\ NumSwitches \in Nat /\ h \in 0..(Half * NumSwitches - 1)
    BY TreeSizes, Zenon
  <2>2. QED
    BY <2>1, DivBound, Zenon
<1>3. ASSUME NEW c \in 0..(NumCores - 1)
      PROVE  c \div Half \in 0..(Half - 1)
  <2>1. Half \in Nat \ {0} /\ Half \in Nat /\ c \in 0..(Half * Half - 1)
    BY TreeSizes, Zenon
  <2>2. QED
    BY <2>1, DivBound, Zenon
<1>4. QED
  BY <1>1, <1>2, <1>3

\* Numbers of switches are not repeated.
LEMMA SwitchUnique ==
    ASSUME k \in Ks
    PROVE  /\ \A p, q \in 0..(k - 1), m, n \in 0..(Half - 1) :
                 p * Half + m = q * Half + n => p = q /\ m = n
           /\ \A d, e \in 0..(NumSwitches - 1) :
                 /\ EdgeSwitch(d) = EdgeSwitch(e) => d = e
                 /\ AggSwitch(d) = AggSwitch(e) => d = e
           /\ \A c, d \in 0..(NumCores - 1) : CoreSwitch(c) = CoreSwitch(d) => c = d
<1>1. ASSUME NEW p \in 0..(k - 1), NEW q \in 0..(k - 1), NEW m \in 0..(Half - 1),
             NEW n \in 0..(Half - 1), p * Half + m = q * Half + n
      PROVE  p = q /\ m = n
  BY <1>1, SwitchIndex, Zenon
<1>2. NumHosts \in Nat /\ NumSwitches \in Nat /\ NumCores \in Nat
  BY TreeSizes
<1>3. \A d, e \in 0..(NumSwitches - 1) :
          /\ EdgeSwitch(d) = EdgeSwitch(e) => d = e
          /\ AggSwitch(d) = AggSwitch(e) => d = e
  BY <1>2 DEF EdgeSwitch, AggSwitch
<1>4. \A c, d \in 0..(NumCores - 1) : CoreSwitch(c) = CoreSwitch(d) => c = d
  BY <1>2 DEF CoreSwitch
<1>5. QED
  BY <1>1, <1>3, <1>4

LEMMA EvenNext ==
    ASSUME NEW n \in Nat, n % 2 = 0
    PROVE  (n + 2) % 2 = 0 /\ (n + 1) % 2 = 1
OBVIOUS

LEMMA OddNext ==
    ASSUME NEW n \in Nat, n % 2 # 0
    PROVE  (n + 1) % 2 = 0
OBVIOUS

\* Setting two entries of a function, which may be the same.
LEMMA SetTwo ==
    ASSUME NEW D, NEW R, NEW f \in [D -> R], NEW x \in D, NEW y \in D, NEW a \in R, NEW b \in R,
           x = y => a = b
    PROVE  LET g == [f EXCEPT ![x] = a, ![y] = b]
           IN  /\ g \in [D -> R] /\ g[x] = a /\ g[y] = b
               /\ \A z \in D : z # x /\ z # y => g[z] = f[z]
OBVIOUS

LEMMA Concat2 ==
    ASSUME NEW P, NEW s \in Seq(P), NEW x \in P, NEW y \in P
    PROVE  LET t == s \o <<x, y>>
           IN  /\ t \in Seq(P) /\ Len(t) = Len(s) + 2
               /\ \A n \in 1..Len(s) : t[n] = s[n]
               /\ t[Len(s) + 1] = x /\ t[Len(s) + 2] = y
OBVIOUS

\* A link that is new is written to out.txt in both directions.
LEMMA LinksGrow ==
    ASSUME NEW u \in Nodes, NEW v \in Nodes, u # v, k' = k,
           links \in Seq(Nodes \X Nodes), Len(links) % 2 = 0, links' = links \o Both(u, v),
           LinksAsDone, LinksKnownByEnds, Reversed, ~UpLinked(u, v), ~UpLinked(v, u),
           \A x, y \in Nodes : UpLinked(x, y)' <=> UpLinked(x, y) \/ (x = u /\ y = v)
    PROVE  /\ LinksAsDone' /\ LinksKnownByEnds' /\ Reversed'
           /\ links' \in Seq(Nodes \X Nodes) /\ Len(links') = Len(links) + 2
           /\ \A n \in 1..Len(links) : links'[n] = links[n]
<1> DEFINE L == Len(links)
<1>1. L \in Nat /\ links' = links \o <<<<u, v>>, <<v, u>>>>
      /\ <<u, v>> \in Nodes \X Nodes /\ <<v, u>> \in Nodes \X Nodes
  BY DEF Both
<1>2. /\ links' \in Seq(Nodes \X Nodes) /\ Len(links') = L + 2
      /\ \A n \in 1..L : links'[n] = links[n]
      /\ links'[L + 1] = <<u, v>> /\ links'[L + 2] = <<v, u>>
  BY <1>1, Concat2
<1>3. DOMAIN links = 1..L /\ DOMAIN links' = 1..(L + 2)
  BY <1>1, <1>2
<1> HIDE DEF L
<1>4. \A n \in 1..(L + 2) : n \in 1..L \/ n = L + 1 \/ n = L + 2
  BY <1>1
<1>5. 1..L \subseteq 1..(L + 2) /\ L + 1 \in 1..(L + 2) /\ L + 2 \in 1..(L + 2)
  BY <1>1
<1>6. ASSUME NEW x \in Nodes, NEW y \in Nodes
      PROVE  Linked(x, y)' <=> Linked(x, y) \/ <<x, y>> = <<u, v>> \/ <<x, y>> = <<v, u>>
  <2>1. Linked(x, y) <=> \E n \in 1..L : links[n] = <<x, y>>
    BY <1>3 DEF Linked
  <2>2. Linked(x, y)' <=> \E n \in 1..(L + 2) : links'[n] = <<x, y>>
    BY <1>3 DEF Linked
  <2>3. QED
    BY <1>2, <1>4, <1>5, <2>1, <2>2
<1>7. LinksAsDone'
  <2>1. ASSUME NEW x \in Nodes, NEW y \in Nodes
        PROVE  Linked(x, y)' <=> UpLinked(x, y)' \/ UpLinked(y, x)'
    BY <1>6 DEF LinksAsDone
  <2>2. Nodes' = Nodes
    BY SizesKept
  <2>3. QED
    BY <2>1, <2>2, Zenon DEF LinksAsDone
<1>8. \A n \in 1..L : links[n] # <<u, v>> /\ links[n] # <<v, u>>
  BY <1>3 DEF LinksAsDone, Linked
<1>9. LinksKnownByEnds'
  <2>1. \A m, n \in 1..L : links[m] = links[n] => m = n
    BY <1>3 DEF LinksKnownByEnds
  <2>2. ASSUME NEW m \in 1..(L + 2), NEW n \in 1..(L + 2), links'[m] = links'[n]
        PROVE  m = n
    <3>1. <<u, v>> # <<v, u>>
      OBVIOUS
    <3>2. CASE m \in 1..L
      BY <1>2, <1>4, <1>8, <2>1, <2>2, <3>2
    <3>3. CASE m = L + 1
      BY <1>2, <1>4, <1>8, <2>2, <3>1, <3>3
    <3>4. CASE m = L + 2
      BY <1>2, <1>4, <1>8, <2>2, <3>1, <3>4
    <3>5. QED
      BY <1>4, <3>2, <3>3, <3>4
  <2>3. QED
    BY <1>3, <2>2 DEF LinksKnownByEnds
<1>10. Reversed'
  <2>1. L % 2 = 0 /\ (L + 2) % 2 = 0 /\ (L + 1) % 2 = 1
    BY <1>1, EvenNext DEF L
  <2>2. ASSUME NEW n \in 1..(L + 2), n % 2 = 1
        PROVE  n + 1 <= L + 2 /\ links'[n + 1] = <<links'[n][2], links'[n][1]>>
    <3>1. CASE n \in 1..L
      <4>1. n + 1 <= L /\ links[n + 1] = <<links[n][2], links[n][1]>>
        BY <2>2, <3>1 DEF Reversed, L
      <4>2. n + 1 \in 1..L
        BY <1>1, <3>1, <4>1
      <4>3. links'[n + 1] = links[n + 1] /\ links'[n] = links[n]
        BY <1>2, <3>1, <4>2
      <4>4. n + 1 <= L + 2
        BY <1>1, <3>1, <4>1
      <4>5. QED
        BY <4>1, <4>3, <4>4
    <3>2. CASE n = L + 1
      <4>1. n + 1 = L + 2 /\ n + 1 <= L + 2
        BY <1>1, <3>2
      <4>2. links'[n + 1] = <<v, u>> /\ links'[n] = <<u, v>>
        BY <1>2, <3>2, <4>1
      <4>3. QED
        BY <4>1, <4>2
    <3>3. QED
      BY <1>4, <2>1, <2>2, <3>1, <3>2
  <2>3. QED
    BY <1>2, <2>2 DEF Reversed
<1>11. QED
  BY <1>2, <1>7, <1>9, <1>10 DEF L

-----------------------------------------------------------------------------
(***************************************************************************)
(* The loops that write out.txt                                            *)
(***************************************************************************)
LEMMA InitKeeps == Init => IInv
<1> SUFFICES ASSUME Init
             PROVE  IInv
  OBVIOUS
<1> DEFINE H == Half
           T == NumHosts
           C == NumCores
           N == NumNodes
<1>1. k \in Ks /\ pc = "host" /\ links = <<>> /\ queues = <<>> /\ Len(links) = 0
  BY DEF Init
<1>2. /\ H \in Nat \ {0} /\ k \in Nat \ {0} /\ T \in Nat \ {0} /\ C \in Nat \ {0}
      /\ N \in Nat \ {0}
  BY <1>1, TreeSizes
<1>3. 0 \div H = 0
  BY <1>2
<1> HIDE DEF H, T, C, N
<1>4. LoopsInStep
  BY <1>1, <1>2, <1>3 DEF Init, LoopsInStep, H, T, C
<1>5. \A u, v \in Nodes : ~UpLinked(u, v)
  BY <1>1 DEF Init, UpLinked, HostLinked, PodLinked, CoreLinked, HostDone, PodDone, CoreDone,
              Scripting
<1>6. LinksAsDone /\ LinksKnownByEnds /\ Reversed
  BY <1>1, <1>5 DEF LinksAsDone, Linked, LinksKnownByEnds, Reversed
<1>7. LinksCounted
  BY <1>1 DEF Init, LinksCounted, PodPasses, CorePasses
<1>8. QueuesInStep
  BY <1>1 DEF Init, QueuesInStep, Scripting
<1>9. AgentsInStep
  <2>1. i = 0 /\ j = 0 /\ ite = 0 /\ pc = "host"
    BY DEF Init
  <2>2. N * i + j = 0
    BY <1>2, <2>1
  <2>3. peer \in [0..(N * N - 1) -> Int]
    BY DEF Init, N
  <2>4. \A a, b \in Nodes : ~Paired(a, b)
    BY <1>2, <2>1 DEF Paired, Nodes, N
  <2>5. QED
    BY <1>2, <2>1, <2>2, <2>3, <2>4 DEF AgentsInStep, N
<1>10. QED
  BY <1>4, <1>6, <1>7, <1>8, <1>9 DEF IInv

\* What has not begun stays as it is while links are written.
LEMMA ScriptWaits ==
    ASSUME IInv, pc \in {"host", "pod", "core"}, pc' \in {"host", "pod", "core", "script"},
           UNCHANGED <<k, script, agents>>, Len(links') = Len(links) + 2
    PROVE  QueuesInStep' /\ AgentsInStep'
<1>1. link = 0 /\ Len(queues) = 0 /\ link' = 0 /\ queues' = queues /\ 0 % 2 = 0
      /\ queues \in Seq(Nodes \X Nodes)
  BY DEF IInv, QueuesInStep, Scripting, script
<1>2. Len(links) \in Nat
  BY DEF IInv, LinksCounted
<1>3. Nodes' = Nodes /\ NumNodes' = NumNodes
  BY SizesKept
<1>4. QueuesInStep'
  BY <1>1, <1>2, <1>3 DEF QueuesInStep, Scripting
<1>5. NumNodes \in Nat \ {0}
  BY TreeSizes DEF IInv, LoopsInStep
<1>6. AgentsInStep'
  BY <1>3, <1>5 DEF IInv, AgentsInStep, Paired, agents
<1>7. QED
  BY <1>4, <1>6

LEMMA HostLinkKeeps == IInv /\ HostLink => IInv'
<1> SUFFICES ASSUME IInv, HostLink
             PROVE  IInv'
  OBVIOUS
<1> DEFINE H == Half
           T == NumHosts
           u == host
           v == EdgeSwitch(host \div Half)
<1>1. /\ pc = "host" /\ k \in Ks /\ host \in Nat /\ host < T /\ edgeSwitchIndex = host \div H
      /\ pod = 0 /\ edge = 0 /\ agg = 0 /\ coreSwitchIndex = 0 /\ pod_count = 0 \div H
  BY DEF HostLink, IInv, LoopsInStep
<1>2. /\ k' = k /\ pod' = pod /\ edge' = edge /\ agg' = agg
      /\ coreSwitchIndex' = coreSwitchIndex /\ pod_count' = pod_count /\ host' = host + 1
      /\ pc' = IF host + 1 = T THEN "pod" ELSE pc
      /\ links' = links \o Both(u, v)
      /\ UNCHANGED <<script, agents>>
  BY <1>1 DEF HostLink, podLoop, coreLoop
<1>3. /\ H \in Nat \ {0} /\ k \in Nat \ {0} /\ T \in Nat \ {0} /\ NumCores \in Nat \ {0}
      /\ NumSwitches \in Nat
  BY <1>1, TreeSizes
<1>4. H' = H /\ T' = T /\ NumCores' = NumCores /\ NumSwitches' = NumSwitches /\ Nodes' = Nodes
  BY <1>2, SizesKept
<1>5. edgeSwitchIndex' = (host + 1) \div H
  BY <1>1, <1>3, DivNext DEF HostLink, EdgeAfter
<1>6. LoopsInStep'
  <2>1. host + 1 \in 0..T /\ (host + 1 = T <=> ~(host + 1 < T))
    BY <1>1, <1>3
  <2>2. 0 \div H = 0 /\ 0 \in 0..(H - 1) /\ 0 \in 0..(NumCores - 1) /\ 0 \in 0..(k - 1)
    BY <1>3
  <2> HIDE DEF H, T
  <2>3. QED
    BY <1>1, <1>2, <1>4, <1>5, <2>1, <2>2 DEF LoopsInStep, H, T
<1>7. v \in Nodes /\ u \in Nodes /\ NumHosts <= v /\ u # v /\ host \in 0..(T - 1)
  <2>1. host \in 0..(T - 1)
    BY <1>1, <1>3
  <2>2. host \div H \in 0..(NumSwitches - 1)
    BY <1>1, <2>1, SwitchIndex
  <2>3. v \in Nodes /\ u \in Nodes /\ NumHosts <= v
    BY <1>1, <2>1, <2>2, NodeKinds
  <2>4. v \in Int
    BY <1>1, <2>3, TreeSizes DEF Nodes
  <2> HIDE DEF v
  <2>5. u # v
    BY <1>1, <1>3, <2>3, <2>4
  <2>6. QED
    BY <2>1, <2>3, <2>5
<1>8. \A x, y : UpLinked(x, y) <=> HostLinked(x, y)
  BY <1>1 DEF UpLinked, PodLinked, CoreLinked, PodDone, CoreDone, Scripting
<1>9. \A x, y : UpLinked(x, y)' <=> HostLinked(x, y)'
  <2>1. pc' \in {"host", "pod"} /\ pod' = 0 /\ edge' = 0 /\ agg' = 0
    BY <1>1, <1>2
  <2>2. k' \in Nat /\ H' \in Nat /\ NumCores' \in Nat
    BY <1>2, <1>3, <1>4
  <2>3. \A p \in 0..(k' - 1), e, a \in 0..(H' - 1) : ~PodDone(p, e, a)'
    <3>1. \A p \in 0..(k - 1), e, a \in 0..(H - 1) : ~(p < 0) /\ ~(e < 0) /\ ~(a < 0)
      BY <1>3
    <3>2. QED
      BY <1>2, <1>4, <2>1, <3>1 DEF PodDone, Scripting
  <2>4. \A p, c : ~CoreDone(p, c)'
    BY <2>1 DEF CoreDone, Scripting
  <2>5. QED
    BY <2>3, <2>4 DEF UpLinked, PodLinked, CoreLinked
<1>10. ~UpLinked(u, v) /\ ~UpLinked(v, u)
  <2>1. v \notin 0..(T - 1)
    BY <1>3, <1>7
  <2>2. QED
    BY <1>1, <1>8, <2>1 DEF HostLinked, HostDone
<1>11. \A x, y \in Nodes : UpLinked(x, y)' <=> UpLinked(x, y) \/ (x = u /\ y = v)
  <2>1. \A h \in 0..(T - 1) : HostDone(h)' <=> HostDone(h) \/ h = host
    BY <1>1, <1>2 DEF HostDone
  <2>2. \A x, y : HostLinked(x, y)' <=> \E h \in 0..(T - 1) :
            HostDone(h)' /\ x = h /\ y = EdgeSwitch(h \div H)
    BY <1>4 DEF HostLinked, EdgeSwitch
  <2>3. \A x, y : HostLinked(x, y) <=> \E h \in 0..(T - 1) :
            HostDone(h) /\ x = h /\ y = EdgeSwitch(h \div H)
    BY DEF HostLinked
  <2>4. QED
    BY <1>7, <1>8, <1>9, <2>1, <2>2, <2>3, Zenon
<1>12. Len(links) = 2 * host /\ links \in Seq(Nodes \X Nodes)
  BY <1>1 DEF IInv, LinksCounted, PodPasses, CorePasses
<1>13. Len(links) % 2 = 0
  BY <1>1, <1>12
<1>14. /\ LinksAsDone' /\ LinksKnownByEnds' /\ Reversed'
       /\ links' \in Seq(Nodes \X Nodes) /\ Len(links') = Len(links) + 2
  BY <1>2, <1>7, <1>10, <1>11, <1>12, <1>13, LinksGrow DEF IInv
<1>15. LinksCounted'
  <2>1. PodPasses' = 0 /\ CorePasses' = 0
    <3>1. (0 * H + 0) * H + 0 = 0
      BY <1>3
    <3>2. QED
      BY <1>1, <1>2, <1>4, <3>1 DEF PodPasses, CorePasses
  <2>2. Len(links') = 2 * (host + 1)
    BY <1>1, <1>12, <1>14
  <2>3. QED
    BY <1>1, <1>2, <1>4, <1>14, <2>1, <2>2 DEF LinksCounted
<1>16. QueuesInStep' /\ AgentsInStep'
  BY <1>1, <1>2, <1>14, ScriptWaits
<1>17. QED
  BY <1>6, <1>14, <1>15, <1>16 DEF IInv

LEMMA PodLinkKeeps == IInv /\ PodLink => IInv'
<1> SUFFICES ASSUME IInv, PodLink
             PROVE  IInv'
  OBVIOUS
<1> DEFINE H == Half
           u == EdgeSwitch(pod * H + edge)
           v == AggSwitch(pod * H + agg)
<1>1. /\ pc = "pod" /\ k \in Ks /\ host = NumHosts
      /\ pod \in 0..(k - 1) /\ edge \in 0..(H - 1) /\ agg \in 0..(H - 1)
      /\ coreSwitchIndex = 0 /\ pod_count = 0 \div H
  <2>1. NumHosts \in Nat
    BY TreeSizes DEF IInv, LoopsInStep
  <2>2. QED
    BY <2>1 DEF PodLink, IInv, LoopsInStep
<1>2. /\ k' = k /\ host' = host /\ coreSwitchIndex' = coreSwitchIndex /\ pod_count' = pod_count
      /\ links' = links \o Both(u, v)
      /\ UNCHANGED <<script, agents>>
  BY DEF PodLink, PodAgg, hostLoop, coreLoop
<1>3. /\ H \in Nat \ {0} /\ k \in Nat \ {0} /\ NumHosts \in Nat \ {0} /\ NumCores \in Nat \ {0}
      /\ NumSwitches \in Nat
  BY <1>1, TreeSizes
<1>4. H' = H /\ NumHosts' = NumHosts /\ NumCores' = NumCores /\ NumSwitches' = NumSwitches
      /\ Nodes' = Nodes
  BY <1>2, SizesKept
<1> HIDE DEF H
\* The four ways in which the indices go on.
<1>5. \/ /\ agg + 1 < H /\ pod' = pod /\ edge' = edge /\ agg' = agg + 1 /\ pc' = "pod"
      \/ /\ agg + 1 = H /\ edge + 1 < H
         /\ pod' = pod /\ edge' = edge + 1 /\ agg' = 0 /\ pc' = "pod"
      \/ /\ agg + 1 = H /\ edge + 1 = H /\ pod + 1 < k
         /\ pod' = pod + 1 /\ edge' = 0 /\ agg' = 0 /\ pc' = "pod"
      \/ /\ agg + 1 = H /\ edge + 1 = H /\ pod + 1 = k
         /\ pod' = 0 /\ edge' = 0 /\ agg' = 0 /\ pc' = "core"
  <2>1. \A n, r \in Nat : r > 0 /\ n < r => n % r = n
    OBVIOUS
  <2>2. \A r \in Nat : r > 0 => r % r = 0
    OBVIOUS
  <2>3. /\ agg' = (agg + 1) % H
        /\ edge' = IF agg + 1 = H THEN (edge + 1) % H ELSE edge
        /\ IF agg + 1 = H /\ edge + 1 = H
           THEN pod' = (pod + 1) % k /\ pc' = IF pod + 1 = k THEN "core" ELSE "pod"
           ELSE pod' = pod /\ pc' = "pod"
    BY <1>1 DEF PodLink, H
  <2>4. CASE agg + 1 < H
    <3>1. (agg + 1) % H = agg + 1 /\ agg + 1 # H
      BY <1>1, <1>3, <2>1, <2>4
    <3>2. QED
      BY <2>3, <2>4, <3>1
  <2>5. CASE agg + 1 = H /\ edge + 1 < H
    <3>1. (agg + 1) % H = 0 /\ (edge + 1) % H = edge + 1 /\ edge + 1 # H
      BY <1>1, <1>3, <2>1, <2>2, <2>5
    <3>2. QED
      BY <2>3, <2>5, <3>1
  <2>6. CASE agg + 1 = H /\ edge + 1 = H /\ pod + 1 < k
    <3>1. (agg + 1) % H = 0 /\ (edge + 1) % H = 0 /\ (pod + 1) % k = pod + 1 /\ pod + 1 # k
      BY <1>1, <1>3, <2>1, <2>2, <2>6
    <3>2. QED
      BY <2>3, <2>6, <3>1
  <2>7. CASE agg + 1 = H /\ edge + 1 = H /\ pod + 1 = k
    <3>1. (agg + 1) % H = 0 /\ (edge + 1) % H = 0 /\ (pod + 1) % k = 0
      BY <1>1, <1>3, <2>2, <2>7
    <3>2. QED
      BY <2>3, <2>7, <3>1
  <2>8. QED
    BY <1>1, <1>3, <2>4, <2>5, <2>6, <2>7
<1>6. LoopsInStep'
  <2>1. pod' \in 0..(k - 1) /\ edge' \in 0..(H - 1) /\ agg' \in 0..(H - 1) /\ pc' \in {"pod", "core"}
    BY <1>1, <1>3, <1>5
  <2>2. pc' = "core" => edge' = 0 /\ agg' = 0
    BY <1>5
  <2>3. 0 \div H = 0 /\ 0 \in 0..(NumCores - 1)
    BY <1>3
  <2>4. host \in 0..NumHosts /\ ~(host < NumHosts)
    BY <1>1, <1>3
  <2>5. QED
    BY <1>1, <1>2, <1>4, <2>1, <2>2, <2>3, <2>4 DEF LoopsInStep, H
<1>7. /\ pod * H + edge \in 0..(NumSwitches - 1) /\ pod * H + agg \in 0..(NumSwitches - 1)
      /\ u \in Nodes /\ v \in Nodes /\ u # v
      /\ u >= NumHosts /\ u < NumHosts + NumSwitches /\ v >= NumHosts + NumSwitches
  <2>1. pod * H + edge \in 0..(NumSwitches - 1) /\ pod * H + agg \in 0..(NumSwitches - 1)
    BY <1>1, SwitchIndex DEF H
  <2>2. /\ u \in Nodes /\ v \in Nodes
        /\ u >= NumHosts /\ u < NumHosts + NumSwitches /\ v >= NumHosts + NumSwitches
    BY <1>1, <2>1, NodeKinds
  <2>3. u \in Int /\ v \in Int
    BY <1>1, <2>2, TreeSizes DEF Nodes
  <2> HIDE DEF u, v
  <2>4. u # v
    BY <1>3, <2>2, <2>3
  <2>5. QED
    BY <2>1, <2>2, <2>4
<1>8. \A x, y : UpLinked(x, y) <=> HostLinked(x, y) \/ PodLinked(x, y)
  BY <1>1 DEF UpLinked, CoreLinked, CoreDone, Scripting
<1>9. \A x, y : UpLinked(x, y)' <=> HostLinked(x, y)' \/ PodLinked(x, y)'
  <2>1. \A p \in 0..(k' - 1), c \in 0..(NumCores' - 1) : ~CoreDone(p, c)'
    <3>1. \A p \in 0..(k - 1), c \in 0..(NumCores - 1) : ~(p < 0) /\ ~(c < 0)
      BY <1>3
    <3>2. pc' = "core" => pod' = 0 /\ coreSwitchIndex' = 0
      BY <1>1, <1>2, <1>5
    <3>3. pc' \in {"pod", "core"}
      BY <1>5
    <3>4. QED
      BY <1>2, <1>4, <3>1, <3>2, <3>3 DEF CoreDone, Scripting
  <2>2. QED
    BY <2>1 DEF UpLinked, CoreLinked
<1>10. ~UpLinked(u, v) /\ ~UpLinked(v, u)
  <2>1. u \notin 0..(NumHosts - 1) /\ v \notin 0..(NumHosts - 1)
    <3>1. u \in Int /\ v \in Int
      BY <1>1, <1>7, TreeSizes DEF Nodes
    <3> HIDE DEF u, v
    <3>2. QED
      BY <1>3, <1>7, <3>1
  <2>2. \A x, y : HostLinked(x, y) => x \in 0..(NumHosts - 1)
    BY DEF HostLinked
  <2>3. ~PodLinked(u, v)
    <3> SUFFICES ASSUME NEW p \in 0..(k - 1), NEW e \in 0..(H - 1), NEW a \in 0..(H - 1),
                        PodDone(p, e, a), u = EdgeSwitch(p * H + e), v = AggSwitch(p * H + a)
                 PROVE  FALSE
      BY DEF PodLinked, H
    <3>1. p * H + e \in 0..(NumSwitches - 1) /\ p * H + a \in 0..(NumSwitches - 1)
      BY <1>1, SwitchIndex DEF H
    <3>2. p * H + e = pod * H + edge /\ p * H + a = pod * H + agg
      BY <1>1, <1>7, <3>1, SwitchUnique
    <3>3. p = pod /\ e = edge /\ a = agg
      BY <1>1, <3>2, SwitchUnique DEF H
    <3>4. QED
      BY <1>1, <1>3, <3>3 DEF PodDone, Scripting
  <2>4. ~PodLinked(v, u)
    <3> SUFFICES ASSUME NEW p \in 0..(k - 1), NEW e \in 0..(H - 1), NEW a \in 0..(H - 1),
                        v = EdgeSwitch(p * H + e)
                 PROVE  FALSE
      BY DEF PodLinked, H
    <3>1. p * H + e \in 0..(NumSwitches - 1)
      BY <1>1, SwitchIndex DEF H
    <3>2. v < NumHosts + NumSwitches /\ v \in Int
      BY <1>1, <1>7, <3>1, NodeKinds, TreeSizes DEF Nodes
    <3> HIDE DEF v
    <3>3. QED
      BY <1>3, <1>7, <3>2
  <2>5. QED
    BY <1>8, <2>1, <2>2, <2>3, <2>4, Zenon
<1>11. \A x, y \in Nodes : UpLinked(x, y)' <=> UpLinked(x, y) \/ (x = u /\ y = v)
  <2>1. \A p \in 0..(k - 1), e, a \in 0..(H - 1) :
           PodDone(p, e, a)' <=> PodDone(p, e, a) \/ (p = pod /\ e = edge /\ a = agg)
    <3> SUFFICES ASSUME NEW p \in 0..(k - 1), NEW e \in 0..(H - 1), NEW a \in 0..(H - 1)
                 PROVE  PodDone(p, e, a)' <=> PodDone(p, e, a) \/ (p = pod /\ e = edge /\ a = agg)
      OBVIOUS
    <3>1. PodDone(p, e, a) <=> p < pod \/ (p = pod /\ (e < edge \/ (e = edge /\ a < agg)))
      BY <1>1 DEF PodDone, Scripting
    <3>2. CASE pc' = "pod"
      <4>1. PodDone(p, e, a)' <=> p < pod' \/ (p = pod' /\ (e < edge' \/ (e = edge' /\ a < agg')))
        BY <3>2 DEF PodDone, Scripting
      <4>2. QED
        BY <1>1, <1>3, <1>5, <3>1, <3>2, <4>1
    <3>3. CASE pc' = "core"
      <4>1. PodDone(p, e, a)'
        BY <3>3 DEF PodDone
      <4>2. QED
        BY <1>1, <1>3, <1>5, <3>1, <3>3, <4>1
    <3>4. QED
      BY <1>5, <3>2, <3>3
  <2>2. \A x, y : PodLinked(x, y)' <=>
           \E p \in 0..(k - 1), e, a \in 0..(H - 1) :
               PodDone(p, e, a)' /\ x = EdgeSwitch(p * H + e) /\ y = AggSwitch(p * H + a)
    BY <1>2, <1>4 DEF PodLinked, EdgeSwitch, AggSwitch, H
  <2>3. \A x, y : PodLinked(x, y) <=>
           \E p \in 0..(k - 1), e, a \in 0..(H - 1) :
               PodDone(p, e, a) /\ x = EdgeSwitch(p * H + e) /\ y = AggSwitch(p * H + a)
    BY DEF PodLinked, H
  <2>4. \A x, y : PodLinked(x, y)' <=> PodLinked(x, y) \/ (x = u /\ y = v)
    BY <1>1, <2>1, <2>2, <2>3, Zenon
  <2>5. \A x, y : HostLinked(x, y)' <=> HostLinked(x, y)
    BY <1>2, <1>4 DEF HostLinked, HostDone, EdgeSwitch, H
  <2>6. QED
    BY <1>8, <1>9, <2>4, <2>5, Zenon
<1> DEFINE P == (pod * H + edge) * H + agg
<1>12. /\ links \in Seq(Nodes \X Nodes) /\ P \in Nat /\ Len(links) = 2 * (host + P)
  <2>1. P \in Nat
    BY <1>1, <1>3
  <2>2. PodPasses = P /\ CorePasses = 0
    BY <1>1 DEF PodPasses, CorePasses, H
  <2> HIDE DEF P
  <2>3. QED
    BY <1>1, <1>3, <2>1, <2>2 DEF IInv, LinksCounted
<1>13. PodPasses' = P + 1 /\ CorePasses' = 0
  <2>1. CASE pc' = "pod"
    <3>1. PodPasses' = (pod' * H + edge') * H + agg' /\ CorePasses' = 0
      BY <1>4, <2>1 DEF PodPasses, CorePasses, H
    <3>2. CASE agg + 1 < H
      <4>1. PodPasses' = (pod * H + edge) * H + (agg + 1)
        BY <1>1, <1>5, <3>1, <3>2
      <4>2. QED
        BY <1>1, <1>3, <3>1, <4>1
    <3>3. CASE agg + 1 = H /\ edge + 1 < H
      <4>1. PodPasses' = (pod * H + (edge + 1)) * H + 0
        BY <1>1, <1>3, <1>5, <3>1, <3>3
      <4>2. QED
        BY <1>1, <1>3, <3>1, <3>3, <4>1
    <3>4. CASE agg + 1 = H /\ edge + 1 = H
      <4>1. PodPasses' = ((pod + 1) * H + 0) * H + 0
        BY <1>1, <1>3, <1>5, <2>1, <3>1, <3>4
      <4>2. QED
        BY <1>1, <1>3, <3>1, <3>4, <4>1
    <3>5. QED
      BY <1>1, <1>3, <1>5, <3>2, <3>3, <3>4
  <2>2. CASE pc' = "core"
    <3>1. PodPasses' = NumSwitches * H
      BY <1>4, <2>2 DEF PodPasses, H
    <3>2. CorePasses' = 0
      <4>1. 0 * NumCores + 0 = 0
        BY <1>3
      <4>2. QED
        BY <1>1, <1>2, <1>4, <1>5, <2>2, <4>1 DEF CorePasses
    <3>3. NumSwitches = H * k
      BY <1>1, TreeSizes DEF H
    <3>4. agg + 1 = H /\ edge + 1 = H /\ pod + 1 = k
      BY <1>5, <2>2
    <3>5. (H * k) * H = P + 1
      BY <1>1, <1>3, <3>4
    <3>6. QED
      BY <3>1, <3>2, <3>3, <3>5
  <2>3. QED
    BY <1>5, <2>1, <2>2
<1> HIDE DEF P
<1>14. Len(links) % 2 = 0
  BY <1>1, <1>3, <1>12
<1>15. /\ LinksAsDone' /\ LinksKnownByEnds' /\ Reversed'
       /\ links' \in Seq(Nodes \X Nodes) /\ Len(links') = Len(links) + 2
  BY <1>2, <1>7, <1>10, <1>11, <1>12, <1>14, LinksGrow DEF IInv
<1>16. LinksCounted'
  <2>1. Len(links') = 2 * (host + (P + 1) + 0)
    BY <1>1, <1>3, <1>12, <1>15
  <2>2. QED
    BY <1>2, <1>4, <1>13, <1>15, <2>1 DEF LinksCounted
<1>17. pc' \in {"pod", "core"}
  BY <1>5
<1>18. QueuesInStep' /\ AgentsInStep'
  BY <1>1, <1>2, <1>15, <1>17, ScriptWaits
<1>19. QED
  BY <1>6, <1>15, <1>16, <1>18 DEF IInv

LEMMA CoreLinkKeeps == IInv /\ CoreLink => IInv'
<1> SUFFICES ASSUME IInv, CoreLink
             PROVE  IInv'
  OBVIOUS
<1> DEFINE H == Half
           C == NumCores
           c == coreSwitchIndex
           u == AggSwitch(pod * H + (c \div H))
           v == CoreSwitch(c)
<1>1. /\ pc = "core" /\ k \in Ks /\ host = NumHosts
      /\ pod \in 0..(k - 1) /\ edge = 0 /\ agg = 0 /\ c \in 0..(C - 1) /\ pod_count = c \div H
  <2>1. NumHosts \in Nat
    BY TreeSizes DEF IInv, LoopsInStep
  <2>2. QED
    BY <2>1 DEF CoreLink, IInv, LoopsInStep
<1>2. /\ k' = k /\ host' = host /\ edge' = edge /\ agg' = agg
      /\ links' = links \o Both(u, v)
      /\ UNCHANGED <<script, agents>>
  BY <1>1 DEF CoreLink, PodAgg, hostLoop, podLoop
<1>3. /\ H \in Nat \ {0} /\ k \in Nat \ {0} /\ NumHosts \in Nat \ {0} /\ C \in Nat \ {0}
      /\ NumSwitches \in Nat
  BY <1>1, TreeSizes
<1>4. H' = H /\ NumHosts' = NumHosts /\ C' = C /\ NumSwitches' = NumSwitches /\ Nodes' = Nodes
  BY <1>2, SizesKept
<1>0. c' = coreSwitchIndex' /\ c = coreSwitchIndex
  OBVIOUS
\* The three ways in which the indices go on.
<1>5. \/ /\ c + 1 < C /\ pod' = pod /\ c' = c + 1 /\ pc' = "core"
         /\ pod_count' = (c + 1) \div H
      \/ /\ c + 1 = C /\ pod + 1 < k /\ pod' = pod + 1 /\ c' = 0 /\ pc' = "core" /\ pod_count' = 0
      \/ /\ c + 1 = C /\ pod + 1 = k /\ pod' = 0 /\ c' = 0 /\ pc' = "script" /\ pod_count' = 0
  <2>1. CASE c + 1 < C
    <3>1. C \div H = H
      BY <1>1, TreeSizes
    <3>2. pod_count' = IF (c + 1) % H = 0 THEN (c \div H) + 1 ELSE c \div H
      BY <1>1, <2>1, <3>1 DEF CoreLink, AggAfter
    <3>3. c \in Nat
      BY <1>1, <1>3
    <3>4. pod_count' = (c + 1) \div H
      BY <1>3, <3>2, <3>3, DivNext
    <3>5. QED
      BY <1>1, <2>1, <3>4 DEF CoreLink
  <2>2. CASE ~(c + 1 < C)
    <3>1. /\ c' = 0 /\ pod_count' = 0 /\ pod' = (pod + 1) % k
          /\ pc' = IF pod + 1 = k THEN "script" ELSE "core"
      BY <1>1, <2>2 DEF CoreLink
    <3>2. c + 1 = C
      BY <1>1, <1>3, <2>2
    <3>3. CASE pod + 1 < k
      <4>1. (pod + 1) % k = pod + 1 /\ pod + 1 # k
        BY <1>1, <1>3, <3>3
      <4>2. QED
        BY <3>1, <3>2, <3>3, <4>1
    <3>4. CASE pod + 1 = k
      <4>1. (pod + 1) % k = 0
        BY <1>1, <1>3, <3>4
      <4>2. QED
        BY <3>1, <3>2, <3>4, <4>1
    <3>5. QED
      BY <1>1, <1>3, <3>3, <3>4
  <2>3. QED
    BY <2>1, <2>2
<1> HIDE DEF H, C, c
<1>6. LoopsInStep'
  <2>1. /\ pod' \in 0..(k - 1) /\ c' \in 0..(C - 1) /\ pc' \in {"core", "script"}
        /\ pc' = "script" => c' = 0
    BY <1>1, <1>3, <1>5
  <2>2. 0 \div H = 0 /\ 0 \in 0..(H - 1)
    BY <1>3
  <2>3. pod_count' = c' \div H
    BY <1>5, <2>2
  <2>4. host \in 0..NumHosts /\ ~(host < NumHosts)
    BY <1>1, <1>3
  <2>5. QED
    BY <1>0, <1>1, <1>2, <1>4, <2>1, <2>2, <2>3, <2>4 DEF LoopsInStep, H, C
<1>7. /\ c \div H \in 0..(H - 1) /\ pod * H + (c \div H) \in 0..(NumSwitches - 1)
      /\ u \in Nodes /\ v \in Nodes /\ u # v
      /\ u >= NumHosts + NumSwitches /\ u < NumHosts + 2 * NumSwitches
      /\ v >= NumHosts + 2 * NumSwitches
  <2>1. c \div H \in 0..(H - 1)
    BY <1>1, SwitchIndex DEF H, C
  <2>2. pod * H + (c \div H) \in 0..(NumSwitches - 1)
    BY <1>1, <2>1, SwitchIndex DEF H
  <2>3. /\ u \in Nodes /\ v \in Nodes
        /\ u >= NumHosts + NumSwitches /\ u < NumHosts + 2 * NumSwitches
        /\ v >= NumHosts + 2 * NumSwitches
    BY <1>1, <2>2, NodeKinds DEF C
  <2>4. u \in Int /\ v \in Int
    BY <1>1, <2>3, TreeSizes DEF Nodes
  <2> HIDE DEF u, v
  <2>5. u # v
    BY <1>3, <2>3, <2>4
  <2>6. QED
    BY <2>1, <2>2, <2>3, <2>5
<1>8. u \in Int /\ v \in Int
  BY <1>1, <1>7, TreeSizes DEF Nodes
<1>9. ~UpLinked(u, v) /\ ~UpLinked(v, u)
  <2>1. u \notin 0..(NumHosts - 1) /\ v \notin 0..(NumHosts - 1)
    <3> HIDE DEF u, v
    <3>1. QED
      BY <1>3, <1>7, <1>8
  <2>2. \A x, y : HostLinked(x, y) => x \in 0..(NumHosts - 1)
    BY DEF HostLinked
  <2>3. \A x, y : PodLinked(x, y) => x < NumHosts + NumSwitches /\ x \in Int
    <3> SUFFICES ASSUME NEW p \in 0..(k - 1), NEW e \in 0..(H - 1)
                 PROVE  /\ EdgeSwitch(p * H + e) < NumHosts + NumSwitches
                        /\ EdgeSwitch(p * H + e) \in Int
      BY DEF PodLinked, H
    <3>1. p * H + e \in 0..(NumSwitches - 1)
      BY <1>1, SwitchIndex DEF H
    <3>2. QED
      BY <1>1, <3>1, NodeKinds, TreeSizes DEF Nodes
  <2>4. ~PodLinked(u, v) /\ ~PodLinked(v, u)
    <3> HIDE DEF u, v
    <3>1. ~(u < NumHosts + NumSwitches) /\ ~(v < NumHosts + NumSwitches)
      BY <1>3, <1>7, <1>8
    <3>2. QED
      BY <2>3, <3>1
  <2>5. \A x, y : CoreLinked(x, y) =>
           \E p \in 0..(k - 1), d \in 0..(C - 1) :
               CoreDone(p, d) /\ x = AggSwitch(p * H + (d \div H)) /\ y = CoreSwitch(d)
    BY DEF CoreLinked, H, C
  <2>6. ~CoreLinked(u, v)
    <3> SUFFICES ASSUME NEW p \in 0..(k - 1), NEW d \in 0..(C - 1), CoreDone(p, d),
                        u = AggSwitch(p * H + (d \div H)), v = CoreSwitch(d)
                 PROVE  FALSE
      BY <2>5
    <3>1. d = c
      BY <1>1, SwitchUnique DEF C
    <3>2. d \div H \in 0..(H - 1)
      BY <1>1, SwitchIndex DEF H, C
    <3>3. p * H + (d \div H) \in 0..(NumSwitches - 1)
      BY <1>1, <3>2, SwitchIndex DEF H
    <3>4. p * H + (d \div H) = pod * H + (c \div H)
      BY <1>1, <1>7, <3>3, SwitchUnique
    <3>5. p = pod
      BY <1>1, <1>7, <3>2, <3>4, SwitchUnique DEF H
    <3>6. QED
      BY <1>0, <1>1, <1>3, <3>1, <3>5 DEF CoreDone, Scripting
  <2>7. ~CoreLinked(v, u)
    <3> SUFFICES ASSUME NEW p \in 0..(k - 1), NEW d \in 0..(C - 1),
                        u = CoreSwitch(d)
                 PROVE  FALSE
      BY <2>5
    <3>1. u >= NumHosts + 2 * NumSwitches
      BY <1>1, NodeKinds DEF C
    <3> HIDE DEF u
    <3>2. QED
      BY <1>3, <1>7, <1>8, <3>1
  <2>8. QED
    BY <2>1, <2>2, <2>4, <2>6, <2>7, Zenon DEF UpLinked
<1>10. \A x, y \in Nodes : UpLinked(x, y)' <=> UpLinked(x, y) \/ (x = u /\ y = v)
  <2>1. \A p \in 0..(k - 1), d \in 0..(C - 1) :
           CoreDone(p, d)' <=> CoreDone(p, d) \/ (p = pod /\ d = c)
    <3> SUFFICES ASSUME NEW p \in 0..(k - 1), NEW d \in 0..(C - 1)
                 PROVE  CoreDone(p, d)' <=> CoreDone(p, d) \/ (p = pod /\ d = c)
      OBVIOUS
    <3>1. CoreDone(p, d) <=> p < pod \/ (p = pod /\ d < c)
      BY <1>0, <1>1 DEF CoreDone, Scripting
    <3>2. CASE pc' = "core"
      <4>1. CoreDone(p, d)' <=> p < pod' \/ (p = pod' /\ d < c')
        BY <1>0, <3>2 DEF CoreDone, Scripting
      <4>2. QED
        BY <1>1, <1>3, <1>5, <3>1, <3>2, <4>1
    <3>3. CASE pc' = "script"
      <4>1. CoreDone(p, d)'
        BY <3>3 DEF CoreDone, Scripting
      <4>2. QED
        BY <1>1, <1>3, <1>5, <3>1, <3>3, <4>1
    <3>4. QED
      BY <1>5, <3>2, <3>3
  <2>2. \A x, y : CoreLinked(x, y)' <=>
           \E p \in 0..(k - 1), d \in 0..(C - 1) :
               CoreDone(p, d)' /\ x = AggSwitch(p * H + (d \div H)) /\ y = CoreSwitch(d)
    BY <1>2, <1>4 DEF CoreLinked, AggSwitch, CoreSwitch, H, C
  <2>3. \A x, y : CoreLinked(x, y) <=>
           \E p \in 0..(k - 1), d \in 0..(C - 1) :
               CoreDone(p, d) /\ x = AggSwitch(p * H + (d \div H)) /\ y = CoreSwitch(d)
    BY DEF CoreLinked, H, C
  <2>4. \A x, y : CoreLinked(x, y)' <=> CoreLinked(x, y) \/ (x = u /\ y = v)
    BY <1>1, <2>1, <2>2, <2>3, Zenon
  <2>5. \A x, y : HostLinked(x, y)' <=> HostLinked(x, y)
    BY <1>2, <1>4 DEF HostLinked, HostDone, EdgeSwitch, H
  <2>6. \A p, e, a : PodDone(p, e, a) /\ PodDone(p, e, a)'
    BY <1>1, <1>5 DEF PodDone, Scripting
  <2>7. \A x, y : PodLinked(x, y)' <=> PodLinked(x, y)
    BY <1>2, <1>4, <2>6 DEF PodLinked, EdgeSwitch, AggSwitch, H
  <2>8. QED
    BY <2>4, <2>5, <2>7, Zenon DEF UpLinked
<1> DEFINE P == NumSwitches * H
           Q == pod * C + c
<1>11. /\ links \in Seq(Nodes \X Nodes) /\ P \in Nat /\ Q \in Nat
       /\ Len(links) = 2 * (host + P + Q)
  <2>1. P \in Nat /\ Q \in Nat
    BY <1>1, <1>3
  <2>2. PodPasses = P /\ CorePasses = Q
    BY <1>0, <1>1 DEF PodPasses, CorePasses, H, C
  <2> HIDE DEF P, Q
  <2>3. QED
    BY <1>1, <1>3, <2>1, <2>2 DEF IInv, LinksCounted
<1>12. PodPasses' = P /\ CorePasses' = Q + 1
  <2>1. PodPasses' = P
    BY <1>4, <1>5 DEF PodPasses, H
  <2>2. CASE pc' = "core"
    <3>1. CorePasses' = pod' * C + c'
      BY <1>0, <1>4, <2>2 DEF CorePasses, C
    <3>2. CASE c + 1 < C
      <4>1. CorePasses' = pod * C + (c + 1)
        BY <1>1, <1>5, <3>1, <3>2
      <4>2. QED
        BY <1>1, <1>3, <2>1, <4>1
    <3>3. CASE c + 1 = C
      <4>1. CorePasses' = (pod + 1) * C + 0
        BY <1>1, <1>3, <1>5, <2>2, <3>1, <3>3
      <4>2. QED
        BY <1>1, <1>3, <2>1, <3>3, <4>1
    <3>4. QED
      BY <1>5, <3>2, <3>3
  <2>3. CASE pc' = "script"
    <3>1. CorePasses' = k * C
      BY <1>2, <1>4, <2>3 DEF CorePasses, C
    <3>2. c + 1 = C /\ pod + 1 = k
      BY <1>5, <2>3
    <3>3. k * C = Q + 1
      BY <1>1, <1>3, <3>2
    <3>4. QED
      BY <2>1, <3>1, <3>3
  <2>4. QED
    BY <1>5, <2>2, <2>3
<1> HIDE DEF P, Q
<1>13. Len(links) % 2 = 0
  BY <1>1, <1>3, <1>11
<1>14. /\ LinksAsDone' /\ LinksKnownByEnds' /\ Reversed'
       /\ links' \in Seq(Nodes \X Nodes) /\ Len(links') = Len(links) + 2
  BY <1>2, <1>7, <1>9, <1>10, <1>11, <1>13, LinksGrow DEF IInv
<1>15. LinksCounted'
  <2>1. Len(links') = 2 * (host + P + (Q + 1))
    BY <1>1, <1>3, <1>11, <1>14
  <2>2. QED
    BY <1>2, <1>4, <1>12, <1>14, <2>1 DEF LinksCounted
<1>16. pc' \in {"core", "script"}
  BY <1>5
<1>17. QueuesInStep' /\ AgentsInStep'
  BY <1>1, <1>2, <1>14, <1>16, ScriptWaits
<1>18. QED
  BY <1>6, <1>14, <1>15, <1>17 DEF IInv

-----------------------------------------------------------------------------
(***************************************************************************)
(* The script                                                              *)
(***************************************************************************)
\* The script leaves the tree alone.
LEMMA TreeStays ==
    ASSUME IInv, Scripting, pc' \in {"script", "agents", "done"},
           UNCHANGED <<k, links, hostLoop, pod, podLoop, coreLoop>>
    PROVE  LoopsInStep' /\ LinksAsDone' /\ LinksKnownByEnds' /\ Reversed' /\ LinksCounted'
<1>1. /\ k' = k /\ links' = links /\ host' = host /\ edgeSwitchIndex' = edgeSwitchIndex
      /\ pod' = pod /\ edge' = edge /\ agg' = agg
      /\ coreSwitchIndex' = coreSwitchIndex /\ pod_count' = pod_count
  BY DEF hostLoop, podLoop, coreLoop
<1>2. /\ Half' = Half /\ NumCores' = NumCores /\ NumSwitches' = NumSwitches
      /\ NumHosts' = NumHosts /\ Nodes' = Nodes
  BY <1>1, SizesKept
<1>3. Scripting'
  BY DEF Scripting
<1>4. LoopsInStep'
  BY <1>1, <1>2 DEF IInv, LoopsInStep, Scripting
<1>5. \A u, v : UpLinked(u, v)' <=> UpLinked(u, v)
  <2>1. \A u, v : HostLinked(u, v)' <=> HostLinked(u, v)
    BY <1>1, <1>2 DEF HostLinked, HostDone, EdgeSwitch
  <2>2. \A p, e, a : PodDone(p, e, a) /\ PodDone(p, e, a)'
    BY <1>3 DEF PodDone
  <2>3. \A u, v : PodLinked(u, v)' <=> PodLinked(u, v)
    BY <1>1, <1>2, <2>2 DEF PodLinked, EdgeSwitch, AggSwitch
  <2>4. \A p, c : CoreDone(p, c) /\ CoreDone(p, c)'
    BY <1>3 DEF CoreDone
  <2>5. \A u, v : CoreLinked(u, v)' <=> CoreLinked(u, v)
    BY <1>1, <1>2, <2>4 DEF CoreLinked, AggSwitch, CoreSwitch
  <2>6. QED
    BY <2>1, <2>3, <2>5, Zenon DEF UpLinked
<1>6. LinksAsDone' /\ LinksKnownByEnds' /\ Reversed'
  BY <1>1, <1>2, <1>5 DEF IInv, LinksAsDone, Linked, LinksKnownByEnds, Reversed
<1>7. PodPasses' = PodPasses /\ CorePasses' = CorePasses
  BY <1>1, <1>2 DEF PodPasses, CorePasses, Scripting
<1>8. LinksCounted'
  BY <1>1, <1>2, <1>7 DEF IInv, LinksCounted
<1>9. QED
  BY <1>4, <1>6, <1>8

LEMMA DuplexLinkKeeps == IInv /\ DuplexLink => IInv'
<1> SUFFICES ASSUME IInv, DuplexLink
             PROVE  IInv'
  OBVIOUS
<1> DEFINE L == Len(links)
<1>1. /\ pc = "script" /\ links \in Seq(Nodes \X Nodes) /\ queues \in Seq(Nodes \X Nodes)
      /\ link \in Nat /\ link < L /\ L \in Nat
      /\ Len(queues) = IF link % 2 = 0 THEN link ELSE link + 1
      /\ \A n \in 1..Len(queues) : queues[n] = links[n]
  BY DEF DuplexLink, IInv, QueuesInStep, LinksCounted, Scripting
<1>2. /\ k' = k /\ links' = links /\ link' = link + 1
      /\ pc' = IF link + 1 = L THEN "agents" ELSE "script"
      /\ UNCHANGED <<k, links, hostLoop, pod, podLoop, coreLoop>>
      /\ UNCHANGED <<i, j, ite, peer>>
  BY <1>1 DEF DuplexLink, agents
<1>3. LoopsInStep' /\ LinksAsDone' /\ LinksKnownByEnds' /\ Reversed' /\ LinksCounted'
  BY <1>1, <1>2, TreeStays DEF Scripting
<1>4. Nodes' = Nodes /\ NumNodes' = NumNodes /\ NumNodes \in Nat \ {0}
  BY <1>2, SizesKept, TreeSizes DEF IInv, LoopsInStep
<1>5. AgentsInStep'
  <2>1. pc' \in {"script", "agents"} /\ i = 0 /\ j = 0 /\ ite = 0
    BY <1>1, <1>2 DEF IInv, AgentsInStep
  <2>2. QED
    BY <1>1, <1>2, <1>4, <2>1 DEF IInv, AgentsInStep, Paired
<1>6. /\ queues' \in Seq(Nodes \X Nodes)
      /\ Len(queues') = IF (link + 1) % 2 = 0 THEN link + 1 ELSE (link + 1) + 1
      /\ \A n \in 1..Len(queues') : queues'[n] = links[n]
  <2>1. CASE link % 2 = 0
    <3>1. (link + 1) % 2 = 1 /\ link + 1 \in 1..L
      <4>1. link \in Nat /\ link < L /\ L \in Nat
        BY <1>1
      <4> HIDE DEF L
      <4>2. QED
        BY <2>1, <4>1, EvenNext
    <3>2. link + 2 <= L /\ links[link + 2] = <<links[link + 1][2], links[link + 1][1]>>
      <4>1. (link + 1) + 1 <= L /\ links[(link + 1) + 1] = <<links[link + 1][2], links[link + 1][1]>>
        BY <3>1 DEF IInv, Reversed
      <4>2. (link + 1) + 1 = link + 2
        BY <1>1
      <4>3. QED
        BY <4>1, <4>2
    <3> DEFINE x == links[link + 1]
               y == links[link + 2]
    <3>3. x \in Nodes \X Nodes /\ y \in Nodes \X Nodes
      BY <1>1, <3>1, <3>2
    <3>4. x = <<x[1], x[2]>> /\ y = <<x[2], x[1]>>
      BY <3>2, <3>3
    <3>5. queues' = queues \o <<x, y>>
      BY <2>1, <3>4 DEF DuplexLink, Kept, Both
    <3> HIDE DEF x, y
    <3>6. /\ queues' \in Seq(Nodes \X Nodes) /\ Len(queues') = Len(queues) + 2
          /\ \A n \in 1..Len(queues) : queues'[n] = queues[n]
          /\ queues'[Len(queues) + 1] = x /\ queues'[Len(queues) + 2] = y
      <4>1. queues \in Seq(Nodes \X Nodes)
        BY <1>1
      <4>2. QED
        BY <3>3, <3>5, <4>1, Concat2
    <3>7. Len(queues) = link
      BY <1>1, <2>1
    <3>8. \A n \in 1..(link + 2) : n \in 1..link \/ n = link + 1 \/ n = link + 2
      BY <1>1
    <3>9. \A n \in 1..(link + 2) : queues'[n] = links[n]
      BY <1>1, <3>6, <3>7, <3>8 DEF x, y
    <3>10. Len(queues') = link + 2 /\ link + 2 = (link + 1) + 1 /\ (link + 1) % 2 # 0
      BY <1>1, <3>1, <3>6, <3>7
    <3>11. QED
      BY <3>6, <3>9, <3>10
  <2>2. CASE link % 2 # 0
    <3>1. queues' = queues
      BY <2>2 DEF DuplexLink, Kept
    <3>2. (link + 1) % 2 = 0
      <4>1. link \in Nat
        BY <1>1
      <4>2. QED
        BY <2>2, <4>1, OddNext
    <3>3. QED
      BY <1>1, <2>2, <3>1, <3>2
  <2>3. QED
    BY <2>1, <2>2
<1>7. QueuesInStep'
  <2>1. link + 1 \in Nat /\ link + 1 <= L /\ (link + 1 = L <=> ~(link + 1 < L))
    BY <1>1
  <2>2. QED
    BY <1>2, <1>4, <1>6, <2>1 DEF QueuesInStep, Scripting
<1>8. QED
  BY <1>3, <1>5, <1>7 DEF IInv

\* The loop over agents leaves the queues alone.
LEMMA QueuesStay ==
    ASSUME IInv, pc = "agents", pc' \in {"agents", "done"}, UNCHANGED <<k, links, script>>
    PROVE  QueuesInStep'
<1>1. Nodes' = Nodes /\ links' = links /\ link' = link /\ queues' = queues
  BY SizesKept DEF script
<1>2. QED
  BY <1>1 DEF IInv, QueuesInStep, Scripting

LEMMA AgentNumbers ==
    ASSUME NEW N \in Nat \ {0}, NEW a \in 0..(N - 1), NEW b \in 0..(N - 1)
    PROVE  /\ N * a + b \in 0..(N * N - 1)
           /\ \A c, d \in 0..(N - 1) : N * a + b = N * c + d => a = c /\ b = d
<1>1. N * a + b \in 0..(N * N - 1)
  BY PairBound, Zenon
<1>3. ASSUME NEW c \in 0..(N - 1), NEW d \in 0..(N - 1), N * a + b = N * c + d
      PROVE  a = c /\ b = d
  <2>1. a \in Nat /\ c \in Nat
    OBVIOUS
  <2>2. QED
    BY <1>3, <2>1, PairUnique
<1>4. QED
  BY <1>1, <1>3

LEMMA ConnectKeeps == IInv /\ Connect => IInv'
<1> SUFFICES ASSUME IInv, Connect
             PROVE  IInv'
  OBVIOUS
<1> DEFINE N == NumNodes
           num(a, b) == N * a + b
<1>1. /\ pc = "agents" /\ N \in Nat \ {0} /\ i \in Nat /\ i <= j /\ j \in Nat /\ j < N
      /\ ite = num(i, j) /\ peer \in [0..(N * N - 1) -> Int] /\ Nodes = 0..(N - 1)
  BY TreeSizes DEF Connect, IInv, AgentsInStep, LoopsInStep, Nodes
<1>2. /\ pc' = pc /\ i' = i /\ j' = j + 1 /\ ite' = ite + 1 /\ k' = k
      /\ UNCHANGED <<k, links, hostLoop, pod, podLoop, coreLoop>> /\ UNCHANGED <<k, links, script>>
      /\ peer' = [peer EXCEPT ![num(i, j)] = num(j, i), ![num(j, i)] = num(i, j)]
  BY <1>1 DEF Connect
<1>3. N' = N /\ Nodes' = Nodes
  BY <1>2, SizesKept
<1>4. \A a, b : num(a, b) = N * a + b
  OBVIOUS
<1>5. /\ \A a, b \in Nodes : num(a, b) \in 0..(N * N - 1)
      /\ \A a, b, c, d \in Nodes : num(a, b) = num(c, d) => a = c /\ b = d
  <2>1. N \in Nat \ {0} /\ Nodes = 0..(N - 1)
    BY <1>1
  <2> HIDE DEF N
  <2>2. QED
    BY <2>1, AgentNumbers
<1>6. i \in Nodes /\ j \in Nodes
  BY <1>1
<1> HIDE DEF N, num
<1>7. num(i, j) \in Int /\ num(j, i) \in Int
  <2>1. \A x \in 0..(N * N - 1) : x \in Int
    OBVIOUS
  <2>2. QED
    BY <1>5, <1>6, <2>1, Zenon
<1>8. /\ peer' \in [0..(N * N - 1) -> Int]
      /\ peer'[num(i, j)] = num(j, i) /\ peer'[num(j, i)] = num(i, j)
      /\ \A x \in 0..(N * N - 1) : x # num(i, j) /\ x # num(j, i) => peer'[x] = peer[x]
  <2> DEFINE D == 0..(N * N - 1)
             x == num(i, j)
             y == num(j, i)
  <2>1. peer \in [D -> Int] /\ x \in D /\ y \in D /\ x \in Int /\ y \in Int
    BY <1>1, <1>5, <1>6, <1>7
  <2>2. peer' = [peer EXCEPT ![x] = y, ![y] = x]
    BY <1>2
  <2> HIDE DEF D, x, y
  <2>3. /\ peer' \in [D -> Int] /\ peer'[x] = y /\ peer'[y] = x
        /\ \A z \in D : z # x /\ z # y => peer'[z] = peer[z]
    BY <2>1, <2>2, SetTwo
  <2>4. QED
    BY <2>3 DEF D, x, y
<1>9. ASSUME NEW a \in Nodes, NEW b \in Nodes, a <= b, Paired(a, b)'
      PROVE  peer'[num(a, b)] = num(b, a) /\ peer'[num(b, a)] = num(a, b)
  <2>1. Paired(a, b) \/ (a = i /\ b = j)
    BY <1>1, <1>2, <1>9 DEF Paired
  <2>2. CASE a = i /\ b = j
    BY <1>8, <2>2
  <2>3. CASE Paired(a, b)
    <3>1. ~(a = i /\ b = j) /\ ~(a = j /\ b = i)
      BY <1>1, <1>9, <2>3 DEF Paired
    <3>2. /\ num(a, b) # num(i, j) /\ num(a, b) # num(j, i)
          /\ num(b, a) # num(i, j) /\ num(b, a) # num(j, i)
      BY <1>5, <1>6, <3>1, Zenon
    <3>3. peer[num(a, b)] = num(b, a) /\ peer[num(b, a)] = num(a, b)
      BY <1>9, <2>3 DEF IInv, AgentsInStep, num, N
    <3>4. QED
      BY <1>5, <1>8, <3>2, <3>3
  <2>4. QED
    BY <2>1, <2>2, <2>3
<1>10. AgentsInStep'
  <2>1. ite' = N * i + (j + 1)
    <3>1. N * i \in Int
      BY <1>1
    <3>2. QED
      BY <1>1, <1>2, <1>4, <3>1
  <2>2. j + 1 \in i..N /\ i \in 0..N /\ i # N
    BY <1>1
  <2>3. \A a, b \in Nodes : a <= b /\ Paired(a, b)' =>
            peer'[N * a + b] = N * b + a /\ peer'[N * b + a] = N * a + b
    BY <1>4, <1>9
  <2>4. pc' = "agents" /\ i' = i /\ j' = j + 1 /\ peer' \in [0..(N * N - 1) -> Int]
    BY <1>1, <1>2, <1>8
  <2>5. QED
    BY <1>3, <2>1, <2>2, <2>3, <2>4 DEF AgentsInStep, N
<1>11. QueuesInStep'
  BY <1>1, <1>2, QueuesStay
<1>12. QED
  BY <1>1, <1>2, <1>10, <1>11, TreeStays DEF IInv, Scripting

LEMMA NextRowKeeps == IInv /\ NextRow => IInv'
<1> SUFFICES ASSUME IInv, NextRow
             PROVE  IInv'
  OBVIOUS
<1> DEFINE N == NumNodes
<1>1. /\ pc = "agents" /\ N \in Nat \ {0} /\ i \in Nat /\ i < N /\ j = N
      /\ ite = N * i + j /\ peer \in [0..(N * N - 1) -> Int] /\ Nodes = 0..(N - 1)
  <2>1. /\ pc = "agents" /\ j = N /\ k \in Ks
        /\ i \in 0..N /\ (pc = "done" <=> i = N)
        /\ ite = N * i + j /\ peer \in [0..(N * N - 1) -> Int] /\ Nodes = 0..(N - 1)
    BY DEF NextRow, IInv, AgentsInStep, LoopsInStep, Nodes
  <2>2. N \in Nat \ {0}
    BY <2>1, TreeSizes
  <2> HIDE DEF N
  <2>3. i \in Nat /\ i < N
    BY <2>1, <2>2
  <2>4. QED
    BY <2>1, <2>2, <2>3
<1>2. /\ pc' = IF i + 1 = N THEN "done" ELSE "agents"
      /\ i' = i + 1 /\ j' = i + 1 /\ ite' = ite + i + 1 /\ k' = k /\ peer' = peer
      /\ UNCHANGED <<k, links, hostLoop, pod, podLoop, coreLoop>> /\ UNCHANGED <<k, links, script>>
  BY <1>1 DEF NextRow
<1>3. N' = N /\ Nodes' = Nodes
  BY <1>2, SizesKept
<1> HIDE DEF N
<1>4. ASSUME NEW a \in Nodes, NEW b \in Nodes, a <= b, Paired(a, b)'
      PROVE  Paired(a, b)
  BY <1>1, <1>2, <1>4 DEF Paired
<1>5. AgentsInStep'
  <2>1. ite' = N * (i + 1) + (i + 1)
    <3>1. N * (i + 1) = N * i + N /\ N * i \in Int
      BY <1>1
    <3>2. QED
      BY <1>1, <1>2, <3>1
  <2>2. i + 1 \in 0..N /\ i + 1 \in (i + 1)..N
    BY <1>1
  <2>3. \A a, b \in Nodes : a <= b /\ Paired(a, b)' =>
            peer[N * a + b] = N * b + a /\ peer[N * b + a] = N * a + b
    BY <1>4 DEF IInv, AgentsInStep, N
  <2>4. QED
    BY <1>1, <1>2, <1>3, <2>1, <2>2, <2>3 DEF AgentsInStep, N
<1>6. pc' \in {"agents", "done"}
  BY <1>2
<1>7. QueuesInStep'
  BY <1>1, <1>2, <1>6, QueuesStay
<1>8. QED
  BY <1>1, <1>2, <1>5, <1>6, <1>7, TreeStays DEF IInv, Scripting

-----------------------------------------------------------------------------
(***************************************************************************)
(* Theorems                                                                *)
(***************************************************************************)
LEMMA NextKeeps == IInv /\ [Next]_vars => IInv'
<1> SUFFICES ASSUME IInv, [Next]_vars
             PROVE  IInv'
  OBVIOUS
<1>1. CASE UNCHANGED vars
  <2>1. /\ UNCHANGED <<k, pc, links, host, edgeSwitchIndex, pod, edge, agg>>
        /\ UNCHANGED <<coreSwitchIndex, pod_count, link, queues, i, j, ite, peer>>
    BY <1>1 DEF vars, hostLoop, podLoop, coreLoop, script, agents
  <2>2. /\ Half' = Half /\ NumCores' = NumCores /\ NumSwitches' = NumSwitches
        /\ NumHosts' = NumHosts /\ NumNodes' = NumNodes /\ Nodes' = Nodes
        /\ Scripting' = Scripting
    BY <2>1, SizesKept DEF Scripting
  <2>3. LoopsInStep' /\ LinksCounted' /\ LinksKnownByEnds' /\ Reversed'
    BY <2>1, <2>2 DEF IInv, LoopsInStep, LinksCounted, LinksKnownByEnds, Reversed, PodPasses,
                      CorePasses
  <2>4. \A u, v : UpLinked(u, v)' <=> UpLinked(u, v)
    BY <2>1, <2>2 DEF UpLinked, HostLinked, PodLinked, CoreLinked, HostDone, PodDone, CoreDone,
                      EdgeSwitch, AggSwitch, CoreSwitch
  <2>5. LinksAsDone'
    BY <2>1, <2>2, <2>4 DEF IInv, LinksAsDone, Linked
  <2>6. QueuesInStep' /\ AgentsInStep'
    BY <2>1, <2>2 DEF IInv, QueuesInStep, AgentsInStep, Paired
  <2>7. QED
    BY <2>3, <2>5, <2>6 DEF IInv
<1>2. CASE Next
  BY <1>1, <1>2, HostLinkKeeps, PodLinkKeeps, CoreLinkKeeps, DuplexLinkKeeps, ConnectKeeps,
     NextRowKeeps DEF Next, Terminated
<1>3. QED
  BY <1>1, <1>2

LEMMA Invariance == Spec => []IInv
BY InitKeeps, NextKeeps, PTL DEF Spec

\* The generator never indexes its lists of switches, nor the script its agents, beyond their
\* end, and every link joins two of the tree's nodes, whatever k is.
THEOREM TypesKept == Spec => []TypeOK
<1>1. ASSUME IInv
      PROVE  TypeOK
  <2>1. k \in Ks /\ NumNodes \in Nat \ {0} /\ NumHosts \in Nat /\ NumSwitches \in Nat
    BY <1>1, TreeSizes DEF IInv, LoopsInStep
  <2>2. pc = "host" => host < NumHosts /\ edgeSwitchIndex < NumSwitches
    <3> SUFFICES ASSUME pc = "host"
                 PROVE  host < NumHosts /\ edgeSwitchIndex < NumSwitches
      OBVIOUS
    <3>1. host \in 0..(NumHosts - 1) /\ edgeSwitchIndex = host \div Half
      BY <1>1, <2>1 DEF IInv, LoopsInStep
    <3>2. edgeSwitchIndex \in 0..(NumSwitches - 1)
      BY <2>1, <3>1, SwitchIndex
    <3>3. QED
      BY <2>1, <3>1, <3>2
  <2>3. pod_count \in 0..(Half - 1)
    BY <1>1, <2>1, SwitchIndex DEF IInv, LoopsInStep
  <2>4. \A n \in DOMAIN links : links[n] \in (0..(NumNodes - 1)) \X (0..(NumNodes - 1))
    BY <1>1 DEF IInv, LinksCounted, Nodes
  <2>5. pc = "agents" /\ j < NumNodes => ite \in DOMAIN peer
    <3> SUFFICES ASSUME pc = "agents", j < NumNodes
                 PROVE  ite \in DOMAIN peer
      OBVIOUS
    <3>1. i \in 0..NumNodes /\ j \in i..NumNodes /\ ite = NumNodes * i + j
          /\ DOMAIN peer = 0..(NumNodes * NumNodes - 1)
      BY <1>1 DEF IInv, AgentsInStep
    <3>2. i \in 0..(NumNodes - 1) /\ j \in 0..(NumNodes - 1)
      BY <2>1, <3>1
    <3>3. NumNodes * i + j \in 0..(NumNodes * NumNodes - 1)
      BY <2>1, <3>2, AgentNumbers
    <3>4. QED
      BY <3>1, <3>3
  <2>6. pc = "script" => link < Len(links)
    BY <1>1 DEF IInv, QueuesInStep, Scripting
  <2>7. QED
    BY <1>1, <2>2, <2>3, <2>4, <2>5, <2>6 DEF IInv, LoopsInStep, TypeOK
<1>2. QED
  BY <1>1, Invariance, PTL

\* No two links of out.txt have the same ends, in trees of every order: looking links up by
\* their ends, as install_path, incrementFlows and init_DHT do, finds the right one.
THEOREM LinksKnownByEndsAlways == Spec => []LinksKnownByEnds
<1>1. IInv => LinksKnownByEnds
  BY DEF IInv
<1>2. QED
  BY <1>1, Invariance, PTL

\* Queue n that the script creates is link n of out.txt, and there are as many of the one as
\* of the other once the script has gone through the links.
THEOREM QueuesAreLinksAlways == Spec => []QueuesAreLinks
<1>1. ASSUME IInv
      PROVE  QueuesAreLinks
  <2>1. \A n \in DOMAIN queues : queues[n] = links[n]
    BY <1>1 DEF IInv, QueuesInStep
  <2>2. ASSUME pc \in {"agents", "done"}
        PROVE  Len(queues) = Len(links)
    <3>1. links \in Seq(Nodes \X Nodes) /\ Len(links) \in Nat /\ link \in Nat
      BY <1>1 DEF IInv, LinksCounted, QueuesInStep
    <3>2. link = Len(links)
      BY <1>1, <2>2, <3>1 DEF IInv, QueuesInStep, Scripting
    <3>3. Len(links) % 2 = 0
      <4> SUFFICES ASSUME Len(links) % 2 # 0
                   PROVE  FALSE
        OBVIOUS
      <4> DEFINE n == Len(links)
      <4>1. n \in 1..n /\ n % 2 = 1
        BY <3>1
      <4>2. n + 1 <= n
        BY <1>1, <4>1 DEF IInv, Reversed
      <4>3. QED
        BY <3>1, <4>2
    <3>4. QED
      BY <1>1, <3>2, <3>3 DEF IInv, QueuesInStep
  <2>3. QED
    BY <2>1, <2>2 DEF QueuesAreLinks
<1>2. QED
  BY <1>1, Invariance, PTL

\* The script connects the agent of node a for node b with the agent of node b for node a, for
\* all nodes of a tree of any order.
THEOREM AgentsMutualAlways == Spec => []AgentsMutual
<1>1. ASSUME IInv
      PROVE  AgentsMutual
  <2> SUFFICES ASSUME pc = "done", NEW a \in 0..(NumNodes - 1), NEW b \in 0..(NumNodes - 1)
               PROVE  peer[NumNodes * a + b] = NumNodes * b + a
    BY DEF AgentsMutual
  <2>1. NumNodes \in Nat \ {0} /\ a \in Nodes /\ b \in Nodes /\ i = NumNodes
    BY <1>1, TreeSizes DEF IInv, LoopsInStep, AgentsInStep, Nodes
  <2>2. Paired(a, b) /\ Paired(b, a)
    BY <2>1 DEF Paired
  <2>3. a <= b \/ b <= a
    BY <2>1
  <2>4. QED
    BY <1>1, <2>1, <2>2, <2>3 DEF IInv, AgentsInStep
<1>2. QED
  BY <1>1, Invariance, PTL

-----------------------------------------------------------------------------
(***************************************************************************)
(* The shape of the tree                                                   *)
(***************************************************************************)
\* Which nodes the loops have linked when they are over.
LEMMA AllLinked ==
    ASSUME IInv, Scripting
    PROVE  /\ \A x, y : HostLinked(x, y) <=> x \in 0..(NumHosts - 1) /\ y = EdgeSwitch(x \div Half)
           /\ \A x, y : PodLinked(x, y) <=>
                 \E p \in 0..(k - 1), e, a \in 0..(Half - 1) :
                     x = EdgeSwitch(p * Half + e) /\ y = AggSwitch(p * Half + a)
           /\ \A x, y : CoreLinked(x, y) <=>
                 \E p \in 0..(k - 1), c \in 0..(NumCores - 1) :
                     x = AggSwitch(p * Half + (c \div Half)) /\ y = CoreSwitch(c)
<1>1. k \in Ks /\ NumHosts \in Nat /\ host = NumHosts
  <2>1. k \in Ks /\ host \in 0..NumHosts /\ ~(host < NumHosts)
    BY DEF IInv, LoopsInStep, Scripting
  <2>2. NumHosts \in Nat
    BY <2>1, TreeSizes
  <2>3. QED
    BY <2>1, <2>2
<1>2. \A h \in 0..(NumHosts - 1) : HostDone(h)
  BY <1>1 DEF HostDone
<1>3. \A p, e, a : PodDone(p, e, a)
  BY DEF PodDone
<1>4. \A p, c : CoreDone(p, c)
  BY DEF CoreDone
<1>5. QED
  BY <1>2, <1>3, <1>4, Zenon DEF HostLinked, PodLinked, CoreLinked

\* What the loops link are nodes of the right kinds.
LEMMA LinkedKinds ==
    ASSUME IInv, Scripting, NEW x \in Nodes, NEW y \in Nodes
    PROVE  /\ HostLinked(x, y) => /\ x < NumHosts
                                  /\ NumHosts <= y /\ y < NumHosts + NumSwitches
           /\ PodLinked(x, y) => /\ NumHosts <= x /\ x < NumHosts + NumSwitches
                                 /\ NumHosts + NumSwitches <= y /\ y < NumHosts + 2 * NumSwitches
           /\ CoreLinked(x, y) => /\ NumHosts + NumSwitches <= x /\ x < NumHosts + 2 * NumSwitches
                                  /\ NumHosts + 2 * NumSwitches <= y
<1>1. k \in Ks /\ NumHosts \in Nat
  BY TreeSizes DEF IInv, LoopsInStep
<1>2. HostLinked(x, y) => /\ x < NumHosts
                          /\ NumHosts <= y /\ y < NumHosts + NumSwitches
  <2> SUFFICES ASSUME x \in 0..(NumHosts - 1), y = EdgeSwitch(x \div Half)
               PROVE  x < NumHosts /\ NumHosts <= y /\ y < NumHosts + NumSwitches
    BY AllLinked
  <2>1. x \div Half \in 0..(NumSwitches - 1)
    BY <1>1, SwitchIndex
  <2>2. QED
    BY <1>1, <2>1, NodeKinds
<1>3. PodLinked(x, y) =>
          /\ NumHosts <= x /\ x < NumHosts + NumSwitches
          /\ NumHosts + NumSwitches <= y /\ y < NumHosts + 2 * NumSwitches
  <2> SUFFICES ASSUME NEW p \in 0..(k - 1), NEW e \in 0..(Half - 1), NEW a \in 0..(Half - 1),
                      x = EdgeSwitch(p * Half + e), y = AggSwitch(p * Half + a)
               PROVE  /\ NumHosts <= x /\ x < NumHosts + NumSwitches
                      /\ NumHosts + NumSwitches <= y /\ y < NumHosts + 2 * NumSwitches
    BY AllLinked
  <2>1. p * Half + e \in 0..(NumSwitches - 1) /\ p * Half + a \in 0..(NumSwitches - 1)
    BY <1>1, SwitchIndex
  <2>2. QED
    BY <1>1, <2>1, NodeKinds
<1>4. CoreLinked(x, y) =>
          /\ NumHosts + NumSwitches <= x /\ x < NumHosts + 2 * NumSwitches
          /\ NumHosts + 2 * NumSwitches <= y
  <2> SUFFICES ASSUME NEW p \in 0..(k - 1), NEW c \in 0..(NumCores - 1),
                      x = AggSwitch(p * Half + (c \div Half)), y = CoreSwitch(c)
               PROVE  /\ NumHosts + NumSwitches <= x /\ x < NumHosts + 2 * NumSwitches
                      /\ NumHosts + 2 * NumSwitches <= y
    BY AllLinked
  <2>1. c \div Half \in 0..(Half - 1)
    BY <1>1, SwitchIndex
  <2>2. p * Half + (c \div Half) \in 0..(NumSwitches - 1)
    BY <1>1, <2>1, SwitchIndex
  <2>3. QED
    BY <1>1, <2>2, NodeKinds
<1>5. QED
  BY <1>2, <1>3, <1>4

LEMMA HostsAndEdges ==
    ASSUME IInv, Scripting, NEW h \in 0..(NumHosts - 1), NEW e \in 0..(NumSwitches - 1)
    PROVE  Linked(h, EdgeSwitch(e)) <=> e = h \div Half
<1> DEFINE x == h
           y == EdgeSwitch(e)
<1>1. /\ k \in Ks /\ NumHosts \in Nat /\ NumSwitches \in Nat /\ NumNodes \in Nat
  BY TreeSizes DEF IInv, LoopsInStep
<1>2. /\ x \in Nodes /\ y \in Nodes /\ x < NumHosts
      /\ NumHosts <= y /\ y < NumHosts + NumSwitches
  BY <1>1, NodeKinds
<1>3. x \in Int /\ y \in Int
  BY <1>1, <1>2 DEF Nodes
<1>4. HostLinked(x, y) <=> e = h \div Half
  <2>1. h \div Half \in 0..(NumSwitches - 1)
    BY <1>1, SwitchIndex
  <2>2. HostLinked(x, y) <=> EdgeSwitch(e) = EdgeSwitch(h \div Half)
    BY AllLinked, Zenon
  <2>3. QED
    BY <1>1, <2>1, <2>2, SwitchUnique, Zenon
<1> HIDE DEF x, y
<1>5. UpLinked(x, y) \/ UpLinked(y, x) <=> HostLinked(x, y)
  BY <1>1, <1>2, <1>3, LinkedKinds DEF UpLinked
<1>6. Linked(x, y) <=> e = h \div Half
  BY <1>2, <1>4, <1>5 DEF IInv, LinksAsDone
<1>7. QED
  BY <1>6 DEF x, y

LEMMA EdgesAndAggs ==
    ASSUME IInv, Scripting, NEW e \in 0..(NumSwitches - 1), NEW a \in 0..(NumSwitches - 1)
    PROVE  Linked(EdgeSwitch(e), AggSwitch(a)) <=> e \div Half = a \div Half
<1> DEFINE x == EdgeSwitch(e)
           y == AggSwitch(a)
<1>1. /\ k \in Ks /\ NumHosts \in Nat /\ NumSwitches \in Nat /\ NumNodes \in Nat
      /\ Half \in Nat \ {0} /\ k \in Nat /\ NumSwitches = Half * k
  BY TreeSizes DEF IInv, LoopsInStep
<1>2. /\ x \in Nodes /\ y \in Nodes
      /\ NumHosts <= x /\ x < NumHosts + NumSwitches
      /\ NumHosts + NumSwitches <= y /\ y < NumHosts + 2 * NumSwitches
  BY <1>1, NodeKinds
<1>3. x \in Int /\ y \in Int
  BY <1>1, <1>2 DEF Nodes
<1>4. ASSUME NEW n \in 0..(NumSwitches - 1)
      PROVE  /\ n \div Half \in 0..(k - 1) /\ n % Half \in 0..(Half - 1)
             /\ n = (n \div Half) * Half + (n % Half)
  <2>1. n \in 0..(Half * k - 1) /\ n \in Nat
    BY <1>1
  <2>2. n \div Half \in 0..(k - 1)
    BY <1>1, <2>1, DivBound, Zenon
  <2>3. n \div Half \in Nat /\ n % Half \in 0..(Half - 1) /\ n = Half * (n \div Half) + (n % Half)
    BY <1>1, <2>1, DivMod, Zenon
  <2>4. (n \div Half) * Half + (n % Half) = Half * (n \div Half) + (n % Half)
    BY <1>1, <2>3, DivUnique, Zenon
  <2>5. QED
    BY <2>2, <2>3, <2>4
<1>5. PodLinked(x, y) <=> e \div Half = a \div Half
  <2>1. ASSUME PodLinked(x, y)
        PROVE  e \div Half = a \div Half
    <3>1. PICK p \in 0..(k - 1), m \in 0..(Half - 1), n \in 0..(Half - 1) :
              x = EdgeSwitch(p * Half + m) /\ y = AggSwitch(p * Half + n)
      BY <2>1, AllLinked
    <3>2. p * Half + m \in 0..(NumSwitches - 1) /\ p * Half + n \in 0..(NumSwitches - 1)
          /\ (p * Half + m) \div Half = p /\ (p * Half + n) \div Half = p
      BY <1>1, SwitchIndex
    <3>3. e = p * Half + m /\ a = p * Half + n
      BY <1>1, <3>1, <3>2, SwitchUnique, Zenon
    <3>4. QED
      BY <3>2, <3>3, Zenon
  <2>2. ASSUME e \div Half = a \div Half
        PROVE  PodLinked(x, y)
    <3> DEFINE p == e \div Half
               m == e % Half
               n == a % Half
    <3>1. /\ p \in 0..(k - 1) /\ m \in 0..(Half - 1) /\ n \in 0..(Half - 1)
          /\ e = p * Half + m /\ a = p * Half + n
      BY <1>4, <2>2, Zenon
    <3> HIDE DEF p, m, n
    <3>2. x = EdgeSwitch(p * Half + m) /\ y = AggSwitch(p * Half + n)
      BY <3>1
    <3>3. QED
      BY <3>1, <3>2, AllLinked, Zenon
  <2>3. QED
    BY <2>1, <2>2
<1> HIDE DEF x, y
<1>6. UpLinked(x, y) \/ UpLinked(y, x) <=> PodLinked(x, y)
  BY <1>1, <1>2, <1>3, LinkedKinds DEF UpLinked
<1>7. Linked(x, y) <=> e \div Half = a \div Half
  BY <1>2, <1>5, <1>6 DEF IInv, LinksAsDone
<1>8. QED
  BY <1>7 DEF x, y

LEMMA AggsAndCores ==
    ASSUME IInv, Scripting, NEW p \in 0..(k - 1), NEW a \in 0..(Half - 1),
           NEW c \in 0..(NumCores - 1)
    PROVE  /\ Linked(CoreSwitch(c), AggSwitch(p * Half + a)) <=> a = c \div Half
           /\ Linked(AggSwitch(p * Half + a), CoreSwitch(c)) <=> a = c \div Half
<1> DEFINE x == AggSwitch(p * Half + a)
           y == CoreSwitch(c)
<1>1. /\ k \in Ks /\ NumHosts \in Nat /\ NumSwitches \in Nat /\ NumNodes \in Nat
  BY TreeSizes DEF IInv, LoopsInStep
<1>2. p * Half + a \in 0..(NumSwitches - 1)
  BY <1>1, SwitchIndex
<1>3. /\ x \in Nodes /\ y \in Nodes
      /\ NumHosts + NumSwitches <= x /\ x < NumHosts + 2 * NumSwitches
      /\ NumHosts + 2 * NumSwitches <= y
  BY <1>1, <1>2, NodeKinds
<1>4. x \in Int /\ y \in Int
  BY <1>1, <1>3 DEF Nodes
<1>5. CoreLinked(x, y) <=> a = c \div Half
  <2>1. ASSUME CoreLinked(x, y)
        PROVE  a = c \div Half
    <3>1. PICK q \in 0..(k - 1), d \in 0..(NumCores - 1) :
              x = AggSwitch(q * Half + (d \div Half)) /\ y = CoreSwitch(d)
      BY <2>1, AllLinked
    <3>2. d = c
      BY <1>1, <3>1, SwitchUnique, Zenon
    <3>3. d \div Half \in 0..(Half - 1)
      BY <1>1, SwitchIndex
    <3>4. q * Half + (d \div Half) \in 0..(NumSwitches - 1)
      BY <1>1, <3>3, SwitchIndex
    <3>5. q * Half + (d \div Half) = p * Half + a
      BY <1>1, <1>2, <3>1, <3>4, SwitchUnique, Zenon
    <3>6. d \div Half = a
      <4> DEFINE n == d \div Half
      <4>1. n \in 0..(Half - 1) /\ q * Half + n = p * Half + a
        BY <3>3, <3>5
      <4> HIDE DEF n
      <4>2. n = a
        BY <1>1, <4>1, SwitchUnique
      <4>3. QED
        BY <4>2 DEF n
    <3>7. QED
      BY <3>2, <3>6
  <2>2. ASSUME a = c \div Half
        PROVE  CoreLinked(x, y)
    BY <2>2, AllLinked, Zenon
  <2>3. QED
    BY <2>1, <2>2
<1> HIDE DEF x, y
<1>6. UpLinked(x, y) \/ UpLinked(y, x) <=> CoreLinked(x, y)
  BY <1>1, <1>3, <1>4, LinkedKinds DEF UpLinked
<1>7. (Linked(x, y) <=> a = c \div Half) /\ (Linked(y, x) <=> a = c \div Half)
  BY <1>3, <1>5, <1>6 DEF IInv, LinksAsDone
<1>8. QED
  BY <1>7 DEF x, y

\* The numbers with the quotient m.
LEMMA QuotientSet ==
    ASSUME NEW r \in Nat \ {0}, NEW s \in Nat, NEW m \in 0..(s - 1)
    PROVE  Cardinality({c \in 0..(r * s - 1) : m = c \div r}) = r
<1> DEFINE lo == r * m
<1>1. lo \in Nat /\ m \in Nat
  OBVIOUS
<1>2. ASSUME NEW c \in 0..(r * s - 1), m = c \div r
      PROVE  c \in lo..(lo + r - 1)
  <2> DEFINE n == c % r
  <2>1. c \in Nat
    OBVIOUS
  <2>2. n \in 0..(r - 1) /\ c = r * m + n
    BY <1>2, <2>1, DivMod
  <2> HIDE DEF n
  <2>3. c = lo + n
    BY <2>2
  <2> HIDE DEF lo
  <2>4. QED
    BY <1>1, <2>2, <2>3
<1>3. ASSUME NEW c \in lo..(lo + r - 1)
      PROVE  c \in 0..(r * s - 1) /\ m = c \div r
  <2> DEFINE n == c - lo
  <2>1. n \in 0..(r - 1) /\ c = lo + n
    BY <1>1
  <2> HIDE DEF n
  <2>2. c = r * m + n
    BY <2>1
  <2>3. r * m + n \in 0..(r * s - 1)
    BY <2>1, PairBound, Zenon
  <2>4. (r * m + n) \div r = m
    BY <1>1, <2>1, DivUnique, Zenon
  <2>5. QED
    BY <2>2, <2>3, <2>4
<1> HIDE DEF lo
<1>4. {c \in 0..(r * s - 1) : m = c \div r} = lo..(lo + r - 1)
  BY <1>2, <1>3, Zenon
<1>5. lo + r - 1 \in Int /\ ~(lo > lo + r - 1) /\ (lo + r - 1) - lo + 1 = r
  BY <1>1
<1>6. Cardinality(lo..(lo + r - 1)) = r
  BY <1>1, <1>5, FS_Interval
<1>7. QED
  BY <1>4, <1>6

\* When the generator has gone through its loops, out.txt is the k-ary fat tree, of the asserted
\* number of links, for every even k: hosts, racks, pods and core switches are linked as
\* init_DHT and the routes presume.
THEOREM FatTreeShapeAlways == Spec => []FatTreeShape
<1>1. ASSUME IInv
      PROVE  FatTreeShape
  <2> SUFFICES ASSUME Scripting
               PROVE  /\ 2 * Len(links) = 3 * k * k * k
                      /\ \A h \in 0..(NumHosts - 1), e \in 0..(NumSwitches - 1) :
                            Linked(h, EdgeSwitch(e)) <=> e = h \div Half
                      /\ \A e, a \in 0..(NumSwitches - 1) :
                            Linked(EdgeSwitch(e), AggSwitch(a)) <=> e \div Half = a \div Half
                      /\ \A c \in 0..(NumCores - 1), p \in 0..(k - 1) :
                            Cardinality({a \in 0..(Half - 1) :
                                Linked(CoreSwitch(c), AggSwitch(p * Half + a))}) = 1
                      /\ \A a \in 0..(NumSwitches - 1) :
                            Cardinality({c \in 0..(NumCores - 1) :
                                Linked(AggSwitch(a), CoreSwitch(c))}) = Half
    BY DEF FatTreeShape, Scripting
  <2>1. /\ k \in Ks /\ Half \in Nat \ {0} /\ k \in Nat /\ k = 2 * Half
        /\ NumCores = Half * Half /\ NumSwitches = Half * k /\ NumSwitches \in Nat
        /\ NumHosts = Half * NumSwitches /\ NumHosts \in Nat
    BY <1>1, TreeSizes DEF IInv, LoopsInStep
  <2>0. host = NumHosts
    <3>1. host \in 0..NumHosts /\ ~(host < NumHosts)
      BY <1>1 DEF IInv, LoopsInStep, Scripting
    <3>2. NumHosts \in Nat
      BY <2>1
    <3>3. QED
      BY <3>1, <3>2
  <2>2. 2 * Len(links) = 3 * k * k * k
    <3>1. Len(links) = 2 * (NumHosts + NumSwitches * Half + k * NumCores)
      BY <1>1, <2>0 DEF IInv, LinksCounted, PodPasses, CorePasses, Scripting
    <3> DEFINE t == Half * Half * Half
    <3>2. t \in Nat
      BY <2>1
    <3>3. NumHosts = 2 * t /\ NumSwitches * Half = 2 * t /\ k * NumCores = 2 * t
      BY <2>1
    <3>4. 3 * k * k * k = 24 * t
      BY <2>1
    <3> HIDE DEF t
    <3>5. QED
      BY <3>1, <3>2, <3>3, <3>4
  <2>3. ASSUME NEW c \in 0..(NumCores - 1), NEW p \in 0..(k - 1)
        PROVE  Cardinality({a \in 0..(Half - 1) :
                   Linked(CoreSwitch(c), AggSwitch(p * Half + a))}) = 1
    <3>1. c \div Half \in 0..(Half - 1)
      BY <2>1, SwitchIndex
    <3>2. {a \in 0..(Half - 1) : Linked(CoreSwitch(c), AggSwitch(p * Half + a))}
              = {c \div Half}
      BY <1>1, <3>1, AggsAndCores, Zenon
    <3>3. QED
      BY <3>2, FS_Singleton
  <2>4. ASSUME NEW a \in 0..(NumSwitches - 1)
        PROVE  Cardinality({c \in 0..(NumCores - 1) :
                   Linked(AggSwitch(a), CoreSwitch(c))}) = Half
    <3> DEFINE p == a \div Half
               m == a % Half
    <3>1. a \in 0..(Half * k - 1) /\ a \in Nat
      BY <2>1
    <3>2. p \in 0..(k - 1) /\ p \in Nat
      BY <2>1, <3>1, DivBound, DivMod, Zenon
    <3>3. m \in 0..(Half - 1) /\ a = Half * p + m
      BY <2>1, <3>1, DivMod, Zenon
    <3> HIDE DEF p, m
    <3>4. a = p * Half + m
      BY <2>1, <3>2, <3>3, DivUnique, Zenon
    <3>5. {c \in 0..(NumCores - 1) : Linked(AggSwitch(a), CoreSwitch(c))}
              = {c \in 0..(Half * Half - 1) : m = c \div Half}
      BY <1>1, <2>1, <3>2, <3>3, <3>4, AggsAndCores, Zenon
    <3>6. QED
      BY <2>1, <3>3, <3>5, QuotientSet
  <2>5. QED
    BY <1>1, <2>2, <2>3, <2>4, HostsAndEdges, EdgesAndAggs, Zenon
<1>2. QED
  BY <1>1, Invariance, PTL
=============================================================================
