--------------------------- MODULE PathMapProofs ---------------------------
(***************************************************************************)
(* Theorems about PathMap, for any topology and any connections.           *)
(***************************************************************************)
EXTENDS PathMap, FiniteSetTheorems, TLAPS

Nodes == {Ends[l][1] : l \in Link} \cup {Ends[l][2] : l \in Link}

\* Types without the counters, which are natural numbers only because they balance.
Types ==
    /\ at \in [Conn -> UNION {[0..Len(Path[c]) -> Nat] : c \in Conn}]
    /\ \A c \in Conn : at[c] \in [0..Len(Path[c]) -> Nat]
    /\ flow_map \in [Keys -> Seq(Link)]
    /\ flow_path \in [Conn -> Seq(Nodes)]
    /\ DOMAIN numFlows = Link
    /\ numFlows = [l \in Link |-> numFlows[l]]
    /\ phase \in [Conn -> {"idle", "active", "ended", "crashed"}]
    /\ arrived \in [Conn -> BOOLEAN]
    /\ \A c \in Conn : phase[c] = "idle" => ~arrived[c]

CountsFinite == \A l \in Link : IsFiniteSet(Counted(l))

Inv == Types /\ RecordedIsPrefix /\ PathKnown /\ CountersBalance /\ CountsFinite

-----------------------------------------------------------------------------
LEMMA KeyInKeys == ASSUME NEW c \in Conn PROVE Key(c) \in Keys
  BY DEF Keys

LEMMA PathFacts ==
  ASSUME NEW c \in Conn
  PROVE  /\ Path[c] \in Seq(Link) /\ Len(Path[c]) \in Nat \ {0}
         /\ DOMAIN Path[c] = 1..Len(Path[c])
         /\ \A i \in 1..Len(Path[c]) : Path[c][i] \in Link
  BY PathAssumption

\* The nodes of a list of links are a list of nodes, one longer.
LEMMA NodesOfType ==
  ASSUME NEW links \in Seq(Link)
  PROVE  /\ NodesOf(links) \in Seq(Nodes)
         /\ Len(NodesOf(links)) = IF links = <<>> THEN 0 ELSE Len(links) + 1
         /\ NodesOf(links) = <<>> <=> links = <<>>
<1>1. CASE links = <<>>
  BY <1>1 DEF NodesOf
<1>2. CASE links # <<>>
  <2>1. Len(links) \in Nat \ {0} /\ \A i \in 1..Len(links) : links[i] \in Link
    BY <1>2
  <2>2. NodesOf(links) = [i \in 1..(Len(links) + 1) |->
                            IF i = 1 THEN Ends[links[1]][1] ELSE Ends[links[i - 1]][2]]
    BY <1>2 DEF NodesOf
  <2>3. \A i \in 1..(Len(links) + 1) : NodesOf(links)[i] \in Nodes
    BY <2>1, <2>2 DEF Nodes
  <2>4. NodesOf(links) \in [1..(Len(links) + 1) -> Nodes]
    BY <2>2, <2>3
  <2>5. NodesOf(links) \in Seq(Nodes) /\ Len(NodesOf(links)) = Len(links) + 1
    BY <2>1, <2>4
  <2> QED BY <1>2, <2>1, <2>5
<1> QED BY <1>1, <1>2

LEMMA StepsFinite ==
  ASSUME NEW nodes \in Seq(Nodes), NEW l
  PROVE  IsFiniteSet(Steps(nodes, l)) /\ Crossings(nodes, l) \in Nat
<1>1. Len(nodes) \in Nat
  OBVIOUS
<1>2. IsFiniteSet(1..(Len(nodes) - 1))
  BY <1>1, FS_Interval
<1>3. IsFiniteSet(Steps(nodes, l))
  BY <1>2, FS_Subset DEF Steps
<1> QED BY <1>3, FS_CardinalityType DEF Crossings

\* The nodes of a whole route cross each link of the route once and no other link.
LEMMA RouteCrossings ==
  ASSUME NEW c \in Conn, NEW l \in Link
  PROVE  Crossings(NodesOf(Path[c]), l) = IF \E i \in DOMAIN Path[c] : Path[c][i] = l THEN 1 ELSE 0
<1> DEFINE n == Len(Path[c])
           nodes == NodesOf(Path[c])
<1>1. n \in Nat \ {0} /\ DOMAIN Path[c] = 1..n /\ Path[c] \in Seq(Link) /\ Path[c] # <<>>
      /\ \A i \in 1..n : Path[c][i] \in Link
  BY PathFacts, PathAssumption
<1>2. nodes = [i \in 1..(n + 1) |-> IF i = 1 THEN Ends[Path[c][1]][1] ELSE Ends[Path[c][i - 1]][2]]
  BY <1>1 DEF NodesOf
<1>3. Len(nodes) = n + 1
  BY <1>1, NodesOfType
<1>4. ASSUME NEW i \in 1..n
      PROVE  nodes[i] = Ends[Path[c][i]][1] /\ nodes[i + 1] = Ends[Path[c][i]][2]
  <2>1. nodes[i + 1] = Ends[Path[c][i]][2]
    <3>1. i + 1 \in 1..(n + 1) /\ i + 1 # 1 /\ (i + 1) - 1 = i
      BY <1>1
    <3> HIDE DEF nodes, n
    <3> QED BY <1>2, <3>1
  <2>2. CASE i = 1
    BY <1>1, <1>2, <2>1, <2>2
  <2>3. CASE i # 1
    <3>1. i - 1 \in 1..(n - 1) /\ (i - 1) + 1 = i
      BY <1>1, <2>3
    <3>2. Ends[Path[c][i - 1]][2] = Ends[Path[c][i]][1]
      BY <3>1, PathAssumption
    <3>3. nodes[i] = Ends[Path[c][i - 1]][2]
      BY <1>1, <1>2, <2>3
    <3> QED BY <2>1, <3>2, <3>3
  <2> QED BY <2>2, <2>3
<1>5. ASSUME NEW i \in 1..n
      PROVE  Ends[l] = <<nodes[i], nodes[i + 1]>> <=> Path[c][i] = l
  <2>1. Path[c][i] \in Link
    BY <1>1
  <2>2. Ends[Path[c][i]] = <<Ends[Path[c][i]][1], Ends[Path[c][i]][2]>>
    BY <2>1, PathAssumption
  <2>3. Ends[Path[c][i]] = <<nodes[i], nodes[i + 1]>>
    BY <1>4, <2>2
  <2>4. Ends[Path[c][i]] = Ends[l] => Path[c][i] = l
    BY <2>1, PathAssumption
  <2> QED BY <2>3, <2>4
<1>6. Steps(nodes, l) = {i \in 1..n : Path[c][i] = l}
  <2> HIDE DEF nodes
  <2>1. Len(nodes) - 1 = n
    BY <1>1, <1>3
  <2> QED BY <1>5, <2>1 DEF Steps
<1>7. CASE \E i \in DOMAIN Path[c] : Path[c][i] = l
  <2>1. PICK i \in 1..n : Path[c][i] = l
    BY <1>1, <1>7
  <2>2. \A j \in 1..n : Path[c][j] = l => j = i
    BY <1>1, <2>1, PathAssumption
  <2>3. Steps(nodes, l) = {i}
    BY <1>6, <2>1, <2>2
  <2> QED BY <1>7, <2>3, FS_Singleton DEF Crossings
<1>8. CASE ~ \E i \in DOMAIN Path[c] : Path[c][i] = l
  <2>1. Steps(nodes, l) = {}
    BY <1>1, <1>6, <1>8
  <2> QED BY <1>8, <2>1, FS_EmptySet DEF Crossings
<1> QED BY <1>7, <1>8

\* Pairing the elements of a set with c does not change their number.
LEMMA PairsCount ==
  ASSUME NEW c, NEW S, IsFiniteSet(S)
  PROVE  /\ IsFiniteSet({<<c, i>> : i \in S})
         /\ Cardinality({<<c, i>> : i \in S}) = Cardinality(S)
<1> DEFINE T == {<<c, i>> : i \in S}
           f == [i \in S |-> <<c, i>>]
<1>1. f \in [S -> T]
  OBVIOUS
<1>2. \A i, j \in S : f[i] = f[j] => i = j
  OBVIOUS
<1>3. \A t \in T : \E i \in S : f[i] = t
  OBVIOUS
<1>4. f \in Bijection(S, T)
  <2> HIDE DEF f, T
  <2>1. f \in Injection(S, T)
    BY <1>1, <1>2 DEF Injection, IsInjective
  <2>2. f \in Surjection(S, T)
    BY <1>1, <1>3 DEF Surjection
  <2> QED BY <2>1, <2>2 DEF Bijection
<1>5. ExistsBijection(S, T)
  BY <1>4 DEF ExistsBijection
<1> QED BY <1>5, FS_Bijection

\* What has been counted at a link, element by element.
LEMMA CountedMember ==
  ASSUME NEW l, NEW x
  PROVE  x \in Counted(l) <=>
            \E c \in Conn : phase[c] = "active" /\ \E i \in Steps(flow_path[c], l) : x = <<c, i>>
  BY DEF Counted

LEMMA CountedMemberNext ==
  ASSUME NEW l, NEW x
  PROVE  x \in Counted(l)' <=>
            \E c \in Conn : phase'[c] = "active" /\ \E i \in Steps(flow_path'[c], l) : x = <<c, i>>
  BY DEF Counted, Steps

-----------------------------------------------------------------------------
LEMMA InitInv == Init => Inv
<1> SUFFICES ASSUME Init PROVE Inv
  OBVIOUS
<1>1. Types
  <2>1. ASSUME NEW c \in Conn
        PROVE  [k \in 0..Len(Path[c]) |-> IF k = 0 THEN MaxPkts ELSE 0] \in [0..Len(Path[c]) -> Nat]
    BY PathAssumption
  <2>2. \A c \in Conn : at[c] \in [0..Len(Path[c]) -> Nat]
    BY <2>1 DEF Init
  <2>3. at \in [Conn -> UNION {[0..Len(Path[c]) -> Nat] : c \in Conn}]
    BY <2>1 DEF Init
  <2> QED BY <2>2, <2>3 DEF Init, Types
<1>2. RecordedIsPrefix
  <2> SUFFICES ASSUME NEW c \in Conn
               PROVE  /\ flow_map[Key(c)] = <<>>
                      /\ \A k \in 1..Len(Path[c]) : at[c][k] = 0
    BY PathFacts DEF RecordedIsPrefix
  <2> QED BY KeyInKeys, PathFacts DEF Init
<1>3. PathKnown
  BY DEF Init, PathKnown
<1>4. \A l \in Link : Counted(l) = {}
  BY DEF Init, Counted
<1> QED BY <1>1, <1>2, <1>3, <1>4, FS_EmptySet DEF Init, Inv, CountersBalance, CountsFinite

\* A step that leaves flows and counters alone keeps what is said of them.
LEMMA FlowsUnchanged ==
  ASSUME Inv, UNCHANGED <<flow_path, numFlows, phase, arrived>>
  PROVE  PathKnown' /\ CountersBalance' /\ CountsFinite'
<1>1. PathKnown'
  BY DEF Inv, PathKnown, OwnKey, Key, Crossings, Steps
<1>2. ASSUME NEW l PROVE Counted(l)' = Counted(l)
  BY DEF Counted, Steps
<1>3. CountersBalance'
  BY <1>2 DEF Inv, CountersBalance
<1>4. CountsFinite'
  BY <1>2 DEF Inv, CountsFinite
<1> QED BY <1>1, <1>3, <1>4

\* A packet that is accepted extends the record of its flow by the next link of the route,
\* if no packet has been there before.
LEMMA HopInv ==
  ASSUME Inv, NEW c \in Conn, NEW k \in 0..(Len(Path[c]) - 1), Hop(c, k)
  PROVE  Inv'
<1> DEFINE l == Path[c][k + 1]
           old == flow_map[Key(c)]
<1>1. Len(Path[c]) \in Nat \ {0} /\ k \in Nat /\ k + 1 \in 1..Len(Path[c]) /\ l \in Link
  BY PathFacts
<1>2. old \in Seq(Link) /\ Key(c) \in Keys
  BY KeyInKeys DEF Inv, Types
<1>3. flow_map' = [flow_map EXCEPT ![Key(c)] = Recorded(old, l)]
  BY DEF Hop
<1>4. Recorded(old, l) \in Seq(Link)
  BY <1>1, <1>2 DEF Recorded
<1>5. at[c] \in [0..Len(Path[c]) -> Nat] /\ at[c][k] > 0
  BY DEF Inv, Types, Hop
<1>6. at'[c] = [at[c] EXCEPT ![k] = @ - 1, ![k + 1] = @ + 1] /\ \A d \in Conn : d # c => at'[d] = at[d]
  BY DEF Hop, Inv, Types
<1>7. /\ at'[c] \in [0..Len(Path[c]) -> Nat]
      /\ \A j \in 0..Len(Path[c]) : j # k + 1 /\ at'[c][j] > 0 => at[c][j] > 0
  <2> DEFINE p == at[c]
  <2>1. at'[c] = [j \in 0..Len(Path[c]) |-> IF j = k + 1 THEN p[j] + 1 ELSE IF j = k THEN p[j] - 1 ELSE p[j]]
    <3>1. p \in [0..Len(Path[c]) -> Nat] /\ at'[c] = [p EXCEPT ![k] = @ - 1, ![k + 1] = @ + 1]
          /\ k # k + 1 /\ k \in 0..Len(Path[c]) /\ k + 1 \in 0..Len(Path[c])
      BY <1>1, <1>5, <1>6
    <3> HIDE DEF p
    <3> QED BY <3>1
  <2>2. \A j \in 0..Len(Path[c]) : p[j] \in Nat /\ p[k] \in Nat /\ p[k] > 0
    BY <1>1, <1>5
  <2>3. \A j \in 0..Len(Path[c]) :
          at'[c][j] = IF j = k + 1 THEN p[j] + 1 ELSE IF j = k THEN p[j] - 1 ELSE p[j]
    BY <2>1
  <2>4. \A j \in 0..Len(Path[c]) : at'[c][j] \in Nat /\ (j # k + 1 /\ at'[c][j] > 0 => p[j] > 0)
    <3> HIDE DEF p
    <3> QED BY <1>1, <2>2, <2>3
  <2> QED BY <2>1, <2>4
<1>8. Types'
  <2>1. \A d \in Conn : at'[d] \in [0..Len(Path[d]) -> Nat]
    BY <1>6, <1>7 DEF Inv, Types
  <2>2. at' = [at EXCEPT ![c] = at'[c]]
    BY DEF Hop, Inv, Types
  <2>3. at' \in [Conn -> UNION {[0..Len(Path[d]) -> Nat] : d \in Conn}]
    BY <2>2, <1>7 DEF Inv, Types
  <2>4. flow_map' \in [Keys -> Seq(Link)]
    BY <1>2, <1>3, <1>4 DEF Inv, Types
  <2>5. UNCHANGED <<flow_path, numFlows, phase, arrived>>
    BY DEF Hop
  <2> QED BY <2>1, <2>3, <2>4, <2>5 DEF Inv, Types
<1>9. RecordedIsPrefix'
  <2> SUFFICES ASSUME NEW d \in Conn, OwnKey(d)
               PROVE  /\ Len(flow_map'[Key(d)]) <= Len(Path[d])
                      /\ \A i \in DOMAIN flow_map'[Key(d)] : flow_map'[Key(d)][i] = Path[d][i]
                      /\ \A j \in 1..Len(Path[d]) : at'[d][j] > 0 => j <= Len(flow_map'[Key(d)])
    BY DEF RecordedIsPrefix, OwnKey, Key
  <2>1. CASE d # c
    <3>1. Key(d) # Key(c) /\ Key(d) \in Keys
      BY <2>1, KeyInKeys DEF OwnKey
    <3>2. flow_map'[Key(d)] = flow_map[Key(d)] /\ at'[d] = at[d]
      BY <1>3, <1>6, <2>1, <3>1 DEF Inv, Types
    <3> QED BY <3>2 DEF Inv, RecordedIsPrefix
  <2>2. CASE d = c
    <3> DEFINE n == Len(old)
               new == flow_map'[Key(c)]
    <3>1. /\ n <= Len(Path[c])
          /\ \A i \in 1..n : old[i] = Path[c][i]
          /\ \A j \in 1..Len(Path[c]) : at[c][j] > 0 => j <= n
          /\ n \in Nat /\ DOMAIN old = 1..n
      BY <1>2, <2>2 DEF Inv, RecordedIsPrefix
    <3>2. new = Recorded(old, l)
      BY <1>2, <1>3 DEF Inv, Types
    <3>3. k <= n
      BY <1>1, <1>5, <3>1
    <3>4. CASE k < n
      <4>1. old[k + 1] = l /\ k + 1 \in 1..n
        BY <1>1, <3>1, <3>4
      <4>2. new = old
        BY <3>1, <3>2, <4>1 DEF Recorded
      <4>3. \A j \in 1..Len(Path[c]) : at'[c][j] > 0 => j <= n
        BY <1>1, <1>7, <3>1, <3>4
      <4> QED BY <2>2, <3>1, <4>2, <4>3
    <3>5. CASE k = n
      <4>1. \A i \in 1..n : old[i] # l
        <5>1. \A i \in 1..n : i \in DOMAIN Path[c] /\ k + 1 \in DOMAIN Path[c] /\ i # k + 1
          BY <1>1, <3>1, <3>5, PathFacts
        <5>2. \A i, j \in DOMAIN Path[c] : Path[c][i] = Path[c][j] => i = j
          BY PathAssumption
        <5> QED BY <3>1, <5>1, <5>2
      <4>2. new = Append(old, l)
        BY <3>1, <3>2, <4>1 DEF Recorded
      <4>3. Len(new) = n + 1 /\ DOMAIN new = 1..(n + 1)
            /\ \A i \in 1..(n + 1) : new[i] = IF i = n + 1 THEN l ELSE old[i]
        <5>1. old \in Seq(Link) /\ l \in Link
          BY <1>1, <1>2
        <5> HIDE DEF old, l, new
        <5> QED BY <4>2, <5>1
      <4>4. \A i \in DOMAIN new : new[i] = Path[c][i]
        BY <3>1, <3>5, <4>3
      <4>5. Len(new) <= Len(Path[c])
        BY <1>1, <3>5, <4>3
      <4>6. \A j \in 1..Len(Path[c]) : at'[c][j] > 0 => j <= Len(new)
        BY <1>1, <1>7, <3>1, <3>5, <4>3
      <4> QED BY <2>2, <4>4, <4>5, <4>6
    <3> QED BY <1>1, <3>1, <3>3, <3>4, <3>5
  <2> QED BY <2>1, <2>2
<1>10. UNCHANGED <<flow_path, numFlows, phase, arrived>>
  BY DEF Hop
<1> QED BY <1>8, <1>9, <1>10, FlowsUnchanged DEF Inv

LEMMA DropInv ==
  ASSUME Inv, NEW c \in Conn, NEW k \in 0..(Len(Path[c]) - 1), Drop(c, k)
  PROVE  Inv'
<1>1. Len(Path[c]) \in Nat \ {0} /\ k \in 0..Len(Path[c])
  BY PathFacts
<1>2. at[c] \in [0..Len(Path[c]) -> Nat] /\ at[c][k] > 0
  BY DEF Inv, Types, Drop
<1>3. at'[c] = [at[c] EXCEPT ![k] = @ - 1] /\ \A d \in Conn : d # c => at'[d] = at[d]
  BY DEF Drop, Inv, Types
<1>4. /\ at'[c] \in [0..Len(Path[c]) -> Nat]
      /\ \A j \in 0..Len(Path[c]) : at'[c][j] > 0 => at[c][j] > 0
  BY <1>1, <1>2, <1>3
<1>5. Types'
  <2>1. \A d \in Conn : at'[d] \in [0..Len(Path[d]) -> Nat]
    BY <1>3, <1>4 DEF Inv, Types
  <2>2. at' = [at EXCEPT ![c] = at'[c]]
    BY DEF Drop, Inv, Types
  <2>3. at' \in [Conn -> UNION {[0..Len(Path[d]) -> Nat] : d \in Conn}]
    BY <2>2, <1>4 DEF Inv, Types
  <2> QED BY <2>1, <2>3 DEF Drop, Inv, Types
<1>6. RecordedIsPrefix'
  <2> SUFFICES ASSUME NEW d \in Conn, OwnKey(d)
               PROVE  \A j \in 1..Len(Path[d]) : at'[d][j] > 0 => at[d][j] > 0
    BY DEF Inv, RecordedIsPrefix, OwnKey, Key, Drop
  <2>1. CASE d = c
    BY <1>4, <2>1, PathFacts
  <2>2. CASE d # c
    BY <1>3, <2>2
  <2> QED BY <2>1, <2>2
<1>7. UNCHANGED <<flow_path, numFlows, phase, arrived>>
  BY DEF Drop
<1> QED BY <1>5, <1>6, <1>7, FlowsUnchanged DEF Inv
\* Starting a flow counts it; the record is whole if a packet has gone all the way.
LEMMA FlowStartInv ==
  ASSUME Inv, NEW c \in Conn, FlowStart(c)
  PROVE  Inv'
<1> DEFINE links == flow_map[Key(c)]
           nodes == NodesOf(links)
<1>1. links \in Seq(Link)
  BY KeyInKeys DEF Inv, Types
<1>2. nodes \in Seq(Nodes) /\ (nodes = <<>> <=> links = <<>>)
  BY <1>1, NodesOfType
<1>3. /\ phase[c] = "idle"
      /\ arrived' = [arrived EXCEPT ![c] = at[c][Len(Path[c])] > 0]
      /\ flow_path' = [flow_path EXCEPT ![c] = nodes]
      /\ phase' = [phase EXCEPT ![c] = IF nodes = <<>> THEN "crashed" ELSE "active"]
      /\ numFlows' = [l \in Link |-> numFlows[l] + Crossings(nodes, l)]
      /\ UNCHANGED <<at, flow_map>>
  BY DEF FlowStart
<1> HIDE DEF nodes
<1>4. /\ \A d \in Conn : d # c => phase'[d] = phase[d] /\ flow_path'[d] = flow_path[d] /\ arrived'[d] = arrived[d]
      /\ flow_path'[c] = nodes
      /\ phase'[c] = IF nodes = <<>> THEN "crashed" ELSE "active"
      /\ arrived'[c] <=> at[c][Len(Path[c])] > 0
  BY <1>3 DEF Inv, Types
<1>5. Types'
  <2>1. flow_path' \in [Conn -> Seq(Nodes)]
    BY <1>2, <1>3 DEF Inv, Types
  <2>2. phase' \in [Conn -> {"idle", "active", "ended", "crashed"}]
    BY <1>3 DEF Inv, Types
  <2>3. arrived' \in [Conn -> BOOLEAN]
    BY <1>3 DEF Inv, Types
  <2>4. numFlows' = [l \in Link |-> numFlows'[l]] /\ DOMAIN numFlows' = Link
    BY <1>3
  <2>5. \A d \in Conn : phase'[d] = "idle" => ~arrived'[d]
    BY <1>4 DEF Inv, Types
  <2> QED BY <1>3, <2>1, <2>2, <2>3, <2>4, <2>5 DEF Inv, Types
<1>6. RecordedIsPrefix'
  BY <1>3 DEF Inv, RecordedIsPrefix, OwnKey, Key
<1>7. PathKnown'
  <2> SUFFICES ASSUME NEW d \in Conn, OwnKey(d), arrived'[d]
               PROVE  /\ phase'[d] # "crashed"
                      /\ \A l \in Link : Crossings(flow_path'[d], l) =
                            IF \E i \in DOMAIN Path[d] : Path[d][i] = l THEN 1 ELSE 0
    BY DEF PathKnown, OwnKey, Key, Crossings, Steps
  <2>1. CASE d # c
    BY <1>4, <2>1 DEF Inv, PathKnown
  <2>2. CASE d = c
    <3>1. Len(Path[c]) \in Nat \ {0} /\ Path[c] \in Seq(Link)
      BY PathFacts
    <3>2. Len(links) = Len(Path[c]) /\ \A i \in 1..Len(links) : links[i] = Path[c][i]
      BY <1>1, <1>4, <2>2, <3>1 DEF Inv, RecordedIsPrefix
    <3>3. links = Path[c]
      <4> HIDE DEF links
      <4> QED BY <1>1, <3>1, <3>2
    <3>4. nodes # <<>> /\ nodes = NodesOf(Path[c])
      BY <1>2, <3>1, <3>3 DEF nodes
    <3> QED BY <1>4, <2>2, <3>4, RouteCrossings
  <2> QED BY <2>1, <2>2
<1>8. ASSUME NEW l \in Link
      PROVE  IsFiniteSet(Counted(l)') /\ numFlows'[l] = Cardinality(Counted(l)')
  <2> DEFINE new == {<<c, i>> : i \in Steps(nodes, l)}
  <2>1. IsFiniteSet(Steps(nodes, l)) /\ Crossings(nodes, l) \in Nat
    BY <1>2, StepsFinite
  <2>2. IsFiniteSet(new) /\ Cardinality(new) = Crossings(nodes, l)
    BY <2>1, PairsCount DEF Crossings
  <2>3. IsFiniteSet(Counted(l)) /\ numFlows[l] = Cardinality(Counted(l)) /\ Cardinality(Counted(l)) \in Nat
    BY FS_CardinalityType DEF Inv, CountersBalance, CountsFinite
  <2>4. CASE nodes # <<>>
    <3>1. \A x : x \in Counted(l)' <=> x \in Counted(l) \/ x \in new
      <4> TAKE x
      <4>1. x \in Counted(l)' <=>
              \E d \in Conn : phase'[d] = "active" /\ \E i \in Steps(flow_path'[d], l) : x = <<d, i>>
        BY CountedMemberNext
      <4>2. x \in Counted(l) <=>
              \E d \in Conn : phase[d] = "active" /\ \E i \in Steps(flow_path[d], l) : x = <<d, i>>
        BY CountedMember
      <4>3. x \in new <=> \E i \in Steps(nodes, l) : x = <<c, i>>
        OBVIOUS
      <4> HIDE DEF new
      <4> QED BY <1>3, <1>4, <2>4, <4>1, <4>2, <4>3
    <3>2. Counted(l)' = Counted(l) \cup new
      BY <3>1
    <3>3. Counted(l) \cap new = {}
      BY <1>3, CountedMember
    <3> HIDE DEF new
    <3>4. /\ IsFiniteSet(Counted(l) \cup new)
          /\ Cardinality(Counted(l) \cup new) = Cardinality(Counted(l)) + Cardinality(new) - Cardinality({})
      BY <2>2, <2>3, <3>3, FS_Union
    <3>5. numFlows'[l] = numFlows[l] + Crossings(nodes, l)
      BY <1>3
    <3> QED BY <2>1, <2>2, <2>3, <3>2, <3>4, <3>5, FS_EmptySet
  <2>5. CASE nodes = <<>>
    <3>1. Steps(nodes, l) = {}
      BY <2>5 DEF Steps
    <3>2. numFlows'[l] = numFlows[l]
      <4>1. Crossings(nodes, l) = 0
        BY <3>1, FS_EmptySet DEF Crossings
      <4>2. numFlows'[l] = numFlows[l] + Crossings(nodes, l)
        BY <1>3
      <4> QED BY <2>3, <4>1, <4>2
    <3>3. \A x : x \in Counted(l)' <=> x \in Counted(l)
      <4> TAKE x
      <4>1. x \in Counted(l)' <=>
              \E d \in Conn : phase'[d] = "active" /\ \E i \in Steps(flow_path'[d], l) : x = <<d, i>>
        BY CountedMemberNext
      <4>2. x \in Counted(l) <=>
              \E d \in Conn : phase[d] = "active" /\ \E i \in Steps(flow_path[d], l) : x = <<d, i>>
        BY CountedMember
      <4> QED BY <1>3, <1>4, <2>5, <4>1, <4>2
    <3>4. Counted(l)' = Counted(l)
      BY <3>3
    <3> QED BY <2>3, <3>2, <3>4
  <2> QED BY <2>4, <2>5
<1>9. CountersBalance' /\ CountsFinite'
  BY <1>8 DEF CountersBalance, CountsFinite
<1> QED BY <1>5, <1>6, <1>7, <1>9 DEF Inv

\* Ending a flow takes back what its start has counted.
LEMMA FlowEndInv ==
  ASSUME Inv, NEW c \in Conn, FlowEnd(c)
  PROVE  Inv'
<1>1. /\ phase[c] = "active"
      /\ phase' = [phase EXCEPT ![c] = "ended"]
      /\ numFlows' = [l \in Link |-> numFlows[l] - Crossings(flow_path[c], l)]
      /\ UNCHANGED <<at, flow_map, flow_path, arrived>>
  BY DEF FlowEnd
<1>2. phase'[c] = "ended" /\ \A d \in Conn : d # c => phase'[d] = phase[d]
  BY <1>1 DEF Inv, Types
<1>3. Types'
  BY <1>1, <1>2 DEF Inv, Types
<1>4. RecordedIsPrefix'
  BY <1>1 DEF Inv, RecordedIsPrefix, OwnKey, Key
<1>5. PathKnown'
  BY <1>1, <1>2 DEF Inv, PathKnown, OwnKey, Key, Crossings, Steps
<1>6. ASSUME NEW l \in Link
      PROVE  IsFiniteSet(Counted(l)') /\ numFlows'[l] = Cardinality(Counted(l)')
  <2> DEFINE gone == {<<c, i>> : i \in Steps(flow_path[c], l)}
  <2>1. IsFiniteSet(Steps(flow_path[c], l)) /\ Crossings(flow_path[c], l) \in Nat
    BY StepsFinite DEF Inv, Types
  <2>2. IsFiniteSet(gone) /\ Cardinality(gone) = Crossings(flow_path[c], l)
    BY <2>1, PairsCount DEF Crossings
  <2>3. IsFiniteSet(Counted(l)) /\ numFlows[l] = Cardinality(Counted(l))
    BY DEF Inv, CountersBalance, CountsFinite
  <2>4. \A x : x \in gone <=> \E i \in Steps(flow_path[c], l) : x = <<c, i>>
    OBVIOUS
  <2> HIDE DEF gone
  <2>5. \A x : x \in Counted(l)' <=> x \in Counted(l) /\ x \notin gone
    <3> TAKE x
    <3>1. x \in Counted(l)' <=>
            \E d \in Conn : phase'[d] = "active" /\ \E i \in Steps(flow_path[d], l) : x = <<d, i>>
      BY <1>1, CountedMemberNext
    <3>2. x \in Counted(l) <=>
            \E d \in Conn : phase[d] = "active" /\ \E i \in Steps(flow_path[d], l) : x = <<d, i>>
      BY CountedMember
    <3> QED BY <1>2, <2>4, <3>1, <3>2
  <2>6. Counted(l)' = Counted(l) \ gone
    BY <2>5
  <2>7. Counted(l) \cap gone = gone
    <3>1. \A x : x \in gone => x \in Counted(l)
      BY <1>1, <2>4, CountedMember
    <3> QED BY <3>1
  <2>8. /\ IsFiniteSet(Counted(l) \ gone)
        /\ Cardinality(Counted(l) \ gone) = Cardinality(Counted(l)) - Cardinality(gone)
    <3> DEFINE S == Counted(l)
    <3>1. IsFiniteSet(S) /\ S \cap gone = gone
      BY <2>3, <2>7
    <3> HIDE DEF S
    <3>2. IsFiniteSet(S \ gone) /\ Cardinality(S \ gone) = Cardinality(S) - Cardinality(S \cap gone)
      BY <3>1, FS_Difference
    <3>3. IsFiniteSet(S \ gone) /\ Cardinality(S \ gone) = Cardinality(S) - Cardinality(gone)
      BY <3>1, <3>2
    <3> QED BY <3>3 DEF S
  <2> QED BY <1>1, <2>2, <2>3, <2>6, <2>8
<1>7. CountersBalance' /\ CountsFinite'
  BY <1>6 DEF CountersBalance, CountsFinite
<1> QED BY <1>3, <1>4, <1>5, <1>7 DEF Inv

-----------------------------------------------------------------------------
LEMMA NextInv == Inv /\ [Next]_vars => Inv'
<1> SUFFICES ASSUME Inv, [Next]_vars PROVE Inv'
  OBVIOUS
<1>1. CASE UNCHANGED vars
  <2>1. Types'
    BY <1>1 DEF vars, Inv, Types
  <2>2. RecordedIsPrefix'
    BY <1>1 DEF vars, Inv, RecordedIsPrefix, OwnKey, Key
  <2> QED BY <1>1, <2>1, <2>2, FlowsUnchanged DEF vars, Inv
<1>2. ASSUME NEW c \in Conn, NEW k \in 0..(Len(Path[c]) - 1), Hop(c, k) PROVE Inv'
  BY <1>2, HopInv
<1>3. ASSUME NEW c \in Conn, NEW k \in 0..(Len(Path[c]) - 1), Drop(c, k) PROVE Inv'
  BY <1>3, DropInv
<1>4. ASSUME NEW c \in Conn, FlowStart(c) PROVE Inv'
  BY <1>4, FlowStartInv
<1>5. ASSUME NEW c \in Conn, FlowEnd(c) PROVE Inv'
  BY <1>5, FlowEndInv
<1>6. Flow \subseteq Conn
  BY PathAssumption
<1> QED BY <1>1, <1>2, <1>3, <1>4, <1>5, <1>6 DEF Next

LEMMA AlwaysInv == Spec => []Inv
  BY InitInv, NextInv, PTL DEF Spec

LEMMA InvTypeOK == Inv => TypeOK
<1> SUFFICES ASSUME Inv PROVE TypeOK
  OBVIOUS
<1>1. \A l \in Link : numFlows[l] \in Nat
  BY FS_CardinalityType DEF Inv, CountersBalance, CountsFinite
<1>2. numFlows \in [Link -> Nat]
  BY <1>1 DEF Inv, Types
<1> QED BY <1>2 DEF Inv, Types, TypeOK

\* Every variable keeps its type; no flow_end takes a counter below zero, however much of
\* the route has been recorded since the flow started.
THEOREM RecorderTypes == Spec => []TypeOK
  BY AlwaysInv, InvTypeOK, PTL

\* With a key of its own, a flow's record is always an initial part of its route, and the
\* part that its packets have gone.
THEOREM RecordsArePrefixes == Spec => []RecordedIsPrefix
  BY AlwaysInv, PTL DEF Inv

\* A flow of which a packet has gone all the way starts, and is counted exactly along its
\* route: what StatShare takes for granted of FlowStart.
THEOREM StartsOnRoute == Spec => []PathKnown
  BY AlwaysInv, PTL DEF Inv

\* Counters are exactly what the active flows have added, with any loss and any collision
\* of keys.
THEOREM CountersAreBalanced == Spec => []CountersBalance
  BY AlwaysInv, PTL DEF Inv
=============================================================================
