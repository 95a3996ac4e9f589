------------------------------ MODULE PathMap ------------------------------
(***************************************************************************)
(* The path recorder: how a sender learns the links that its flow crosses. *)
(*                                                                         *)
(* PacketQueue::enque (queue/queue.cc) notes, in a global map, every queue *)
(* that accepts a packet under a key made of the packet's addresses and    *)
(* ports.  flow_start (tcp/tcp.cc) looks its own key up, turns the links   *)
(* recorded so far into a list of nodes, and counts itself at the queue of *)
(* every link between two successive nodes; flow_end takes that back.  A   *)
(* script sends one packet ahead of flow_start so that there is something  *)
(* to find; nothing waits for it.                                          *)
(*                                                                         *)
(* A connection is one direction of traffic between two agents: the data   *)
(* of a flow, its acknowledgements, pings, requests.  It keeps its route.  *)
(***************************************************************************)
EXTENDS Integers, Sequences, FiniteSets

CONSTANTS
    Conn,      \* connections
    Flow,      \* those that carry the data of a flow
    Tuple,     \* Tuple[c]: source address, source port, destination address and port
    Link,      \* links, by link number
    Ends,      \* Ends[l]: the nodes n_start and n_end of a link
    Path,      \* Path[c]: the links that packets of c cross
    MaxPkts    \* bound: packets that a connection sends

\* A link is known by its ends, and a route is a chain of links without a cycle.
ASSUME PathAssumption ==
    /\ IsFiniteSet(Conn) /\ Flow \subseteq Conn /\ MaxPkts \in Nat
    /\ Tuple \in [Conn -> [1..4 -> Nat]]
    /\ \A l \in Link : Ends[l] = <<Ends[l][1], Ends[l][2]>>
    /\ \A l, m \in Link : Ends[l] = Ends[m] => l = m
    /\ Path \in [Conn -> Seq(Link)]
    /\ \A c \in Conn :
        /\ Path[c] # <<>>
        /\ \A i, j \in DOMAIN Path[c] : Path[c][i] = Path[c][j] => i = j
        /\ \A i \in 1..(Len(Path[c]) - 1) : Ends[Path[c][i]][2] = Ends[Path[c][i + 1]][1]

VARIABLES
    at,          \* at[c][k]: packets of c accepted by k queues so far; k = 0: not sent
    flow_map,    \* pathway_global->flow_map: key -> link list, <<>> for no entry
    flow_path,   \* flow_path[c]: the nodes that flow_start installed
    numFlows,    \* numFlows[l] of the link's queue
    phase,       \* phase[c]: "idle", "active", "ended", "crashed"
    arrived      \* history: at flow_start of c the last queue had accepted a packet of c

vars == <<at, flow_map, flow_path, numFlows, phase, arrived>>

\* concat: each of the four numbers is stored in one char.
Key(c) == [i \in 1..4 |-> Tuple[c][i] % 256]
Keys == {Key(c) : c \in Conn}

\* A null flow_path is dereferenced by incrementFlows; the simulator is gone.
Alive == \A c \in Conn : phase[c] # "crashed"

Init ==
    /\ at = [c \in Conn |-> [k \in 0..Len(Path[c]) |-> IF k = 0 THEN MaxPkts ELSE 0]]
    /\ flow_map = [k \in Keys |-> <<>>]
    /\ flow_path = [c \in Conn |-> <<>>]
    /\ numFlows = [l \in Link |-> 0]
    /\ phase = [c \in Conn |-> "idle"]
    /\ arrived = [c \in Conn |-> FALSE]

-----------------------------------------------------------------------------
\* Mutant: a link is appended although it is in the list.
RecordedAgain(links, l) == Append(links, l)

\* The link list of a key after PacketQueue::enque of the queue of link l.
Recorded(links, l) ==
    IF \E i \in DOMAIN links : links[i] = l THEN links ELSE Append(links, l)

\* A packet of c that has passed k queues is accepted by the next one ...
Hop(c, k) ==
    /\ Alive
    /\ at[c][k] > 0
    /\ at' = [at EXCEPT ![c][k] = @ - 1, ![c][k + 1] = @ + 1]
    /\ flow_map' = [flow_map EXCEPT ![Key(c)] = Recorded(@, Path[c][k + 1])]
    /\ UNCHANGED <<flow_path, numFlows, phase, arrived>>

\* ... or dropped by it, in which case PacketQueue::enque is not called.
Drop(c, k) ==
    /\ Alive
    /\ at[c][k] > 0
    /\ at' = [at EXCEPT ![c][k] = @ - 1]
    /\ UNCHANGED <<flow_map, flow_path, numFlows, phase, arrived>>

-----------------------------------------------------------------------------
\* Mutant: the start of the first link is forgotten.
NodesOfEnds(links) == [i \in 1..Len(links) |-> Ends[links[i]][2]]

\* install_path for each link of the list: the start of the first, the end of each.
NodesOf(links) ==
    IF links = <<>> THEN <<>>
    ELSE [i \in 1..(Len(links) + 1) |->
            IF i = 1 THEN Ends[links[1]][1] ELSE Ends[links[i - 1]][2]]

\* The places where a list of nodes crosses link l, and their number, which is what
\* incrementFlows adds to the link's counter.
Steps(nodes, l) == {i \in 1..(Len(nodes) - 1) : Ends[l] = <<nodes[i], nodes[i + 1]>>}
Crossings(nodes, l) == Cardinality(Steps(nodes, l))

\* flow_start: print_pathway, then incrementFlows.
FlowStart(c) ==
    LET nodes == NodesOf(flow_map[Key(c)])
    IN  /\ Alive
        /\ phase[c] = "idle"
        /\ arrived' = [arrived EXCEPT ![c] = at[c][Len(Path[c])] > 0]
        /\ flow_path' = [flow_path EXCEPT ![c] = nodes]
        /\ phase' = [phase EXCEPT ![c] = IF nodes = <<>> THEN "crashed" ELSE "active"]
        /\ numFlows' = [l \in Link |-> numFlows[l] + Crossings(nodes, l)]
        /\ UNCHANGED <<at, flow_map>>

\* Mutant: what is taken back is looked up again.
FlowEndFresh(c) ==
    /\ Alive
    /\ phase[c] = "active"
    /\ phase' = [phase EXCEPT ![c] = "ended"]
    /\ numFlows' = [l \in Link |-> numFlows[l] - Crossings(NodesOf(flow_map[Key(c)]), l)]
    /\ UNCHANGED <<at, flow_map, flow_path, arrived>>

\* flow_end: decrementFlows over the nodes that flow_start installed.
FlowEnd(c) ==
    /\ Alive
    /\ phase[c] = "active"
    /\ phase' = [phase EXCEPT ![c] = "ended"]
    /\ numFlows' = [l \in Link |-> numFlows[l] - Crossings(flow_path[c], l)]
    /\ UNCHANGED <<at, flow_map, flow_path, arrived>>

Next ==
    \/ \E c \in Conn : \E k \in 0..(Len(Path[c]) - 1) : Hop(c, k) \/ Drop(c, k)
    \/ \E c \in Flow : FlowStart(c) \/ FlowEnd(c)

Spec == Init /\ [][Next]_vars

-----------------------------------------------------------------------------
(***************************************************************************)
(* Properties                                                              *)
(***************************************************************************)
\* The variables have their types; in particular no counter of a queue is below zero.
TypeOK ==
    /\ \A c \in Conn : at[c] \in [0..Len(Path[c]) -> Nat]
    /\ flow_map \in [Keys -> Seq(Link)]
    /\ numFlows \in [Link -> Nat]
    /\ phase \in [Conn -> {"idle", "active", "ended", "crashed"}]

\* No other connection has the key of c.
OwnKey(c) == \A d \in Conn : Key(d) = Key(c) => d = c

\* What the queues record for a flow is, at any time and whichever of its packets were
\* dropped or overtaken, the part of its route that some packet has gone.
RecordedIsPrefix ==
    \A c \in Conn : OwnKey(c) =>
        LET links == flow_map[Key(c)]
        IN  /\ Len(links) <= Len(Path[c])
            /\ \A i \in DOMAIN links : links[i] = Path[c][i]
            /\ \A k \in 1..Len(Path[c]) : at[c][k] > 0 => k <= Len(links)

\* If a packet of the flow has gone all the way before flow_start, flow_start does not
\* crash, and counts the flow at exactly the links of its route, as StatShare assumes.
PathKnown ==
    \A c \in Conn : OwnKey(c) /\ arrived[c] =>
        /\ phase[c] # "crashed"
        /\ \A l \in Link :
              Crossings(flow_path[c], l) = IF \E i \in DOMAIN Path[c] : Path[c][i] = l
                                           THEN 1 ELSE 0

\* A queue's counter is what its active flows have added, also for flows that started too
\* early and know a part of their route only: flow_end takes back what flow_start did,
\* although the record has grown in between.
Counted(l) ==
    UNION {{<<c, i>> : i \in Steps(flow_path[c], l)} : c \in {d \in Conn : phase[d] = "active"}}
CountersBalance == \A l \in Link : numFlows[l] = Cardinality(Counted(l))
=============================================================================
