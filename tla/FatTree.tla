------------------------------ MODULE FatTree ------------------------------
(***************************************************************************)
(* The topology generator (FATGraphgenerator/src/FatTreeGenerator.py).     *)
(*                                                                         *)
(* It numbers the nodes of a k-ary fat tree from the hosts upwards, lists  *)
(* the links in out.txt, which gives them their numbers, and writes the    *)
(* script that creates the simulator's queues and connects, for each two   *)
(* nodes, the agents through which they talk.  The controllers rely on     *)
(* numbers throughout: link n of out.txt must be the n-th queue that the   *)
(* script creates, and agent n * a + b of n nodes must talk to agent       *)
(* n * b + a.                                                              *)
(*                                                                         *)
(* One action is one pass through a loop body of the generator, or of the  *)
(* script that it writes.                                                  *)
(***************************************************************************)
EXTENDS Integers, Sequences, FiniteSets

CONSTANT Ks   \* the orders of trees to generate

ASSUME OrderAssumption == \A n \in Ks : n \in Nat /\ n >= 2 /\ n % 2 = 0

VARIABLES
    k,                 \* k, which the user sets in the generator
    pc,                \* the loop that runs
    links,             \* out.txt: <<start, end>> of each link; link n is links[n + 1]
    host,              \* generateEndHostToEdgesSwitchLinks: index of endHost
    edgeSwitchIndex,
    pod,               \* the two other generators: the pod,
    edge, agg,         \* ... switches in it,
    coreSwitchIndex, pod_count,
    link,              \* convertToTCLFormat: the link at hand
    queues,            \* <<start, end>> of each queue in the order of creation
    i, j, ite,         \* the script's loop over agents
    peer               \* peer[a]: the agent to which agent a sends, -1 for none

hostLoop == <<host, edgeSwitchIndex>>
podLoop == <<edge, agg>>
coreLoop == <<coreSwitchIndex, pod_count>>
script == <<link, queues>>
agents == <<i, j, ite, peer>>
vars == <<k, pc, links, hostLoop, pod, podLoop, coreLoop, script, agents>>

\* Sizes of the tree.
Half == k \div 2
NumHosts == (k * k * k) \div 4
NumSwitches == Half * k
NumCores == Half * Half
NumNodes == NumHosts + 2 * NumSwitches + NumCores

\* Nodes are numbered hosts first, then edge, aggregator and core switches.
EdgeSwitch(n) == NumHosts + n
AggSwitch(n) == NumHosts + NumSwitches + n
CoreSwitch(n) == NumHosts + 2 * NumSwitches + n

Init ==
    /\ k \in Ks
    /\ pc = "host" /\ links = <<>>
    /\ host = 0 /\ edgeSwitchIndex = 0
    /\ pod = 0 /\ edge = 0 /\ agg = 0
    /\ coreSwitchIndex = 0 /\ pod_count = 0
    /\ link = 0 /\ queues = <<>>
    /\ i = 0 /\ j = 0 /\ ite = 0
    /\ peer = [a \in 0..(NumNodes * NumNodes - 1) |-> -1]

-----------------------------------------------------------------------------
(***************************************************************************)
(* Links                                                                   *)
(***************************************************************************)
Both(a, b) == <<<<a, b>>, <<b, a>>>>

\* Mutant: the next switch comes one host early.
EdgeAfterEarly(h, e) == IF h % Half = 0 THEN e + 1 ELSE e

\* The switch for the host after h.
EdgeAfter(h, e) == IF (h + 1) % Half = 0 THEN e + 1 ELSE e

HostLink ==
    /\ pc = "host"
    /\ links' = links \o Both(host, EdgeSwitch(edgeSwitchIndex))
    /\ edgeSwitchIndex' = EdgeAfter(host, edgeSwitchIndex)
    /\ host' = host + 1
    /\ pc' = IF host + 1 = NumHosts THEN "pod" ELSE pc
    /\ UNCHANGED <<k, pod, podLoop, coreLoop, script, agents>>

\* Mutant: aggregators are always those of the first pod.
PodAggFirst(p, n) == AggSwitch(n)

\* pod_aggregate_list: the aggregators in groups of k / 2.
PodAgg(p, n) == AggSwitch(p * Half + n)

\* Every edge switch of a pod with every aggregator of the pod.
PodLink ==
    /\ pc = "pod"
    /\ links' = links \o Both(EdgeSwitch(pod * Half + edge), PodAgg(pod, agg))
    /\ agg' = (agg + 1) % Half
    /\ edge' = IF agg + 1 = Half THEN (edge + 1) % Half ELSE edge
    /\ IF agg + 1 = Half /\ edge + 1 = Half
       THEN /\ pod' = (pod + 1) % k
            /\ pc' = IF pod + 1 = k THEN "core" ELSE pc
       ELSE UNCHANGED <<pod, pc>>
    /\ UNCHANGED <<k, hostLoop, coreLoop, script, agents>>

\* Mutant: an aggregator gets one core switch more than its share.
AggAfterLate(c, n) == IF c % (NumCores \div Half) = 0 /\ c > 0 THEN n + 1 ELSE n

\* The aggregator of the pod for the core switch after c.
AggAfter(c, n) == IF (c + 1) % (NumCores \div Half) = 0 THEN n + 1 ELSE n

\* The core switches in turn with the aggregators of each pod.
CoreLink ==
    /\ pc = "core"
    /\ links' = links \o Both(PodAgg(pod, pod_count), CoreSwitch(coreSwitchIndex))
    /\ IF coreSwitchIndex + 1 < NumCores
       THEN /\ coreSwitchIndex' = coreSwitchIndex + 1
            /\ pod_count' = AggAfter(coreSwitchIndex, pod_count)
            /\ UNCHANGED <<pod, pc>>
       ELSE /\ coreSwitchIndex' = 0 /\ pod_count' = 0
            /\ pod' = (pod + 1) % k
            /\ pc' = IF pod + 1 = k THEN "script" ELSE pc
    /\ UNCHANGED <<k, hostLoop, podLoop, script, agents>>

-----------------------------------------------------------------------------
(***************************************************************************)
(* The script                                                              *)
(***************************************************************************)
\* Mutant: the links with an odd number are kept.
KeptOdd(n) == n % 2 = 1

\* Links that are left after "Remove reverse links".
Kept(n) == n % 2 = 0

\* duplex-link creates a queue in each direction.
DuplexLink ==
    /\ pc = "script"
    /\ queues' = IF Kept(link) THEN queues \o Both(links[link + 1][1], links[link + 1][2])
                 ELSE queues
    /\ link' = link + 1
    /\ pc' = IF link + 1 = Len(links) THEN "agents" ELSE pc
    /\ UNCHANGED <<k, links, hostLoop, pod, podLoop, coreLoop, agents>>

\* $ns connect makes each of the two agents the destination of the other.
Connect ==
    /\ pc = "agents" /\ j < NumNodes
    /\ peer' = [peer EXCEPT ![ite] = NumNodes * j + i, ![NumNodes * j + i] = ite]
    /\ ite' = ite + 1 /\ j' = j + 1
    /\ UNCHANGED <<k, pc, links, hostLoop, pod, podLoop, coreLoop, script, i>>

\* Mutant: one agent too few is skipped.
NextRowShort ==
    /\ pc = "agents" /\ j = NumNodes
    /\ ite' = ite + i
    /\ i' = i + 1 /\ j' = i + 1
    /\ pc' = IF i + 1 = NumNodes THEN "done" ELSE pc
    /\ UNCHANGED <<k, links, hostLoop, pod, podLoop, coreLoop, script, peer>>

\* The end of a row: the agents of the next node for nodes before it are connected.
NextRow ==
    /\ pc = "agents" /\ j = NumNodes
    /\ ite' = ite + i + 1
    /\ i' = i + 1 /\ j' = i + 1
    /\ pc' = IF i + 1 = NumNodes THEN "done" ELSE pc
    /\ UNCHANGED <<k, links, hostLoop, pod, podLoop, coreLoop, script, peer>>

Terminated == pc = "done" /\ UNCHANGED vars

Next == HostLink \/ PodLink \/ CoreLink \/ DuplexLink \/ Connect \/ NextRow \/ Terminated

Spec == Init /\ [][Next]_vars

-----------------------------------------------------------------------------
(***************************************************************************)
(* Properties                                                              *)
(***************************************************************************)
\* The variables have their types; in particular the generator never indexes its lists of
\* switches, nor the script its agents, beyond their end.
TypeOK ==
    /\ k \in Ks
    /\ pc \in {"host", "pod", "core", "script", "agents", "done"}
    /\ pc = "host" => host < NumHosts /\ edgeSwitchIndex < NumSwitches
    /\ pod \in 0..(k - 1) /\ edge \in 0..(Half - 1) /\ agg \in 0..(Half - 1)
    /\ coreSwitchIndex \in 0..(NumCores - 1) /\ pod_count \in 0..(Half - 1)
    /\ \A n \in DOMAIN links : links[n] \in (0..(NumNodes - 1)) \X (0..(NumNodes - 1))
    /\ pc = "script" => link < Len(links)
    /\ pc = "agents" /\ j < NumNodes => ite \in DOMAIN peer

\* No two links of out.txt have the same ends: install_path, incrementFlows and init_DHT
\* look links up by their ends (PathAssumption of PathMap).
LinksKnownByEnds == \A m, n \in DOMAIN links : links[m] = links[n] => m = n

Linked(a, b) == \E n \in DOMAIN links : links[n] = <<a, b>>

\* What is generated is the k-ary fat tree, of the asserted number of links.  Hosts share an
\* edge switch exactly if init_DHT puts them in one rack of k / 2 successive numbers; in each
\* pod all edge switches meet all aggregators; every core switch reaches every pod through
\* exactly one aggregator, and every aggregator serves k / 2 core switches.
FatTreeShape ==
    pc \in {"script", "agents", "done"} =>
        /\ 2 * Len(links) = 3 * k * k * k
        /\ \A h \in 0..(NumHosts - 1), e \in 0..(NumSwitches - 1) :
              Linked(h, EdgeSwitch(e)) <=> e = h \div Half
        /\ \A e, a \in 0..(NumSwitches - 1) :
              Linked(EdgeSwitch(e), AggSwitch(a)) <=> e \div Half = a \div Half
        /\ \A c \in 0..(NumCores - 1), p \in 0..(k - 1) :
              Cardinality({a \in 0..(Half - 1) : Linked(CoreSwitch(c), AggSwitch(p * Half + a))}) = 1
        /\ \A a \in 0..(NumSwitches - 1) :
              Cardinality({c \in 0..(NumCores - 1) : Linked(AggSwitch(a), CoreSwitch(c))}) = Half

\* Queue n of the simulator is link n of out.txt, although the script creates queues in
\* pairs from the even links alone: the recorder takes one number for the other.
QueuesAreLinks ==
    /\ \A n \in DOMAIN queues : queues[n] = links[n]
    /\ pc \in {"agents", "done"} => Len(queues) = Len(links)

\* The agent of node a for node b and the agent of node b for node a send to each other,
\* for all nodes: polls, requests and replies reach whom they are meant for.
AgentsMutual ==
    pc = "done" => \A a, b \in 0..(NumNodes - 1) : peer[NumNodes * a + b] = NumNodes * b + a
=============================================================================
