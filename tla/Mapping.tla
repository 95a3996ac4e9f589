------------------------------ MODULE Mapping ------------------------------
(***************************************************************************)
(* How links are divided among the hosts of a rack: generateMapping of     *)
(* FATGraphgenerator/src/FatTreeGenerator.py, and the look-up of the       *)
(* responsible host in TcpAgent::init_DHT (tcp/tcp.cc).                    *)
(*                                                                         *)
(* For each rack in turn the generator takes the links that its hosts do   *)
(* not have already, shuffles them and deals them out with slice_list,     *)
(* whose iterator raises an exception if it is asked for too many.  A link *)
(* is taken from a shuffled list as any one of those that are left.        *)
(*                                                                         *)
(* generateMappingPerPod is the same with the hosts of a pod as a rack.    *)
(***************************************************************************)
EXTENDS Integers, FiniteSets

CONSTANTS
    Link,        \* links, by number
    NumHosts,    \* number_of_endHosts
    RackSize,    \* number_of_hosts_under_edge_switch
    HostPerRack, \* HOST_PER_RACK of tcp.h, to be kept equal by hand
    HostLinks    \* HostLinks[h]: the links that start or end at host h

Host == 0..(NumHosts - 1)

\* Racks are full, and no link joins two hosts.
ASSUME MappingAssumption ==
    /\ IsFiniteSet(Link)
    /\ NumHosts \in Nat /\ RackSize \in Nat \ {0} /\ NumHosts % RackSize = 0
    /\ HostPerRack \in Nat \ {0}
    /\ HostLinks \in [Host -> SUBSET Link]
    /\ \A g, h \in Host : g # h => HostLinks[g] \cap HostLinks[h] = {}

VARIABLES
    own,          \* give_nodes_own_links
    pc,           \* "own", "rack", "slice", "done"
    first,        \* the first host of the rack at hand
    allocations,  \* list_of_links of each host
    left,         \* what slice_list's iterator has left
    slice_size, remain,
    slot,         \* the list of result that is being filled
    result        \* result of slice_list

vars == <<own, pc, first, allocations, left, slice_size, remain, slot, result>>

NoSlices == [n \in 0..(RackSize - 1) |-> {}]
Rack(h) == {r \in Host : h <= r /\ r < h + RackSize}

Init ==
    /\ own \in BOOLEAN
    /\ pc = "own" /\ first = 0
    /\ allocations = [h \in Host |-> {}]
    /\ left = {} /\ slice_size = 0 /\ remain = 0
    /\ slot = 0 /\ result = NoSlices

-----------------------------------------------------------------------------
\* "giving nodes their own links", if wanted.
GiveOwn ==
    /\ pc = "own"
    /\ allocations' = IF own THEN HostLinks ELSE allocations
    /\ pc' = "rack"
    /\ UNCHANGED <<own, first, left, slice_size, remain, slot, result>>

\* Mutant: links of hosts of any rack are taken off.
FreeGlobal(h) == Link \ UNION {allocations[r] : r \in Host}

\* The links that no host of the rack of h has.
Free(h) == Link \ UNION {allocations[r] : r \in Rack(h)}

\* The next rack: slice_list is called with its free links.
StartRack ==
    /\ pc = "rack" /\ first < NumHosts
    /\ left' = Free(first)
    /\ slice_size' = Cardinality(Free(first)) \div RackSize
    /\ remain' = Cardinality(Free(first)) % RackSize
    /\ slot' = 0 /\ result' = NoSlices
    /\ pc' = "slice"
    /\ UNCHANGED <<own, first, allocations>>

\* How many links the list at hand gets: one more while any remain.
Wanted == IF remain > 0 THEN slice_size + 1 ELSE slice_size

Take(l) ==
    /\ pc = "slice" /\ slot < RackSize
    /\ Cardinality(result[slot]) < Wanted
    /\ l \in left
    /\ left' = left \ {l}
    /\ result' = [result EXCEPT ![slot] = @ \cup {l}]
    /\ UNCHANGED <<own, pc, first, allocations, slice_size, remain, slot>>

\* Mutants: the odd links are counted below zero; they are not counted.
NextSlotDebt ==
    /\ pc = "slice" /\ slot < RackSize
    /\ Cardinality(result[slot]) = Wanted
    /\ remain' = remain - 1
    /\ slot' = slot + 1
    /\ UNCHANGED <<own, pc, first, allocations, left, slice_size, result>>

NextSlotUncounted ==
    /\ pc = "slice" /\ slot < RackSize
    /\ Cardinality(result[slot]) = Wanted
    /\ slot' = slot + 1
    /\ UNCHANGED <<own, pc, first, allocations, left, slice_size, remain, result>>

\* The list at hand is complete.
NextSlot ==
    /\ pc = "slice" /\ slot < RackSize
    /\ Cardinality(result[slot]) = Wanted
    /\ remain' = IF remain > 0 THEN remain - 1 ELSE 0
    /\ slot' = slot + 1
    /\ UNCHANGED <<own, pc, first, allocations, left, slice_size, result>>

\* The slice for host h.
SliceOf(h) == result[h % RackSize]

\* Mutant: the last host of the rack is left out.
EndRackShort ==
    /\ pc = "slice" /\ slot = RackSize
    /\ allocations' = [h \in Host |->
            IF h \in Rack(first) \ {first + RackSize - 1}
            THEN allocations[h] \cup SliceOf(h) ELSE allocations[h]]
    /\ first' = first + RackSize
    /\ pc' = IF first + RackSize < NumHosts THEN "rack" ELSE "done"
    /\ UNCHANGED <<own, left, slice_size, remain, slot, result>>

\* Every host of the rack gets its slice.
EndRack ==
    /\ pc = "slice" /\ slot = RackSize
    /\ allocations' = [h \in Host |->
            IF h \in Rack(first) THEN allocations[h] \cup SliceOf(h) ELSE allocations[h]]
    /\ first' = first + RackSize
    /\ pc' = IF first + RackSize < NumHosts THEN "rack" ELSE "done"
    /\ UNCHANGED <<own, left, slice_size, remain, slot, result>>

Terminated == pc = "done" /\ UNCHANGED vars

Next ==
    \/ GiveOwn \/ StartRack \/ NextSlot \/ EndRack \/ Terminated
    \/ \E l \in Link : Take(l)

Spec == Init /\ [][Next]_vars

-----------------------------------------------------------------------------
\* init_DHT: the hosts to which a sender on h turns about link l.
Responsible(h, l) ==
    LET start_node == h - (h % HostPerRack)
    IN  {r \in Host : /\ start_node <= r /\ r <= start_node + HostPerRack - 1
                      /\ l \in allocations[r]}

\* The variables have their types.
TypeOK ==
    /\ own \in BOOLEAN /\ pc \in {"own", "rack", "slice", "done"}
    /\ first \in Nat /\ allocations \in [Host -> SUBSET Link]
    /\ left \subseteq Link /\ slice_size \in Nat
    /\ remain \in 0..(RackSize - 1) /\ slot \in 0..RackSize
    /\ result \in [0..(RackSize - 1) -> SUBSET Link]

\* slice_list's iterator holds exactly what the lists still want: it is never exhausted
\* early, and nothing is left over.
IteratorSuffices ==
    pc = "slice" =>
        Cardinality(left) =
            (RackSize - slot) * slice_size + remain
                - (IF slot < RackSize THEN Cardinality(result[slot]) ELSE 0)

\* If HOST_PER_RACK is the size of the generator's racks, every sender finds exactly one
\* responsible host for every link, and whomever it finds finds itself, as StatShare
\* assumes (RespAssumption); otherwise statistics would be missing, or come twice.
OneResponsible ==
    pc = "done" /\ HostPerRack = RackSize =>
        \A h \in Host, l \in Link :
            /\ Cardinality(Responsible(h, l)) = 1
            /\ \A r \in Responsible(h, l) : Responsible(r, l) = {r}

\* The work is spread evenly in each rack: apart from links of their own, two hosts have the
\* same number of links to answer for, up to one.
EvenLoad ==
    pc = "done" =>
        \A g, h \in Host :
            LET load(x) == Cardinality(allocations[x] \ (IF own THEN HostLinks[x] ELSE {}))
            IN  g \div RackSize = h \div RackSize => load(g) - load(h) \in -1..1
=============================================================================
