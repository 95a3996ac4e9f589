----------------------------- MODULE StatShare -----------------------------
(***************************************************************************)
(* Per-rack sharing of link statistics between end-host controllers, and   *)
(* the congestion windows computed from them.                              *)
(*                                                                         *)
(* Every TCP sender (tcp/tcp.cc) is also a controller.  When a flow starts *)
(* it bumps the flow counter of every queue on its path and asks, for each *)
(* link after its own edge link, the host of its rack that mapping.txt     *)
(* makes responsible for the link to send it the link's statistics         *)
(* (TcpAgent::init_DHT).  The responsible host counts its subscribers per  *)
(* (node, link) (RazaAgent::recv), polls the switches (Node::fetch_stats,  *)
(* PingAgent) and forwards what it knows (Node::send_stats).  Every        *)
(* POLL_RATE the sender sets its window to the smallest fair share on its  *)
(* path (TcpAgent::poll_dht).                                              *)
(*                                                                         *)
(* For a host h and a link l the responsible host is unique, so everything *)
(* the responsible host keeps for h about l, and the two channels between  *)
(* them, are indexed by h and l.  Messages about different links touch     *)
(* different entries; only the order of messages about one link is kept.   *)
(***************************************************************************)
EXTENDS Integers, Sequences, FiniteSets

CONSTANTS
    Host,           \* end hosts (each one a Node with a controller)
    Link,           \* directed links, one output Queue each
    Flow,           \* TCP agents, each started and ended once by the script
    Src,            \* [Flow -> Host]: the host a flow's TcpAgent sits on
    Edge,           \* [Flow -> Link]: first link of flow_path
    Core,           \* [Flow -> SUBSET Link]: the links after the first one
    Resp,           \* [Host -> [Link -> Host]]: mapping.txt, seen from a rack
    Capacity,       \* [Link -> Nat]: packets per POLL_RATE of the whole link
    MaxWnd,         \* wnd_: upper bound of the advertised window
    InitWnd,        \* initial_window(): cwnd_ of an agent that has not started
    MaxInFlight,    \* bound: polls and replies under way per host and link
    Lossy           \* whether queues may drop control packets

ASSUME FlowAssumption ==
    /\ IsFiniteSet(Flow)
    /\ Src \in [Flow -> Host]
    /\ Edge \in [Flow -> Link]
    /\ Core \in [Flow -> SUBSET Link]
    /\ \A f \in Flow : Edge[f] \notin Core[f]

\* A link has one responsible host in each rack, and that host is responsible
\* for its own requests too (it is a member of the same rack).
ASSUME RespAssumption ==
    /\ Resp \in [Host -> [Link -> Host]]
    /\ \A h \in Host, l \in Link : Resp[Resp[h][l]][l] = Resp[h][l]

ASSUME RateAssumption ==
    /\ Capacity \in [Link -> Nat]
    /\ MaxWnd \in Nat
    /\ InitWnd \in Nat
    /\ MaxInFlight \in Nat \ {0}
    /\ Lossy \in BOOLEAN

VARIABLES
    flow,        \* flow[f]: "new", "active" (flow_start seen) or "ended"
    tcpTimer,    \* tcpTimer[f]: the TcpAgent's poll timer is pending
    cwnd,        \* cwnd[f]: cwnd_, as window() truncates it
    numFlows,    \* numFlows[l]: flow counter of the link's Queue
    node_count,  \* node_count[h][l]: counts of the records for h at Resp[h][l]
    poll_stat,   \* poll_stat[h]: the Node's own poll timer runs
    no_flows,    \* no_flows[h][l]: topo_links[l].stats.no_flows of host h
    request,     \* request[h][l]: START/STOP under way from h to Resp[h][l]
    reply,       \* reply[h][l]: statistics under way from Resp[h][l] to h
    poll,        \* poll[h][l]: pings under way from h to the switch of l
    answer,      \* answer[h][l]: ping answers under way back to h
    drift        \* drift[h][l]: history, requests that left no mark

vars == <<flow, tcpTimer, cwnd, numFlows, node_count, poll_stat, no_flows,
          request, reply, poll, answer, drift>>

START == 1
STOP == 0

\* The links that the nodes of a flow's flow_path name, two by two.
Links(f) == {Edge[f]} \cup Core[f]
Max1(n) == IF n > 1 THEN n ELSE 1
Delta(status) == IF status = START THEN 1 ELSE -1

\* Flows of host h under way over link l, the edge link not counted.
Subscribers(h, l) ==
    {f \in Flow : Src[f] = h /\ flow[f] = "active" /\ l \in Core[f]}
FlowsOver(l) == {f \in Flow : flow[f] = "active" /\ l \in Links(f)}

(***************************************************************************)
(* The records Node_count that Resp[h][l] keeps for h: every search stops  *)
(* at the first record, so only that one is ever counted up or down.       *)
(***************************************************************************)
FirstCount(recs) == IF recs = <<>> THEN 0 ELSE recs[1]
Bump(recs, d) == IF recs = <<>> THEN recs ELSE [recs EXCEPT ![1] = @ + d]
Wanted(recs) == \E i \in 1..Len(recs) : recs[i] > 0

-----------------------------------------------------------------------------
(***************************************************************************)
(* Rates (TcpAgent::poll_dht, TcpAgent::window)                            *)
(***************************************************************************)
\* Mutant: the asking flow is counted once more.
ShareOffByOne(l, n) == Capacity[l] \div (Max1(n) + 1)

Share(l, n) == Capacity[l] \div Max1(n)

\* The smallest share on the path, from the flow counts nf known to a host.
\* Truncating every share and taking the smallest is truncating the smallest.
FairShare(f, nf) ==
    CHOOSE s \in {Share(l, nf[l]) : l \in Links(f)} :
        \A l \in Links(f) : s <= Share(l, nf[l])

Window(f) == IF cwnd[f] < MaxWnd THEN cwnd[f] ELSE MaxWnd

\* poll_dht: read the own edge queue, then take the smallest share.
PollDht(f, counters) ==
    LET known == [no_flows[Src[f]] EXCEPT ![Edge[f]] = counters[Edge[f]]]
    IN  /\ no_flows' = [no_flows EXCEPT ![Src[f]] = known]
        /\ cwnd' = [cwnd EXCEPT ![f] = FairShare(f, known)]

-----------------------------------------------------------------------------
Init ==
    /\ flow = [f \in Flow |-> "new"]
    /\ tcpTimer = [f \in Flow |-> FALSE]
    /\ cwnd = [f \in Flow |-> InitWnd]
    /\ numFlows = [l \in Link |-> 0]
    /\ node_count = [h \in Host |-> [l \in Link |-> <<>>]]
    /\ poll_stat = [h \in Host |-> FALSE]
    /\ no_flows = [h \in Host |-> [l \in Link |-> 0]]
    /\ request = [h \in Host |-> [l \in Link |-> <<>>]]
    /\ reply = [h \in Host |-> [l \in Link |-> <<>>]]
    /\ poll = [h \in Host |-> [l \in Link |-> 0]]
    /\ answer = [h \in Host |-> [l \in Link |-> <<>>]]
    /\ drift = [h \in Host |-> [l \in Link |-> 0]]

-----------------------------------------------------------------------------
(***************************************************************************)
(* The flow's side                                                         *)
(***************************************************************************)
\* Mutant: the edge link is left out when a flow ends.
CountFlowsEdgeKept(f, d) ==
    [l \in Link |-> IF l \in (IF d = 1 THEN Links(f) ELSE Core[f])
                    THEN numFlows[l] + d ELSE numFlows[l]]

\* incrementFlows / decrementFlows: every queue on the path, edge included.
CountFlows(f, d) ==
    [l \in Link |-> IF l \in Links(f) THEN numFlows[l] + d ELSE numFlows[l]]

\* Self-managed link: the first record is counted, and a record with count 1
\* is appended whatever the status and whether or not one was found.
SelfMark(recs, status) == Append(Bump(recs, Delta(status)), 1)

\* init_DHT: mark the links this host is itself responsible for, send a
\* request to the responsible host for the others.
InitDHT(f, status) ==
    LET h == Src[f]
        Mine(l) == l \in Core[f] /\ Resp[h][l] = h
        Theirs(l) == l \in Core[f] /\ Resp[h][l] # h
    IN  /\ node_count' = [node_count EXCEPT ![h] =
               [l \in Link |-> IF Mine(l) THEN SelfMark(node_count[h][l], status)
                                          ELSE node_count[h][l]]]
        /\ request' = [request EXCEPT ![h] =
               [l \in Link |-> IF Theirs(l) THEN Append(request[h][l], status)
                                            ELSE request[h][l]]]

FlowStart(f) ==
    /\ flow[f] = "new"
    /\ flow' = [flow EXCEPT ![f] = "active"]
    /\ numFlows' = CountFlows(f, 1)
    /\ InitDHT(f, START)
    /\ tcpTimer' = [tcpTimer EXCEPT ![f] = TRUE]
    /\ PollDht(f, numFlows')
    /\ UNCHANGED <<poll_stat, reply, poll, answer, drift>>

\* Mutant: the responsible hosts are not told.
FlowEndUntold(f) ==
    /\ flow[f] = "active"
    /\ flow' = [flow EXCEPT ![f] = "ended"]
    /\ cwnd' = [cwnd EXCEPT ![f] = 0]
    /\ numFlows' = CountFlows(f, -1)
    /\ UNCHANGED <<node_count, request, tcpTimer, poll_stat, no_flows, reply, poll,
                   answer, drift>>

FlowEnd(f) ==
    /\ flow[f] = "active"
    /\ flow' = [flow EXCEPT ![f] = "ended"]
    /\ cwnd' = [cwnd EXCEPT ![f] = 0]
    /\ numFlows' = CountFlows(f, -1)
    /\ InitDHT(f, STOP)
    /\ UNCHANGED <<tcpTimer, poll_stat, no_flows, reply, poll, answer, drift>>

\* Mutants: poll_off is not looked at; the timer is not set again.
TcpExpireAlways(f) ==
    /\ tcpTimer[f]
    /\ PollDht(f, numFlows)
    /\ UNCHANGED <<flow, tcpTimer, numFlows, node_count, poll_stat, request, reply,
                   poll, answer, drift>>
TcpExpireOnce(f) ==
    /\ tcpTimer[f]
    /\ tcpTimer' = [tcpTimer EXCEPT ![f] = FALSE]
    /\ IF flow[f] = "ended" THEN UNCHANGED <<no_flows, cwnd>> ELSE PollDht(f, numFlows)
    /\ UNCHANGED <<flow, numFlows, node_count, poll_stat, request, reply, poll,
                   answer, drift>>

\* TcpAgent::expire: poll_off is set by flow_end; a timer that was pending then
\* fires once more and is not rescheduled.
TcpExpire(f) ==
    /\ tcpTimer[f]
    /\ IF flow[f] = "ended"
       THEN /\ tcpTimer' = [tcpTimer EXCEPT ![f] = FALSE]
            /\ UNCHANGED <<no_flows, cwnd>>
       ELSE /\ PollDht(f, numFlows)
            /\ UNCHANGED tcpTimer
    /\ UNCHANGED <<flow, numFlows, node_count, poll_stat, request, reply, poll,
                   answer, drift>>

\* TcpAgent::timeout of the retransmission timer, as far as it concerns the
\* window: slowdown no longer reduces it, but one below 1 is raised to 1.  When the
\* timer is pending is left to TcpSender.
RtxTimeout(f) ==
    /\ cwnd[f] < 1
    /\ cwnd' = [cwnd EXCEPT ![f] = 1]
    /\ UNCHANGED <<flow, tcpTimer, numFlows, node_count, poll_stat, no_flows,
                   request, reply, poll, answer, drift>>

-----------------------------------------------------------------------------
(***************************************************************************)
(* The responsible host's side                                             *)
(***************************************************************************)
\* fetch_stats: one ping for each link of r that some record still wants.
Polled(r) ==
    {l \in Link : \E h \in Host : Resp[h][l] = r /\ Wanted(node_count[h][l])}

\* send_stats: the value r knows now, to each other host that wants it.  What r
\* sends to itself is delivered on the spot and rewrites the value with itself.
Served(r) ==
    {hl \in Host \X Link : /\ hl[1] # r
                           /\ Resp[hl[1]][hl[2]] = r
                           /\ Wanted(node_count[hl[1]][hl[2]])}

\* Node::expire.
Expire(r) ==
    /\ poll' = [poll EXCEPT ![r] =
           [l \in Link |-> IF l \in Polled(r) THEN poll[r][l] + 1 ELSE poll[r][l]]]
    /\ reply' = [h \in Host |-> [l \in Link |->
           IF <<h, l>> \in Served(r) THEN Append(reply[h][l], no_flows[r][l])
                                     ELSE reply[h][l]]]

NodeExpire(r) ==
    /\ poll_stat[r]
    /\ \A l \in Polled(r) : poll[r][l] + Len(answer[r][l]) < MaxInFlight
    /\ \A hl \in Served(r) : Len(reply[hl[1]][hl[2]]) < MaxInFlight
    /\ Expire(r)
    /\ UNCHANGED <<flow, tcpTimer, cwnd, numFlows, node_count, poll_stat,
                   no_flows, request, answer, drift>>

\* Mutants: no record is made for a new sender; a START that finds a record is not
\* counted; a count is kept from going below zero.
RegisteredNoPush(recs, status) == Bump(recs, Delta(status))
RegisteredDown(recs, status) ==
    IF recs # <<>> THEN Bump(recs, IF status = STOP THEN -1 ELSE 0)
    ELSE IF status = START THEN <<1>> ELSE recs
RegisteredClamped(recs, status) ==
    IF recs # <<>> THEN (IF status = STOP /\ recs[1] = 0 THEN recs
                                                        ELSE Bump(recs, Delta(status)))
    ELSE IF status = START THEN <<1>> ELSE recs

\* What a request does to the records kept for its sender.
Registered(recs, status) ==
    IF recs # <<>> THEN Bump(recs, Delta(status))
    ELSE IF status = START THEN <<1>> ELSE recs

\* A STOP that finds no record only prints an error.
Ignored(recs, status) == recs = <<>> /\ status = STOP

\* RazaAgent::recv of a START or STOP: the first request of all starts the
\* Node's timer, and runs it once before the request is registered.
RecvRequest(h, l) ==
    LET r == Resp[h][l]
        status == Head(request[h][l])
    IN  /\ request[h][l] # <<>>
        /\ request' = [request EXCEPT ![h][l] = Tail(@)]
        /\ poll_stat' = [poll_stat EXCEPT ![r] = TRUE]
        /\ IF poll_stat[r] THEN UNCHANGED <<poll, reply>> ELSE Expire(r)
        /\ node_count' = [node_count EXCEPT ![h][l] = Registered(@, status)]
        /\ drift' = [drift EXCEPT ![h][l] =
               IF Ignored(node_count[h][l], status) THEN @ - 1 ELSE @]
        /\ UNCHANGED <<flow, tcpTimer, cwnd, numFlows, no_flows, answer>>

\* RazaAgent::recv of a REPLY, at the host that asked.
RecvReply(h, l) ==
    /\ reply[h][l] # <<>>
    /\ reply' = [reply EXCEPT ![h][l] = Tail(@)]
    /\ no_flows' = [no_flows EXCEPT ![h][l] = Head(reply[h][l])]
    /\ UNCHANGED <<flow, tcpTimer, cwnd, numFlows, node_count, poll_stat,
                   request, poll, answer, drift>>

\* PingAgent::recv at the switch: the counter is read when the ping arrives.
RecvPoll(h, l) ==
    /\ poll[h][l] > 0
    /\ poll' = [poll EXCEPT ![h][l] = @ - 1]
    /\ answer' = [answer EXCEPT ![h][l] = Append(@, numFlows[l])]
    /\ UNCHANGED <<flow, tcpTimer, cwnd, numFlows, node_count, poll_stat,
                   no_flows, request, reply, drift>>

\* PingAgent::recv of the answer, at the host that polled.
RecvAnswer(h, l) ==
    /\ answer[h][l] # <<>>
    /\ answer' = [answer EXCEPT ![h][l] = Tail(@)]
    /\ no_flows' = [no_flows EXCEPT ![h][l] = Head(answer[h][l])]
    /\ UNCHANGED <<flow, tcpTimer, cwnd, numFlows, node_count, poll_stat,
                   request, reply, poll, drift>>

-----------------------------------------------------------------------------
(***************************************************************************)
(* Loss: a full queue drops a control packet, and nothing sends it again.  *)
(* Channels are FIFO, so losing the packet when it would be delivered next *)
(* is the same as losing it earlier.                                       *)
(***************************************************************************)
LoseRequest(h, l) ==
    /\ Lossy
    /\ request[h][l] # <<>>
    /\ request' = [request EXCEPT ![h][l] = Tail(@)]
    /\ drift' = [drift EXCEPT ![h][l] = @ + Delta(Head(request[h][l]))]
    /\ UNCHANGED <<flow, tcpTimer, cwnd, numFlows, node_count, poll_stat,
                   no_flows, reply, poll, answer>>

LoseStats(h, l) ==
    /\ Lossy
    /\ \/ /\ reply[h][l] # <<>>
          /\ reply' = [reply EXCEPT ![h][l] = Tail(@)]
          /\ UNCHANGED <<poll, answer>>
       \/ /\ poll[h][l] > 0
          /\ poll' = [poll EXCEPT ![h][l] = @ - 1]
          /\ UNCHANGED <<reply, answer>>
       \/ /\ answer[h][l] # <<>>
          /\ answer' = [answer EXCEPT ![h][l] = Tail(@)]
          /\ UNCHANGED <<reply, poll>>
    /\ UNCHANGED <<flow, tcpTimer, cwnd, numFlows, node_count, poll_stat,
                   no_flows, request, drift>>

-----------------------------------------------------------------------------
Next ==
    \/ \E f \in Flow : FlowStart(f) \/ FlowEnd(f) \/ TcpExpire(f) \/ RtxTimeout(f)
    \/ \E r \in Host : NodeExpire(r)
    \/ \E h \in Host, l \in Link :
           \/ RecvRequest(h, l) \/ RecvReply(h, l)
           \/ RecvPoll(h, l) \/ RecvAnswer(h, l)
           \/ LoseRequest(h, l) \/ LoseStats(h, l)

Spec == Init /\ [][Next]_vars

\* The simulator's scheduler runs every pending event: a packet in a channel is
\* delivered and a pending timer fires.  Starting and ending flows is up to the
\* script, and a loss is never forced.
Fairness ==
    /\ \A f \in Flow : WF_vars(TcpExpire(f))
    /\ \A r \in Host : WF_vars(NodeExpire(r))
    /\ \A h \in Host, l \in Link :
           /\ WF_vars(RecvRequest(h, l))
           /\ WF_vars(RecvReply(h, l))
           /\ WF_vars(RecvPoll(h, l))
           /\ WF_vars(RecvAnswer(h, l))

FairSpec == Spec /\ Fairness

-----------------------------------------------------------------------------
(***************************************************************************)
(* Properties                                                              *)
(***************************************************************************)
\* The variables have their types.  A record's count may become negative (it
\* does when a START is lost), a queue's flow counter may not.
TypeOK ==
    /\ flow \in [Flow -> {"new", "active", "ended"}]
    /\ tcpTimer \in [Flow -> BOOLEAN]
    /\ cwnd \in [Flow -> Nat]
    /\ numFlows \in [Link -> Nat]
    /\ node_count \in [Host -> [Link -> Seq(Int)]]
    /\ poll_stat \in [Host -> BOOLEAN]
    /\ no_flows \in [Host -> [Link -> Nat]]
    /\ request \in [Host -> [Link -> Seq({START, STOP})]]
    /\ reply \in [Host -> [Link -> Seq(Nat)]]
    /\ poll \in [Host -> [Link -> Nat]]
    /\ answer \in [Host -> [Link -> Seq(Nat)]]
    /\ drift \in [Host -> [Link -> Int]]

\* The counter a switch reports for a link is the number of flows under way over
\* it, through every interleaving of starts and ends.
CounterExact == \A l \in Link : numFlows[l] = Cardinality(FlowsOver(l))

\* Requests under way with a given status, among the first k.
Pending(reqs, k, status) == {i \in 1..k : reqs[i] = status}
Outstanding(reqs, k) ==
    Cardinality(Pending(reqs, k, START)) - Cardinality(Pending(reqs, k, STOP))

\* The count Resp[h][l] will hold for h after k more requests.
LaggedCount(h, l, k) ==
    FirstCount(node_count[h][l]) + Outstanding(request[h][l], k)

\* Accounting of remote subscriptions, with or without loss: what the responsible
\* host has counted for h, plus what is under way, plus the requests that left no
\* mark, is the number of h's flows over the link.
SubscriptionsConserved ==
    \A h \in Host, l \in Link : Resp[h][l] # h =>
        LaggedCount(h, l, Len(request[h][l])) + drift[h][l]
            = Cardinality(Subscribers(h, l))

\* Only links of another host are asked for by message.
RequestsAreRemote ==
    \A h \in Host, l \in Link : Resp[h][l] = h => request[h][l] = <<>>

\* Without loss no request is ever ignored ("ERROR IN HDR->RET = 0 DHT KILL ME"
\* is never printed), and no count is negative, now or after any number of the
\* requests under way.
NoRequestIgnored ==
    ~Lossy => \A h \in Host, l \in Link :
        /\ drift[h][l] = 0
        /\ Resp[h][l] # h =>
               \A k \in 0..Len(request[h][l]) : LaggedCount(h, l, k) >= 0

\* No poll timer that was pending at flow_end gives the flow a window again: only a
\* retransmission timeout does, and then for one packet.
EndedIsSilent == \A f \in Flow : flow[f] = "ended" => Window(f) <= 1

\* No value a host knows, and none under way, exceeds the number of flows that
\* the path assignment ever puts on the link; a window computed from them
\* is positive whenever the capacity allows one packet to each of these flows.
AllOver(l) == {f \in Flow : l \in Links(f)}
KnownCountsBounded ==
    \A h \in Host, l \in Link :
        /\ no_flows[h][l] <= Cardinality(AllOver(l))
        /\ \A i \in 1..Len(reply[h][l]) : reply[h][l][i] <= Cardinality(AllOver(l))
        /\ \A i \in 1..Len(answer[h][l]) : answer[h][l][i] <= Cardinality(AllOver(l))
NoStarvation ==
    \A f \in Flow :
        /\ flow[f] = "active"
        /\ \A l \in Links(f) : Capacity[l] >= Max1(Cardinality(AllOver(l)))
        => cwnd[f] >= 1

\* When the set of flows stops changing, the window of every flow settles on the
\* smallest true fair share on its path, but for the retransmission timeouts of a
\* flow whose share is less than a packet.  The links for which the flow's own host is
\* responsible are excepted unless that host's timer was started by a rack peer.
Reachable(f) ==
    \A l \in Core[f] : Resp[Src[f]][l] = Src[f] => poll_stat[Src[f]]
Converges ==
    \A f \in Flow :
        (<>[](flow[f] = "active" /\ Reachable(f)))
            => <>[](cwnd[f] \in {FairShare(f, numFlows), Max1(FairShare(f, numFlows))})

\* Once a host has no flow left over a link that another host is responsible for,
\* that host stops sending it the link's statistics.
SubscriptionsEnd ==
    \A h \in Host, l \in Link : Resp[h][l] # h =>
        ((<>[](Subscribers(h, l) = {}))
            => <>[](~Wanted(node_count[h][l]) /\ reply[h][l] = <<>>))

\* common/node.h: "at count 0, the responsible guy for a given link stops sending me
\* data": a host without flows over a link it manages itself wants no more statistics
\* of that link.  The code refutes it: the record that flow_end appends with count 1
\* is never counted down, and the link is polled for ever.
OwnInterestEnds ==
    \A h \in Host, l \in Link :
        Resp[h][l] = h /\ Subscribers(h, l) = {} => ~Wanted(node_count[h][l])

-----------------------------------------------------------------------------
(***************************************************************************)
(* Without loss, each remote pair implements Subscription.                 *)
(***************************************************************************)
Lag(h, l) == [k \in 1..Len(request[h][l]) |-> LaggedCount(h, l, k)]
Sub(h, l) == INSTANCE Subscription WITH
                 want <- Cardinality(Subscribers(h, l)),
                 seen <- FirstCount(node_count[h][l]),
                 lag <- Lag(h, l)

\* The count that the responsible host keeps for a requester goes through every
\* number of flows the requester had, in order: START and STOP are neither
\* skipped nor reordered nor counted twice.
\* (Stated for all remote pairs together: the conjunction of Sub(h, l)!Spec, whose
\* variables are functions of vars.)
SubInit == \A h \in Host, l \in Link : Resp[h][l] # h => Sub(h, l)!Init
SubNext ==
    \A h \in Host, l \in Link : Resp[h][l] # h => [Sub(h, l)!Next]_(Sub(h, l)!subVars)
ImplementsSubscription == SubInit /\ [][SubNext]_vars
=============================================================================
