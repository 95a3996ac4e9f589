# Verification of cclb: end-host congestion control from shared link statistics

cclb is ns-2.35 with one addition: every end host of a fat-tree data centre is also a
controller.  The hosts of a rack divide the links of the network among them; the host
responsible for a link polls the link's switch and passes what it learns to the rack
peers that have a flow over the link, and every TCP sender sets its congestion window to
the smallest fair share on its path instead of probing for bandwidth.  The modules here
model that addition and the parts of ns-2 it rests on.

## 1. Inventory

| Part | Code | State | Operations |
|---|---|---|---|
| Statistics sharing | `tcp/tcp.cc` (`command`, `init_DHT`, `poll_dht`, `expire`), `apps/raza.cc`, `apps/ping.cc`, `common/node.{cc,h}` | per host: `topo_links` with the last known statistics and, per link, the list of `Node_count` records; `poll_stat`; per queue: `numFlows`; per sender: poll timer, `poll_off`, `cwnd_` | `flow_start`, `flow_end`, timer expiries of sender and node, START / STOP / REPLY messages, pings and their answers |
| TCP sender and sink | `tcp/tcp.cc`, `tcp/tcp-sink.cc` | `t_seqno_`, `maxseq_`, `highest_ack_`, `recover_`, `dupacks_`, `curseq_`, `cwnd_`, the retransmission timer; the sink's `next_` and `seen_` | `tcp_send`, `sendmsg`, `recv` (new, duplicate, old acknowledgement), `timeout`, `TcpSink::recv` |
| Link queue and delay | `queue/queue.{cc,h}`, `queue/drop-tail.cc`, `link/delay.cc` | the packet list, `blocked_`, `qlim_`, the packet in transmission, utilisation counters | `recv`, `resume`, `enque`, `deque`, `LinkDelay::recv`, `handle` |
| Path recorder | `queue/queue.cc` (`PacketQueue::enque`), `tcp.cc` (`print_pathway`) | a global map from a flow key to the queues that the flow's first packets passed | record, look up |
| Multipath classifier | `classifier/classifier-mpath.cc`, `classifier/classifier.cc`, `tcl/lib/ns-node.tcl` | slots of next hops, `maxslot_` | `add-routes`, `delete-routes`, `classify`: a filled slot from a hash of node, source, destination and flow |
| Timer handler | `common/timer-handler.{cc,h}` | idle / pending / handling, one event object | `sched`, `resched`, `cancel`, `force_cancel`, `handle` |
| Schedulers | `common/scheduler.{cc,h}`, `common/heap.h` | `clock_`, `halted_`, the events as a list, a heap or a calendar queue | `schedule`, `cancel`, `deque`, `head`, `dispatch`, both run loops, the commands `at`, `cancel`, `run`, `resume`, `halt` |
| Registries | `common/agent.cc` | lists of agents and queues in order of creation | append, look up by number |
| Generator | `FATGraphgenerator/src/FatTreeGenerator.py` | none (files) | topology, `mapping.txt`, script |
| Routes | `tcl/rtglib/route-proto.tcl`, `routing/rtProtoDV.cc`, `tcl/rtglib/dynamics.tcl` | per node: metrics heard from each peer; next hops, metric and protocol of each destination | `compute-routes` of Direct, DV and rtObject, periodic and triggered updates, `recv-update`, links going down and up |

Interaction: the script (`template.tcl`) starts and ends flows.  A sender changes the flow
counters of all queues on its path directly (a simulator shortcut), sends START and STOP
to responsible hosts through its Node's RazaAgent, and reads its own Node's `topo_links`.
A Node's timer sends pings (PingAgent) and replies (RazaAgent), all of them packets that
pass the same queues as data and may be dropped.

What is hard: requests of several flows of one host under way together; statistics that
are stale when they arrive; a poll timer or a retransmission timer that fires after
`flow_end`; control packets that are lost and never repeated; a window of 0 while data is
left; a timer that nobody starts; a handler that moves the timer whose handler it is; a
calendar queue that is resized under events of equal time; routes computed from updates that
are late or lost.  `PROJECT.json` lists these hazards line by line with
the properties that cover them.

## 2. Modules

| Module | What it is |
|---|---|
| `StatShare` | the controllers: flows, counters, requests, polls, replies, windows |
| `Subscription` | abstract: the count kept for one requester follows its number of flows, late but in order |
| `StatShareProofs` | theorems about `StatShare`, among them that it implements `Subscription` |
| `TcpSender` | one flow: the rate-controlled sender, its sink, lossy FIFO channels |
| `TcpSenderProofs` | theorems about `TcpSender` |
| `LinkQueue` | one link: a DropTail queue in front of a LinkDelay |
| `LossyFifo` | abstract: a channel that may lose anything but keeps the order |
| `LinkQueueProofs` | theorems about `LinkQueue`, among them that it implements `LossyFifo` |
| `PathMap` | the path recorder: what queues note of passing packets, and what `flow_start` makes of it |
| `PathMapProofs` | theorems about `PathMap` |
| `FatTree` | the generator: the links of the tree, the queues and agents of the script |
| `FatTreeProofs` | theorems about `FatTree` |
| `Mapping` | the generator: how links are dealt to the hosts of a rack; `init_DHT`'s look-up |
| `MappingProofs` | theorems about `Mapping` |
| `Timer` | the event list, timers, and the run loops of the simulator |
| `Schedulers` | heap and calendar queue, run in step with the list of `Timer` |
| `SchedulersProofs` | theorems about `Timer` and `Schedulers` |
| `Routing` | distance-vector routing and the multi-path classifiers it fills |
| `RoutingProofs` | theorems about `Routing` |
| `MCStatShare`, `MCTcpSender`, `MCLinkQueue`, `MCPathMap`, `MCFatTree`, `MCMapping`, `MCSchedulers`, `MCRouting` | instances for TLC |

The two models meet in `cwnd`.  `StatShare` computes it and takes the retransmission
timeout as an event that may come at any time; `TcpSender` takes the values computed by
`poll_dht` as any member of `Shares` at any time, and says exactly when the timeout is
possible.  Both send over lossy FIFO channels, which is what `LinkQueue` is shown to implement.
`StatShare` takes a flow's path as a constant and lets `FlowStart` count the flow all along
it; `PathMap` says when `flow_start` really does so.  `Mapping` shows what `StatShare` assumes
of the responsible hosts (`RespAssumption`), `FatTree` that links are known by their ends
(`PathAssumption`) and that link, queue and agent numbers mean what all of them take for granted.
`Timer` is what the other models' timers rest on: they take a timer as pending or not, and
that it fires once if it is pending.  `Routing` is what `PathMap` assumes of routes: they settle,
without a cycle (`PathAssumption`), and a classifier always gives a next hop.

### StatShare

`mapping.txt` gives, in every rack, exactly one responsible host per link, so what the
responsible host keeps for host `h` about link `l` is indexed by `h` and `l`
(`node_count[h][l]`), and so are the channels.  Of the statistics only the number of flows
is kept; utilisation and queue length are reported but steer nothing.  Messages about one
link travel on one path and stay in order.

| Action | Code |
|---|---|
| `FlowStart(f)` | `flow_start`: `incrementFlows`, `init_DHT(1)`, start of the poll timer, whose first expiry runs `poll_dht` at once |
| `FlowEnd(f)` | `flow_end`: `poll_off`, `cwnd_ = 0`, `decrementFlows`, `init_DHT(0)` |
| `TcpExpire(f)` | `TcpAgent::expire`: stops if `poll_off`, otherwise `poll_dht` and reschedule |
| `RtxTimeout(f)` | `TcpAgent::timeout`, its effect on the window |
| `NodeExpire(r)` | `Node::expire`: `fetch_stats`, `send_stats`, reschedule |
| `RecvRequest(h, l)` | `RazaAgent::recv` of START / STOP, with the start of the Node's timer |
| `RecvReply(h, l)` | `RazaAgent::recv` of a REPLY |
| `RecvPoll(h, l)`, `RecvAnswer(h, l)` | `PingAgent::recv` at the switch and back at the host |
| `LoseRequest`, `LoseStats` | a drop in `DropTail::enque` |

Two peculiarities of the code are kept.  A search among the `Node_count` records stops at
the first match, so only the first record is ever counted; and for a link that the host
manages itself `init_DHT` appends a record with count 1 on every start *and* every end
(`SelfMark`).  `drift` is a history variable: the requests that left no mark because they
were lost or because a STOP found no record.

### TcpSender

The agent runs with the default settings of `Agent/TCP` and the life `template.tcl` gives
it: `Probe` (`tcp_send`), `FlowStart`, `FtpStart` (`sendmsg(-1)`), any number of `Poll`s,
`FlowEnd`.  `RecvAck` is `TcpAgent::recv` with its three cases, `Timeout` is
`TcpAgent::timeout`, `RecvData` is `TcpSink::recv` with `Acker::update`, `Lose` a drop.
`SendMuch` is the loop of `send_much` with the `output` of each packet.  `opencwnd` and
`slowdown` assign the window to itself in this code base, which is why they leave no trace.
Durations are left out: a pending timer may fire at any time, early or late, which covers
every round-trip estimate.

### LinkQueue

| Action | Code |
|---|---|
| `Recv(p)` | `Queue::recv`: `enque`, and if not `blocked_` and something is there, `deque`, block and hand it to the link |
| `Resume` | `Queue::resume`, called by the event `intr_` at the end of a transmission |
| `Reset` | `Queue::reset` |
| `ShrinkQueue` | `DropTail::shrink_queue` |
| `Deliver` | the scheduler passes a packet on that `LinkDelay::recv` scheduled |
| `Tick` | the clock goes to the next event |
| `SetDelay(d)`, `SetLimit(n)`, `SetDropFront` | a script sets `delay_`, `limit_` or `drop_front_` |

`LinkRecv` is `LinkDelay::recv`, `Enqued` the decision of `DropTail::enque`.  Time is
discrete and events hold the time that is *left*, so the state space is finite although the
clock is not bounded.  `intr` is a sequence although the code has a single event object:
that is what lets `Busy` say that the object is never scheduled twice.  Utilisation
counters, queues measured in bytes, `dynamic_` links and `unblock_on_resume_` off are left
out; the scripts use none of them to steer anything.

### PathMap

`at[c][k]` counts the packets of connection `c` that `k` queues have accepted.

| Action | Code |
|---|---|
| `Hop(c, k)` | the next queue accepts a packet: `PacketQueue::enque` records its link |
| `Drop(c, k)` | the next queue drops it: `DropTail::enque` does not call `PacketQueue::enque` |
| `FlowStart(c)` | `print_pathway` with `install_path` for each recorded link, then `incrementFlows`; a null `flow_path` is dereferenced |
| `FlowEnd(c)` | `decrementFlows` |

`Key` is `concat`: four numbers, one char each.  `Crossings` follows `incrementFlows`, which
does not use the recorded links but looks for a link between each two successive nodes of
the list made from them.  A connection keeps its route, as the multipath classifier's hash
makes it do while routes do not change.

### FatTree

Each action is one pass through a loop body, of the generator or of the script it writes; the
state is the loops' indices and what has been written.

| Action | Code |
|---|---|
| `HostLink`, `PodLink`, `CoreLink` | the three `generate...Links` functions; each adds a link and its reverse, whose numbers are their places in `out.txt` (`convertToTXTFormat`) |
| `DuplexLink` | `convertToTCLFormat`: every second link is dropped, `duplex-link` creates the queues of both directions |
| `Connect`, `NextRow` | the script's loop that connects agents, and its jump at the end of a row; the loop for RazaAgents is the same, shifted by their first number |

Node and agent creation are plain counting and appear as `EdgeSwitch`, `AggSwitch`, `CoreSwitch`
and the agent numbers; bandwidths, delays and monitors are left out.

### Mapping

| Action | Code |
|---|---|
| `GiveOwn` | `generateMapping(True)`: each host gets the links that start or end at it; `start` passes `False` |
| `StartRack` | the next rack: the links that none of its hosts has, shuffled, go to `slice_list` |
| `Take(l)` | `iterator.next()` in `slice_list`; after the shuffle it may be any link that is left |
| `NextSlot` | the end of one list, with one odd link fewer to deal |
| `EndRack` | every host of the rack gets its list |

`Responsible` is the search of `init_DHT`: the hosts of the sender's rack of `HOST_PER_RACK`
successive numbers whose mapping contains the link.

### Timer and Schedulers

`sch` is what `Scheduler` and `ListScheduler` keep: the queue and the sign of each event's
`uid_`.  Where the code calls `abort`, the model sets `aborted`.

| Action | Code |
|---|---|
| `Sched`, `Resched`, `Cancel` | `TimerHandler`, from any handler, from the script or from a Tcl callback |
| `At`, `AtCancel`, `Halt`, `Run` | the commands of `Scheduler::command`; `Run` is `run` and, after `halt`, `resume` |
| `Dispatch` | `deque` and `dispatch` by `Scheduler::run` or, if the event is due, by `RealTimeScheduler::run`, up to the call of the handler |
| `HandleEnd` | the handler returns to `TimerHandler::handle` and to the loop |
| `Wake` | `RealTimeScheduler::run` reads the time of day, which may have been set back, though not before the start of the run; Tcl may call back |

`running` is the event whose handler runs, so that a handler's calls and its return are
separate steps; `deadline` is a history variable.  `sched` of a timer that is not idle and
`cancel` of one that is not pending abort by design (`timer-handler.h` says so); the actions'
guards are that rule.  `Schedulers` extends every action with the same call to the heap
(`HeapInsert`, `HeapDeque`, `HeapCancel`) and to the calendar (`CalInsert`, `CalDeque`, `CalCancel`,
and `Peeked` where the real-time loop calls `head`).  Times are whole numbers; which width
`newwidth` and `resize` compute is left open (`Widths`), and so is whether `deque` adjusts it.
The heap's loops are written by where an element comes to rest on its path to or from the root
(`SiftUp`, `Heapify`, `ToRoot`, along `Ancestors`), those of `resize` as functions of the number of
events moved.  `h_s_key`, which orders events of equal time in the heap, is a natural number here; in
the code it has 32 bits, so that after 2^32 insertions in one run a tie may be broken the wrong
way.

### Routing

The scripts use `rtproto DV` and `Node set multiPath_ 1`; they have no `rtmodel`, but the code
handles one, so links go down and come up here.

| Action | Code |
|---|---|
| `Periodic(n)` | `send-periodic-update` |
| `Deliver(m, n)` | `recv-update`: if a metric changed, `compute-routes` of DV and of rtObject, which installs routes in the classifiers and sends updates if anything changed |
| `Lose(m, n)` | a queue drops the update |
| `LinkDown(l)`, `LinkUp(l)` | `rtModel`: both directions of the link are reset or set up, both ends run `intf-changed` |

`DVRoutes` is DV's `compute-routes` for one destination, `Best` and `Replaced` rtObject's choice and
what it takes out of the classifier, `AddRoutes` and `DeleteRoutes` the node's procedures,
`Cleared` and `Classify` the classifier.  One destination is followed, any of `Dest`:
destinations share updates only, and an update sent because of another destination is a
periodic one to this.  The order of a Tcl array is any order (`KeepsOrder` is what DV does fix).
An update that would tell a node what it knows is left out, because `recv-update` ignores it.

## 3. Runs

| Run | Instance | Checks |
|---|---|---|
| `share_safety` | three flows of two hosts over one link of the second host, no loss, one poll and reply in flight per host and link | `CounterExact`, `NoRequestIgnored`, `EndedIsSilent`, `NoStarvation`, and the refinement `ImplementsSubscription` |
| `share_loss` | two flows of one host over a link of its peer, any control packet lost, two in flight | `SubscriptionsConserved` |
| `share_live` | one flow of each of two hosts over one link, two in flight, fair | `Converges`, `SubscriptionsEnd` |
| `own_records` | flows over a link of their own host | violated: `OwnInterestEnds` |
| `tcp_flow` | windows 0, 1 and 3, six packets, two losses, fair | `AckedIsReceived`, `TimerCovers`, `WithinWindow`, `Progress` |
| `ended_flow` | small flow | violated: `NoNewDataAfterEnd` |
| `link` | three packets, transmission times 0 and 2, delay 0 or 2, limit 2 or 4, either drop policy, all changed at any time, `avoidReordering_`, fair | `Busy`, `WireInOrder`, `IdleAccepts`, `ImplementsLossyFifo`, `Drains` |
| `path_record` | three flows that share their last link, over two and three links, two of them with the same key, two packets each, any of them dropped | `RecordedIsPrefix`, `PathKnown`, `CountersBalance` |
| `fattree` | k = 2 and k = 4, the generator's own setting | types and list indices, `LinksKnownByEnds`, `FatTreeShape`, `QueuesAreLinks`, `AgentsMutual` |
| `mapping` | two racks of two hosts, five links of which three are at hosts, with and without own links | types, `IteratorSuffices`, `EvenLoad`, `OneResponsible` |
| `schedulers` | two timers, a sparse script and one with ten events, both run loops, widths 1 and 3 | `NeverAborts`, `FiresWhenSet`, `HeapAgrees`, `BucketsAgree`, `HeadIsNext`, `CountsExact` |
| `routing` | a square with a diagonal and a triangle with a tail, three changes of links, any update lost, fair | `NeverTooShort`, `NoLoops`, `SlotsAreNextHops`, `HashFindsSlot`, `Converges` |

The type invariants of `FatTree` and `Mapping`, which say that lists are indexed within their
bounds, are run and proved; those of the other modules with proofs are proved only.

Bounds.  `MaxInFlight` caps polls and replies per host and link: one is enough for a stale
value to arrive after the counter has changed, two for an older value to follow a newer
request.  Three flows are the least with which two requests of one host and one of another
cross.  Windows of 0, 1 and 3 are the closed window, the smallest open one, and one with
room for `NumDupAcks` duplicates; two losses allow a packet and its retransmission, or a packet and
an acknowledgement, to be lost.  `MaxData` stands for `TCP_MAXSEQ`.  `MaxNet` keeps a timer
from firing again and again while nothing is delivered.  Transmission time 0 and 2 with
delay 0 and 2 make a later packet the earlier one to arrive; with limit 2 a second waiting
packet is dropped, and a limit lowered from 4 to 2 finds a queue too long.  Five links leave an
odd one when two hosts share them, and an even number when one of them is a host's own.  Two packets per connection are the least
with which the second takes up where the first was dropped.  Nine different times make the calendar
grow from four buckets to eight, and running through them makes it shrink again; a tenth event
ties with an earlier one, and delay 0 makes events tie with the one that is handled.  Between
the readings 2 and 3 of the clock the real-time loop has looked at an event to come, so that a
Tcl callback schedules an earlier one.  `MaxSets` says how often timers are set in a run of each
script.  In the square, node `s` loses its link to `t` and gets two routes of equal cost; in the triangle, the loss of the tail makes metrics count
up.  `INFINITY` is 4 there, and 32 in the code: it only says how far they count.  Three changes are
the least with which a link fails, recovers and fails again, leaving a slot, and with which `t` is cut off after `s` has become
multi-path.
`share_loss` and `own_records` do not check deadlock: when everything has been lost or nobody's
timer runs, the controllers really stop; nor do `path_record`, which ends with the last
packet or in a crash, and `schedulers`, where the event list may run empty.

Fairness.  The simulator's scheduler runs every event in its list, so a packet under way is
delivered and a pending timer fires (weak fairness of the receive actions and of the
expiries).  The script's own events are fair in `TcpSender` because the script schedules
them unconditionally; in `StatShare` flows need not start or end.  In `LinkQueue` time passes and
events run; packets need not come, nor parameters change.  In `Routing`,
periodic updates go on, since each sets the timer of the next, and if updates are on their way
again and again, some are delivered.  That is the only assumption on a lossy channel; in the
other models losses are bounded instead.

## 4. Findings

* `OwnInterestEnds` (`tcp.cc:1605`): the record that `flow_end` appends for a self-managed
  link is never counted down, so the link is polled for the rest of the run, once the node's
  timer runs, against the comment at `common/node.h:187`.
* `NoNewDataAfterEnd` (`tcp.cc:2619`): `template.tcl` writes `$ns at endTime "$ftp stop"`
  without the `$`, which is read as time 0; the flow keeps its data, and the
  retransmission timeout raises the window that `flow_end` closed to 1.  The variant
  `FATGraphgenerator/out/template.tcl` detaches both agents just after `flow_end`, by its comment "to get
  rid of regenerating ftp traffic", which hides the effect; `template.tcl` does not.

Without a run of its own:

* A Node's poll timer is started only by the first request of a rack peer (`raza.cc:222`).  A
  host whose flows use only its own links computes windows from statistics that are never
  fetched, against the repository's README ("Each endhost ... polling them at short (RTT) time
  scales").  `Converges` of `StatShare` excepts these links (`Reachable`).
* The recorder's key keeps one byte of each address and port (`queue.cc:65`), against
  `queue.h:67`, "key is 4 tuple".  A tree of more than 256 nodes, or a node with more than 256 agents
  (the generated script gives every node two agents per node), mixes the paths of two
  connections.  `path_record` has two such flows: counters balance even then, but
  `RecordedIsPrefix` and `PathKnown` hold only for a key of one's own.
* `DropTail::enque` compares `length() + 1 >= qlim_` (`drop-tail.cc:92`), so a queue holds one
  packet less than its limit, and with limit 1 drops every packet even at an idle link.
  `IdleAccepts` shows that any larger limit is safe in that respect.
* When a neighbour's link fails and DV has another route, rtObject asks Direct for the next hops to
  delete after Direct has dropped them (`route-proto.tcl:181`): the slot of the failed link
  stays if the classifier is multi-path, and packets hashed to it are lost.  The link must have failed
  before for that, since only DV's routes make the classifier multi-path.  `SlotsAreNextHops`
  says that this is the only way in which slots and next hops differ, and that each such slot takes a
  recovery and a failure after the first failure; the run reaches one slot.
* DV never empties its next hops when a destination is lost (`route-proto.tcl:553`).  Packets then
  go to a neighbour that has no route either, but it is also what keeps `classify` from
  dividing by zero (`HashFindsSlot`; its mutant empties them).

## 5. Proofs

All theorems hold for any number of hosts, links and flows, any paths, capacities and
windows, and any bounds.

`StatShareProofs` assumes `FlowAssumption` (the edge link is not also a core link),
`RespAssumption` (the responsible host of a link is its own responsible host) and
`RateAssumption`.

* `TypeCorrect`, `CounterExactness`: `numFlows \in Nat` is not inductive by itself: a decrement stays
  in `Nat` only because the counter is the number of active flows and the ending flow is
  one of them.  Both are proved together.
* `Conservation` (`SubscriptionsConserved`): recorded count + requests under way + `drift`
  = flows of the requester.
* `RequestsAreCounted` (`NoRequestIgnored`): needs conservation and `RequestsAreRemote`.
  `NoRequestIgnored` speaks of the count after *every* prefix of the requests under way, which is
  what makes it inductive: appending a STOP is safe because the full sum is the number of
  flows before the end, at least 1.
* `EndedStaysSilent` (`EndedIsSilent`) and `RoomForEveryFlow` (`NoStarvation`, from
  `KnownCountsBounded`: no value known or under way exceeds the number of flows routed over
  the link, however stale it is).
* `SubscriptionRefinement`: the abstract queue `lag` is the sequence of counts after each
  request under way; an append to `request` is an abstract change of mind, a receive an
  abstract catch-up, everything else a stutter.

`TcpSenderProofs` assumes `SenderAssumption`.

* `SenderTypes`, `AcknowledgedIsReceived`, `TimerIsPending` share one inductive invariant:
  types, `AcksBehind` (`highest_ack` and acknowledgements under way are below the sink's
  `next_`, and everything below `next_` has been received)
  and `Armed` (the timer is pending from the probe on).
* `NewDataWithinWindow` (`WithinWindow`) is an action property, proved from the same invariant and
  `OpenAtFirst` (the window before the first packet is open, since only a timeout or the
  controller changes it and neither comes first).  Every step that raises `maxseq` is either the
  probe, a loop of `send_much`, or the one packet that a duplicate acknowledgement allows.

`LinkQueueProofs` assumes `LinkAssumption`, which only gives types.

* `LinkTypes`, `BlockedWhileSending` (`Busy`) and `NoOvertaking` (`WireInOrder`) share one
  invariant.  `IdleNeverDrops` (`IdleAccepts`) adds that nothing waits in the queue
  while it is not blocked.  `WireInOrder` needs `WithinHorizon`: with `avoidReordering_` nothing on the wire
  arrives after `latest_time_`; with a fixed delay nothing arrives later than `delay_` after
  the end of the transmission in progress, or after now.  A new packet is then last.
* `LinkIsLossyFifo` (`ImplementsLossyFifo`): the abstract channel is the wire followed by the queue.  A
  `Recv` puts the packet in and loses what `enque` drops, which may be a packet in the middle;
  `Reset` and `ShrinkQueue` lose; `Deliver` gets the head, because `WireInOrder` says that what
  arrives next is first on the wire; `Resume` moves a packet from the queue to the wire and `Tick` brings
  arrivals nearer, which the channel does not see.  What remains after a loss is given by a rising function of
  indices (`Remains` in `LossyFifo`), which needs no recursion.  Like `NoOvertaking`, the theorem
  assumes `KeepsOrder`: `avoidReordering_` is set, or the delay never changes.

`PathMapProofs` assumes `PathAssumption` (links are known by their ends, routes are chains
without a cycle).

* `RecordsArePrefixes` (`RecordedIsPrefix`): the third conjunct, that a packet which has
  passed `k` queues has left a record of at least `k` links, is what makes the prefix
  inductive: the next link is either in the record or the one that comes next.
* `StartsOnRoute` (`PathKnown`): from the former, the record is the whole route; its nodes
  cross exactly its links because links are known by their ends.
* `CountersAreBalanced` (`CountersBalance`), `RecorderTypes`: a counter is a natural number
  because it is the size of the set of crossings counted by active flows.

`SchedulersProofs` assumes `TimerAssumption`, which only gives types and keeps names apart, and
`WidthAssumption` (widths are above zero).

* `TimerTypes`, `ChecksNeverFail` (`NeverAborts`), `TimersFireWhenSet` (`FiresWhenSet`) and
  `HandlingOnlyRunning` (`HandlingRuns`: a timer is in the state handling only while its handler
  runs, so that `sched` may be called again) share the invariant `TimerInv`.  It adds that the
  list holds each event once (`OneEach`) and in the order of time (`InOrder`), that the sign of
  `uid_` tells whether an event is queued (`UidTells`), that the event of the next `at`
  command is new (`AtFresh`), and that nothing is queued for the past (`NotPast`), which the
  real-time loop gives up: there an event may be late, and the time of day may be set back, but an event is dispatched
  at the clock's own reading, so that the check of `dispatch` does not fail.

* Every step of `Schedulers` is a step of `Timer` that looks at the next event, schedules, cancels,
  moves or takes off one (`StepCalls`), so that `TimerInv` holds there too and what remains is
  what these five calls do to the heap and to the calendar.
* `HeapAgreesAlways` (`HeapAgrees`), from `HeapOK`: no parent has a greater key than its child, the
  heap's elements are the list's entries, and (key, secondary key) ranks them as the list does
  (`Ranked`), with every secondary key below `h_s_key`.  The last part makes a new element last among
  those of its time, where the list puts it.  The work is in the paths: `SiftUp` and `Heapify`
  permute the elements and restore the order although one index is out of place
  (`SiftUpFacts`, `HeapifyFacts`), and `ToRoot` breaks it at the root only (`ToRootFacts`), so that
  `ExtractMin` may follow.  A heap in order has its least element at the root (`RootLeast`); how many are below an
  element is its place in the list (`HeapRanks`).
* `BucketsAgreeAlways`, `HeadIsNextAlways` and `CountsExactAlways` (`BucketsAgree`, `HeadIsNext`,
  `CountsExact`) share `CalOK`: for some number of buckets, at least 4, and some width each bucket is the part of the
  list that hashes to it, in the list's order, the counts are exact, `cal_clock_` is not
  after any queued event, and `lastbucket_` is the bucket of `cal_clock_`.  The last two are what `insert`
  restores when it moves the clock back (`RewoundHolds`); without them `head` would begin its search behind
  the next event.  `HeadFound` shows the search right: a bucket's first event lies within the limit
  exactly if it is of the day that the search has come to (`LimitsTell`), so the first bucket that passes has the
  least time, and if none passes the comparison of all buckets finds it.
* `resize` is the one operation whose invariant speaks of a part of the list: after some
  buckets have been emptied into the new ones, these hold the entries of the emptied buckets (`ResizedHolds`), and
  within a bucket those from some place on (`EmptiedHolds`).  `insert2` puts an event before those
  of its time, which is right because a bucket is emptied from its end and events of equal
  time share a bucket (`Insert2Holds`).  Both loops are proved by induction over the number of steps, with the
  set of numbers for which the claim holds as the instance of the induction principle (`InductionSet`).

`MappingProofs` assumes `MappingAssumption`: racks are of one size, and no link belongs to two
hosts of its own accord.

* `TypesKept`, `IteratorSufficesAlways`, `OneResponsibleAlways` and `EvenLoadAlways` share one
  invariant `IInv`.  Within a rack it says that the iterator and the lists hold each free link
  exactly once (`Dealt`), that lists before the present one have `slice_size` links or one more, and
  that the odd links are fewer than the lists to come (`Sizes`).  Of finished racks it says what
  `init_DHT` needs: every link is given out (`Covered`), to one host (`Unique`), evenly (`Even`).
  `OneResponsible` follows because successive numbers of `HOST_PER_RACK` hosts are then a rack.

`FatTreeProofs` assumes `OrderAssumption`: k is even and at least 2.

* The loops' indices are in step (`LoopsInStep`: `edgeSwitchIndex` and `pod_count` are quotients of
  the indices they follow), which gives `TypesKept`.  `LinksAsDone` says of *any* two nodes whether
  out.txt links them yet, by comparing them with the indices; `LinksKnownByEndsAlways` follows since a pass
  links two nodes that were not, and `FatTreeShapeAlways` since at the end every comparison has
  come true.  `Reversed` (each link is followed by its reverse) is what makes skipping every second
  link harmless in `QueuesAreLinksAlways`; `LinksCounted` gives the asserted number.
* `AgentsMutualAlways`: `ite = NumNodes * i + j` holds across `NextRow`, so that the loop connects agents
  `NumNodes * a + b` and `NumNodes * b + a`, each pair once.

`RoutingProofs` assumes `RoutingAssumption`: finitely many nodes, symmetric links.

* `MetricsNeverTooShort` (`NeverTooShort`): `ShortInv` says of the metrics heard from peers, the
  updates on their way, DV's entries and the routes alike that there is a walk of that many
  links to the destination.  Links that fail only take walks away from the network, not from
  this set, so it holds with any changes.
* `RoutesHaveNoLoops` (`NoLoops`): `LoopInv` holds while no link has changed.  Metrics then only
  fall, and on each channel what the receiver has heard and what is under way is never better than
  what the sender has now, in order.  The delicate part is poisoned reverse: a node that takes
  a neighbour for next hop sends it INFINITY, which must not make that neighbour's metric rise.  The
  invariant says that an INFINITY under way finds the receiver already nearer than anything
  it was told before.
* `SlotsAreNextHopsAlways` and `HashFindsSlotAlways`: `SlotInv` says that every node's route is the one
  rtObject would choose now (`Chosen`), and that DV's next hops are all peers of least metric, or
  those that it had when all were given up (`Stable`).  The latter is needed when a direct route comes
  back: rtObject takes out the next hops DV has *now*, which computing again from the same metrics
  must not have changed.  The slots left behind are counted against the changes of links (`Budget`): a
  failure that leaves one follows the recovery of the same link, which has not been counted yet.  A multi-path classifier belongs to a node at which DV has next hops; DV
  keeps them, which is why the classifier is never empty.
* `RoutingTypes` is needed by all of them.

The run `link` sets `avoidReordering_`; that packets stay in order with a fixed delay and
without it, as the scripts configure links, is shown by the proof of `NoOvertaking` only.

Only model-checked: the liveness properties (`Converges` of both models, `SubscriptionsEnd`,
`Progress`, `Drains`), which need fairness.  Every invariant and action property of the passing
runs is proved.

## 6. Not modelled, and the plan

Worth adding: a composition of `PathMap` and `StatShare`, in which flows start early with part
of a path.

The repository contains all of ns-2.35, about 314,000 lines of C++, Tcl and tools, most of them
protocols that no script of this project uses (SCTP, DCCP, 802.11, 802.15.4, satellites, ad-hoc
routing, sensor networks, web caches) and that the project has not changed.  The modules here
cover the project's own code and the parts of the simulator that its scripts run on.

`FlowStart` of `PathMap` is the only caller of `print_pathway` in the model.  The commands `PATH` and
`print_pathway` (`tcp.cc:1071`) call it too and would append the path a second time; no script of
the project uses them.

Left out for good: ns-2's packet pool, its splay-tree scheduler, the static routes of `route.cc` (the
scripts ask for DV), Tcl library, tracing, and its wireless and
mobility code, which this project does not change; the other TCP variants; the unused polling
schemes of `tcp.cc` (`every_link_poll`, `poll_round_robin`, `poll_btnk_per`); ECN,
Quick-Start and F-RTO, which the scripts leave off; `generateMappingPerPodBottomUp`, which is
marked as a test and never called.
