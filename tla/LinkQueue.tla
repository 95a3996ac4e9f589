----------------------------- MODULE LinkQueue -----------------------------
(***************************************************************************)
(* One simplex link: a DropTail queue (queue/queue.cc, queue/drop-tail.cc) *)
(* in front of a LinkDelay (link/delay.cc).                                *)
(*                                                                         *)
(* The queue blocks itself while the link transmits a packet; LinkDelay    *)
(* schedules two events, the arrival of the packet at the other end and    *)
(* the end of the transmission, which makes the queue resume.  The event   *)
(* of the latter (intr_) is a single object: the scheduler aborts when it  *)
(* is scheduled while it is pending.                                       *)
(*                                                                         *)
(* Time is discrete and relative: events carry the time that is left, and  *)
(* Tick lets time pass when no event is due.  Queues are measured in       *)
(* packets (queue_in_bytes_ is off) and links are not dynamic_, as in the  *)
(* generated scripts; the bound variables delay_, bandwidth_, limit_ and  *)
(* drop_front_ may be set by a script at any time.                         *)
(***************************************************************************)
EXTENDS Integers, Sequences, FiniteSets

CONSTANTS
    Packet,           \* packet objects; a freed one may be allocated again
    TxTimes,          \* values of txtime(p), from size and bandwidth_
    Delays,           \* values of delay_
    Limits,           \* values of qlim_
    AvoidReordering   \* avoidReordering_

ASSUME LinkAssumption ==
    /\ TxTimes \subseteq Nat /\ Delays \subseteq Nat /\ Limits \subseteq Nat
    /\ AvoidReordering \in BOOLEAN

VARIABLES
    q,         \* PacketQueue: the waiting packets, head first
    blocked,   \* blocked_
    intr,      \* pending schedulings of intr_: time left of each
    wire,      \* packets on the link, in the order they were put there, with
               \* the time left until they arrive
    latest,    \* latest_time_, as time left
    delay,     \* delay_
    qlim,      \* qlim_
    drop_front, \* drop_front_
    out        \* history: the packet that arrived last

vars == <<q, blocked, intr, wire, latest, delay, qlim, drop_front, out>>

InLink == {q[i] : i \in DOMAIN q} \cup {wire[i].pkt : i \in DOMAIN wire}

Init ==
    /\ q = <<>> /\ blocked = FALSE
    /\ intr = <<>> /\ wire = <<>> /\ latest = 0
    /\ delay \in Delays /\ qlim \in Limits /\ drop_front \in BOOLEAN
    /\ out = <<>>

-----------------------------------------------------------------------------
(***************************************************************************)
(* LinkDelay                                                               *)
(***************************************************************************)
\* Mutant: latest_time_ is not looked at.
ArrivalPlain(txt) == txt + delay

\* The time until a packet arrives whose transmission takes txt: never before the
\* latest arrival, if avoidReordering_.
Arrival(txt) ==
    IF AvoidReordering /\ txt + delay < latest THEN latest + txt ELSE txt + delay

\* LinkDelay::recv; intrs are the pending schedulings of intr_ before.
LinkRecv(p, intrs) ==
    \E txt \in TxTimes :
        /\ wire' = Append(wire, [pkt |-> p, due |-> Arrival(txt)])
        /\ latest' = IF AvoidReordering THEN Arrival(txt) ELSE latest
        /\ intr' = Append(intrs, txt)

\* The scheduler runs the first of the arrivals that are due; events of equal time
\* run in the order in which they were scheduled.
Deliver ==
    \E i \in DOMAIN wire :
        /\ wire[i].due = 0
        /\ \A j \in 1..(i - 1) : wire[j].due > 0
        /\ out' = <<wire[i].pkt>>
        /\ wire' = [k \in 1..(Len(wire) - 1) |-> IF k < i THEN wire[k] ELSE wire[k + 1]]
        /\ UNCHANGED <<q, blocked, intr, latest, delay, qlim, drop_front>>

-----------------------------------------------------------------------------
(***************************************************************************)
(* DropTail                                                                *)
(***************************************************************************)
\* Mutant: the packet that stays is put at the head.
EnquedHead(p) == IF Len(q) + 1 >= qlim THEN q ELSE <<p>> \o q

\* DropTail::enque: the queue afterwards.  A packet is dropped when the queue holds one
\* packet less than its limit.
Enqued(p) ==
    IF Len(q) + 1 >= qlim
    THEN IF drop_front THEN Tail(Append(q, p)) ELSE q
    ELSE Append(q, p)

\* Mutant: blocked_ is not looked at.
RecvUnblocked(p) ==
    LET s == Enqued(p)
    IN  /\ p \notin InLink
        /\ IF s # <<>>
           THEN q' = Tail(s) /\ blocked' = TRUE /\ LinkRecv(Head(s), intr)
           ELSE q' = s /\ UNCHANGED <<blocked, intr, wire, latest>>
        /\ UNCHANGED <<delay, qlim, drop_front, out>>

\* Queue::recv.  deque may find nothing although a packet has just come.
Recv(p) ==
    LET s == Enqued(p)
    IN  /\ p \notin InLink
        /\ IF ~blocked /\ s # <<>>
           THEN q' = Tail(s) /\ blocked' = TRUE /\ LinkRecv(Head(s), intr)
           ELSE q' = s /\ UNCHANGED <<blocked, intr, wire, latest>>
        /\ UNCHANGED <<delay, qlim, drop_front, out>>

\* Mutant: the queue is unblocked, and what waits is left to the next packet that comes.
ResumeIdle ==
    /\ intr # <<>> /\ Head(intr) = 0
    /\ blocked' = FALSE /\ intr' = Tail(intr)
    /\ UNCHANGED <<q, wire, latest, delay, qlim, drop_front, out>>

\* Queue::resume, from the handler of intr_.
Resume ==
    /\ intr # <<>> /\ Head(intr) = 0
    /\ IF q # <<>>
       THEN q' = Tail(q) /\ LinkRecv(Head(q), Tail(intr)) /\ UNCHANGED blocked
       ELSE blocked' = FALSE /\ intr' = Tail(intr) /\ UNCHANGED <<q, wire, latest>>
    /\ UNCHANGED <<delay, qlim, drop_front, out>>

\* Queue::reset drops what waits; the packet in transmission and blocked_ stay.
Reset ==
    /\ q # <<>>
    /\ q' = <<>>
    /\ UNCHANGED <<blocked, intr, wire, latest, delay, qlim, drop_front, out>>

\* DropTail::shrink_queue, at the head or at the tail.
ShrinkQueue ==
    /\ Len(q) > qlim
    /\ q' = IF drop_front THEN SubSeq(q, Len(q) - qlim + 1, Len(q)) ELSE SubSeq(q, 1, qlim)
    /\ UNCHANGED <<blocked, intr, wire, latest, delay, qlim, drop_front, out>>

-----------------------------------------------------------------------------
\* A script sets delay_, limit_ or drop_front_.
SetDelay(d) ==
    /\ d # delay
    /\ delay' = d
    /\ UNCHANGED <<q, blocked, intr, wire, latest, qlim, drop_front, out>>

SetLimit(n) ==
    /\ n # qlim
    /\ qlim' = n
    /\ UNCHANGED <<q, blocked, intr, wire, latest, delay, drop_front, out>>

SetDropFront ==
    /\ drop_front' = ~drop_front
    /\ UNCHANGED <<q, blocked, intr, wire, latest, delay, qlim, out>>

\* Mutant: the end of the transmission comes no nearer while packets are on the wire.
TickStuck ==
    /\ wire # <<>> \/ latest > 0
    /\ \A i \in DOMAIN wire : wire[i].due > 0
    /\ wire' = [i \in 1..Len(wire) |-> [wire[i] EXCEPT !.due = @ - 1]]
    /\ latest' = IF latest > 0 THEN latest - 1 ELSE 0
    /\ UNCHANGED <<q, blocked, intr, delay, qlim, drop_front, out>>

\* Time passes up to the next event.
Tick ==
    /\ wire # <<>> \/ intr # <<>> \/ latest > 0
    /\ \A i \in DOMAIN wire : wire[i].due > 0
    /\ \A i \in DOMAIN intr : intr[i] > 0
    /\ wire' = [i \in 1..Len(wire) |-> [wire[i] EXCEPT !.due = @ - 1]]
    /\ intr' = [i \in 1..Len(intr) |-> intr[i] - 1]
    /\ latest' = IF latest > 0 THEN latest - 1 ELSE 0
    /\ UNCHANGED <<q, blocked, delay, qlim, drop_front, out>>

Next ==
    \/ \E p \in Packet : Recv(p)
    \/ Resume \/ Deliver \/ Reset \/ ShrinkQueue \/ Tick \/ SetDropFront
    \/ \E d \in Delays : SetDelay(d)
    \/ \E n \in Limits : SetLimit(n)

Spec == Init /\ [][Next]_vars

\* The scheduler runs every event; packets come, and parameters change, as they like.
Fairness == WF_vars(Tick) /\ WF_vars(Resume) /\ WF_vars(Deliver)

FairSpec == Spec /\ Fairness

-----------------------------------------------------------------------------
(***************************************************************************)
(* Properties                                                              *)
(***************************************************************************)
\* The variables have their types; in particular no event lies in the past.
TypeOK ==
    /\ q \in Seq(Packet) /\ blocked \in BOOLEAN
    /\ intr \in Seq(Nat) /\ wire \in Seq([pkt : Packet, due : Nat])
    /\ latest \in Nat /\ delay \in Delays /\ qlim \in Limits /\ drop_front \in BOOLEAN

\* blocked_ and the transmission in progress never disagree: a queue that is blocked is
\* resumed by an event under way, so it cannot stay blocked for ever, and intr_ is never
\* scheduled while it is pending, for which the scheduler would abort.
Busy == Len(intr) = IF blocked THEN 1 ELSE 0

\* Packets never overtake each other on the wire, as long as delay_ is not changed or
\* avoidReordering_ is set.
KeepsOrder == AvoidReordering \/ \A d, e \in Delays : d = e
WireInOrder ==
    KeepsOrder => \A i, j \in DOMAIN wire : i < j => wire[i].due <= wire[j].due

\* An idle link never drops what it gets: although DropTail keeps one packet less than
\* its limit, and a script may lower the limit under a full queue, nothing waits in the
\* queue of a link that does not transmit, so any limit above one lets the packet in.
IdleAccepts ==
    ~blocked /\ qlim > 1 => \A p \in Packet : \E i \in DOMAIN Enqued(p) : Enqued(p)[i] = p

\* The link is a lossy FIFO: what StatShare and TcpSender assume of their channels.
Fifo == INSTANCE LossyFifo WITH
            chan <- [i \in 1..Len(wire) |-> wire[i].pkt] \o q,
            out <- out
ImplementsLossyFifo == Fifo!Spec

\* Nothing gets stuck: a packet in the queue or on the wire leaves the link, delivered or
\* dropped, whatever comes after it.
Drains == \A p \in Packet : p \in InLink ~> p \notin InLink
=============================================================================
