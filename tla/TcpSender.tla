----------------------------- MODULE TcpSender -----------------------------
(***************************************************************************)
(* One flow: a TcpAgent whose congestion window is set from outside        *)
(* (TcpAgent::poll_dht) and no longer by acknowledgements and losses, and  *)
(* its TCPSink.                                                            *)
(*                                                                         *)
(* The life of a flow is the one template.tcl gives it: one packet is sent *)
(* ahead to find the path (tcp_send), flow_start sets the first window,    *)
(* FTP hands over endless data, flow_end closes the window.  FTP is never  *)
(* stopped: the script's "$ns at endTime" lacks a $, so the stop runs at   *)
(* time 0, before the flow exists.  The agent has the default settings of  *)
(* Agent/TCP (Tahoe recovery, SYN, limited transmit, no ECN, no            *)
(* Quick-Start, no F-RTO, no burst limit).                                 *)
(*                                                                         *)
(* A flow keeps one path (classifier-mpath.cc hashes per flow), so packets *)
(* and acknowledgements are lost but never reordered.  Durations are left  *)
(* out: a pending retransmission timer may fire early or late.             *)
(***************************************************************************)
EXTENDS Integers, Sequences

CONSTANTS
    Shares,       \* windows that poll_dht may compute, in packets
    MaxWnd,       \* wnd_
    InitWnd,      \* window before flow_start (set_initial_window)
    NumDupAcks,   \* numdupacks_
    MaxData,      \* bound: TCP_MAXSEQ, the data FTP hands over
    MaxNet,       \* bound: a timer fires only with fewer packets under way
    MaxLosses     \* bound: packets and acknowledgements lost

ASSUME SenderAssumption ==
    /\ Shares \subseteq Nat
    /\ MaxWnd \in Nat \ {0}
    /\ InitWnd \in Nat \ {0}
    /\ NumDupAcks \in Nat \ {0}
    /\ MaxData \in Nat \ {0, 1}
    /\ MaxNet \in Nat \ {0}
    /\ MaxLosses \in Nat

VARIABLES
    phase,        \* "idle", "probed" (tcp_send), "started" or "ended"
    cwnd,         \* cwnd_, truncated
    curseq,       \* curseq_: sequence numbers below it may be sent
    t_seqno,      \* t_seqno_: next one to send
    maxseq,       \* maxseq_: highest one ever sent
    highest_ack,  \* highest_ack_, which last_ack_ always equals
    recover,      \* recover_: maxseq_ at the last loss
    dupacks,      \* dupacks_
    rtx,          \* rtx_timer_ is pending
    data,         \* packets under way to the sink
    acks,         \* acknowledgements under way back
    seen,         \* packets received (Acker::seen_ keeps those from next_ on)
    next_,        \* Acker::next_: first packet not yet received
    losses        \* history: packets and acknowledgements lost

sender == <<phase, cwnd, curseq, t_seqno, maxseq, highest_ack, recover, dupacks, rtx>>
vars == <<phase, cwnd, curseq, t_seqno, maxseq, highest_ack, recover, dupacks, rtx,
          data, acks, seen, next_, losses>>

Lesser(a, b) == IF a < b THEN a ELSE b
Greater(a, b) == IF a > b THEN a ELSE b
Window(c) == Lesser(c, MaxWnd)

Init ==
    /\ phase = "idle" /\ cwnd = InitWnd
    /\ curseq = 0 /\ t_seqno = 0 /\ maxseq = -1
    /\ highest_ack = -1 /\ recover = 0 /\ dupacks = 0
    /\ rtx = FALSE
    /\ data = <<>> /\ acks = <<>>
    /\ seen = {} /\ next_ = 0
    /\ losses = 0

-----------------------------------------------------------------------------
(***************************************************************************)
(* Sending                                                                 *)
(***************************************************************************)
\* Mutant: one packet more than the window.
AllowedOneMore(ack, win, cur) == Lesser(ack + win + 1, cur - 1)

\* The last packet that send_much may send.
Allowed(ack, win, cur) == Lesser(ack + win, cur - 1)

\* send_much: output every packet from t on that the window win allows.  sent are the
\* packets under way, top the highest one sent, timer whether rtx_timer_ is pending
\* before; output sets the timer whenever it is not.
SendMuch(t, ack, win, cur, sent, top, timer) ==
    LET last == Allowed(ack, win, cur)
        n == IF t <= last THEN last - t + 1 ELSE 0
    IN  /\ data' = sent \o [i \in 1..n |-> t + i - 1]
        /\ t_seqno' = t + n
        /\ maxseq' = IF n > 0 THEN Greater(top, last) ELSE top
        /\ rtx' = (timer \/ n > 0)

\* tcp_send: output(0, 0).  The SYN takes a sequence number of its own; t_seqno_
\* stays where it is.
Probe ==
    /\ phase = "idle"
    /\ phase' = "probed"
    /\ curseq' = curseq + 1
    /\ maxseq' = 0
    /\ rtx' = TRUE
    /\ data' = Append(data, 0)
    /\ UNCHANGED <<cwnd, t_seqno, highest_ack, recover, dupacks, acks, seen, next_, losses>>

\* flow_start, and every later TcpAgent::expire: only the window changes, and nothing
\* is sent.
FlowStart ==
    /\ phase = "probed"
    /\ phase' = "started"
    /\ cwnd' \in Shares
    /\ UNCHANGED <<curseq, t_seqno, maxseq, highest_ack, recover, dupacks, rtx, data,
                   acks, seen, next_, losses>>

Poll ==
    /\ phase = "started"
    /\ cwnd' \in Shares
    /\ UNCHANGED <<phase, curseq, t_seqno, maxseq, highest_ack, recover, dupacks, rtx,
                   data, acks, seen, next_, losses>>

\* $ftp start: sendmsg(-1).
FtpStart ==
    /\ phase = "started" /\ curseq < MaxData
    /\ curseq' = MaxData
    /\ SendMuch(t_seqno, highest_ack, Window(cwnd), MaxData, data, maxseq, rtx)
    /\ UNCHANGED <<phase, cwnd, highest_ack, recover, dupacks, acks, seen, next_, losses>>

FlowEnd ==
    /\ phase = "started" /\ curseq = MaxData
    /\ phase' = "ended"
    /\ cwnd' = 0
    /\ UNCHANGED <<curseq, t_seqno, maxseq, highest_ack, recover, dupacks, rtx, data,
                   acks, seen, next_, losses>>

-----------------------------------------------------------------------------
(***************************************************************************)
(* Acknowledgements                                                        *)
(***************************************************************************)
\* Mutant: the timer is cancelled when all that was sent is acknowledged, also when the
\* window lets nothing more be sent.
NewTimerOutstanding(ack, t) == ack < maxseq

\* newtimer: whether the timer is set (otherwise it is cancelled) by a new
\* acknowledgement, with t_seqno_ already past it.  The first condition always holds.
NewTimer(ack, t) == t > ack \/ ack < maxseq \/ cwnd < 1

\* newack: what is acknowledged need not be sent again.
NewSeqno(ack) == Greater(t_seqno, ack + 1)

\* recv of an acknowledgement of something new: recv_newack_helper, then send_much.
\* opencwnd does nothing.
NewAck(ack) ==
    LET t == NewSeqno(ack)
    IN  /\ highest_ack' = ack
        /\ dupacks' = 0
        /\ SendMuch(t, ack, Window(cwnd), curseq, data, maxseq, NewTimer(ack, t))
        /\ UNCHANGED recover

\* dupack_action restarts from the packet after the acknowledged one, but not twice
\* for the losses of one window.
Recovers == highest_ack > recover \/ highest_ack = 0

DupAck ==
    LET d == dupacks + 1
        \* send_one: limited transmit of one packet on the first duplicates.
        one == /\ d < NumDupAcks
               /\ t_seqno <= highest_ack + Lesser(MaxWnd, cwnd + d)
               /\ t_seqno < curseq
    IN  /\ dupacks' = d
        /\ UNCHANGED highest_ack
        /\ IF d = NumDupAcks /\ Recovers
           THEN /\ recover' = maxseq
                /\ SendMuch(highest_ack + 1, highest_ack, Window(cwnd), curseq, data,
                            maxseq, TRUE)
           ELSE /\ UNCHANGED recover
                /\ IF one
                   THEN SendMuch(t_seqno + 1, highest_ack, Window(cwnd), curseq,
                                 Append(data, t_seqno), Greater(maxseq, t_seqno), TRUE)
                   ELSE SendMuch(t_seqno, highest_ack, Window(cwnd), curseq, data,
                                 maxseq, rtx)

\* An acknowledgement that is older only makes send_much run.
OldAck ==
    /\ SendMuch(t_seqno, highest_ack, Window(cwnd), curseq, data, maxseq, rtx)
    /\ UNCHANGED <<highest_ack, recover, dupacks>>

RecvAck ==
    /\ acks # <<>>
    /\ acks' = Tail(acks)
    /\ \/ Head(acks) > highest_ack /\ NewAck(Head(acks))
       \/ Head(acks) = highest_ack /\ DupAck
       \/ Head(acks) < highest_ack /\ OldAck
    /\ UNCHANGED <<phase, cwnd, curseq, seen, next_, losses>>

\* slowdown: every branch that a loss takes assigns the window to itself, so what is
\* left of it (ssthresh_ and the counters of opencwnd) governs nothing.
Slowdown(c) == c

\* timeout(TCP_TIMER_RTX): a window below 1 is raised to 1, and sending restarts from
\* the packet after the acknowledged one.
Timeout ==
    LET win == Slowdown(Greater(cwnd, 1))
    IN  /\ rtx
        /\ Len(data) + Len(acks) < MaxNet
        /\ cwnd' = win
        /\ recover' = maxseq
        /\ SendMuch(highest_ack + 1, highest_ack, Window(win), curseq, data, maxseq, TRUE)
        /\ UNCHANGED <<phase, curseq, highest_ack, dupacks, acks, seen, next_, losses>>

-----------------------------------------------------------------------------
(***************************************************************************)
(* The sink, and losses                                                    *)
(***************************************************************************)
\* Mutant: a gap is skipped.
FirstMissingSkips(from, got) == 1 + CHOOSE m \in got : \A k \in got : k <= m

\* The first packet from `from' on that is not among those got.
FirstMissing(from, got) ==
    CHOOSE m \in from..MaxData : m \notin got /\ \A k \in from..(m - 1) : k \in got

\* TcpSink::ack: everything below the first missing packet is acknowledged.
AckOf(missing) == missing - 1

\* TcpSink::recv: Acker::update, then an acknowledgement for every packet.
RecvData ==
    /\ data # <<>>
    /\ data' = Tail(data)
    /\ seen' = seen \cup {Head(data)}
    /\ next_' = FirstMissing(next_, seen')
    /\ acks' = Append(acks, AckOf(next_'))
    /\ UNCHANGED <<sender, losses>>

Lose ==
    /\ losses < MaxLosses
    /\ losses' = losses + 1
    /\ \/ data # <<>> /\ data' = Tail(data) /\ UNCHANGED acks
       \/ acks # <<>> /\ acks' = Tail(acks) /\ UNCHANGED data
    /\ UNCHANGED <<sender, seen, next_>>

Next ==
    \/ Probe \/ FlowStart \/ Poll \/ FtpStart \/ FlowEnd
    \/ RecvAck \/ Timeout \/ RecvData \/ Lose

Spec == Init /\ [][Next]_vars

\* The scheduler delivers what is not lost, fires a pending timer and runs the
\* script's events; how the windows change and when the flow ends is left open.
Fairness ==
    /\ WF_vars(Probe) /\ WF_vars(FlowStart) /\ WF_vars(FtpStart)
    /\ WF_vars(RecvAck) /\ WF_vars(RecvData) /\ WF_vars(Timeout)

FairSpec == Spec /\ Fairness

-----------------------------------------------------------------------------
(***************************************************************************)
(* Properties                                                              *)
(***************************************************************************)
\* The variables have their types.
TypeOK ==
    /\ phase \in {"idle", "probed", "started", "ended"}
    /\ cwnd \in Nat
    /\ curseq \in {0, 1, MaxData}
    /\ t_seqno \in 0..MaxData /\ maxseq \in -1..(MaxData - 1)
    /\ highest_ack \in -1..(MaxData - 1) /\ recover \in -1..(MaxData - 1)
    /\ dupacks \in Nat
    /\ rtx \in BOOLEAN
    /\ data \in Seq(0..(MaxData - 1)) /\ acks \in Seq(-1..(MaxData - 1))
    /\ next_ \in 0..MaxData /\ seen \subseteq 0..(MaxData - 1)
    /\ losses \in 0..MaxLosses

\* What the sender takes for delivered has been delivered: no acknowledgement, applied
\* or under way, covers a packet that the sink lacks, whatever was lost or sent twice.
AckedIsReceived ==
    /\ 0..highest_ack \subseteq seen
    /\ \A i \in 1..Len(acks) : 0..acks[i] \subseteq seen

\* newtimer and output keep the retransmission timer pending as long as anything sent
\* is not acknowledged and as long as any data is left: a window that is 0 when the
\* last acknowledgement arrives, or when FTP starts, delays the flow but does not stop
\* it (a poll that opens the window later sends nothing by itself).
TimerCovers ==
    /\ maxseq > highest_ack => rtx
    /\ highest_ack < curseq - 1 => rtx

\* A step sends new data only within the window it finds, one packet more for each of
\* the first duplicate acknowledgements (send_one); this holds also after flow_end.
WithinWindow ==
    [][maxseq' > maxseq => maxseq' <= highest_ack' + Window(cwnd') + dupacks']_vars

\* All data of a flow is delivered and acknowledged, also when the controller gives it
\* no window at all for any length of time.
Progress == (curseq = MaxData) ~> (highest_ack = MaxData - 1)

\* ns-source.tcl on FTP's stop: "Causes TCP to send no more new data."  The code
\* refutes it: the misspelt stop never reaches a running flow, flow_end leaves it its
\* data, and the retransmission timer, always pending, raises the window to 1.
NoNewDataAfterEnd == [][phase = "ended" => maxseq' = maxseq]_vars
=============================================================================
