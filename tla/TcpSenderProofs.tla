-------------------------- MODULE TcpSenderProofs --------------------------
(***************************************************************************)
(* Proofs about TcpSender, for all windows, bounds and amounts of data.    *)
(***************************************************************************)
EXTENDS TcpSender, TLAPS, NaturalsInduction, WellFoundedInduction

Sent == 0..(MaxData - 1)
Ack == -1..(MaxData - 1)

\* Before tcp_send nothing has happened; after it the timer is always pending.
Armed ==
    IF phase = "idle"
    THEN /\ curseq = 0 /\ maxseq = -1 /\ highest_ack = -1
         /\ data = <<>> /\ acks = <<>> /\ ~rtx
    ELSE rtx

\* The sink has everything below next_, and no acknowledgement goes further.
AcksBehind ==
    /\ 0..(next_ - 1) \subseteq seen
    /\ highest_ack < next_
    /\ \A i \in 1..Len(acks) : acks[i] < next_

SenderInv == TypeOK /\ Armed /\ AcksBehind

-----------------------------------------------------------------------------
\* What send_much leaves, from arguments of the right types: the variables keep their
\* types and a pending timer stays pending.
LEMMA SendMuchType ==
    ASSUME NEW t \in 0..MaxData, NEW ack \in Ack, NEW win \in Nat,
           NEW cur \in {0, 1, MaxData}, NEW sent \in Seq(Sent), NEW top \in Ack,
           NEW timer \in BOOLEAN,
           SendMuch(t, ack, win, cur, sent, top, timer)
    PROVE  /\ data' \in Seq(Sent)
           /\ t_seqno' \in 0..MaxData
           /\ maxseq' \in Ack
           /\ rtx' \in BOOLEAN
           /\ timer => rtx'
<1> DEFINE last == Allowed(ack, win, cur)
           n == IF t <= last THEN last - t + 1 ELSE 0
           more == [i \in 1..n |-> t + i - 1]
<1>1. MaxData \in Nat /\ MaxData >= 2
  BY SenderAssumption
<1>2. last \in Int /\ last <= cur - 1 /\ cur \in Nat /\ cur <= MaxData
  BY <1>1 DEF Allowed, Lesser, Ack
<1>3. n \in Nat /\ t + n \in 0..MaxData
  BY <1>1, <1>2
<1>4. ASSUME NEW i \in 1..n
      PROVE  t + i - 1 \in Sent
  BY <1>1, <1>2, <1>4 DEF Sent
<1>5. more \in Seq(Sent)
  BY <1>3, <1>4
<1>6. /\ data' = sent \o more
      /\ t_seqno' = t + n
      /\ maxseq' = IF n > 0 THEN Greater(top, last) ELSE top
      /\ rtx' = (timer \/ n > 0)
  BY DEF SendMuch
<1> HIDE DEF more
<1>7. data' \in Seq(Sent)
  BY <1>5, <1>6
<1>8. n > 0 => Greater(top, last) \in Ack
  BY <1>1, <1>2 DEF Greater, Ack
<1>9. maxseq' \in Ack
  BY <1>6, <1>8
<1> HIDE DEF n
<1>10. QED
  BY <1>3, <1>6, <1>7, <1>9

LEMMA GreaterType ==
    ASSUME NEW a \in Int, NEW b \in Int
    PROVE  Greater(a, b) \in {a, b} /\ Greater(a, b) >= b
BY DEF Greater

LEMMA WindowType == ASSUME NEW c \in Nat PROVE Window(c) \in Nat
BY SenderAssumption DEF Window, Lesser

\* A non-empty set of naturals has a smallest element.
LEMMA LeastOf ==
    ASSUME NEW S \in SUBSET Nat, S # {}
    PROVE  \E m \in S : \A n \in S : m <= n
<1> DEFINE R == {p \in Nat \X Nat : p[1] < p[2]}
<1>1. IsWellFoundedOn(R, Nat)
  BY NatLessThanWellFounded DEF OpToRel
<1>2. PICK m \in S : \A n \in S : ~ (<<n, m>> \in R)
  BY <1>1, WFMin
<1>3. ASSUME NEW n \in S
      PROVE  m <= n
  <2>1. m \in Nat /\ n \in Nat
    OBVIOUS
  <2>2. ~(n < m)
    BY <1>2, <2>1
  <2>3. QED
    BY <2>1, <2>2
<1>4. QED
  BY <1>3

\* Acker::update stops at a packet that is missing, and skips none.
LEMMA FirstMissingIs ==
    ASSUME NEW from \in 0..MaxData, NEW got \in SUBSET Sent
    PROVE  /\ FirstMissing(from, got) \in from..MaxData
           /\ \A k \in from..(FirstMissing(from, got) - 1) : k \in got
<1> DEFINE gaps == {m \in from..MaxData : m \notin got}
<1>1. MaxData \in Nat
  BY SenderAssumption
<1>2. MaxData \in gaps /\ gaps \in SUBSET Nat
  BY <1>1 DEF Sent
<1>3. PICK m \in gaps : \A n \in gaps : m <= n
  BY <1>2, LeastOf
<1>4. ASSUME NEW k \in from..(m - 1)
      PROVE  k \in got
  BY <1>1, <1>3
<1>5. m \in from..MaxData /\ m \notin got /\ \A k \in from..(m - 1) : k \in got
  BY <1>4
<1>6. QED
  BY <1>5 DEF FirstMissing

-----------------------------------------------------------------------------
(***************************************************************************)
(* Each action preserves the invariant.                                    *)
(***************************************************************************)
\* The sender's own steps: nothing the sink has is touched, and no acknowledgement is
\* added.
LEMMA AckStep ==
    ASSUME SenderInv, RecvAck
    PROVE  SenderInv'
<1>1. /\ TypeOK /\ Armed /\ AcksBehind
      /\ MaxData \in Nat /\ MaxData >= 2 /\ NumDupAcks \in Nat /\ MaxWnd \in Nat
  BY SenderAssumption DEF SenderInv
<1>2. /\ acks # <<>> /\ acks' = Tail(acks)
      /\ UNCHANGED <<phase, cwnd, curseq, seen, next_, losses>>
  BY DEF RecvAck
<1>3. Head(acks) \in Ack /\ Tail(acks) \in Seq(Ack) /\ Head(acks) < next_
      /\ \A i \in 1..Len(Tail(acks)) : Tail(acks)[i] < next_
  BY <1>1, <1>2 DEF TypeOK, AcksBehind, Ack
<1>4. phase # "idle" /\ rtx
  BY <1>1, <1>2 DEF Armed
<1>5. /\ t_seqno \in 0..MaxData /\ highest_ack \in Ack /\ Window(cwnd) \in Nat
      /\ curseq \in {0, 1, MaxData} /\ data \in Seq(Sent) /\ maxseq \in Ack
      /\ cwnd \in Nat /\ dupacks \in Nat /\ recover \in Ack /\ next_ \in 0..MaxData
  BY <1>1, WindowType DEF TypeOK, Sent, Ack
<1> DEFINE Goal == /\ data' \in Seq(Sent) /\ t_seqno' \in 0..MaxData
                   /\ maxseq' \in Ack /\ rtx' /\ rtx' \in BOOLEAN
                   /\ highest_ack' \in Ack /\ highest_ack' < next_
                   /\ dupacks' \in Nat /\ recover' \in Ack
<1>6. ASSUME Head(acks) > highest_ack, NewAck(Head(acks))
      PROVE  Goal
  <2> DEFINE ack == Head(acks)
             t == Greater(t_seqno, ack + 1)
  <2>1. t \in 0..MaxData /\ t > ack
    <3>1. /\ ack \in Int /\ t_seqno \in Int
          /\ ack + 1 \in 0..MaxData /\ ack + 1 \in Int
      BY <1>1, <1>3, <1>5 DEF Ack
    <3>2. t \in {t_seqno, ack + 1} /\ t >= ack + 1
      BY <3>1, GreaterType
    <3> HIDE DEF t, ack
    <3>3. t \in Int /\ t \in 0..MaxData
      BY <1>5, <3>1, <3>2
    <3>4. t > ack
      BY <3>1, <3>2, <3>3
    <3>5. QED
      BY <3>3, <3>4
  <2>2. NewTimer(ack, t)
    BY <2>1 DEF NewTimer
  <2>3. /\ SendMuch(t, ack, Window(cwnd), curseq, data, maxseq, NewTimer(ack, t))
        /\ highest_ack' = ack /\ dupacks' = 0 /\ recover' = recover
    BY <1>6 DEF NewAck, NewSeqno
  <2>4. SendMuch(t, ack, Window(cwnd), curseq, data, maxseq, TRUE)
    BY <2>2, <2>3 DEF SendMuch
  <2> HIDE DEF t
  <2>5. /\ data' \in Seq(Sent) /\ t_seqno' \in 0..MaxData
        /\ maxseq' \in Ack /\ rtx' /\ rtx' \in BOOLEAN
    <3>1. /\ t \in 0..MaxData /\ ack \in Ack /\ Window(cwnd) \in Nat
          /\ curseq \in {0, 1, MaxData} /\ data \in Seq(Sent) /\ maxseq \in Ack
      BY <1>3, <1>5, <2>1
    <3> HIDE DEF ack
    <3>2. QED
      BY <2>4, <3>1, SendMuchType
  <2>6. QED
    BY <1>3, <1>5, <2>3, <2>5
<1>7. ASSUME Head(acks) = highest_ack, DupAck
      PROVE  Goal
  <2>1. highest_ack' = highest_ack /\ dupacks' \in Nat /\ highest_ack < next_
    BY <1>3, <1>5, <1>7 DEF DupAck
  <2>2. CASE /\ recover' = maxseq
             /\ SendMuch(highest_ack + 1, highest_ack, Window(cwnd), curseq, data,
                         maxseq, TRUE)
    <3>1. highest_ack + 1 \in 0..MaxData
      BY <1>1, <1>5 DEF Ack
    <3>2. /\ data' \in Seq(Sent) /\ t_seqno' \in 0..MaxData
          /\ maxseq' \in Ack /\ rtx' /\ rtx' \in BOOLEAN
      <4>1. /\ highest_ack \in Ack /\ Window(cwnd) \in Nat
            /\ curseq \in {0, 1, MaxData} /\ data \in Seq(Sent) /\ maxseq \in Ack
        BY <1>5
      <4>2. QED
        BY <2>2, <3>1, <4>1, SendMuchType
    <3>3. QED
      BY <1>5, <2>1, <2>2, <3>2
  <2>3. CASE /\ recover' = recover /\ t_seqno < curseq
             /\ SendMuch(t_seqno + 1, highest_ack, Window(cwnd), curseq,
                         Append(data, t_seqno), Greater(maxseq, t_seqno), TRUE)
    <3>1. t_seqno + 1 \in 0..MaxData /\ t_seqno \in Sent
          /\ Greater(maxseq, t_seqno) \in Ack
      BY <1>1, <1>5, <2>3 DEF Ack, Sent, Greater
    <3>2. Append(data, t_seqno) \in Seq(Sent)
      BY <1>5, <3>1
    <3>3. /\ data' \in Seq(Sent) /\ t_seqno' \in 0..MaxData
          /\ maxseq' \in Ack /\ rtx' /\ rtx' \in BOOLEAN
      <4>1. /\ t_seqno + 1 \in 0..MaxData /\ highest_ack \in Ack
            /\ Window(cwnd) \in Nat /\ curseq \in {0, 1, MaxData}
            /\ Greater(maxseq, t_seqno) \in Ack
            /\ SendMuch(t_seqno + 1, highest_ack, Window(cwnd), curseq,
                        Append(data, t_seqno), Greater(maxseq, t_seqno), TRUE)
        BY <1>5, <2>3, <3>1
      <4>2. QED
        BY <3>2, <4>1, SendMuchType
    <3>4. QED
      BY <1>5, <2>1, <2>3, <3>3
  <2>4. CASE /\ recover' = recover
             /\ SendMuch(t_seqno, highest_ack, Window(cwnd), curseq, data, maxseq, rtx)
    <3>1. rtx \in BOOLEAN
      BY <1>1 DEF TypeOK
    <3>2. /\ data' \in Seq(Sent) /\ t_seqno' \in 0..MaxData
          /\ maxseq' \in Ack /\ rtx' \in BOOLEAN /\ (rtx => rtx')
      BY <1>5, <2>4, <3>1, SendMuchType
    <3>3. QED
      BY <1>4, <1>5, <2>1, <2>4, <3>2
  <2>5. QED
    BY <1>7, <2>2, <2>3, <2>4 DEF DupAck
<1>8. ASSUME Head(acks) < highest_ack, OldAck
      PROVE  Goal
  <2>1. /\ SendMuch(t_seqno, highest_ack, Window(cwnd), curseq, data, maxseq, rtx)
        /\ UNCHANGED <<highest_ack, recover, dupacks>> /\ rtx \in BOOLEAN
    BY <1>1, <1>8 DEF OldAck, TypeOK
  <2>2. /\ t_seqno \in 0..MaxData /\ highest_ack \in Ack /\ Window(cwnd) \in Nat
        /\ curseq \in {0, 1, MaxData} /\ data \in Seq(Sent) /\ maxseq \in Ack
    BY <1>5
  <2>3. /\ data' \in Seq(Sent) /\ t_seqno' \in 0..MaxData
        /\ maxseq' \in Ack /\ rtx' \in BOOLEAN /\ (rtx => rtx')
    BY <2>1, <2>2, SendMuchType
  <2>4. QED
    BY <1>1, <1>4, <1>5, <2>1, <2>3 DEF AcksBehind
<1>9. Goal
  BY <1>6, <1>7, <1>8 DEF RecvAck
<1> HIDE DEF Goal
<1>10. TypeOK'
  BY <1>1, <1>2, <1>3, <1>9 DEF TypeOK, Goal, Sent, Ack
<1>11. Armed' /\ AcksBehind'
  BY <1>1, <1>2, <1>3, <1>4, <1>9 DEF Armed, AcksBehind, Goal
<1>12. QED
  BY <1>10, <1>11 DEF SenderInv

LEMMA TimeoutStep ==
    ASSUME SenderInv, Timeout
    PROVE  SenderInv'
<1>1. /\ TypeOK /\ Armed /\ AcksBehind /\ MaxData \in Nat /\ MaxData >= 2
  BY SenderAssumption DEF SenderInv
<1> DEFINE win == Slowdown(Greater(cwnd, 1))
<1>2. /\ rtx /\ cwnd' = win /\ recover' = maxseq
      /\ SendMuch(highest_ack + 1, highest_ack, Window(win), curseq, data, maxseq, TRUE)
      /\ UNCHANGED <<phase, curseq, highest_ack, dupacks, acks, seen, next_, losses>>
  BY DEF Timeout
<1>3. win \in Nat
  BY <1>1 DEF TypeOK, Greater, Slowdown
<1>4. /\ highest_ack \in Ack /\ highest_ack + 1 \in 0..MaxData
      /\ curseq \in {0, 1, MaxData} /\ data \in Seq(Sent) /\ maxseq \in Ack
  BY <1>1 DEF TypeOK, Sent, Ack
<1>5. /\ data' \in Seq(Sent) /\ t_seqno' \in 0..MaxData
      /\ maxseq' \in Ack /\ rtx' /\ rtx' \in BOOLEAN
  BY <1>2, <1>3, <1>4, WindowType, SendMuchType
<1>6. phase # "idle"
  BY <1>1, <1>2 DEF Armed
<1> HIDE DEF win
<1>7. TypeOK'
  BY <1>1, <1>2, <1>3, <1>4, <1>5 DEF TypeOK, Sent, Ack
<1>8. Armed' /\ AcksBehind'
  BY <1>1, <1>2, <1>5, <1>6 DEF Armed, AcksBehind
<1>9. QED
  BY <1>7, <1>8 DEF SenderInv

\* The steps of the script: only FtpStart sends more than the probe.
LEMMA ScriptStep ==
    ASSUME SenderInv, Probe \/ FlowStart \/ Poll \/ FtpStart \/ FlowEnd
    PROVE  SenderInv'
<1>1. /\ TypeOK /\ Armed /\ AcksBehind /\ MaxData \in Nat /\ MaxData >= 2
  BY SenderAssumption DEF SenderInv
<1>2. CASE Probe
  <2>1. curseq' = 1 /\ maxseq' = 0 /\ rtx' = TRUE /\ data' = Append(data, 0)
        /\ phase' = "probed"
        /\ UNCHANGED <<cwnd, t_seqno, highest_ack, recover, dupacks, acks, seen, next_,
                       losses>>
    BY <1>1, <1>2 DEF Probe, Armed
  <2>2. data' \in Seq(Sent) /\ 0 \in Ack
    BY <1>1, <2>1 DEF TypeOK, Sent, Ack
  <2>3. TypeOK'
    BY <1>1, <2>1, <2>2 DEF TypeOK, Sent, Ack
  <2>4. Armed' /\ AcksBehind'
    BY <1>1, <2>1 DEF Armed, AcksBehind
  <2>5. QED
    BY <2>3, <2>4 DEF SenderInv
<1>3. CASE FlowStart \/ Poll \/ FlowEnd
  <2>1. /\ cwnd' \in Nat /\ phase # "idle" /\ phase' \in {"started", "ended"}
        /\ UNCHANGED <<curseq, t_seqno, maxseq, highest_ack, recover, dupacks, rtx,
                       data, acks, seen, next_, losses>>
    <3>1. CASE FlowStart
      BY <3>1, SenderAssumption DEF FlowStart
    <3>2. CASE Poll
      BY <3>2, SenderAssumption DEF Poll
    <3>3. CASE FlowEnd
      BY <3>3 DEF FlowEnd
    <3>4. QED
      BY <1>3, <3>1, <3>2, <3>3
  <2>2. TypeOK'
    BY <1>1, <2>1 DEF TypeOK
  <2>3. Armed' /\ AcksBehind'
    BY <1>1, <2>1 DEF Armed, AcksBehind
  <2>4. QED
    BY <2>2, <2>3 DEF SenderInv
<1>4. CASE FtpStart
  <2>1. /\ phase = "started" /\ curseq' = MaxData
        /\ SendMuch(t_seqno, highest_ack, Window(cwnd), MaxData, data, maxseq, rtx)
        /\ UNCHANGED <<phase, cwnd, highest_ack, recover, dupacks, acks, seen, next_,
                       losses>>
    BY <1>4 DEF FtpStart
  <2>2. /\ highest_ack \in Ack /\ t_seqno \in 0..MaxData /\ Window(cwnd) \in Nat
        /\ data \in Seq(Sent) /\ maxseq \in Ack /\ rtx \in BOOLEAN
        /\ MaxData \in {0, 1, MaxData}
    BY <1>1, WindowType DEF TypeOK, Sent, Ack
  <2>3. /\ data' \in Seq(Sent) /\ t_seqno' \in 0..MaxData
        /\ maxseq' \in Ack /\ rtx' \in BOOLEAN /\ (rtx => rtx')
    BY <2>1, <2>2, SendMuchType
  <2>4. TypeOK'
    BY <1>1, <2>1, <2>3 DEF TypeOK, Sent, Ack
  <2>5. Armed' /\ AcksBehind'
    BY <1>1, <2>1, <2>3 DEF Armed, AcksBehind
  <2>6. QED
    BY <2>4, <2>5 DEF SenderInv
<1>5. QED
  BY <1>2, <1>3, <1>4

\* The sink acknowledges only what it has.
LEMMA DataStep ==
    ASSUME SenderInv, RecvData
    PROVE  SenderInv'
<1> DEFINE got == seen \cup {Head(data)}
           first == FirstMissing(next_, got)
<1>1. /\ TypeOK /\ Armed /\ AcksBehind /\ MaxData \in Nat /\ MaxData >= 2
  BY SenderAssumption DEF SenderInv
<1>2. /\ data # <<>> /\ data' = Tail(data) /\ seen' = got
      /\ next_' = first /\ acks' = Append(acks, first - 1)
      /\ UNCHANGED <<sender, losses>>
  BY DEF RecvData, AckOf
<1>3. /\ data \in Seq(Sent) /\ acks \in Seq(Ack) /\ seen \subseteq Sent
      /\ next_ \in 0..MaxData
  BY <1>1 DEF TypeOK, Sent, Ack
<1>4. Head(data) \in Sent /\ Tail(data) \in Seq(Sent) /\ got \in SUBSET Sent
  BY <1>2, <1>3
<1>5. first \in next_..MaxData /\ \A k \in next_..(first - 1) : k \in got
  BY <1>3, <1>4, FirstMissingIs
<1> HIDE DEF first
<1>6. first - 1 \in Ack /\ next_ <= first /\ first \in 0..MaxData
  BY <1>1, <1>3, <1>5 DEF Ack
<1>7. acks' \in Seq(Ack)
  BY <1>2, <1>3, <1>6
<1>8. TypeOK'
  BY <1>1, <1>2, <1>4, <1>6, <1>7 DEF TypeOK, Sent, Ack, sender
<1>9. phase # "idle"
  BY <1>1, <1>2 DEF Armed
<1>10. Armed'
  BY <1>1, <1>2, <1>9 DEF Armed, sender
<1>11. ASSUME NEW k \in 0..(first - 1)
       PROVE  k \in got
  <2>1. CASE k < next_
    BY <1>1, <1>3, <1>6, <2>1 DEF AcksBehind
  <2>2. CASE ~(k < next_)
    BY <1>3, <1>5, <1>6, <2>2
  <2>3. QED
    BY <2>1, <2>2
<1>12. highest_ack' < first
  BY <1>1, <1>2, <1>3, <1>6 DEF AcksBehind, sender, TypeOK
<1>13. ASSUME NEW i \in 1..Len(acks')
       PROVE  acks'[i] < first
  <2>1. CASE i \in 1..Len(acks)
    <3>1. acks'[i] = acks[i] /\ acks[i] < next_ /\ acks[i] \in Int
      BY <1>1, <1>2, <1>3, <1>6, <2>1 DEF AcksBehind, Ack
    <3>2. QED
      BY <1>3, <1>6, <3>1
  <2>2. CASE i \notin 1..Len(acks)
    <3>1. acks'[i] = first - 1
      BY <1>2, <1>3, <1>6, <2>2
    <3>2. QED
      BY <1>6, <3>1
  <2>3. QED
    BY <2>1, <2>2
<1>14. QED
  BY <1>2, <1>8, <1>10, <1>11, <1>12, <1>13 DEF SenderInv, AcksBehind

LEMMA LoseStep ==
    ASSUME SenderInv, Lose
    PROVE  SenderInv'
<1>1. /\ TypeOK /\ Armed /\ AcksBehind /\ MaxLosses \in Nat
  BY SenderAssumption DEF SenderInv
<1>2. data \in Seq(Sent) /\ acks \in Seq(Ack)
  BY <1>1 DEF TypeOK, Sent, Ack
<1>3. /\ data' \in Seq(Sent) /\ acks' \in Seq(Ack) /\ losses' \in 0..MaxLosses
      /\ UNCHANGED <<sender, seen, next_>>
  <2>1. losses' \in 0..MaxLosses
    BY <1>1 DEF Lose, TypeOK
  <2>2. data' \in {data, Tail(data)} /\ (data' = data \/ data # <<>>)
        /\ acks' \in {acks, Tail(acks)} /\ (acks' = acks \/ acks # <<>>)
        /\ UNCHANGED <<sender, seen, next_>>
    BY DEF Lose
  <2>3. data # <<>> => Tail(data) \in Seq(Sent)
    BY <1>2
  <2>4. acks # <<>> => Tail(acks) \in Seq(Ack)
    BY <1>2
  <2>5. QED
    BY <1>2, <2>1, <2>2, <2>3, <2>4
<1>4. \A i \in 1..Len(acks') : acks'[i] < next_
  <2>1. CASE acks' = acks
    BY <1>1, <2>1 DEF AcksBehind
  <2>2. CASE acks # <<>> /\ acks' = Tail(acks)
    BY <1>1, <1>2, <2>2 DEF AcksBehind
  <2>3. QED
    BY <2>1, <2>2 DEF Lose
<1>5. phase # "idle"
  BY <1>1 DEF Lose, Armed
<1>6. TypeOK'
  BY <1>1, <1>3 DEF TypeOK, Sent, Ack, sender
<1>7. Armed' /\ AcksBehind'
  BY <1>1, <1>3, <1>4, <1>5 DEF Armed, AcksBehind, sender
<1>8. QED
  BY <1>6, <1>7 DEF SenderInv

LEMMA SenderStep == SenderInv /\ [Next]_vars => SenderInv'
<1> SUFFICES ASSUME SenderInv, [Next]_vars PROVE SenderInv'
  OBVIOUS
<1>1. CASE UNCHANGED vars
  BY <1>1 DEF SenderInv, TypeOK, Armed, AcksBehind, vars
<1>2. QED
  BY <1>1, ScriptStep, AckStep, TimeoutStep, DataStep, LoseStep DEF Next

LEMMA SenderStart == Init => SenderInv
<1> SUFFICES ASSUME Init PROVE SenderInv
  OBVIOUS
<1>1. TypeOK
  <2>1. MaxData \in Nat /\ MaxData >= 2 /\ InitWnd \in Nat /\ MaxLosses \in Nat
    BY SenderAssumption
  <2>2. /\ -1 \in Ack /\ 0 \in Ack /\ 0 \in 0..MaxData /\ 0 \in 0..MaxLosses
        /\ <<>> \in Seq(Sent) /\ <<>> \in Seq(Ack)
    BY <2>1 DEF Ack
  <2>3. QED
    BY <2>1, <2>2 DEF Init, TypeOK, Ack, Sent
<1>2. Armed
  BY DEF Init, Armed
<1>3. AcksBehind
  BY DEF Init, AcksBehind
<1>4. QED
  BY <1>1, <1>2, <1>3 DEF SenderInv

-----------------------------------------------------------------------------
\* The variables of the sender, the sink and the channels keep their types.
THEOREM SenderTypes == Spec => []TypeOK
<1>1. SenderInv => TypeOK
  BY DEF SenderInv
<1>2. QED
  BY <1>1, SenderStart, SenderStep, PTL DEF Spec

\* Nothing the sender takes for acknowledged is missing at the sink, for any window,
\* any losses and any retransmissions.
THEOREM AcknowledgedIsReceived == Spec => []AckedIsReceived
<1>1. ASSUME SenderInv
      PROVE  AckedIsReceived
  <2>1. /\ next_ \in Int /\ highest_ack \in Int /\ highest_ack < next_
        /\ 0..(next_ - 1) \subseteq seen /\ acks \in Seq(Ack)
        /\ \A i \in 1..Len(acks) : acks[i] < next_
    BY <1>1, SenderAssumption DEF SenderInv, TypeOK, AcksBehind, Ack
  <2>2. ASSUME NEW a \in Int, a < next_
        PROVE  0..a \subseteq seen
    BY <2>1, <2>2
  <2>3. \A i \in 1..Len(acks) : acks[i] \in Int
    <3>1. \A i \in 1..Len(acks) : acks[i] \in Ack
      BY <2>1
    <3>2. \A a \in Ack : a \in Int
      BY DEF Ack
    <3>3. QED
      BY <3>1, <3>2
  <2>4. QED
    BY <2>1, <2>2, <2>3 DEF AckedIsReceived
<1>2. QED
  BY <1>1, SenderStart, SenderStep, PTL DEF Spec

\* The retransmission timer is pending whenever something sent is not acknowledged or
\* data is left to send: the flow cannot be stuck behind a window of 0.
THEOREM TimerIsPending == Spec => []TimerCovers
<1>1. ASSUME SenderInv
      PROVE  TimerCovers
  BY <1>1 DEF SenderInv, Armed, TimerCovers
<1>2. QED
  BY <1>1, SenderStart, SenderStep, PTL DEF Spec

-----------------------------------------------------------------------------
\* The window before tcp_send is open.
OpenAtFirst == phase = "idle" => cwnd >= 1

LEMMA OpenStep ==
    ASSUME SenderInv, OpenAtFirst, [Next]_vars
    PROVE  OpenAtFirst'
<1>1. CASE UNCHANGED vars \/ Probe \/ FlowStart \/ Poll \/ FtpStart \/ FlowEnd
  BY <1>1 DEF OpenAtFirst, vars, Probe, FlowStart, Poll, FtpStart, FlowEnd
<1>2. CASE RecvAck \/ RecvData \/ Lose
  BY <1>2 DEF OpenAtFirst, RecvAck, RecvData, Lose, sender
<1>3. CASE Timeout
  <2>1. phase # "idle" /\ phase' = phase
    BY <1>3 DEF Timeout, SenderInv, Armed
  <2>2. QED
    BY <2>1 DEF OpenAtFirst
<1>4. QED
  BY <1>1, <1>2, <1>3 DEF Next

\* What send_much sends is within the window, unless it was sent before.
LEMMA SendMuchWithin ==
    ASSUME NEW t, NEW ack \in Int, NEW win \in Int, NEW cur \in Int, NEW sent,
           NEW top \in Int, NEW timer, SendMuch(t, ack, win, cur, sent, top, timer)
    PROVE  maxseq' = top \/ maxseq' <= ack + win
<1> DEFINE last == Allowed(ack, win, cur)
<1>1. last \in Int /\ last <= ack + win
  BY DEF Allowed, Lesser
<1>2. maxseq' = top \/ maxseq' = Greater(top, last)
  BY DEF SendMuch
<1> HIDE DEF last
<1>3. Greater(top, last) \in {top, last}
  BY DEF Greater
<1>4. QED
  BY <1>1, <1>2, <1>3

LEMMA WithinStep ==
    ASSUME SenderInv, OpenAtFirst, Next, maxseq' > maxseq
    PROVE  maxseq' <= highest_ack' + Window(cwnd') + dupacks'
<1> DEFINE m == maxseq'
<1>0. m \in Int
  BY SenderStep DEF SenderInv, TypeOK
<1> HIDE DEF m
<1> SUFFICES m <= highest_ack' + Window(cwnd') + dupacks'
  BY DEF m
<1>1. /\ maxseq \in Int /\ highest_ack \in Int /\ highest_ack >= -1 /\ t_seqno \in Int
      /\ dupacks \in Nat /\ cwnd \in Nat /\ curseq \in Int /\ MaxData \in Int
      /\ MaxWnd \in Nat /\ MaxWnd >= 1 /\ acks \in Seq(Ack)
  BY SenderAssumption DEF SenderInv, TypeOK, Ack
<1>2. Window(cwnd) \in Nat
  BY <1>1, WindowType
<1>3. m > maxseq /\ m # maxseq
  BY <1>1, <1>0 DEF m
<1>4. CASE Probe
  <2>1. /\ m = 0 /\ highest_ack' = highest_ack /\ cwnd' = cwnd /\ dupacks' = dupacks
        /\ cwnd >= 1
    BY <1>4 DEF Probe, OpenAtFirst, m
  <2>2. Window(cwnd) >= 1
    BY <1>1, <2>1 DEF Window, Lesser
  <2>3. 0 <= highest_ack + Window(cwnd) + dupacks
    BY <1>1, <1>2, <2>2
  <2>4. QED
    BY <2>1, <2>3
<1>5. CASE FlowStart \/ Poll \/ FlowEnd \/ RecvData \/ Lose
  <2>1. m = maxseq
    BY <1>5 DEF m, FlowStart, Poll, FlowEnd, RecvData, Lose, sender
  <2>2. QED
    BY <1>3, <2>1
<1>6. CASE FtpStart
  <2>1. /\ SendMuch(t_seqno, highest_ack, Window(cwnd), MaxData, data, maxseq, rtx)
        /\ highest_ack' = highest_ack /\ cwnd' = cwnd /\ dupacks' = dupacks
    BY <1>6 DEF FtpStart
  <2> DEFINE win == Window(cwnd)
  <2>2. m <= highest_ack + win
    <3>1. win \in Int
      BY <1>2
    <3> HIDE DEF win
    <3>2. SendMuch(t_seqno, highest_ack, win, MaxData, data, maxseq, rtx)
      BY <2>1 DEF win
    <3>3. m = maxseq \/ m <= highest_ack + win
      BY <1>1, <3>1, <3>2, SendMuchWithin DEF m
    <3>4. QED
      BY <1>3, <3>3
  <2>3. QED
    BY <1>0, <1>1, <1>2, <2>1, <2>2
<1>7. CASE Timeout
  <2> DEFINE c == Slowdown(Greater(cwnd, 1))
             win == Window(c)
  <2>1. /\ SendMuch(highest_ack + 1, highest_ack, win, curseq, data, maxseq, TRUE)
        /\ highest_ack' = highest_ack /\ cwnd' = c /\ dupacks' = dupacks
    BY <1>7 DEF Timeout
  <2>2. c \in Nat
    BY <1>1 DEF Slowdown, Greater
  <2> HIDE DEF c
  <2>3. win \in Nat
    BY <2>2, WindowType
  <2> HIDE DEF win
  <2>4. m = maxseq \/ m <= highest_ack + win
    <3> DEFINE on == TRUE
    <3>1. SendMuch(highest_ack + 1, highest_ack, win, curseq, data, maxseq, on)
      BY <2>1
    <3> HIDE DEF on
    <3>2. QED
      BY <1>1, <2>3, <3>1, SendMuchWithin DEF m
  <2>5. m <= highest_ack' + win + dupacks'
    BY <1>0, <1>1, <1>3, <2>1, <2>3, <2>4
  <2>6. QED
    BY <2>1, <2>5 DEF win
<1>8. CASE RecvAck
  <2> DEFINE win == Window(cwnd)
             ack == Head(acks)
  <2>1. cwnd' = cwnd /\ curseq' = curseq /\ win \in Nat /\ ack \in Int
    <3>1. ack \in Ack
      BY <1>1, <1>8 DEF RecvAck
    <3>2. QED
      BY <1>2, <1>8, <3>1 DEF RecvAck, Ack
  <2>2. CASE NewAck(ack)
    <3> DEFINE t == NewSeqno(ack)
               timer == NewTimer(ack, t)
    <3>1. /\ SendMuch(t, ack, win, curseq, data, maxseq, timer)
          /\ highest_ack' = ack /\ dupacks' = 0
      BY <2>2 DEF NewAck
    <3>2. t \in Int
      BY <1>1, <2>1 DEF NewSeqno, Greater
    <3> HIDE DEF t, timer, win
    <3>3. m = maxseq \/ m <= ack + win
      BY <1>1, <2>1, <3>1, <3>2, SendMuchWithin DEF m
    <3>4. m <= ack + win + 0
      BY <1>0, <1>3, <2>1, <3>3
    <3>5. QED
      BY <2>1, <3>1, <3>4 DEF win
  <2>3. CASE DupAck
    <3> DEFINE d == dupacks + 1
               one == /\ d < NumDupAcks
                      /\ t_seqno <= highest_ack + Lesser(MaxWnd, cwnd + d)
                      /\ t_seqno < curseq
    <3>1. dupacks' = d /\ highest_ack' = highest_ack /\ d \in Nat
      BY <1>1, <2>3 DEF DupAck
    <3>2. \/ SendMuch(highest_ack + 1, highest_ack, win, curseq, data, maxseq, TRUE)
          \/ /\ one
             /\ SendMuch(t_seqno + 1, highest_ack, win, curseq, Append(data, t_seqno),
                         Greater(maxseq, t_seqno), TRUE)
          \/ SendMuch(t_seqno, highest_ack, win, curseq, data, maxseq, rtx)
      BY <2>3 DEF DupAck
    <3>3. one => t_seqno <= highest_ack + win + d
      BY <1>1, <3>1 DEF Lesser, Window
    <3> HIDE DEF one, win, d
    <3>4. m <= highest_ack + win + d
      <4>1. CASE \/ SendMuch(highest_ack + 1, highest_ack, win, curseq, data, maxseq, TRUE)
                 \/ SendMuch(t_seqno, highest_ack, win, curseq, data, maxseq, rtx)
        <5> DEFINE on == TRUE
        <5>1. \/ SendMuch(highest_ack + 1, highest_ack, win, curseq, data, maxseq, on)
              \/ SendMuch(t_seqno, highest_ack, win, curseq, data, maxseq, rtx)
          BY <4>1
        <5> HIDE DEF on
        <5>2. m = maxseq \/ m <= highest_ack + win
          BY <1>1, <2>1, <5>1, SendMuchWithin DEF m
        <5>3. QED
          BY <1>0, <1>1, <1>3, <2>1, <3>1, <5>2
      <4>2. CASE /\ one
                 /\ SendMuch(t_seqno + 1, highest_ack, win, curseq, Append(data, t_seqno),
                             Greater(maxseq, t_seqno), TRUE)
        <5> DEFINE top == Greater(maxseq, t_seqno)
                   sent == Append(data, t_seqno)
                   on == TRUE
        <5>1. top \in Int /\ top \in {maxseq, t_seqno}
          BY <1>1 DEF Greater
        <5>2. SendMuch(t_seqno + 1, highest_ack, win, curseq, sent, top, on)
          BY <4>2
        <5> HIDE DEF top, sent, on
        <5>3. m = top \/ m <= highest_ack + win
          BY <1>1, <2>1, <5>1, <5>2, SendMuchWithin DEF m
        <5>4. CASE m = t_seqno
          BY <3>3, <4>2, <5>4
        <5>5. CASE m <= highest_ack + win
          BY <1>0, <1>1, <1>3, <2>1, <3>1, <5>5
        <5>6. QED
          BY <1>3, <5>1, <5>3, <5>4, <5>5
      <4>3. QED
        BY <3>2, <4>1, <4>2
    <3>5. QED
      BY <2>1, <3>1, <3>4 DEF win
  <2>4. CASE OldAck
    <3>1. /\ SendMuch(t_seqno, highest_ack, win, curseq, data, maxseq, rtx)
          /\ highest_ack' = highest_ack /\ dupacks' = dupacks
      BY <2>4 DEF OldAck
    <3> HIDE DEF win
    <3>2. m = maxseq \/ m <= highest_ack + win
      BY <1>1, <2>1, <3>1, SendMuchWithin DEF m
    <3>3. m <= highest_ack + win + dupacks
      BY <1>0, <1>1, <1>3, <2>1, <3>2
    <3>4. QED
      BY <2>1, <3>1, <3>3 DEF win
  <2>5. QED
    BY <1>8, <2>2, <2>3, <2>4 DEF RecvAck
<1>9. QED
  BY <1>4, <1>5, <1>6, <1>7, <1>8 DEF Next

\* New data is sent only within the window, and one packet more for each duplicate
\* acknowledgement, whatever windows the controller sets and whatever is lost, also after
\* the flow has ended (send_much, send_one, TcpAgent::timeout).
THEOREM NewDataWithinWindow == Spec => WithinWindow
<1>1. Init => OpenAtFirst
  BY SenderAssumption DEF Init, OpenAtFirst
<1>2. SenderInv /\ OpenAtFirst /\ [Next]_vars => OpenAtFirst'
  BY OpenStep
<1>3. SenderInv /\ OpenAtFirst /\ [Next]_vars
        => [maxseq' > maxseq => maxseq' <= highest_ack' + Window(cwnd') + dupacks']_vars
  BY WithinStep
<1>4. QED
  BY <1>1, <1>2, <1>3, SenderStart, SenderStep, PTL DEF Spec, WithinWindow
=============================================================================
