-------------------------- MODULE LinkQueueProofs --------------------------
(***************************************************************************)
(* Proofs about LinkQueue, for any packets, delays, limits and             *)
(* transmission times, among them that it implements LossyFifo.            *)
(***************************************************************************)
EXTENDS LinkQueue, TLAPS, SequenceTheorems

Arriving == [pkt : Packet, due : Nat]

\* No arrival lies beyond the horizon: the latest arrival that LinkDelay remembers or,
\* with a fixed delay, a delay after the end of the transmission under way.
Left == IF intr = <<>> THEN 0 ELSE intr[1]
Horizon == IF AvoidReordering THEN latest ELSE delay + Left
WithinHorizon == KeepsOrder => \A i \in DOMAIN wire : wire[i].due <= Horizon

LinkInv == TypeOK /\ Busy /\ WireInOrder /\ WithinHorizon

-----------------------------------------------------------------------------
\* Numbers: what the assumption says of the values in use.
LEMMA LinkNumbers ==
    ASSUME TypeOK
    PROVE  delay \in Nat /\ qlim \in Nat /\ TxTimes \subseteq Nat
BY LinkAssumption DEF TypeOK

LEMMA NotEmpty ==
    ASSUME NEW S, NEW s \in Seq(S), s # <<>>
    PROVE  Len(s) \in Nat /\ Len(s) >= 1 /\ s[1] \in S /\ Head(s) = s[1]
OBVIOUS

LEMMA OneElement ==
    ASSUME NEW S, NEW s \in Seq(S), Len(s) = 1
    PROVE  Tail(s) = <<>>
<1>1. s # <<>>
  BY EmptySeq
<1>2. Tail(s) = SubSeq(s, 2, Len(s))
  BY <1>1, TailIsSubSeq
<1>3. QED
  BY <1>2, SubSeqEmpty

\* LinkDelay::recv, called when no end of transmission is pending.
LEMMA LinkRecvStep ==
    ASSUME LinkInv, Left = 0, NEW p \in Packet, LinkRecv(p, <<>>), delay' = delay
    PROVE  /\ wire' \in Seq(Arriving) /\ latest' \in Nat
           /\ intr' \in Seq(Nat) /\ Len(intr') = 1
           /\ WireInOrder' /\ WithinHorizon'
<1>1. /\ TypeOK /\ WireInOrder /\ WithinHorizon
      /\ wire \in Seq(Arriving) /\ latest \in Nat /\ delay \in Nat
  BY LinkNumbers DEF LinkInv, TypeOK, Arriving
<1>2. PICK txt \in TxTimes :
         /\ wire' = Append(wire, [pkt |-> p, due |-> Arrival(txt)])
         /\ latest' = IF AvoidReordering THEN Arrival(txt) ELSE latest
         /\ intr' = Append(<<>>, txt)
  BY DEF LinkRecv
<1>3. txt \in Nat
  BY <1>1, LinkNumbers
<1> DEFINE a == Arrival(txt)
<1>4. /\ a \in Nat
      /\ AvoidReordering => a >= latest
      /\ ~AvoidReordering => a = txt + delay
  BY <1>1, <1>3 DEF Arrival
<1>5. intr' = <<txt>>
  BY <1>2
<1> HIDE DEF a
<1>6. wire' \in Seq(Arriving) /\ latest' \in Nat /\ intr' \in Seq(Nat) /\ Len(intr') = 1
  BY <1>1, <1>2, <1>3, <1>4, <1>5 DEF Arriving, a
<1>7. /\ Len(wire') = Len(wire) + 1 /\ Len(wire) \in Nat
      /\ \A i \in 1..Len(wire) : wire'[i] = wire[i] /\ wire[i].due \in Nat
      /\ wire'[Len(wire) + 1].due = a
      /\ DOMAIN wire = 1..Len(wire) /\ DOMAIN wire' = 1..(Len(wire) + 1)
  <2> DEFINE r == [pkt |-> p, due |-> a]
  <2>1. r \in Arriving /\ r.due = a
    BY <1>4 DEF Arriving
  <2>2. wire' = Append(wire, r)
    BY <1>2 DEF a
  <2> HIDE DEF r
  <2>3. /\ Len(wire') = Len(wire) + 1 /\ Len(wire) \in Nat
        /\ DOMAIN wire = 1..Len(wire) /\ DOMAIN wire' = 1..(Len(wire) + 1)
        /\ wire'[Len(wire) + 1] = r
    BY <1>1, <2>1, <2>2
  <2>4. \A i \in 1..Len(wire) : wire'[i] = wire[i] /\ wire[i] \in Arriving
    BY <1>1, <2>1, <2>2
  <2>5. \A x \in Arriving : x.due \in Nat
    BY DEF Arriving
  <2>6. QED
    BY <2>1, <2>3, <2>4, <2>5
<1>8. ASSUME KeepsOrder, NEW i \in 1..Len(wire)
      PROVE  wire[i].due <= a
  <2>1. wire[i].due <= Horizon /\ wire[i].due \in Nat
    BY <1>1, <1>7, <1>8 DEF WithinHorizon
  <2>2. Horizon \in Nat /\ Horizon <= a
    BY <1>1, <1>3, <1>4 DEF Horizon
  <2>3. QED
    BY <1>4, <2>1, <2>2
<1>9. WireInOrder'
  <2> SUFFICES ASSUME KeepsOrder, NEW i \in 1..(Len(wire) + 1),
                      NEW j \in 1..(Len(wire) + 1), i < j
               PROVE  wire'[i].due <= wire'[j].due
    BY <1>7 DEF WireInOrder, KeepsOrder
  <2>1. i \in 1..Len(wire)
    BY <1>7
  <2>2. CASE j = Len(wire) + 1
    BY <1>7, <1>8, <2>1, <2>2
  <2>3. CASE j # Len(wire) + 1
    <3>1. j \in 1..Len(wire)
      BY <1>7, <2>3
    <3>2. QED
      BY <1>1, <1>7, <2>1, <3>1 DEF WireInOrder
  <2>4. QED
    BY <2>2, <2>3
<1>10. Horizon' = a
  BY <1>2, <1>4, <1>5, <1>1, <1>3 DEF Horizon, Left, a
<1>11. WithinHorizon'
  <2> SUFFICES ASSUME KeepsOrder, NEW i \in 1..(Len(wire) + 1)
               PROVE  wire'[i].due <= a
    BY <1>7, <1>10 DEF WithinHorizon, KeepsOrder
  <2>1. CASE i = Len(wire) + 1
    BY <1>4, <1>7, <2>1
  <2>2. CASE i # Len(wire) + 1
    <3>1. i \in 1..Len(wire)
      BY <1>7, <2>2
    <3>2. QED
      BY <1>7, <1>8, <3>1
  <2>3. QED
    BY <2>1, <2>2
<1>12. QED
  BY <1>6, <1>9, <1>11

\* Steps that leave the link's events alone.
LEMMA WireUntouched ==
    ASSUME LinkInv, UNCHANGED <<intr, wire, latest>>,
           delay' = delay \/ (AvoidReordering \/ ~KeepsOrder)
    PROVE  WireInOrder' /\ WithinHorizon'
<1>1. WireInOrder'
  BY DEF LinkInv, WireInOrder, KeepsOrder
<1>2. KeepsOrder' = KeepsOrder /\ (KeepsOrder => Horizon' = Horizon)
  BY DEF KeepsOrder, Horizon, Left
<1>3. WithinHorizon'
  BY <1>2 DEF LinkInv, WithinHorizon
<1>4. QED
  BY <1>1, <1>3

LEMMA RecvStep ==
    ASSUME LinkInv, NEW p \in Packet, Recv(p)
    PROVE  LinkInv'
<1> DEFINE s == Enqued(p)
<1>1. TypeOK /\ Busy /\ q \in Seq(Packet) /\ intr \in Seq(Nat)
  BY DEF LinkInv, TypeOK
<1>2. s \in Seq(Packet)
  BY <1>1 DEF Enqued
<1>3. delay' = delay /\ qlim' = qlim /\ drop_front' = drop_front
  BY DEF Recv
<1>4. CASE ~blocked /\ s # <<>>
  <2>1. q' = Tail(s) /\ blocked' = TRUE /\ LinkRecv(Head(s), intr)
    BY <1>4 DEF Recv
  <2>2. intr = <<>>
    BY <1>1, <1>4 DEF Busy
  <2>3. Left = 0
    BY <2>2 DEF Left
  <2>4. Head(s) \in Packet /\ Tail(s) \in Seq(Packet)
    BY <1>2, <1>4
  <2>5. LinkRecv(Head(s), <<>>)
    BY <2>1, <2>2
  <2> HIDE DEF s
  <2>6. /\ wire' \in Seq(Arriving) /\ latest' \in Nat
        /\ intr' \in Seq(Nat) /\ Len(intr') = 1
        /\ WireInOrder' /\ WithinHorizon'
    BY <1>3, <2>3, <2>4, <2>5, LinkRecvStep
  <2>7. QED
    BY <1>1, <1>3, <2>1, <2>4, <2>6 DEF LinkInv, TypeOK, Busy, Arriving
<1>5. CASE ~(~blocked /\ s # <<>>)
  <2>1. q' = s /\ UNCHANGED <<blocked, intr, wire, latest>>
    BY <1>5 DEF Recv
  <2> HIDE DEF s
  <2>2. QED
    BY <1>1, <1>2, <1>3, <2>1, WireUntouched DEF LinkInv, TypeOK, Busy
<1>6. QED
  BY <1>4, <1>5

LEMMA ResumeStep ==
    ASSUME LinkInv, Resume
    PROVE  LinkInv'
<1>1. /\ TypeOK /\ Busy /\ q \in Seq(Packet) /\ intr \in Seq(Nat) /\ blocked \in BOOLEAN
      /\ intr # <<>> /\ Head(intr) = 0 /\ delay' = delay /\ qlim' = qlim /\ drop_front' = drop_front
  BY DEF LinkInv, TypeOK, Resume
<1>2. blocked /\ Len(intr) = 1
  BY <1>1 DEF Busy
<1>3. Tail(intr) = <<>> /\ Left = 0
  <2>1. Tail(intr) = <<>>
    BY <1>1, <1>2, OneElement
  <2>2. Left = 0
    BY <1>1, NotEmpty DEF Left
  <2>3. QED
    BY <2>1, <2>2
<1>4. CASE q # <<>>
  <2>1. q' = Tail(q) /\ LinkRecv(Head(q), <<>>) /\ blocked' = blocked
    BY <1>3, <1>4 DEF Resume
  <2>2. Head(q) \in Packet /\ Tail(q) \in Seq(Packet)
    BY <1>1, <1>4
  <2>3. /\ wire' \in Seq(Arriving) /\ latest' \in Nat
        /\ intr' \in Seq(Nat) /\ Len(intr') = 1
        /\ WireInOrder' /\ WithinHorizon'
    BY <1>1, <1>3, <2>1, <2>2, LinkRecvStep
  <2>4. TypeOK'
    BY <1>1, <2>1, <2>2, <2>3 DEF TypeOK, Arriving
  <2>5. Busy'
    BY <1>2, <2>1, <2>3 DEF Busy
  <2>6. QED
    BY <2>3, <2>4, <2>5 DEF LinkInv
<1>5. CASE q = <<>>
  <2>1. blocked' = FALSE /\ intr' = <<>> /\ UNCHANGED <<q, wire, latest>>
    BY <1>3, <1>5 DEF Resume
  <2>2. WireInOrder'
    BY <2>1 DEF LinkInv, WireInOrder, KeepsOrder
  <2>3. KeepsOrder' = KeepsOrder /\ Horizon' = Horizon
    BY <1>1, <1>3, <2>1 DEF KeepsOrder, Horizon, Left
  <2>4. WithinHorizon'
    BY <2>1, <2>3 DEF LinkInv, WithinHorizon
  <2>5. TypeOK'
    <3>1. blocked' \in BOOLEAN
      BY <2>1
    <3>2. intr' \in Seq(Nat)
      BY <2>1
    <3>3. QED
      BY <1>1, <2>1, <3>1, <3>2 DEF TypeOK
  <2>6. Busy'
    BY <2>1 DEF Busy
  <2>7. QED
    BY <2>2, <2>4, <2>5, <2>6 DEF LinkInv
<1>6. QED
  BY <1>4, <1>5

LEMMA DeliverStep ==
    ASSUME LinkInv, Deliver
    PROVE  LinkInv'
<1>1. /\ TypeOK /\ Busy /\ WireInOrder /\ WithinHorizon
      /\ wire \in Seq(Arriving) /\ Len(wire) \in Nat /\ DOMAIN wire = 1..Len(wire)
  BY DEF LinkInv, TypeOK, Arriving
<1>2. PICK i \in DOMAIN wire :
         wire' = [k \in 1..(Len(wire) - 1) |-> IF k < i THEN wire[k] ELSE wire[k + 1]]
  BY DEF Deliver
<1>3. UNCHANGED <<q, blocked, intr, latest, delay, qlim, drop_front>>
  BY DEF Deliver
<1> DEFINE at(k) == IF k < i THEN k ELSE k + 1
<1>4. /\ \A k \in 1..(Len(wire) - 1) : at(k) \in 1..Len(wire) /\ wire'[k] = wire[at(k)]
      /\ \A k, m \in 1..(Len(wire) - 1) : k < m => at(k) < at(m)
      /\ Len(wire) - 1 \in Nat
  BY <1>1, <1>2
<1>5. wire' \in Seq(Arriving) /\ DOMAIN wire' = 1..(Len(wire) - 1)
  <2>1. \A k \in 1..(Len(wire) - 1) : wire[at(k)] \in Arriving
    BY <1>1, <1>4
  <2>2. wire' = [k \in 1..(Len(wire) - 1) |-> wire[at(k)]]
    BY <1>2
  <2> HIDE DEF at
  <2>3. QED
    BY <1>4, <2>1, <2>2
<1> HIDE DEF at
<1>6. WireInOrder'
  <2> SUFFICES ASSUME KeepsOrder, NEW k \in 1..(Len(wire) - 1),
                      NEW m \in 1..(Len(wire) - 1), k < m
               PROVE  wire'[k].due <= wire'[m].due
    BY <1>5 DEF WireInOrder, KeepsOrder
  <2>1. /\ at(k) \in DOMAIN wire /\ at(m) \in DOMAIN wire /\ at(k) < at(m)
        /\ wire'[k] = wire[at(k)] /\ wire'[m] = wire[at(m)]
    BY <1>1, <1>4
  <2>2. QED
    BY <1>1, <2>1 DEF WireInOrder
<1>7. KeepsOrder' = KeepsOrder /\ Horizon' = Horizon
  BY <1>3 DEF KeepsOrder, Horizon, Left
<1>8. WithinHorizon'
  <2> SUFFICES ASSUME KeepsOrder, NEW k \in 1..(Len(wire) - 1)
               PROVE  wire'[k].due <= Horizon
    BY <1>5, <1>7 DEF WithinHorizon
  <2>1. at(k) \in DOMAIN wire /\ wire'[k] = wire[at(k)]
    BY <1>1, <1>4
  <2>2. QED
    BY <1>1, <2>1 DEF WithinHorizon
<1>9. QED
  BY <1>1, <1>3, <1>5, <1>6, <1>8 DEF LinkInv, TypeOK, Busy, Arriving

LEMMA TickStep ==
    ASSUME LinkInv, Tick
    PROVE  LinkInv'
<1>1. /\ TypeOK /\ Busy /\ WireInOrder /\ WithinHorizon
      /\ wire \in Seq(Arriving) /\ Len(wire) \in Nat /\ DOMAIN wire = 1..Len(wire)
      /\ intr \in Seq(Nat) /\ Len(intr) \in Nat /\ DOMAIN intr = 1..Len(intr)
      /\ latest \in Nat /\ delay \in Nat
  BY LinkNumbers DEF LinkInv, TypeOK, Arriving
<1>2. /\ \A i \in 1..Len(wire) : wire[i].due > 0
      /\ \A i \in 1..Len(intr) : intr[i] > 0
      /\ wire' = [i \in 1..Len(wire) |-> [wire[i] EXCEPT !.due = @ - 1]]
      /\ intr' = [i \in 1..Len(intr) |-> intr[i] - 1]
      /\ latest' = IF latest > 0 THEN latest - 1 ELSE 0
      /\ UNCHANGED <<q, blocked, delay, qlim, drop_front, out>>
  BY <1>1 DEF Tick
<1>3. \A i \in 1..Len(wire) : /\ wire[i].due \in Nat /\ wire'[i] \in Arriving
                              /\ wire'[i].due = wire[i].due - 1
  <2> TAKE i \in 1..Len(wire)
  <2>1. wire[i] \in Arriving /\ wire[i].due \in Nat /\ wire[i].due > 0
    <3>1. wire[i] \in Arriving
      BY <1>1
    <3>2. QED
      BY <1>2, <3>1 DEF Arriving
  <2>2. wire'[i] = [wire[i] EXCEPT !.due = @ - 1]
    BY <1>2
  <2>3. QED
    BY <2>1, <2>2 DEF Arriving
<1>4. wire' \in Seq(Arriving) /\ DOMAIN wire' = 1..Len(wire)
  <2>1. DOMAIN wire' = 1..Len(wire) /\ wire' = [i \in 1..Len(wire) |-> wire'[i]]
    BY <1>2
  <2>2. QED
    BY <1>1, <1>3, <2>1
<1>5. intr' \in Seq(Nat) /\ Len(intr') = Len(intr)
  <2>1. \A i \in 1..Len(intr) : intr[i] - 1 \in Nat
    BY <1>1, <1>2
  <2>2. QED
    BY <1>1, <1>2, <2>1
<1>6. WireInOrder'
  <2> SUFFICES ASSUME KeepsOrder, NEW i \in 1..Len(wire), NEW j \in 1..Len(wire), i < j
               PROVE  wire'[i].due <= wire'[j].due
    BY <1>4 DEF WireInOrder, KeepsOrder
  <2>1. wire[i].due <= wire[j].due
    BY <1>1 DEF WireInOrder
  <2>2. QED
    BY <1>3, <2>1
<1>7. Left \in Nat /\ Left' \in Nat /\ Left' >= Left - 1
  <2>1. CASE intr = <<>>
    <3>1. intr' = <<>>
      BY <1>5, <2>1
    <3>2. QED
      BY <2>1, <3>1 DEF Left
  <2>2. CASE intr # <<>>
    <3>1. 1 \in 1..Len(intr) /\ intr[1] \in Nat /\ intr[1] > 0
      <4>1. intr[1] \in Nat /\ 1 \in 1..Len(intr)
        BY <1>1, <2>2, NotEmpty
      <4>2. QED
        BY <1>2, <4>1
    <3>2. intr'[1] = intr[1] - 1 /\ intr' # <<>>
      BY <1>1, <1>2, <1>5, <3>1
    <3>3. QED
      BY <2>2, <3>1, <3>2 DEF Left
  <2>3. QED
    BY <2>1, <2>2
<1>8. WithinHorizon'
  <2> SUFFICES ASSUME KeepsOrder, NEW i \in 1..Len(wire)
               PROVE  wire'[i].due <= Horizon'
    BY <1>4 DEF WithinHorizon, KeepsOrder
  <2>1. wire[i].due <= Horizon
    BY <1>1 DEF WithinHorizon
  <2>2. wire[i].due \in Nat /\ wire'[i].due = wire[i].due - 1 /\ wire[i].due > 0
    BY <1>2, <1>3
  <2>3. Horizon \in Nat /\ Horizon' \in Nat /\ Horizon' >= Horizon - 1
    <3>1. CASE AvoidReordering
      BY <1>1, <1>2, <3>1 DEF Horizon
    <3>2. CASE ~AvoidReordering
      BY <1>1, <1>2, <1>7, <3>2 DEF Horizon
    <3>3. QED
      BY <3>1, <3>2
  <2>4. QED
    BY <2>1, <2>2, <2>3
<1>9. QED
  BY <1>1, <1>2, <1>4, <1>5, <1>6, <1>8 DEF LinkInv, TypeOK, Busy, Arriving

\* Steps of the queue or the script alone.
LEMMA QuietStep ==
    ASSUME LinkInv,
           \/ Reset \/ ShrinkQueue \/ SetDropFront \/ UNCHANGED vars
           \/ \E d \in Delays : SetDelay(d)
           \/ \E n \in Limits : SetLimit(n)
    PROVE  LinkInv'
<1>1. /\ TypeOK /\ Busy /\ q \in Seq(Packet) /\ Len(q) \in Nat /\ qlim \in Nat
      /\ delay \in Delays
  BY LinkNumbers DEF LinkInv, TypeOK
<1>2. UNCHANGED <<intr, wire, latest, blocked>>
  BY DEF Reset, ShrinkQueue, SetDelay, SetLimit, SetDropFront, vars
<1>3. delay' \in Delays /\ qlim' \in Limits
      /\ (delay' = delay \/ (AvoidReordering \/ ~KeepsOrder))
  BY <1>1 DEF Reset, ShrinkQueue, SetDelay, SetLimit, SetDropFront, vars, TypeOK, KeepsOrder
<1>4. q' \in Seq(Packet)
  <2>1. CASE ShrinkQueue
    <3>1. /\ SubSeq(q, Len(q) - qlim + 1, Len(q)) \in Seq(Packet)
          /\ SubSeq(q, 1, qlim) \in Seq(Packet)
      BY <1>1, <2>1 DEF ShrinkQueue
    <3>2. QED
      BY <2>1, <3>1 DEF ShrinkQueue
  <2>2. CASE Reset
    BY <2>2 DEF Reset
  <2>3. QED
    BY <1>1, <2>1, <2>2 DEF SetDelay, SetLimit, SetDropFront, vars
<1>5. WireInOrder' /\ WithinHorizon'
  BY <1>2, <1>3, WireUntouched
<1>6. drop_front' \in BOOLEAN
  BY <1>1 DEF TypeOK, Reset, ShrinkQueue, SetDelay, SetLimit, SetDropFront, vars
<1>7. QED
  BY <1>1, <1>2, <1>3, <1>4, <1>5, <1>6 DEF LinkInv, TypeOK, Busy

-----------------------------------------------------------------------------
\* LinkInv is inductive.
THEOREM LinkInvariant == Spec => []LinkInv
<1>1. Init => LinkInv
  <2> SUFFICES ASSUME Init
               PROVE  LinkInv
    OBVIOUS
  <2>1. TypeOK
    <3>1. q \in Seq(Packet) /\ intr \in Seq(Nat) /\ wire \in Seq([pkt : Packet, due : Nat])
      BY DEF Init
    <3>2. blocked \in BOOLEAN
      BY DEF Init
    <3>3. latest \in Nat /\ delay \in Delays /\ qlim \in Limits
      BY DEF Init
    <3>4. drop_front \in BOOLEAN
      BY DEF Init
    <3>5. QED
      BY <3>1, <3>2, <3>3, <3>4 DEF TypeOK
  <2>2. Busy
    BY DEF Init, Busy
  <2>3. WireInOrder /\ WithinHorizon
    BY DEF Init, WireInOrder, WithinHorizon
  <2>4. QED
    BY <2>1, <2>2, <2>3 DEF LinkInv
<1>2. LinkInv /\ [Next]_vars => LinkInv'
  BY RecvStep, ResumeStep, DeliverStep, TickStep, QuietStep DEF Next
<1>3. QED
  BY <1>1, <1>2, PTL DEF Spec

\* The variables of a link keep their types, whatever a script sets.
THEOREM LinkTypes == Spec => []TypeOK
BY LinkInvariant, PTL DEF LinkInv

\* A queue is blocked exactly while its link transmits: it never stays blocked and the
\* scheduler never gets intr_ twice (Queue::recv, Queue::resume, LinkDelay::recv).
THEOREM BlockedWhileSending == Spec => []Busy
BY LinkInvariant, PTL DEF LinkInv

\* With a fixed delay, or with avoidReordering_, packets arrive in the order in which
\* LinkDelay::recv got them.
THEOREM NoOvertaking == Spec => []WireInOrder
BY LinkInvariant, PTL DEF LinkInv

-----------------------------------------------------------------------------
\* Nothing waits in the queue of a link that does not transmit.
NothingWaits == ~blocked => q = <<>>

LEMMA NothingWaitsStep ==
    ASSUME TypeOK, NothingWaits, [Next]_vars
    PROVE  NothingWaits'
<1>1. q \in Seq(Packet) /\ qlim \in Nat
  BY LinkNumbers DEF TypeOK
<1>2. ASSUME NEW p \in Packet, Recv(p)
      PROVE  NothingWaits'
  <2>1. CASE ~blocked /\ Enqued(p) # <<>>
    BY <1>2, <2>1 DEF Recv, NothingWaits
  <2>2. CASE blocked \/ Enqued(p) = <<>>
    BY <1>2, <2>2 DEF Recv, NothingWaits
  <2>3. QED
    BY <2>1, <2>2
<1>3. CASE Resume
  BY <1>1, <1>3 DEF Resume, NothingWaits
<1>4. CASE Deliver
  BY <1>4 DEF Deliver, NothingWaits
<1>5. CASE Tick
  BY <1>5 DEF Tick, NothingWaits
<1>6. CASE Reset
  BY <1>6 DEF Reset, NothingWaits
<1>7. CASE ShrinkQueue
  <2>1. Len(q) > 0
    BY <1>1, <1>7 DEF ShrinkQueue
  <2>2. blocked /\ blocked' = blocked
    BY <1>7, <2>1 DEF ShrinkQueue, NothingWaits
  <2>3. QED
    BY <2>2 DEF NothingWaits
<1>8. CASE UNCHANGED vars \/ SetDropFront \/ (\E d \in Delays : SetDelay(d))
            \/ (\E n \in Limits : SetLimit(n))
  BY <1>8 DEF vars, SetDropFront, SetDelay, SetLimit, NothingWaits
<1>9. QED
  BY <1>2, <1>3, <1>4, <1>5, <1>6, <1>7, <1>8 DEF Next

\* An idle link never drops a packet, whatever limit above one a script sets and
\* whenever it sets it (Queue::recv, DropTail::enque).
THEOREM IdleNeverDrops == Spec => []IdleAccepts
<1>1. Init => NothingWaits
  BY DEF Init, NothingWaits
<1>2. TypeOK /\ NothingWaits /\ [Next]_vars => NothingWaits'
  BY NothingWaitsStep
<1>3. TypeOK /\ NothingWaits => IdleAccepts
  <2> SUFFICES ASSUME TypeOK, NothingWaits, ~blocked, qlim > 1, NEW p \in Packet
               PROVE  \E i \in DOMAIN Enqued(p) : Enqued(p)[i] = p
    BY DEF IdleAccepts
  <2>1. q = <<>> /\ qlim \in Nat
    BY LinkNumbers DEF NothingWaits
  <2>2. Enqued(p) = <<p>>
    BY <2>1 DEF Enqued
  <2>3. QED
    BY <2>2
<1>4. QED
  BY <1>1, <1>2, <1>3, LinkTypes, PTL DEF Spec

-----------------------------------------------------------------------------
(***************************************************************************)
(* The link implements LossyFifo: the packets on the wire, and after them  *)
(* those that wait, are the channel.                                       *)
(***************************************************************************)
ChanOf(w, s) == [i \in 1..Len(w) |-> w[i].pkt] \o s

LEMMA ChanFacts ==
    ASSUME NEW w \in Seq(Arriving), NEW s \in Seq(Packet)
    PROVE  /\ ChanOf(w, s) \in Seq(Packet)
           /\ Len(w) \in Nat /\ Len(s) \in Nat
           /\ Len(ChanOf(w, s)) = Len(w) + Len(s)
           /\ \A i \in 1..(Len(w) + Len(s)) :
                 ChanOf(w, s)[i] = IF i <= Len(w) THEN w[i].pkt ELSE s[i - Len(w)]
<1> DEFINE ps == [i \in 1..Len(w) |-> w[i].pkt]
<1>1. Len(w) \in Nat /\ Len(s) \in Nat
  OBVIOUS
<1>2. \A i \in 1..Len(w) : w[i].pkt \in Packet
  <2> TAKE i \in 1..Len(w)
  <2>1. w[i] \in Arriving
    OBVIOUS
  <2>2. QED
    BY <2>1 DEF Arriving
<1>3. ps \in [1..Len(w) -> Packet]
  BY <1>2
<1>4. ps \in Seq(Packet) /\ Len(ps) = Len(w)
  BY <1>1, <1>3
<1>5. \A i \in 1..Len(w) : ps[i] = w[i].pkt
  OBVIOUS
<1> HIDE DEF ps
<1>6. /\ ps \o s \in Seq(Packet) /\ Len(ps \o s) = Len(ps) + Len(s)
      /\ \A i \in 1..(Len(ps) + Len(s)) :
            (ps \o s)[i] = IF i <= Len(ps) THEN ps[i] ELSE s[i - Len(ps)]
  BY <1>4, ConcatProperties
<1>7. ChanOf(w, s) = ps \o s
  BY DEF ChanOf, ps
<1>8. \A i \in 1..(Len(w) + Len(s)) :
         ChanOf(w, s)[i] = IF i <= Len(w) THEN w[i].pkt ELSE s[i - Len(w)]
  BY <1>1, <1>4, <1>5, <1>6, <1>7
<1>9. QED
  BY <1>1, <1>4, <1>6, <1>7, <1>8

\* What is left without the elements a + 1 to b.
LEMMA CutRemains ==
    ASSUME NEW S, NEW s \in Seq(S), NEW r \in Seq(S),
           NEW a \in Nat, NEW b \in Nat, a <= b, b <= Len(s),
           Len(r) = Len(s) - (b - a),
           \A i \in 1..Len(r) : r[i] = IF i <= a THEN s[i] ELSE s[i + (b - a)]
    PROVE  r \in Fifo!Remains(s)
<1> DEFINE k == Len(r)
           f == [i \in 1..k |-> IF i <= a THEN i ELSE i + (b - a)]
<1>1. k \in Nat /\ Len(s) \in Nat /\ k \in 0..Len(s)
  OBVIOUS
<1>2. f \in [1..k -> 1..Len(s)]
  BY <1>1
<1>3. \A i, j \in 1..k : i < j => f[i] < f[j]
  BY <1>1
<1>4. f \in Fifo!Rising(k, Len(s))
  BY <1>2, <1>3 DEF Fifo!Rising
<1>5. r = [i \in 1..k |-> r[i]]
  OBVIOUS
<1>6. \A i \in 1..k : r[i] = s[f[i]]
  OBVIOUS
<1>7. r = [i \in 1..k |-> s[f[i]]]
  BY <1>5, <1>6
<1> HIDE DEF f, k
<1>8. QED
  BY <1>1, <1>4, <1>7 DEF Fifo!Remains

\* Putting a packet on the wire moves it within the channel.
LEMMA SendKeeps ==
    ASSUME NEW w \in Seq(Arriving), NEW s \in Seq(Packet), s # <<>>, NEW t \in Nat
    PROVE  /\ Append(w, [pkt |-> Head(s), due |-> t]) \in Seq(Arriving)
           /\ ChanOf(Append(w, [pkt |-> Head(s), due |-> t]), Tail(s)) = ChanOf(w, s)
<1> DEFINE x == [pkt |-> Head(s), due |-> t]
           w2 == Append(w, x)
           r == Tail(s)
<1>1. Len(s) \in Nat /\ Len(s) >= 1 /\ Head(s) \in Packet /\ Head(s) = s[1] /\ Len(w) \in Nat
  BY NotEmpty
<1>2. x \in Arriving /\ x.pkt = s[1]
  BY <1>1 DEF Arriving
<1>3. r \in Seq(Packet) /\ Len(r) = Len(s) - 1 /\ \A i \in 1..(Len(s) - 1) : r[i] = s[i + 1]
  BY <1>1
<1> HIDE DEF x, r
<1>4. /\ w2 \in Seq(Arriving) /\ Len(w2) = Len(w) + 1 /\ w2[Len(w) + 1] = x
      /\ \A i \in 1..Len(w) : w2[i] = w[i]
  BY <1>1, <1>2
<1> HIDE DEF w2
<1>5. /\ ChanOf(w2, r) \in Seq(Packet) /\ Len(ChanOf(w2, r)) = Len(w2) + Len(r)
      /\ \A i \in 1..(Len(w2) + Len(r)) :
            ChanOf(w2, r)[i] = IF i <= Len(w2) THEN w2[i].pkt ELSE r[i - Len(w2)]
  BY <1>3, <1>4, ChanFacts
<1>6. /\ ChanOf(w, s) \in Seq(Packet) /\ Len(ChanOf(w, s)) = Len(w) + Len(s)
      /\ \A i \in 1..(Len(w) + Len(s)) :
            ChanOf(w, s)[i] = IF i <= Len(w) THEN w[i].pkt ELSE s[i - Len(w)]
  BY ChanFacts
<1>7. Len(ChanOf(w2, r)) = Len(ChanOf(w, s))
  BY <1>1, <1>3, <1>4, <1>5, <1>6
<1>8. \A i \in 1..Len(ChanOf(w2, r)) : ChanOf(w2, r)[i] = ChanOf(w, s)[i]
  <2> TAKE i \in 1..Len(ChanOf(w2, r))
  <2>1. i \in 1..(Len(w2) + Len(r)) /\ i \in 1..(Len(w) + Len(s)) /\ i \in Nat
    BY <1>5, <1>6, <1>7
  <2>2. CASE i <= Len(w)
    <3>1. i <= Len(w2) /\ i \in 1..Len(w)
      BY <1>1, <1>4, <2>1, <2>2
    <3>2. ChanOf(w2, r)[i] = w2[i].pkt
      BY <1>5, <2>1, <3>1
    <3>3. ChanOf(w, s)[i] = w[i].pkt
      BY <1>6, <2>1, <2>2
    <3>4. w2[i] = w[i]
      BY <1>4, <3>1
    <3>5. QED
      BY <3>2, <3>3, <3>4
  <2>3. CASE i = Len(w) + 1
    <3>1. ChanOf(w2, r)[i] = s[1]
      BY <1>1, <1>2, <1>4, <1>5, <2>1, <2>3
    <3>2. ~(i <= Len(w)) /\ i - Len(w) = 1
      BY <1>1, <2>3
    <3>3. ChanOf(w, s)[i] = s[i - Len(w)]
      BY <1>6, <2>1, <3>2
    <3>4. QED
      BY <3>1, <3>2, <3>3
  <2>4. CASE i > Len(w) + 1
    <3> DEFINE j == i - (Len(w) + 1)
    <3>1. j \in 1..(Len(s) - 1) /\ j + 1 = i - Len(w)
      BY <1>1, <2>1, <2>4
    <3>2. ChanOf(w2, r)[i] = r[j]
      BY <1>1, <1>4, <1>5, <2>1, <2>4
    <3>3. ChanOf(w, s)[i] = s[j + 1]
      BY <1>1, <1>6, <2>1, <2>4, <3>1
    <3>4. QED
      BY <1>3, <3>1, <3>2, <3>3
  <2>5. i <= Len(w) \/ i = Len(w) + 1 \/ i > Len(w) + 1
    BY <1>1, <2>1
  <2>6. QED
    BY <2>2, <2>3, <2>4, <2>5
<1>9. ChanOf(w2, r) = ChanOf(w, s)
  BY <1>5, <1>6, <1>7, <1>8, SeqEqual
<1>10. QED
  BY <1>4, <1>9 DEF w2, x, r

\* DropTail::enque loses the packet that comes, the first that waits, or none.
LEMMA EnquedRemains ==
    ASSUME NEW w \in Seq(Arriving), q \in Seq(Packet), NEW p \in Packet
    PROVE  /\ Enqued(p) \in Seq(Packet)
           /\ ChanOf(w, Enqued(p)) \in Fifo!Remains(Append(ChanOf(w, q), p))
<1> DEFINE c == ChanOf(w, q)
           s == Append(c, p)
           e == Append(q, p)
<1>1. /\ c \in Seq(Packet) /\ Len(w) \in Nat /\ Len(q) \in Nat /\ Len(c) = Len(w) + Len(q)
      /\ \A i \in 1..(Len(w) + Len(q)) : c[i] = IF i <= Len(w) THEN w[i].pkt ELSE q[i - Len(w)]
  BY ChanFacts
<1> HIDE DEF c
<1>2. /\ s \in Seq(Packet) /\ Len(s) = Len(w) + Len(q) + 1 /\ s[Len(w) + Len(q) + 1] = p
      /\ \A i \in 1..(Len(w) + Len(q)) : s[i] = c[i]
  BY <1>1
<1>3. /\ e \in Seq(Packet) /\ Len(e) = Len(q) + 1 /\ e[Len(q) + 1] = p
      /\ \A i \in 1..Len(q) : e[i] = q[i]
  BY <1>1
<1> HIDE DEF s, e
<1>4. \A i \in 1..(Len(w) + Len(q) + 1) :
         s[i] = IF i <= Len(w) THEN w[i].pkt ELSE e[i - Len(w)]
  <2> TAKE i \in 1..(Len(w) + Len(q) + 1)
  <2>1. CASE i = Len(w) + Len(q) + 1
    BY <1>1, <1>2, <1>3, <2>1
  <2>2. CASE i \in 1..(Len(w) + Len(q)) /\ i <= Len(w)
    BY <1>1, <1>2, <2>2
  <2>3. CASE i \in 1..(Len(w) + Len(q)) /\ i > Len(w)
    <3>1. i - Len(w) \in 1..Len(q)
      BY <1>1, <2>3
    <3>2. QED
      BY <1>1, <1>2, <1>3, <2>3, <3>1
  <2>4. \/ i = Len(w) + Len(q) + 1
        \/ i \in 1..(Len(w) + Len(q)) /\ i <= Len(w)
        \/ i \in 1..(Len(w) + Len(q)) /\ i > Len(w)
    BY <1>1
  <2>5. QED
    BY <2>1, <2>2, <2>3, <2>4
<1>5. CASE Enqued(p) = q
  <2> DEFINE a == Len(w) + Len(q)
             b == a + 1
  <2>1. a \in Nat /\ b \in Nat /\ a <= b /\ b <= Len(s) /\ Len(c) = Len(s) - (b - a)
    BY <1>1, <1>2
  <2>2. \A i \in 1..Len(c) : c[i] = IF i <= a THEN s[i] ELSE s[i + (b - a)]
    <3>1. Len(c) = a /\ \A i \in 1..a : i <= a /\ c[i] = s[i]
      BY <1>1, <1>2, <2>1
    <3> HIDE DEF a, b
    <3>2. QED
      BY <3>1
  <2> HIDE DEF a, b
  <2>3. c \in Fifo!Remains(s)
    BY <1>1, <1>2, <2>1, <2>2, CutRemains
  <2>4. QED
    BY <1>5, <2>3 DEF c, s
<1>6. CASE Enqued(p) = e
  <2> DEFINE r == ChanOf(w, e)
  <2>1. /\ r \in Seq(Packet) /\ Len(r) = Len(w) + Len(e)
        /\ \A i \in 1..(Len(w) + Len(e)) :
              r[i] = IF i <= Len(w) THEN w[i].pkt ELSE e[i - Len(w)]
    BY <1>3, ChanFacts
  <2> HIDE DEF r
  <2>2. Len(r) = Len(s) /\ \A i \in 1..Len(r) : r[i] = s[i]
    <3>1. Len(w) + Len(e) = Len(w) + Len(q) + 1
      BY <1>1, <1>3
    <3>2. Len(r) = Len(s) /\ Len(r) = Len(w) + Len(q) + 1
      BY <1>2, <2>1, <3>1
    <3>3. QED
      BY <1>4, <2>1, <3>1, <3>2
  <2> DEFINE a == Len(s)
             b == Len(s)
  <2>3. a \in Nat /\ b \in Nat /\ a <= b /\ b <= Len(s) /\ Len(r) = Len(s) - (b - a)
    BY <1>2, <2>2
  <2>4. \A i \in 1..Len(r) : r[i] = IF i <= a THEN s[i] ELSE s[i + (b - a)]
    <3>1. \A i \in 1..Len(r) : i <= a /\ r[i] = s[i]
      BY <1>1, <1>2, <2>2, <2>3
    <3> HIDE DEF a, b
    <3>2. QED
      BY <3>1
  <2> HIDE DEF a, b
  <2>5. r \in Fifo!Remains(s)
    BY <1>2, <2>1, <2>3, <2>4, CutRemains
  <2>6. QED
    BY <1>3, <1>6, <2>5 DEF r, s, c
<1>7. CASE Enqued(p) = Tail(e)
  <2> DEFINE h == Tail(e)
             r == ChanOf(w, h)
             a == Len(w)
             b == Len(w) + 1
  <2>1. h \in Seq(Packet) /\ Len(h) = Len(q) /\ \A i \in 1..Len(q) : h[i] = e[i + 1]
    BY <1>1, <1>3
  <2> HIDE DEF h
  <2>2. /\ r \in Seq(Packet) /\ Len(r) = Len(w) + Len(h)
        /\ \A i \in 1..(Len(w) + Len(h)) :
              r[i] = IF i <= Len(w) THEN w[i].pkt ELSE h[i - Len(w)]
    BY <2>1, ChanFacts
  <2> HIDE DEF r
  <2>3. a \in Nat /\ b \in Nat /\ a <= b /\ b <= Len(s) /\ Len(r) = Len(s) - (b - a)
    BY <1>1, <1>2, <2>1, <2>2
  <2>4. ASSUME NEW i \in 1..Len(r)
        PROVE  r[i] = IF i <= a THEN s[i] ELSE s[i + (b - a)]
    <3>0. i \in 1..(Len(w) + Len(q)) /\ i \in 1..(Len(w) + Len(q) + 1) /\ i \in Nat
      BY <1>1, <2>1, <2>2
    <3>1. CASE i <= Len(w)
      <4>1. r[i] = w[i].pkt /\ s[i] = w[i].pkt
        BY <1>1, <1>4, <2>1, <2>2, <3>0, <3>1
      <4>2. QED
        BY <3>1, <4>1
    <3>2. CASE i > Len(w)
      <4>1. i - Len(w) \in 1..Len(q) /\ i + 1 \in 1..(Len(w) + Len(q) + 1) /\ b - a = 1
        BY <1>1, <3>0, <3>2
      <4>2. r[i] = e[(i - Len(w)) + 1]
        <5>1. i \in 1..(Len(w) + Len(h)) /\ ~(i <= Len(w))
          BY <1>1, <2>1, <3>0, <3>2
        <5>2. r[i] = h[i - Len(w)]
          BY <2>2, <5>1
        <5>3. QED
          BY <2>1, <4>1, <5>2
      <4>3. s[i + 1] = e[(i + 1) - Len(w)]
        BY <1>1, <1>4, <3>2, <4>1
      <4>4. (i - Len(w)) + 1 = (i + 1) - Len(w) /\ ~(i <= a)
        BY <1>1, <3>2, <4>1
      <4>5. QED
        BY <4>1, <4>2, <4>3, <4>4
    <3>3. QED
      BY <1>1, <3>1, <3>2
  <2> HIDE DEF a, b
  <2>5. r \in Fifo!Remains(s)
    BY <1>2, <2>2, <2>3, <2>4, CutRemains
  <2>6. QED
    BY <1>7, <2>1, <2>5 DEF r, s, c, h
<1>8. QED
  BY <1>5, <1>6, <1>7 DEF Enqued, e

LEMMA LinkInvStep == LinkInv /\ [Next]_vars => LinkInv'
BY RecvStep, ResumeStep, DeliverStep, TickStep, QuietStep DEF Next

\* LinkDelay::recv of the first packet of s leaves the channel as it was.
LEMMA LinkRecvKeeps ==
    ASSUME LinkInv, NEW s \in Seq(Packet), s # <<>>, NEW intrs, LinkRecv(Head(s), intrs)
    PROVE  ChanOf(wire', Tail(s)) = ChanOf(wire, s)
<1>1. wire \in Seq(Arriving) /\ latest \in Nat /\ delay \in Nat /\ TxTimes \subseteq Nat
  BY LinkNumbers DEF LinkInv, TypeOK, Arriving
<1>2. PICK txt \in TxTimes : wire' = Append(wire, [pkt |-> Head(s), due |-> Arrival(txt)])
  BY DEF LinkRecv
<1>3. Arrival(txt) \in Nat
  BY <1>1 DEF Arrival
<1> DEFINE t == Arrival(txt)
<1>4. wire' = Append(wire, [pkt |-> Head(s), due |-> t]) /\ t \in Nat
  BY <1>2, <1>3
<1> HIDE DEF t
<1>5. ChanOf(Append(wire, [pkt |-> Head(s), due |-> t]), Tail(s)) = ChanOf(wire, s)
  BY <1>1, <1>4, SendKeeps
<1>6. QED
  BY <1>4, <1>5

LEMMA PutStep ==
    ASSUME LinkInv, NEW p \in Packet, Recv(p)
    PROVE  Fifo!Put(p)
<1>1. wire \in Seq(Arriving) /\ q \in Seq(Packet)
  BY DEF LinkInv, TypeOK, Arriving
<1>2. /\ Enqued(p) \in Seq(Packet)
      /\ ChanOf(wire, Enqued(p)) \in Fifo!Remains(Append(ChanOf(wire, q), p))
  BY <1>1, EnquedRemains
<1>3. ChanOf(wire', q') = ChanOf(wire, Enqued(p))
  <2> DEFINE s == Enqued(p)
  <2>1. CASE ~blocked /\ s # <<>>
    <3>1. q' = Tail(s) /\ LinkRecv(Head(s), intr)
      BY <2>1 DEF Recv
    <3>2. s \in Seq(Packet) /\ s # <<>>
      BY <1>2, <2>1
    <3> HIDE DEF s
    <3>3. ChanOf(wire', Tail(s)) = ChanOf(wire, s)
      BY <3>1, <3>2, LinkRecvKeeps
    <3>4. QED
      BY <3>1, <3>3 DEF s
  <2>2. CASE ~(~blocked /\ s # <<>>)
    BY <2>2 DEF Recv
  <2>3. QED
    BY <2>1, <2>2
<1>4. p \notin Fifo!Under(ChanOf(wire, q))
  <2> DEFINE c == ChanOf(wire, q)
  <2>1. /\ c \in Seq(Packet) /\ Len(wire) \in Nat /\ Len(q) \in Nat
        /\ Len(c) = Len(wire) + Len(q)
        /\ \A i \in 1..(Len(wire) + Len(q)) :
              c[i] = IF i <= Len(wire) THEN wire[i].pkt ELSE q[i - Len(wire)]
    BY <1>1, ChanFacts
  <2> HIDE DEF c
  <2>2. DOMAIN c = 1..Len(c) /\ DOMAIN wire = 1..Len(wire) /\ DOMAIN q = 1..Len(q)
    BY <1>1, <2>1
  <2>3. ASSUME NEW i \in 1..Len(c)
        PROVE  c[i] \in InLink
    <3>1. CASE i <= Len(wire)
      <4>1. i \in DOMAIN wire /\ c[i] = wire[i].pkt
        BY <2>1, <2>2, <3>1
      <4>2. QED
        BY <4>1 DEF InLink
    <3>2. CASE i > Len(wire)
      <4>1. i - Len(wire) \in DOMAIN q /\ c[i] = q[i - Len(wire)]
        BY <2>1, <2>2, <3>2
      <4>2. QED
        BY <4>1 DEF InLink
    <3>3. QED
      BY <2>1, <3>1, <3>2
  <2>4. p \notin InLink
    BY DEF Recv
  <2>5. QED
    BY <2>2, <2>3, <2>4 DEF Fifo!Under, c
<1>5. out' = out
  BY DEF Recv
<1>6. QED
  BY <1>2, <1>3, <1>4, <1>5 DEF Fifo!Put, ChanOf

LEMMA LoseStep ==
    ASSUME LinkInv, Reset \/ ShrinkQueue
    PROVE  Fifo!Lose
<1> DEFINE c == ChanOf(wire, q)
           r == ChanOf(wire, q')
<1>1. wire \in Seq(Arriving) /\ q \in Seq(Packet) /\ qlim \in Nat
  BY LinkNumbers DEF LinkInv, TypeOK, Arriving
<1>2. /\ c \in Seq(Packet) /\ Len(wire) \in Nat /\ Len(q) \in Nat
      /\ Len(c) = Len(wire) + Len(q)
      /\ \A i \in 1..(Len(wire) + Len(q)) :
            c[i] = IF i <= Len(wire) THEN wire[i].pkt ELSE q[i - Len(wire)]
  BY <1>1, ChanFacts
<1>3. \* The packets from + 1 to to are lost.
      \E from, to \in 0..Len(q) :
         /\ from <= to /\ q' \in Seq(Packet) /\ Len(q') = Len(q) - (to - from)
         /\ \A i \in 1..Len(q') : q'[i] = IF i <= from THEN q[i] ELSE q[i + (to - from)]
  <2>1. CASE Reset
    <3>1. q' = <<>>
      BY <2>1 DEF Reset
    <3>2. q' \in Seq(Packet) /\ Len(q') = 0 /\ 0 = Len(q) - (Len(q) - 0) /\ 0 <= Len(q)
      BY <1>2, <3>1
    <3>3. 0 \in 0..Len(q) /\ Len(q) \in 0..Len(q) /\ \A i \in 1..Len(q') : FALSE
      BY <1>2, <3>2
    <3>4. QED
      BY <3>2, <3>3
  <2>2. CASE ShrinkQueue /\ drop_front
    <3> DEFINE n == Len(q) - qlim
    <3>1. Len(q) > qlim /\ q' = SubSeq(q, n + 1, Len(q))
      BY <2>2 DEF ShrinkQueue
    <3>2. n \in 0..Len(q) /\ 0 \in 0..Len(q) /\ 0 <= n /\ n \in Nat
      BY <1>1, <1>2, <3>1
    <3> HIDE DEF n
    <3>3. /\ q' \in Seq(Packet) /\ Len(q') = Len(q) - (n - 0)
          /\ \A i \in 1..Len(q') : q'[i] = q[i + (n - 0)]
      BY <1>1, <1>2, <3>1, <3>2
    <3>4. \A i \in 1..Len(q') : ~(i <= 0)
      OBVIOUS
    <3>5. \A i \in 1..Len(q') : q'[i] = IF i <= 0 THEN q[i] ELSE q[i + (n - 0)]
      BY <3>3, <3>4
    <3>6. QED
      BY <3>2, <3>3, <3>5
  <2>3. CASE ShrinkQueue /\ ~drop_front
    <3>1. Len(q) > qlim /\ q' = SubSeq(q, 1, qlim)
      BY <2>3 DEF ShrinkQueue
    <3>2. qlim \in 0..Len(q) /\ Len(q) \in 0..Len(q) /\ qlim <= Len(q)
      BY <1>1, <1>2, <3>1
    <3>3. /\ q' \in Seq(Packet) /\ Len(q') = qlim
          /\ \A i \in 1..qlim : q'[i] = q[i] /\ i <= qlim
      BY <1>1, <1>2, <3>1, <3>2
    <3>4. Len(q') = Len(q) - (Len(q) - qlim)
      BY <1>1, <1>2, <3>3
    <3>5. QED
      BY <3>2, <3>3, <3>4
  <2>4. QED
    BY <2>1, <2>2, <2>3
<1>4. PICK from, to \in 0..Len(q) :
         /\ from <= to /\ q' \in Seq(Packet) /\ Len(q') = Len(q) - (to - from)
         /\ \A i \in 1..Len(q') : q'[i] = IF i <= from THEN q[i] ELSE q[i + (to - from)]
  BY <1>3
<1>5. /\ r \in Seq(Packet) /\ Len(q') \in Nat /\ Len(r) = Len(wire) + Len(q')
      /\ \A i \in 1..(Len(wire) + Len(q')) :
            r[i] = IF i <= Len(wire) THEN wire[i].pkt ELSE q'[i - Len(wire)]
  <2> DEFINE s == q'
  <2>1. s \in Seq(Packet)
    BY <1>4
  <2> HIDE DEF s
  <2>2. /\ ChanOf(wire, s) \in Seq(Packet) /\ Len(s) \in Nat
        /\ Len(ChanOf(wire, s)) = Len(wire) + Len(s)
        /\ \A i \in 1..(Len(wire) + Len(s)) :
              ChanOf(wire, s)[i] = IF i <= Len(wire) THEN wire[i].pkt ELSE s[i - Len(wire)]
    BY <1>1, <2>1, ChanFacts
  <2>3. QED
    BY <2>2 DEF s
<1> DEFINE a == Len(wire) + from
           b == Len(wire) + to
<1> HIDE DEF c, r
<1>6. a \in Nat /\ b \in Nat /\ a <= b /\ b <= Len(c) /\ b - a = to - from
  BY <1>2, <1>4
<1>7. Len(r) = Len(c) - (b - a)
  BY <1>2, <1>4, <1>5, <1>6
<1>8. ASSUME NEW i \in 1..Len(r)
      PROVE  r[i] = IF i <= a THEN c[i] ELSE c[i + (b - a)]
  <2>1. i \in Nat /\ i \in 1..(Len(wire) + Len(q')) /\ i \in 1..(Len(wire) + Len(q))
    BY <1>2, <1>4, <1>5
  <2>2. CASE i <= Len(wire)
    <3>1. i <= a
      BY <1>2, <2>1, <2>2
    <3>2. QED
      BY <1>2, <1>5, <2>1, <2>2, <3>1
  <2>3. CASE i > Len(wire)
    <3> DEFINE j == i - Len(wire)
    <3>1. j \in 1..Len(q') /\ ~(i <= Len(wire)) /\ (i <= a <=> j <= from)
      BY <1>2, <1>5, <2>1, <2>3
    <3>2. r[i] = q'[j]
      BY <1>5, <2>1, <3>1
    <3>3. CASE j <= from
      <4>1. c[i] = q[j]
        BY <1>2, <2>1, <3>1
      <4>2. QED
        BY <1>4, <3>1, <3>2, <3>3, <4>1
    <3>4. CASE ~(j <= from)
      <4> DEFINE k == i + (b - a)
      <4>1. /\ k \in 1..(Len(wire) + Len(q)) /\ ~(k <= Len(wire))
            /\ k - Len(wire) = j + (to - from)
        <5>1. Len(q') = Len(q) - (to - from) /\ from \in 0..Len(q) /\ to \in 0..Len(q)
          BY <1>4
        <5>2. k = i + (to - from) /\ to - from \in Nat
          BY <1>2, <1>4, <1>6
        <5> HIDE DEF k, a, b
        <5>3. QED
          BY <1>2, <2>1, <3>1, <5>1, <5>2
      <4> HIDE DEF j
      <4>2. c[k] = q[k - Len(wire)]
        BY <1>2, <4>1
      <4>3. c[k] = q[j + (to - from)]
        BY <4>1, <4>2
      <4>4. q'[j] = q[j + (to - from)]
        BY <1>4, <3>1, <3>4
      <4>5. QED
        BY <3>1, <3>2, <3>4, <4>3, <4>4
    <3>5. QED
      BY <3>3, <3>4
  <2>4. QED
    BY <1>2, <2>1, <2>2, <2>3
<1> HIDE DEF a, b
<1>9. r \in Fifo!Remains(c)
  BY <1>2, <1>5, <1>6, <1>7, <1>8, CutRemains
<1>10. wire' = wire /\ out' = out
  BY DEF Reset, ShrinkQueue
<1>11. QED
  BY <1>9, <1>10 DEF Fifo!Lose, ChanOf, c, r

\* The first arrival that is due is that of the first packet.
LEMMA GetStep ==
    ASSUME LinkInv, KeepsOrder, Deliver
    PROVE  Fifo!Get
<1> DEFINE c == ChanOf(wire, q)
           r == ChanOf(wire', q)
<1>1. /\ wire \in Seq(Arriving) /\ q \in Seq(Packet) /\ Len(wire) \in Nat
      /\ DOMAIN wire = 1..Len(wire) /\ \A i \in 1..Len(wire) : wire[i].due \in Nat
  <2>1. wire \in Seq(Arriving) /\ q \in Seq(Packet)
    BY DEF LinkInv, TypeOK, Arriving
  <2>2. Len(wire) \in Nat /\ DOMAIN wire = 1..Len(wire) /\ \A i \in 1..Len(wire) : wire[i] \in Arriving
    BY <2>1
  <2>3. \A x \in Arriving : x.due \in Nat
    BY DEF Arriving
  <2>4. QED
    BY <2>1, <2>2, <2>3
<1>2. PICK i \in DOMAIN wire :
        /\ wire[i].due = 0
        /\ \A j \in 1..(i - 1) : wire[j].due > 0
        /\ out' = <<wire[i].pkt>>
        /\ wire' = [k \in 1..(Len(wire) - 1) |-> IF k < i THEN wire[k] ELSE wire[k + 1]]
  BY DEF Deliver
<1>3. i = 1
  <2> SUFFICES ASSUME i # 1 PROVE FALSE
    OBVIOUS
  <2>1. 1 \in DOMAIN wire /\ 1 < i /\ 1 \in 1..(i - 1)
    BY <1>1
  <2>2. wire[1].due <= wire[i].due
    BY <2>1 DEF LinkInv, WireInOrder
  <2>3. wire[1].due > 0 /\ wire[1].due \in Nat
    BY <1>1, <1>2, <2>1
  <2>4. QED
    BY <1>2, <2>2, <2>3
<1>4. Len(wire) >= 1 /\ out' = <<wire[1].pkt>>
  BY <1>1, <1>2, <1>3
<1>5. wire' = [k \in 1..(Len(wire) - 1) |-> wire[k + 1]]
  BY <1>1, <1>2, <1>3
<1>6. /\ wire' \in Seq(Arriving) /\ Len(wire') = Len(wire) - 1
      /\ \A k \in 1..(Len(wire) - 1) : wire'[k] = wire[k + 1]
  <2> DEFINE n == Len(wire) - 1
  <2>1. n \in Nat /\ \A k \in 1..n : wire[k + 1] \in Arriving
    BY <1>1, <1>4
  <2>2. wire' = [k \in 1..n |-> wire[k + 1]]
    BY <1>5
  <2> HIDE DEF n
  <2>3. wire' \in [1..n -> Arriving]
    BY <2>1, <2>2
  <2>4. wire' \in Seq(Arriving) /\ Len(wire') = n
    BY <2>1, <2>3
  <2>5. QED
    BY <2>2, <2>4 DEF n
<1>7. /\ c \in Seq(Packet) /\ Len(q) \in Nat
      /\ Len(c) = Len(wire) + Len(q)
      /\ \A k \in 1..(Len(wire) + Len(q)) :
            c[k] = IF k <= Len(wire) THEN wire[k].pkt ELSE q[k - Len(wire)]
  BY <1>1, ChanFacts
<1>8. /\ r \in Seq(Packet) /\ Len(r) = Len(wire') + Len(q)
      /\ \A k \in 1..(Len(wire') + Len(q)) :
            r[k] = IF k <= Len(wire') THEN wire'[k].pkt ELSE q[k - Len(wire')]
  <2> DEFINE w == wire'
  <2>1. w \in Seq(Arriving)
    BY <1>6
  <2> HIDE DEF w
  <2>2. /\ ChanOf(w, q) \in Seq(Packet) /\ Len(ChanOf(w, q)) = Len(w) + Len(q)
        /\ \A k \in 1..(Len(w) + Len(q)) :
              ChanOf(w, q)[k] = IF k <= Len(w) THEN w[k].pkt ELSE q[k - Len(w)]
    BY <1>1, <2>1, ChanFacts
  <2>3. QED
    BY <2>2 DEF w
<1> HIDE DEF c, r
<1>9. c # <<>> /\ Head(c) = wire[1].pkt
  <2>1. Len(c) >= 1 /\ 1 \in 1..(Len(wire) + Len(q)) /\ c[1] = wire[1].pkt
    BY <1>1, <1>4, <1>7
  <2>2. c # <<>>
    BY <1>7, <2>1
  <2>3. QED
    BY <1>7, <2>1, <2>2, NotEmpty
<1>10. r = Tail(c)
  <2> DEFINE d == Tail(c)
             n == Len(wire) + Len(q) - 1
  <2>1. n \in Nat /\ Len(r) = n
    BY <1>1, <1>4, <1>6, <1>7, <1>8
  <2>2. d \in Seq(Packet) /\ Len(d) = n /\ \A k \in 1..n : d[k] = c[k + 1]
    BY <1>7, <1>9
  <2>3. ASSUME NEW k \in 1..n
        PROVE  r[k] = c[k + 1]
    <3>1. /\ k \in Nat /\ k \in 1..(Len(wire') + Len(q)) /\ k + 1 \in 1..(Len(wire) + Len(q))
          /\ k <= Len(wire') <=> k + 1 <= Len(wire)
          /\ k - Len(wire') = (k + 1) - Len(wire)
      BY <1>1, <1>4, <1>6, <1>7
    <3>2. CASE k <= Len(wire')
      <4>1. r[k] = wire'[k].pkt /\ c[k + 1] = wire[k + 1].pkt
        BY <1>7, <1>8, <3>1, <3>2
      <4>2. k \in 1..(Len(wire) - 1)
        BY <1>1, <1>6, <3>1, <3>2
      <4>3. QED
        BY <1>6, <4>1, <4>2
    <3>3. CASE ~(k <= Len(wire'))
      <4>1. r[k] = q[k - Len(wire')] /\ c[k + 1] = q[(k + 1) - Len(wire)]
        BY <1>7, <1>8, <3>1, <3>3
      <4>2. QED
        BY <3>1, <4>1
    <3>4. QED
      BY <3>2, <3>3
  <2> HIDE DEF d, n
  <2>4. Len(r) = Len(d) /\ \A k \in 1..Len(r) : r[k] = d[k]
    BY <2>1, <2>2, <2>3
  <2>5. r = d
    BY <1>8, <2>2, <2>4, SeqEqual
  <2>6. QED
    BY <2>5 DEF d
<1>11. q' = q
  BY DEF Deliver
<1>12. out' = <<Head(c)>>
  BY <1>4, <1>9
<1>13. QED
  BY <1>9, <1>10, <1>11, <1>12 DEF Fifo!Get, ChanOf, c, r

\* The rest leaves the channel alone: what waits goes on the wire, time passes, and a script
\* sets parameters.
LEMMA SilentStep ==
    ASSUME LinkInv,
           \/ Resume \/ Tick \/ UNCHANGED vars \/ SetDropFront
           \/ (\E d \in Delays : SetDelay(d)) \/ (\E n \in Limits : SetLimit(n))
    PROVE  UNCHANGED Fifo!chanVars
<1>1. wire \in Seq(Arriving) /\ q \in Seq(Packet) /\ Len(wire) \in Nat
  BY DEF LinkInv, TypeOK, Arriving
<1>2. SUFFICES ChanOf(wire', q') = ChanOf(wire, q) /\ out' = out
  BY DEF ChanOf, Fifo!chanVars
<1>3. CASE Resume
  <2>1. out' = out
    BY <1>3 DEF Resume
  <2>2. CASE q # <<>>
    <3>1. q' = Tail(q) /\ LinkRecv(Head(q), Tail(intr))
      BY <1>3, <2>2 DEF Resume
    <3>2. ChanOf(wire', Tail(q)) = ChanOf(wire, q)
      BY <1>1, <2>2, <3>1, LinkRecvKeeps
    <3>3. QED
      BY <2>1, <3>1, <3>2
  <2>3. CASE q = <<>>
    BY <1>3, <2>1, <2>3 DEF Resume
  <2>4. QED
    BY <2>2, <2>3
<1>4. CASE Tick
  <2>1. /\ wire' = [i \in 1..Len(wire) |-> [wire[i] EXCEPT !.due = @ - 1]]
        /\ q' = q /\ out' = out
    BY <1>4 DEF Tick
  <2>2. ASSUME NEW i \in 1..Len(wire)
        PROVE  wire'[i].pkt = wire[i].pkt
    <3>1. wire[i] \in Arriving
      BY <1>1
    <3>2. wire'[i] = [wire[i] EXCEPT !.due = @ - 1]
      BY <2>1
    <3>3. QED
      BY <3>1, <3>2 DEF Arriving
  <2>3. Len(wire') = Len(wire)
    BY <1>1, <2>1
  <2>4. [i \in 1..Len(wire') |-> wire'[i].pkt] = [i \in 1..Len(wire) |-> wire[i].pkt]
    BY <2>2, <2>3
  <2>5. QED
    BY <2>1, <2>4 DEF ChanOf
<1>5. CASE \/ UNCHANGED vars \/ SetDropFront
           \/ (\E d \in Delays : SetDelay(d)) \/ (\E n \in Limits : SetLimit(n))
  BY <1>5 DEF vars, SetDropFront, SetDelay, SetLimit
<1>6. QED
  BY <1>3, <1>4, <1>5

\* A link whose delay does not change, or that has avoidReordering_, is a lossy FIFO: the
\* drops of DropTail, its resets and its new limits lose packets, and nothing else happens
\* to the channel than that packets are put in and taken out in order.
THEOREM LinkIsLossyFifo == KeepsOrder => (Spec => ImplementsLossyFifo)
<1> SUFFICES ASSUME KeepsOrder PROVE Spec => ImplementsLossyFifo
  OBVIOUS
<1>1. Init => Fifo!Init
  <2> SUFFICES ASSUME Init PROVE Fifo!Init
    OBVIOUS
  <2>1. wire = <<>> /\ q = <<>> /\ out = <<>>
    BY DEF Init
  <2>2. [i \in 1..Len(wire) |-> wire[i].pkt] \o q = <<>>
    BY <2>1
  <2>3. QED
    BY <2>1, <2>2 DEF Fifo!Init
<1>2. LinkInv /\ [Next]_vars => [Fifo!Next]_(Fifo!chanVars)
  <2> SUFFICES ASSUME LinkInv, [Next]_vars PROVE [Fifo!Next]_(Fifo!chanVars)
    OBVIOUS
  <2>1. ASSUME NEW p \in Packet, Recv(p)
        PROVE  Fifo!Next
    BY <2>1, PutStep DEF Fifo!Next
  <2>2. CASE Deliver
    BY <2>2, GetStep DEF Fifo!Next
  <2>3. CASE Reset \/ ShrinkQueue
    BY <2>3, LoseStep DEF Fifo!Next
  <2>4. CASE \/ Resume \/ Tick \/ UNCHANGED vars \/ SetDropFront
             \/ (\E d \in Delays : SetDelay(d)) \/ (\E n \in Limits : SetLimit(n))
    BY <2>4, SilentStep
  <2>5. QED
    BY <2>1, <2>2, <2>3, <2>4 DEF Next
<1>3. QED
  BY <1>1, <1>2, LinkInvariant, PTL DEF Spec, ImplementsLossyFifo, Fifo!Spec
=============================================================================
