-------------------------- MODULE StatShareProofs --------------------------
(***************************************************************************)
(* Proofs about StatShare, for every set of hosts, links and flows.        *)
(***************************************************************************)
EXTENDS StatShare, TLAPS, FiniteSetTheorems, SequenceTheorems

-----------------------------------------------------------------------------
(***************************************************************************)
(* Counting requests in a channel                                          *)
(***************************************************************************)
\* A set of channel positions is finite, so it has a natural cardinality.
LEMMA PendingFinite ==
    ASSUME NEW s, NEW k \in Nat, NEW status
    PROVE  /\ IsFiniteSet(Pending(s, k, status))
           /\ Cardinality(Pending(s, k, status)) \in Nat
<1>1. IsFiniteSet(1..k)
  BY FS_Interval
<1>2. Pending(s, k, status) \in SUBSET (1..k)
  BY DEF Pending
<1>3. QED
  BY <1>1, <1>2, FS_Subset, FS_CardinalityType

\* Nothing is outstanding in an empty prefix.
LEMMA OutstandingEmpty ==
    ASSUME NEW s
    PROVE  Outstanding(s, 0) = 0
<1>1. Pending(s, 0, START) = {} /\ Pending(s, 0, STOP) = {}
  BY DEF Pending
<1>2. QED
  BY <1>1, FS_EmptySet DEF Outstanding

LEMMA OutstandingType ==
    ASSUME NEW s, NEW k \in Nat
    PROVE  Outstanding(s, k) \in Int
BY PendingFinite DEF Outstanding

\* Sending a request leaves the earlier prefixes alone and adds its own step.
LEMMA OutstandingAppend ==
    ASSUME NEW s \in Seq({START, STOP}), NEW x \in {START, STOP}
    PROVE  /\ \A k \in 0..Len(s) : Outstanding(Append(s, x), k) = Outstanding(s, k)
           /\ Outstanding(Append(s, x), Len(s) + 1)
                = Outstanding(s, Len(s)) + Delta(x)
<1> DEFINE t == Append(s, x)
           n == Len(s)
<1>1. /\ n \in Nat
      /\ t[n + 1] = x
      /\ \A i \in 1..n : t[i] = s[i]
  OBVIOUS
<1>2. ASSUME NEW k \in 0..n, NEW status
      PROVE  Pending(t, k, status) = Pending(s, k, status)
  BY <1>1 DEF Pending
<1>3. ASSUME NEW status
      PROVE  Cardinality(Pending(t, n + 1, status))
               = Cardinality(Pending(s, n, status)) + (IF x = status THEN 1 ELSE 0)
  <2>1. CASE x = status
    <3>1. Pending(t, n + 1, status) = Pending(s, n, status) \cup {n + 1}
      BY <1>1, <2>1 DEF Pending
    <3>2. n + 1 \notin Pending(s, n, status)
      BY <1>1 DEF Pending
    <3>3. QED
      BY <1>1, <2>1, <3>1, <3>2, PendingFinite, FS_AddElement
  <2>2. CASE x # status
    <3>1. Pending(t, n + 1, status) = Pending(s, n, status)
      BY <1>1, <2>2 DEF Pending
    <3>2. QED
      BY <1>1, <2>2, <3>1, PendingFinite
  <2>3. QED
    BY <2>1, <2>2
<1>4. \A k \in 0..n : Outstanding(t, k) = Outstanding(s, k)
  BY <1>2 DEF Outstanding
<1>5. Outstanding(t, n + 1) = Outstanding(s, n) + Delta(x)
  <2>1. /\ Cardinality(Pending(t, n + 1, START))
             = Cardinality(Pending(s, n, START)) + (IF x = START THEN 1 ELSE 0)
        /\ Cardinality(Pending(t, n + 1, STOP))
             = Cardinality(Pending(s, n, STOP)) + (IF x = STOP THEN 1 ELSE 0)
    BY <1>3
  <2>2. /\ Cardinality(Pending(s, n, START)) \in Nat
        /\ Cardinality(Pending(s, n, STOP)) \in Nat
    BY <1>1, PendingFinite
  <2> DEFINE a == Cardinality(Pending(s, n, START))
             b == Cardinality(Pending(s, n, STOP))
             c == Cardinality(Pending(t, n + 1, START))
             d == Cardinality(Pending(t, n + 1, STOP))
  <2>4. /\ a \in Nat /\ b \in Nat
        /\ c = a + (IF x = START THEN 1 ELSE 0) /\ d = b + (IF x = STOP THEN 1 ELSE 0)
        /\ Outstanding(s, n) = a - b /\ Outstanding(t, n + 1) = c - d
    BY <2>1, <2>2 DEF Outstanding
  <2> HIDE DEF a, b, c, d, t, n
  <2>5. QED
    BY <2>4 DEF Delta, START, STOP
<1>6. QED
  BY <1>4, <1>5

\* Taking the head of a channel shifts every prefix by the head's step.
LEMMA OutstandingTail ==
    ASSUME NEW s \in Seq({START, STOP}), s # <<>>,
           NEW k \in 0..(Len(s) - 1)
    PROVE  Outstanding(s, k + 1) = Outstanding(Tail(s), k) + Delta(Head(s))
<1> DEFINE t == Tail(s)
<1>1. /\ Len(s) \in Nat
      /\ Head(s) = s[1]
      /\ s[1] \in {START, STOP}
      /\ \A i \in 1..k : t[i] = s[i + 1]
  OBVIOUS
<1>2. ASSUME NEW status
      PROVE  Cardinality(Pending(s, k + 1, status))
               = Cardinality(Pending(t, k, status))
                   + (IF s[1] = status THEN 1 ELSE 0)
  <2> DEFINE P == Pending(t, k, status)
             Q == Pending(s, k + 1, status) \ {1}
             g == [i \in P |-> i + 1]
  <2>1. g \in Bijection(P, Q)
    <3>1. \A i \in P : i \in Int /\ 1 <= i /\ i <= k /\ s[i + 1] = status
      BY <1>1 DEF Pending
    <3>2. \A j \in Q : j \in Int /\ 2 <= j /\ j <= k + 1 /\ s[j] = status
      BY DEF Pending
    <3>3. g \in [P -> Q]
      BY <3>1 DEF Pending
    <3>4. IsInjective(g)
      BY <3>1 DEF IsInjective
    <3>5. \A j \in Q : \E i \in P : g[i] = j
      <4> TAKE j \in Q
      <4>1. j - 1 \in P
        BY <1>1, <3>2 DEF Pending
      <4>2. g[j - 1] = j
        BY <3>2, <4>1
      <4>3. QED
        BY <4>1, <4>2
    <3>6. QED
      BY <3>3, <3>4, <3>5 DEF Bijection, Injection, Surjection
  <2>2. Cardinality(Q) = Cardinality(P)
    BY <2>1, PendingFinite, FS_Bijection DEF ExistsBijection
  <2>3. IsFiniteSet(Pending(s, k + 1, status))
    BY PendingFinite
  <2>4. 1 \in Pending(s, k + 1, status) <=> s[1] = status
    BY DEF Pending
  <2>5. Cardinality(Q) = IF 1 \in Pending(s, k + 1, status)
                         THEN Cardinality(Pending(s, k + 1, status)) - 1
                         ELSE Cardinality(Pending(s, k + 1, status))
    BY <2>3, FS_RemoveElement
  <2>6. QED
    BY <2>2, <2>4, <2>5, PendingFinite
<1>3. /\ Cardinality(Pending(s, k + 1, START))
           = Cardinality(Pending(t, k, START)) + (IF s[1] = START THEN 1 ELSE 0)
      /\ Cardinality(Pending(s, k + 1, STOP))
           = Cardinality(Pending(t, k, STOP)) + (IF s[1] = STOP THEN 1 ELSE 0)
  BY <1>2
<1>4. /\ Cardinality(Pending(t, k, START)) \in Nat
      /\ Cardinality(Pending(t, k, STOP)) \in Nat
  BY PendingFinite
<1>5. Head(s) \in {START, STOP} /\ Head(s) = s[1]
  BY <1>1
<1> DEFINE a == Cardinality(Pending(t, k, START))
           b == Cardinality(Pending(t, k, STOP))
           c == Cardinality(Pending(s, k + 1, START))
           d == Cardinality(Pending(s, k + 1, STOP))
           x == Head(s)
<1>6. /\ a \in Nat /\ b \in Nat /\ x \in {START, STOP}
      /\ c = a + (IF x = START THEN 1 ELSE 0) /\ d = b + (IF x = STOP THEN 1 ELSE 0)
      /\ Outstanding(t, k) = a - b /\ Outstanding(s, k + 1) = c - d
  BY <1>3, <1>4, <1>5 DEF Outstanding
<1> HIDE DEF a, b, c, d, x, t
<1>7. Outstanding(s, k + 1) = Outstanding(t, k) + Delta(x)
  BY <1>6 DEF Delta, START, STOP
<1>8. QED
  BY <1>7 DEF t, x

-----------------------------------------------------------------------------
(***************************************************************************)
(* Shares and flow sets                                                    *)
(***************************************************************************)
\* A non-empty set of naturals has a smallest element.
LEMMA LeastNat ==
    ASSUME NEW S \in SUBSET Nat, S # {}
    PROVE  \E m \in S : \A n \in S : m <= n
<1> DEFINE R == {p \in Nat \X Nat : p[1] < p[2]}
<1>1. IsWellFoundedOn(R, Nat)
  BY NatLessThanWellFounded DEF OpToRel
<1>2. PICK m \in S : \A n \in S : ~ (<<n, m>> \in R)
  BY <1>1, WFMin
<1>3. ASSUME NEW n \in S
      PROVE  m <= n
  <2>1. m \in Nat /\ n \in Nat
    OBVIOUS
  <2>2. ~(n < m)
    BY <1>2, <2>1
  <2>3. QED
    BY <2>1, <2>2
<1>4. QED
  BY <1>3

\* The share of a link is a natural number, at least 1 if the link has room for
\* a packet of each of n flows.
LEMMA ShareType ==
    ASSUME NEW l \in Link, NEW n \in Nat
    PROVE  /\ Share(l, n) \in Nat
           /\ Capacity[l] >= Max1(n) => Share(l, n) >= 1
<1>1. Capacity[l] \in Nat /\ Max1(n) \in Nat /\ Max1(n) >= 1
  BY RateAssumption DEF Max1
<1>2. QED
  BY <1>1 DEF Share

\* The window computed by poll_dht is the share of one of the flow's links.
LEMMA FairShareIsShare ==
    ASSUME NEW f \in Flow, NEW nf \in [Link -> Nat]
    PROVE  /\ FairShare(f, nf) \in Nat
           /\ \E l \in Links(f) : FairShare(f, nf) = Share(l, nf[l])
<1> DEFINE S == {Share(l, nf[l]) : l \in Links(f)}
<1>1. Links(f) \subseteq Link /\ Links(f) # {}
  BY FlowAssumption DEF Links
<1>2. S \in SUBSET Nat /\ S # {}
  BY <1>1, ShareType
<1>3. PICK m \in S : \A n \in S : m <= n
  BY <1>2, LeastNat
<1>4. \E s \in S : \A l \in Links(f) : s <= Share(l, nf[l])
  BY <1>3
<1>5. FairShare(f, nf) \in S
  BY <1>4 DEF FairShare
<1>6. QED
  BY <1>2, <1>5

\* Any set of flows is finite.
LEMMA FlowSetFinite ==
    ASSUME NEW S \in SUBSET Flow
    PROVE  IsFiniteSet(S) /\ Cardinality(S) \in Nat
BY FlowAssumption, FS_Subset, FS_CardinalityType

\* A flow that starts is one more, a flow that ends one less, on its links.
LEMMA FlowSetGrows ==
    ASSUME NEW S \in SUBSET Flow, NEW f \in Flow
    PROVE  /\ f \notin S => Cardinality(S \cup {f}) = Cardinality(S) + 1
           /\ f \in S => Cardinality(S \ {f}) = Cardinality(S) - 1
BY FlowSetFinite, FS_AddElement, FS_RemoveElement

-----------------------------------------------------------------------------
(***************************************************************************)
(* Types and the flow counters                                             *)
(***************************************************************************)
TypeInv == TypeOK /\ CounterExact

\* How a step changes the set of flows over a link.
LEMMA FlowsOverStep ==
    ASSUME TypeOK, NEW l \in Link, NEW f \in Flow
    PROVE  /\ FlowsOver(l) \in SUBSET Flow
           /\ FlowStart(f) =>
                 /\ f \notin FlowsOver(l)
                 /\ FlowsOver(l)' = IF l \in Links(f) THEN FlowsOver(l) \cup {f}
                                                     ELSE FlowsOver(l)
           /\ FlowEnd(f) =>
                 /\ f \in FlowsOver(l) <=> l \in Links(f)
                 /\ FlowsOver(l)' = IF l \in Links(f) THEN FlowsOver(l) \ {f}
                                                     ELSE FlowsOver(l)
<1>1. FlowsOver(l) \in SUBSET Flow
  BY DEF FlowsOver
<1>2. ASSUME FlowStart(f)
      PROVE  /\ f \notin FlowsOver(l)
             /\ FlowsOver(l)' = IF l \in Links(f) THEN FlowsOver(l) \cup {f}
                                                 ELSE FlowsOver(l)
  BY <1>2 DEF FlowStart, FlowsOver, TypeOK
<1>3. ASSUME FlowEnd(f)
      PROVE  /\ f \in FlowsOver(l) <=> l \in Links(f)
             /\ FlowsOver(l)' = IF l \in Links(f) THEN FlowsOver(l) \ {f}
                                                 ELSE FlowsOver(l)
  BY <1>3 DEF FlowEnd, FlowsOver, TypeOK
<1>4. QED
  BY <1>1, <1>2, <1>3

\* incrementFlows and decrementFlows keep the counters exact, hence natural.
LEMMA CountersFollow ==
    ASSUME TypeInv, NEW f \in Flow, FlowStart(f) \/ FlowEnd(f)
    PROVE  numFlows' \in [Link -> Nat] /\ CounterExact'
<1>1. ASSUME NEW l \in Link
      PROVE  numFlows'[l] = Cardinality(FlowsOver(l)') /\ numFlows'[l] \in Nat
  <2>1. /\ FlowsOver(l) \in SUBSET Flow
        /\ numFlows[l] = Cardinality(FlowsOver(l))
        /\ Cardinality(FlowsOver(l)) \in Nat
    BY FlowsOverStep, FlowSetFinite DEF TypeInv, CounterExact
  <2>2. CASE FlowStart(f)
    <3>1. numFlows'[l] = IF l \in Links(f) THEN numFlows[l] + 1 ELSE numFlows[l]
      BY <2>2 DEF FlowStart, CountFlows
    <3>2. QED
      BY <2>1, <2>2, <3>1, FlowsOverStep, FlowSetGrows DEF TypeInv
  <2>3. CASE FlowEnd(f)
    <3>1. numFlows'[l] = IF l \in Links(f) THEN numFlows[l] - 1 ELSE numFlows[l]
      BY <2>1, <2>3 DEF FlowEnd, CountFlows
    <3>2. FlowsOver(l)' \in SUBSET Flow
      BY DEF FlowsOver
    <3>3. Cardinality(FlowsOver(l)') \in Nat
      BY <3>2, FlowSetFinite
    <3>4. QED
      BY <2>1, <2>3, <3>1, <3>3, FlowsOverStep, FlowSetGrows DEF TypeInv
  <2>4. QED
    BY <2>2, <2>3
<1>2. numFlows' = [l \in Link |-> numFlows'[l]]
  BY DEF FlowStart, FlowEnd, CountFlows
<1>3. QED
  BY <1>1, <1>2 DEF CounterExact

\* What init_DHT writes keeps its type, whatever the status.
LEMMA InitDHTType ==
    ASSUME TypeOK, NEW f \in Flow, NEW status \in {START, STOP}, InitDHT(f, status)
    PROVE  /\ node_count' \in [Host -> [Link -> Seq(Int)]]
           /\ request' \in [Host -> [Link -> Seq({START, STOP})]]
<1>1. Src[f] \in Host
  BY FlowAssumption
<1>2. ASSUME NEW recs \in Seq(Int)
      PROVE  SelfMark(recs, status) \in Seq(Int)
  <2>1. Delta(status) \in Int
    BY DEF Delta
  <2>2. Bump(recs, Delta(status)) \in Seq(Int)
    BY <2>1 DEF Bump
  <2>3. QED
    BY <2>2 DEF SelfMark
<1>3. node_count' \in [Host -> [Link -> Seq(Int)]]
  BY <1>1, <1>2 DEF InitDHT, TypeOK
<1>4. request' \in [Host -> [Link -> Seq({START, STOP})]]
  <2> DEFINE h == Src[f]
             row == [l \in Link |-> IF l \in Core[f] /\ Resp[h][l] # h
                                     THEN Append(request[h][l], status)
                                     ELSE request[h][l]]
  <2>1. request[h] \in [Link -> Seq({START, STOP})]
    BY <1>1 DEF TypeOK
  <2>2. ASSUME NEW l \in Link
        PROVE  row[l] \in Seq({START, STOP})
    <3>1. request[h][l] \in Seq({START, STOP})
      BY <2>1
    <3>2. Append(request[h][l], status) \in Seq({START, STOP})
      BY <3>1
    <3>3. QED
      BY <3>1, <3>2
  <2>3. request' = [request EXCEPT ![h] = row]
    BY DEF InitDHT
  <2>4. row \in [Link -> Seq({START, STOP})]
    BY <2>2
  <2> HIDE DEF row
  <2>5. QED
    BY <1>1, <2>3, <2>4 DEF TypeOK
<1>5. QED
  BY <1>3, <1>4

\* poll_dht writes naturals.
LEMMA PollDhtType ==
    ASSUME TypeOK, NEW f \in Flow, NEW counters \in [Link -> Nat],
           PollDht(f, counters)
    PROVE  /\ no_flows' \in [Host -> [Link -> Nat]]
           /\ cwnd' \in [Flow -> Nat]
<1> DEFINE known == [no_flows[Src[f]] EXCEPT ![Edge[f]] = counters[Edge[f]]]
<1>1. Src[f] \in Host /\ Edge[f] \in Link
  BY FlowAssumption
<1>2. known \in [Link -> Nat]
  BY <1>1 DEF TypeOK
<1>3. FairShare(f, known) \in Nat
  BY <1>2, FairShareIsShare
<1>4. QED
  BY <1>1, <1>2, <1>3 DEF PollDht, TypeOK

\* Node::expire keeps the types of the channels it writes to.
LEMMA ExpireType ==
    ASSUME TypeOK, NEW r \in Host, Expire(r)
    PROVE  /\ poll' \in [Host -> [Link -> Nat]]
           /\ reply' \in [Host -> [Link -> Seq(Nat)]]
BY DEF Expire, TypeOK

\* Taking the head of one channel keeps all channels well typed.
LEMMA TailType ==
    ASSUME NEW S, NEW ch \in [Host -> [Link -> Seq(S)]],
           NEW h \in Host, NEW l \in Link, ch[h][l] # <<>>
    PROVE  /\ Head(ch[h][l]) \in S
           /\ [ch EXCEPT ![h][l] = Tail(@)] \in [Host -> [Link -> Seq(S)]]
<1>1. ch[h] \in [Link -> Seq(S)] /\ ch[h][l] \in Seq(S)
  OBVIOUS
<1>2. Head(ch[h][l]) \in S /\ Tail(ch[h][l]) \in Seq(S)
  BY <1>1
<1>3. QED
  BY <1>1, <1>2

\* Types and exact counters are preserved by every step.
LEMMA TypeInvStep == TypeInv /\ [Next]_vars => TypeInv'
<1> SUFFICES ASSUME TypeInv, [Next]_vars
             PROVE  TypeInv'
  OBVIOUS
<1>0. TypeOK /\ CounterExact
  BY DEF TypeInv
<1>1. ASSUME NEW f \in Flow, FlowStart(f)
      PROVE  TypeInv'
  <2>1. numFlows' \in [Link -> Nat] /\ CounterExact'
    BY <1>1, CountersFollow
  <2>2. /\ node_count' \in [Host -> [Link -> Seq(Int)]]
        /\ request' \in [Host -> [Link -> Seq({START, STOP})]]
    BY <1>0, <1>1, InitDHTType DEF FlowStart
  <2>3. no_flows' \in [Host -> [Link -> Nat]] /\ cwnd' \in [Flow -> Nat]
    BY <1>0, <1>1, <2>1, PollDhtType DEF FlowStart
  <2>4. QED
    BY <1>0, <1>1, <2>1, <2>2, <2>3 DEF FlowStart, TypeOK, TypeInv
<1>2. ASSUME NEW f \in Flow, FlowEnd(f)
      PROVE  TypeInv'
  <2>1. numFlows' \in [Link -> Nat] /\ CounterExact'
    BY <1>2, CountersFollow
  <2>2. /\ node_count' \in [Host -> [Link -> Seq(Int)]]
        /\ request' \in [Host -> [Link -> Seq({START, STOP})]]
    BY <1>0, <1>2, InitDHTType DEF FlowEnd
  <2>3. QED
    BY <1>0, <1>2, <2>1, <2>2 DEF FlowEnd, TypeOK, TypeInv
<1>3. ASSUME UNCHANGED <<flow, numFlows>>
      PROVE  CounterExact'
  BY <1>0, <1>3 DEF CounterExact, FlowsOver
<1>4. ASSUME NEW f \in Flow, TcpExpire(f)
      PROVE  TypeInv'
  <2>1. no_flows' \in [Host -> [Link -> Nat]] /\ cwnd' \in [Flow -> Nat]
    BY <1>0, <1>4, PollDhtType DEF TcpExpire, TypeOK
  <2>2. QED
    BY <1>0, <1>3, <1>4, <2>1 DEF TcpExpire, TypeOK, TypeInv
<1>rtx. ASSUME NEW f \in Flow, RtxTimeout(f)
        PROVE  TypeInv'
  BY <1>0, <1>3, <1>rtx DEF RtxTimeout, TypeOK, TypeInv
<1>5. ASSUME NEW r \in Host, NodeExpire(r)
      PROVE  TypeInv'
  BY <1>0, <1>3, <1>5, ExpireType DEF NodeExpire, TypeOK, TypeInv
<1>6. ASSUME NEW h \in Host, NEW l \in Link, RecvRequest(h, l)
      PROVE  TypeInv'
  <2>1. Resp[h][l] \in Host
    BY RespAssumption
  <2>2. /\ poll' \in [Host -> [Link -> Nat]]
        /\ reply' \in [Host -> [Link -> Seq(Nat)]]
    BY <1>0, <1>6, <2>1, ExpireType DEF RecvRequest, TypeOK
  <2>3. ASSUME NEW recs \in Seq(Int), NEW status
        PROVE  Registered(recs, status) \in Seq(Int)
    BY DEF Registered, Bump, Delta
  <2>4. request' \in [Host -> [Link -> Seq({START, STOP})]]
    BY <1>0, <1>6, TailType DEF RecvRequest, TypeOK
  <2>5. node_count' \in [Host -> [Link -> Seq(Int)]]
    BY <1>0, <1>6, <2>3 DEF RecvRequest, TypeOK
  <2>6. drift' \in [Host -> [Link -> Int]]
    BY <1>0, <1>6 DEF RecvRequest, TypeOK
  <2>7. poll_stat' \in [Host -> BOOLEAN]
    BY <1>0, <1>6, <2>1 DEF RecvRequest, TypeOK
  <2>8. UNCHANGED <<flow, tcpTimer, cwnd, numFlows, no_flows, answer>>
    BY <1>6 DEF RecvRequest
  <2>9. CounterExact'
    BY <1>3, <2>8
  <2>10. QED
    BY <1>0, <2>2, <2>4, <2>5, <2>6, <2>7, <2>8, <2>9 DEF TypeOK, TypeInv
<1>7. ASSUME NEW h \in Host, NEW l \in Link,
             RecvReply(h, l) \/ RecvPoll(h, l) \/ RecvAnswer(h, l)
      PROVE  TypeInv'
  <2>1. CounterExact'
    BY <1>3, <1>7 DEF RecvReply, RecvPoll, RecvAnswer
  <2>2. CASE RecvReply(h, l)
    <3>1. reply' \in [Host -> [Link -> Seq(Nat)]] /\ Head(reply[h][l]) \in Nat
      BY <1>0, <2>2, TailType DEF RecvReply, TypeOK
    <3>2. QED
      BY <1>0, <2>1, <2>2, <3>1 DEF RecvReply, TypeOK, TypeInv
  <2>3. CASE RecvPoll(h, l)
    <3>1. poll[h][l] \in Nat /\ poll[h][l] > 0
      BY <1>0, <2>3 DEF RecvPoll, TypeOK
    <3>2. poll' \in [Host -> [Link -> Nat]]
      BY <1>0, <2>3, <3>1 DEF RecvPoll, TypeOK
    <3>3. answer' \in [Host -> [Link -> Seq(Nat)]]
      BY <1>0, <2>3 DEF RecvPoll, TypeOK
    <3>4. QED
      BY <1>0, <2>1, <2>3, <3>2, <3>3 DEF RecvPoll, TypeOK, TypeInv
  <2>4. CASE RecvAnswer(h, l)
    <3>1. answer' \in [Host -> [Link -> Seq(Nat)]] /\ Head(answer[h][l]) \in Nat
      BY <1>0, <2>4, TailType DEF RecvAnswer, TypeOK
    <3>2. QED
      BY <1>0, <2>1, <2>4, <3>1 DEF RecvAnswer, TypeOK, TypeInv
  <2>5. QED
    BY <1>7, <2>2, <2>3, <2>4
<1>8. ASSUME NEW h \in Host, NEW l \in Link, LoseRequest(h, l)
      PROVE  TypeInv'
  <2>1. Delta(Head(request[h][l])) \in Int
    BY DEF Delta
  <2>2. request' \in [Host -> [Link -> Seq({START, STOP})]]
    BY <1>0, <1>8, TailType DEF LoseRequest, TypeOK
  <2>3. drift' \in [Host -> [Link -> Int]]
    BY <1>0, <1>8, <2>1 DEF LoseRequest, TypeOK
  <2>4. CounterExact'
    BY <1>3, <1>8 DEF LoseRequest
  <2>5. QED
    BY <1>0, <1>8, <2>2, <2>3, <2>4 DEF LoseRequest, TypeOK, TypeInv
<1>9. ASSUME NEW h \in Host, NEW l \in Link, LoseStats(h, l)
      PROVE  TypeInv'
  <2>1. CounterExact'
    BY <1>3, <1>9 DEF LoseStats
  <2>2. reply' \in [Host -> [Link -> Seq(Nat)]]
    <3>1. \/ reply' = reply
          \/ reply[h][l] # <<>> /\ reply' = [reply EXCEPT ![h][l] = Tail(@)]
      BY <1>9 DEF LoseStats
    <3>2. reply \in [Host -> [Link -> Seq(Nat)]]
      BY <1>0 DEF TypeOK
    <3>3. reply[h][l] # <<>> => [reply EXCEPT ![h][l] = Tail(@)]
                                \in [Host -> [Link -> Seq(Nat)]]
      BY <3>2, TailType
    <3>4. QED
      BY <3>1, <3>2, <3>3, Zenon
  <2>3. answer' \in [Host -> [Link -> Seq(Nat)]]
    <3>1. \/ answer' = answer
          \/ answer[h][l] # <<>> /\ answer' = [answer EXCEPT ![h][l] = Tail(@)]
      BY <1>9 DEF LoseStats
    <3>2. answer \in [Host -> [Link -> Seq(Nat)]]
      BY <1>0 DEF TypeOK
    <3>3. answer[h][l] # <<>> => [answer EXCEPT ![h][l] = Tail(@)]
                                \in [Host -> [Link -> Seq(Nat)]]
      BY <3>2, TailType
    <3>4. QED
      BY <3>1, <3>2, <3>3, Zenon
  <2>4. poll' \in [Host -> [Link -> Nat]]
    <3>1. \/ poll' = poll
          \/ poll[h][l] > 0 /\ poll' = [poll EXCEPT ![h][l] = @ - 1]
      BY <1>9 DEF LoseStats
    <3>2. poll[h][l] \in Nat
      BY <1>0 DEF TypeOK
    <3>3. poll[h][l] > 0 => [poll EXCEPT ![h][l] = @ - 1]
                              \in [Host -> [Link -> Nat]]
      BY <1>0, <3>2 DEF TypeOK
    <3>4. poll \in [Host -> [Link -> Nat]]
      BY <1>0 DEF TypeOK
    <3>5. QED
      BY <3>1, <3>3, <3>4, Zenon
  <2>5. QED
    BY <1>0, <1>9, <2>1, <2>2, <2>3, <2>4 DEF LoseStats, TypeOK, TypeInv
<1>10. CASE UNCHANGED vars
  BY <1>0, <1>3, <1>10 DEF vars, TypeOK, TypeInv
<1>11. QED
  BY <1>1, <1>2, <1>4, <1>5, <1>6, <1>7, <1>8, <1>9, <1>10, <1>rtx DEF Next

LEMMA TypeInvInit == Init => TypeInv
<1> SUFFICES ASSUME Init PROVE TypeInv
  OBVIOUS
<1>1. TypeOK
  BY RateAssumption DEF Init, TypeOK
<1>2. ASSUME NEW l \in Link
      PROVE  numFlows[l] = Cardinality(FlowsOver(l))
  <2>1. FlowsOver(l) = {}
    BY DEF Init, FlowsOver
  <2>2. QED
    BY <2>1, FS_EmptySet DEF Init
<1>3. QED
  BY <1>1, <1>2 DEF TypeInv, CounterExact

\* The type invariant holds in every reachable state: in particular no queue's
\* flow counter goes below zero, although decrementFlows never tests it.
THEOREM TypeCorrect == Spec => []TypeOK
<1>1. TypeInv => TypeOK
  BY DEF TypeInv
<1>2. QED
  BY <1>1, TypeInvInit, TypeInvStep, PTL DEF Spec

\* The counter of every queue is the number of flows under way over its link.
THEOREM CounterExactness == Spec => []CounterExact
<1>1. TypeInv => CounterExact
  BY DEF TypeInv
<1>2. QED
  BY <1>1, TypeInvInit, TypeInvStep, PTL DEF Spec

-----------------------------------------------------------------------------
(***************************************************************************)
(* Remote subscriptions                                                    *)
(*                                                                         *)
(* For one host h and one link l of another host, a step does one of four  *)
(* things to what the two hosts keep about each other.                     *)
(***************************************************************************)
Untouched(h, l) ==
    /\ node_count'[h][l] = node_count[h][l]
    /\ request'[h][l] = request[h][l]
    /\ drift'[h][l] = drift[h][l]
    /\ Subscribers(h, l)' = Subscribers(h, l)

Sent(h, l, status) ==
    /\ node_count'[h][l] = node_count[h][l]
    /\ request'[h][l] = Append(request[h][l], status)
    /\ drift'[h][l] = drift[h][l]
    /\ Cardinality(Subscribers(h, l)') = Cardinality(Subscribers(h, l)) + Delta(status)

Taken(h, l) ==
    /\ request[h][l] # <<>>
    /\ node_count'[h][l] = Registered(node_count[h][l], Head(request[h][l]))
    /\ request'[h][l] = Tail(request[h][l])
    /\ drift'[h][l] = IF Ignored(node_count[h][l], Head(request[h][l]))
                      THEN drift[h][l] - 1 ELSE drift[h][l]
    /\ Subscribers(h, l)' = Subscribers(h, l)

Lost(h, l) ==
    /\ Lossy
    /\ request[h][l] # <<>>
    /\ node_count'[h][l] = node_count[h][l]
    /\ request'[h][l] = Tail(request[h][l])
    /\ drift'[h][l] = drift[h][l] + Delta(Head(request[h][l]))
    /\ Subscribers(h, l)' = Subscribers(h, l)

\* How a start or an end changes a host's flows over a link.
LEMMA SubscribersStep ==
    ASSUME TypeOK, NEW h \in Host, NEW l \in Link, NEW f \in Flow
    PROVE  /\ Subscribers(h, l) \in SUBSET Flow
           /\ FlowStart(f) =>
                 /\ f \notin Subscribers(h, l)
                 /\ Subscribers(h, l)' =
                       IF h = Src[f] /\ l \in Core[f]
                       THEN Subscribers(h, l) \cup {f} ELSE Subscribers(h, l)
           /\ FlowEnd(f) =>
                 /\ f \in Subscribers(h, l) <=> (h = Src[f] /\ l \in Core[f])
                 /\ Subscribers(h, l)' =
                       IF h = Src[f] /\ l \in Core[f]
                       THEN Subscribers(h, l) \ {f} ELSE Subscribers(h, l)
<1>1. Subscribers(h, l) \in SUBSET Flow
  BY DEF Subscribers
<1>2. ASSUME FlowStart(f)
      PROVE  /\ f \notin Subscribers(h, l)
             /\ Subscribers(h, l)' =
                   IF h = Src[f] /\ l \in Core[f]
                   THEN Subscribers(h, l) \cup {f} ELSE Subscribers(h, l)
  BY <1>2 DEF FlowStart, Subscribers, TypeOK
<1>3. ASSUME FlowEnd(f)
      PROVE  /\ f \in Subscribers(h, l) <=> (h = Src[f] /\ l \in Core[f])
             /\ Subscribers(h, l)' =
                   IF h = Src[f] /\ l \in Core[f]
                   THEN Subscribers(h, l) \ {f} ELSE Subscribers(h, l)
  BY <1>3 DEF FlowEnd, Subscribers, TypeOK
<1>4. QED
  BY <1>1, <1>2, <1>3

\* What init_DHT does to one remote pair.
LEMMA InitDHTPair ==
    ASSUME TypeOK, NEW f \in Flow, NEW status, InitDHT(f, status),
           NEW h \in Host, NEW l \in Link, Resp[h][l] # h
    PROVE  /\ node_count'[h][l] = node_count[h][l]
           /\ request'[h][l] = IF h = Src[f] /\ l \in Core[f]
                               THEN Append(request[h][l], status)
                               ELSE request[h][l]
BY FlowAssumption DEF InitDHT, TypeOK

\* Every step is one of the four for every remote pair.
LEMMA RemoteStep ==
    ASSUME TypeOK, [Next]_vars, NEW h \in Host, NEW l \in Link, Resp[h][l] # h
    PROVE  \/ Untouched(h, l)
           \/ \E status \in {START, STOP} : Sent(h, l, status)
           \/ Taken(h, l)
           \/ Lost(h, l)
<1>1. ASSUME NEW f \in Flow, FlowStart(f)
      PROVE  Untouched(h, l) \/ Sent(h, l, START)
  <2>1. /\ node_count'[h][l] = node_count[h][l]
        /\ request'[h][l] = IF h = Src[f] /\ l \in Core[f]
                            THEN Append(request[h][l], START)
                            ELSE request[h][l]
    BY <1>1, InitDHTPair DEF FlowStart
  <2>2. drift'[h][l] = drift[h][l]
    BY <1>1 DEF FlowStart
  <2>3. CASE h = Src[f] /\ l \in Core[f]
    <3>1. Cardinality(Subscribers(h, l)') = Cardinality(Subscribers(h, l)) + 1
      BY <1>1, <2>3, SubscribersStep, FlowSetGrows
    <3>2. QED
      BY <2>1, <2>2, <2>3, <3>1 DEF Sent, Delta
  <2>4. CASE ~(h = Src[f] /\ l \in Core[f])
    BY <1>1, <2>1, <2>2, <2>4, SubscribersStep DEF Untouched
  <2>5. QED
    BY <2>3, <2>4
<1>2. ASSUME NEW f \in Flow, FlowEnd(f)
      PROVE  Untouched(h, l) \/ Sent(h, l, STOP)
  <2>1. /\ node_count'[h][l] = node_count[h][l]
        /\ request'[h][l] = IF h = Src[f] /\ l \in Core[f]
                            THEN Append(request[h][l], STOP)
                            ELSE request[h][l]
    BY <1>2, InitDHTPair DEF FlowEnd
  <2>2. drift'[h][l] = drift[h][l]
    BY <1>2 DEF FlowEnd
  <2>3. CASE h = Src[f] /\ l \in Core[f]
    <3>1. Cardinality(Subscribers(h, l)') = Cardinality(Subscribers(h, l)) - 1
      BY <1>2, <2>3, SubscribersStep, FlowSetGrows
    <3>2. Delta(STOP) = -1 /\ Cardinality(Subscribers(h, l)) \in Nat
      BY SubscribersStep, FlowSetFinite DEF Delta, START, STOP
    <3>3. QED
      BY <2>1, <2>2, <2>3, <3>1, <3>2 DEF Sent
  <2>4. CASE ~(h = Src[f] /\ l \in Core[f])
    BY <1>2, <2>1, <2>2, <2>4, SubscribersStep DEF Untouched
  <2>5. QED
    BY <2>3, <2>4
<1>3. ASSUME UNCHANGED <<flow, node_count, request, drift>>
      PROVE  Untouched(h, l)
  BY <1>3 DEF Untouched, Subscribers
<1>4. ASSUME NEW f \in Flow, TcpExpire(f)
      PROVE  Untouched(h, l)
  BY <1>3, <1>4 DEF TcpExpire
<1>rtx. ASSUME NEW f \in Flow, RtxTimeout(f)
        PROVE  Untouched(h, l)
  BY <1>3, <1>rtx DEF RtxTimeout
<1>5. ASSUME NEW r \in Host, NodeExpire(r)
      PROVE  Untouched(h, l)
  BY <1>3, <1>5 DEF NodeExpire
<1>6. ASSUME NEW g \in Host, NEW m \in Link, RecvRequest(g, m)
      PROVE  Untouched(h, l) \/ Taken(h, l)
  <2>1. Subscribers(h, l)' = Subscribers(h, l)
    BY <1>6 DEF RecvRequest, Subscribers
  <2>2. CASE g = h /\ m = l
    BY <1>6, <2>1, <2>2 DEF RecvRequest, Taken, TypeOK
  <2>3. CASE ~(g = h /\ m = l)
    BY <1>6, <2>1, <2>3 DEF RecvRequest, Untouched, TypeOK
  <2>4. QED
    BY <2>2, <2>3
<1>7. ASSUME NEW g \in Host, NEW m \in Link,
             RecvReply(g, m) \/ RecvPoll(g, m) \/ RecvAnswer(g, m) \/ LoseStats(g, m)
      PROVE  Untouched(h, l)
  BY <1>3, <1>7 DEF RecvReply, RecvPoll, RecvAnswer, LoseStats
<1>8. ASSUME NEW g \in Host, NEW m \in Link, LoseRequest(g, m)
      PROVE  Untouched(h, l) \/ Lost(h, l)
  <2>1. Subscribers(h, l)' = Subscribers(h, l)
    BY <1>8 DEF LoseRequest, Subscribers
  <2>2. CASE g = h /\ m = l
    BY <1>8, <2>1, <2>2 DEF LoseRequest, Lost, TypeOK
  <2>3. CASE ~(g = h /\ m = l)
    BY <1>8, <2>1, <2>3 DEF LoseRequest, Untouched, TypeOK
  <2>4. QED
    BY <2>2, <2>3
<1>9. CASE UNCHANGED vars
  BY <1>3, <1>9 DEF vars
<1>10. QED
  BY <1>1, <1>2, <1>4, <1>5, <1>6, <1>7, <1>8, <1>9, <1>rtx DEF Next

\* What registering a request does to the count and to the rest of the channel.
LEMMA RegisterCounts ==
    ASSUME NEW recs \in Seq(Int), NEW reqs \in Seq({START, STOP}), reqs # <<>>,
           NEW k \in 0..(Len(reqs) - 1)
    PROVE  FirstCount(Registered(recs, Head(reqs))) + Outstanding(Tail(reqs), k)
             = FirstCount(recs) + Outstanding(reqs, k + 1)
                 + (IF Ignored(recs, Head(reqs)) THEN 1 ELSE 0)
<1>1. Head(reqs) \in {START, STOP}
  OBVIOUS
<1>2. FirstCount(Registered(recs, Head(reqs)))
        = FirstCount(recs) + (IF Ignored(recs, Head(reqs)) THEN 0
                              ELSE Delta(Head(reqs)))
  <2> DEFINE x == Head(reqs)
  <2>1. CASE recs = <<>>
    BY <1>1, <2>1 DEF Registered, FirstCount, Ignored, Delta, START, STOP
  <2>2. CASE recs # <<>>
    <3>1. Registered(recs, x) = [recs EXCEPT ![1] = @ + Delta(x)] /\ ~Ignored(recs, x)
      BY <2>2 DEF Registered, Bump, Ignored
    <3>2. 1 \in DOMAIN recs
      BY <2>2
    <3>3. Registered(recs, x) # <<>> /\ Registered(recs, x)[1] = recs[1] + Delta(x)
      BY <3>1, <3>2
    <3>4. QED
      BY <2>2, <3>1, <3>3 DEF FirstCount
  <2>3. QED
    BY <2>1, <2>2
<1>3. Outstanding(reqs, k + 1) = Outstanding(Tail(reqs), k) + Delta(Head(reqs))
  BY OutstandingTail
<1>4. Outstanding(reqs, k + 1) \in Int /\ Outstanding(Tail(reqs), k) \in Int
  BY OutstandingType
<1>5. FirstCount(recs) \in Int /\ Delta(Head(reqs)) \in Int
  BY DEF FirstCount, Delta
<1>6. Ignored(recs, Head(reqs)) => Delta(Head(reqs)) = -1
  BY DEF Ignored, Delta, START, STOP
<1> DEFINE a == FirstCount(recs)
           b == Outstanding(reqs, k + 1)
           a2 == FirstCount(Registered(recs, Head(reqs)))
           b2 == Outstanding(Tail(reqs), k)
           d == Delta(Head(reqs))
           ign == Ignored(recs, Head(reqs))
<1>7. /\ a \in Int /\ b \in Int /\ b2 \in Int /\ d \in Int
      /\ a2 = a + (IF ign THEN 0 ELSE d) /\ b = b2 + d /\ (ign => d = -1)
  BY <1>2, <1>3, <1>4, <1>5, <1>6
<1> HIDE DEF a, b, a2, b2, d, ign
<1>8. a2 + b2 = a + b + (IF ign THEN 1 ELSE 0)
  BY <1>7
<1>9. QED
  BY <1>8 DEF a, b, a2, b2, ign

LEMMA RegisteredType ==
    ASSUME NEW recs \in Seq(Int), NEW status
    PROVE  /\ Registered(recs, status) \in Seq(Int)
           /\ FirstCount(Registered(recs, status)) \in Int
<1>1. Delta(status) \in Int
  BY DEF Delta
<1>2. Registered(recs, status) \in Seq(Int)
  BY <1>1 DEF Registered, Bump
<1>3. ASSUME NEW t \in Seq(Int)
      PROVE  FirstCount(t) \in Int
  BY DEF FirstCount
<1>4. QED
  BY <1>2, <1>3

\* The facts about one remote pair that the cases below share.
LEMMA PairTypes ==
    ASSUME TypeOK, NEW h \in Host, NEW l \in Link
    PROVE  /\ node_count[h][l] \in Seq(Int)
           /\ request[h][l] \in Seq({START, STOP})
           /\ Len(request[h][l]) \in Nat
           /\ drift[h][l] \in Int
           /\ FirstCount(node_count[h][l]) \in Int
           /\ \A k \in Nat : Outstanding(request[h][l], k) \in Int
           /\ Cardinality(Subscribers(h, l)) \in Nat
<1>1. /\ node_count[h][l] \in Seq(Int)
      /\ request[h][l] \in Seq({START, STOP})
      /\ Len(request[h][l]) \in Nat
      /\ drift[h][l] \in Int
  BY DEF TypeOK
<1>2. FirstCount(node_count[h][l]) \in Int
  BY <1>1 DEF FirstCount
<1>3. Subscribers(h, l) \in SUBSET Flow
  BY DEF Subscribers
<1>4. QED
  BY <1>1, <1>2, <1>3, OutstandingType, FlowSetFinite

\* SubscriptionsConserved is preserved: a request is sent when the number of
\* flows changes, and is either counted or booked as drift when it arrives.
LEMMA ConservedStep ==
    ASSUME TypeOK, SubscriptionsConserved, [Next]_vars
    PROVE  SubscriptionsConserved'
<1> SUFFICES ASSUME NEW h \in Host, NEW l \in Link, Resp[h][l] # h
             PROVE  FirstCount(node_count'[h][l])
                      + Outstanding(request'[h][l], Len(request'[h][l]))
                      + drift'[h][l] = Cardinality(Subscribers(h, l)')
  BY DEF SubscriptionsConserved, LaggedCount
<1> DEFINE recs == node_count[h][l]
           reqs == request[h][l]
<1>1. FirstCount(recs) + Outstanding(reqs, Len(reqs)) + drift[h][l]
        = Cardinality(Subscribers(h, l))
  BY DEF SubscriptionsConserved, LaggedCount
<1>2. /\ recs \in Seq(Int) /\ reqs \in Seq({START, STOP})
      /\ Len(reqs) \in Nat /\ drift[h][l] \in Int
      /\ FirstCount(recs) \in Int
      /\ \A k \in Nat : Outstanding(reqs, k) \in Int
      /\ Cardinality(Subscribers(h, l)) \in Nat
  BY PairTypes
<1>all. /\ FirstCount(recs) \in Int /\ Outstanding(reqs, Len(reqs)) \in Int
        /\ drift[h][l] \in Int /\ Cardinality(Subscribers(h, l)) \in Int
  BY <1>2
<1>3. CASE Untouched(h, l)
  BY <1>1, <1>3 DEF Untouched
<1>4. ASSUME NEW status \in {START, STOP}, Sent(h, l, status)
      PROVE  FirstCount(node_count'[h][l])
               + Outstanding(request'[h][l], Len(request'[h][l]))
               + drift'[h][l] = Cardinality(Subscribers(h, l)')
  <2>1. Len(Append(reqs, status)) = Len(reqs) + 1
    BY <1>2
  <2>2. Outstanding(Append(reqs, status), Len(reqs) + 1)
          = Outstanding(reqs, Len(reqs)) + Delta(status)
    BY <1>2, OutstandingAppend
  <2>3. Delta(status) \in Int
    BY DEF Delta
  <2>4. FirstCount(recs) + (Outstanding(reqs, Len(reqs)) + Delta(status)) + drift[h][l]
          = Cardinality(Subscribers(h, l)) + Delta(status)
    <3> DEFINE a == FirstCount(recs)
               b == Outstanding(reqs, Len(reqs))
               c == drift[h][l]
               d == Delta(status)
               n == Cardinality(Subscribers(h, l))
    <3>1. a \in Int /\ b \in Int /\ c \in Int /\ d \in Int /\ a + b + c = n
      BY <1>1, <1>all, <2>3
    <3> HIDE DEF a, b, c, d, n
    <3>2. a + (b + d) + c = n + d
      BY <3>1
    <3>3. QED
      BY <3>2 DEF a, b, c, d, n
  <2>5. /\ node_count'[h][l] = recs /\ request'[h][l] = Append(reqs, status)
        /\ drift'[h][l] = drift[h][l]
        /\ Cardinality(Subscribers(h, l)') = Cardinality(Subscribers(h, l)) + Delta(status)
    BY <1>4 DEF Sent
  <2> HIDE DEF recs, reqs
  <2>6. QED
    BY <2>1, <2>2, <2>4, <2>5
<1>5. CASE Taken(h, l)
  <2>1. /\ Len(Tail(reqs)) = Len(reqs) - 1
        /\ Len(reqs) - 1 \in 0..(Len(reqs) - 1)
    BY <1>2, <1>5 DEF Taken
  <2>2. FirstCount(Registered(recs, Head(reqs)))
          + Outstanding(Tail(reqs), Len(reqs) - 1)
          = FirstCount(recs) + Outstanding(reqs, (Len(reqs) - 1) + 1)
              + (IF Ignored(recs, Head(reqs)) THEN 1 ELSE 0)
    BY <1>2, <1>5, <2>1, RegisterCounts DEF Taken
  <2>3. /\ FirstCount(Registered(recs, Head(reqs))) \in Int
        /\ Outstanding(Tail(reqs), Len(reqs) - 1) \in Int
    BY <1>2, <2>1, OutstandingType, RegisteredType
  <2>4. (Len(reqs) - 1) + 1 = Len(reqs)
    BY <1>2
  <2>5. /\ FirstCount(node_count'[h][l]) = FirstCount(Registered(recs, Head(reqs)))
        /\ Outstanding(request'[h][l], Len(request'[h][l]))
             = Outstanding(Tail(reqs), Len(reqs) - 1)
        /\ drift'[h][l] = drift[h][l] - (IF Ignored(recs, Head(reqs)) THEN 1 ELSE 0)
        /\ Cardinality(Subscribers(h, l)') = Cardinality(Subscribers(h, l))
    BY <1>2, <1>5, <2>1 DEF Taken
  <2> DEFINE a == FirstCount(recs)
             b == Outstanding(reqs, Len(reqs))
             a2 == FirstCount(Registered(recs, Head(reqs)))
             b2 == Outstanding(Tail(reqs), Len(reqs) - 1)
             c == drift[h][l]
             e == IF Ignored(recs, Head(reqs)) THEN 1 ELSE 0
             n == Cardinality(Subscribers(h, l))
  <2>6. /\ a \in Int /\ b \in Int /\ a2 \in Int /\ b2 \in Int /\ c \in Int /\ e \in Int
        /\ a + b + c = n /\ a2 + b2 = a + b + e
    BY <1>1, <1>all, <2>2, <2>3, <2>4
  <2>7. /\ FirstCount(node_count'[h][l]) = a2
        /\ Outstanding(request'[h][l], Len(request'[h][l])) = b2
        /\ drift'[h][l] = c - e
        /\ Cardinality(Subscribers(h, l)') = n
    BY <2>5
  <2> HIDE DEF a, b, a2, b2, c, e, n
  <2>8. a2 + b2 + (c - e) = n
    BY <2>6
  <2>9. QED
    BY <2>7, <2>8
<1>6. CASE Lost(h, l)
  <2>1. /\ Len(Tail(reqs)) = Len(reqs) - 1
        /\ Len(reqs) - 1 \in 0..(Len(reqs) - 1)
        /\ (Len(reqs) - 1) + 1 = Len(reqs)
    <3>1. reqs # <<>>
      BY <1>6 DEF Lost
    <3> HIDE DEF reqs, recs
    <3>2. QED
      BY <1>2, <3>1
  <2>2. Outstanding(reqs, (Len(reqs) - 1) + 1)
          = Outstanding(Tail(reqs), Len(reqs) - 1) + Delta(Head(reqs))
    BY <1>2, <1>6, <2>1, OutstandingTail DEF Lost
  <2>3. /\ Outstanding(Tail(reqs), Len(reqs) - 1) \in Int
        /\ Delta(Head(reqs)) \in Int
    BY <2>1, OutstandingType DEF Delta
  <2>4. /\ FirstCount(node_count'[h][l]) = FirstCount(recs)
        /\ Outstanding(request'[h][l], Len(request'[h][l]))
             = Outstanding(Tail(reqs), Len(reqs) - 1)
        /\ drift'[h][l] = drift[h][l] + Delta(Head(reqs))
        /\ Cardinality(Subscribers(h, l)') = Cardinality(Subscribers(h, l))
    BY <1>6, <2>1 DEF Lost
  <2>6. FirstCount(recs) + Outstanding(Tail(reqs), Len(reqs) - 1)
          + (drift[h][l] + Delta(Head(reqs))) = Cardinality(Subscribers(h, l))
    <3>1. Outstanding(reqs, Len(reqs))
            = Outstanding(Tail(reqs), Len(reqs) - 1) + Delta(Head(reqs))
      BY <2>1, <2>2
    <3> DEFINE a == FirstCount(recs)
               b == Outstanding(reqs, Len(reqs))
               b2 == Outstanding(Tail(reqs), Len(reqs) - 1)
               c == drift[h][l]
               d == Delta(Head(reqs))
               n == Cardinality(Subscribers(h, l))
    <3>2. /\ a \in Int /\ b \in Int /\ b2 \in Int /\ c \in Int /\ d \in Int
          /\ a + b + c = n /\ b = b2 + d
      BY <1>1, <1>all, <2>3, <3>1
    <3> HIDE DEF a, b, b2, c, d, n
    <3>3. a + b2 + (c + d) = n
      BY <3>2
    <3>4. QED
      BY <3>3 DEF a, b2, c, d, n
  <2> HIDE DEF recs, reqs
  <2>7. QED
    BY <2>4, <2>6
<1>7. QED
  BY <1>3, <1>4, <1>5, <1>6, RemoteStep

\* No request is sent to oneself.
LEMMA RemoteRequestsStep ==
    ASSUME TypeOK, RequestsAreRemote, [Next]_vars
    PROVE  RequestsAreRemote'
<1> SUFFICES ASSUME NEW h \in Host, NEW l \in Link, Resp[h][l] = h
             PROVE  request'[h][l] = <<>>
  BY DEF RequestsAreRemote
<1>1. request[h][l] = <<>>
  BY DEF RequestsAreRemote
<1>2. ASSUME NEW f \in Flow, NEW status, InitDHT(f, status)
      PROVE  request'[h][l] = request[h][l]
  BY <1>2, FlowAssumption DEF InitDHT, TypeOK
<1>3. ASSUME NEW f \in Flow, 
             FlowStart(f) \/ FlowEnd(f) \/ TcpExpire(f) \/ RtxTimeout(f)
      PROVE  request'[h][l] = <<>>
  BY <1>1, <1>2, <1>3 DEF FlowStart, FlowEnd, TcpExpire, RtxTimeout
<1>4. ASSUME NEW r \in Host, NodeExpire(r)
      PROVE  request'[h][l] = <<>>
  BY <1>1, <1>4 DEF NodeExpire
<1>5. ASSUME NEW g \in Host, NEW m \in Link, RecvRequest(g, m) \/ LoseRequest(g, m)
      PROVE  request'[h][l] = <<>>
  <2>1. ~(g = h /\ m = l)
    BY <1>1, <1>5 DEF RecvRequest, LoseRequest
  <2>2. request' = [request EXCEPT ![g][m] = Tail(@)]
    BY <1>5 DEF RecvRequest, LoseRequest
  <2>3. QED
    BY <1>1, <2>1, <2>2 DEF TypeOK
<1>6. ASSUME NEW g \in Host, NEW m \in Link,
             RecvReply(g, m) \/ RecvPoll(g, m) \/ RecvAnswer(g, m) \/ LoseStats(g, m)
      PROVE  request'[h][l] = <<>>
  BY <1>1, <1>6 DEF RecvReply, RecvPoll, RecvAnswer, LoseStats
<1>7. CASE UNCHANGED vars
  BY <1>1, <1>7 DEF vars
<1>8. QED
  BY <1>3, <1>4, <1>5, <1>6, <1>7 DEF Next

\* Without loss the count stays non-negative along the whole channel: a request
\* is added where the running count is the number of flows, and the head of the
\* channel is registered, never ignored, because the count after it is not
\* negative.
LEMMA NotIgnoredStep ==
    ASSUME TypeOK, SubscriptionsConserved, RequestsAreRemote, NoRequestIgnored,
           [Next]_vars
    PROVE  NoRequestIgnored'
<1> SUFFICES ASSUME ~Lossy, NEW h \in Host, NEW l \in Link
             PROVE  /\ drift'[h][l] = 0
                    /\ Resp[h][l] # h =>
                         \A k \in 0..Len(request'[h][l]) :
                            FirstCount(node_count'[h][l])
                              + Outstanding(request'[h][l], k) >= 0
  BY DEF NoRequestIgnored, LaggedCount
<1> DEFINE recs == node_count[h][l]
           reqs == request[h][l]
           Goal == /\ drift'[h][l] = 0
                   /\ \A k \in 0..Len(request'[h][l]) :
                        FirstCount(node_count'[h][l])
                          + Outstanding(request'[h][l], k) >= 0
<1>1. drift[h][l] = 0
  BY DEF NoRequestIgnored
<1>2. CASE Resp[h][l] = h
  <2>1. reqs = <<>>
    BY <1>2 DEF RequestsAreRemote
  <2>2. ASSUME NEW g \in Host, NEW m \in Link, RecvRequest(g, m)
        PROVE  drift'[h][l] = drift[h][l]
    <3>1. ~(g = h /\ m = l)
      BY <2>1, <2>2 DEF RecvRequest
    <3>2. QED
      BY <2>2, <3>1 DEF RecvRequest, TypeOK
  <2>3. drift'[h][l] = drift[h][l]
    BY <2>2 DEF Next, FlowStart, FlowEnd, TcpExpire, RtxTimeout, NodeExpire, RecvReply,
                RecvPoll, RecvAnswer, LoseRequest, LoseStats, vars
  <2>4. QED
    BY <1>1, <1>2, <2>3
<1>3. CASE Resp[h][l] # h
  <2>1. /\ recs \in Seq(Int) /\ reqs \in Seq({START, STOP})
        /\ Len(reqs) \in Nat
        /\ FirstCount(recs) \in Int
        /\ \A k \in Nat : Outstanding(reqs, k) \in Int
        /\ Cardinality(Subscribers(h, l)) \in Nat
    BY PairTypes
  <2>2. \A k \in 0..Len(reqs) : FirstCount(recs) + Outstanding(reqs, k) >= 0
    BY <1>3 DEF NoRequestIgnored, LaggedCount
  <2>3. CASE Untouched(h, l)
    BY <1>1, <2>2, <2>3 DEF Untouched
  <2>4. ASSUME NEW status \in {START, STOP}, Sent(h, l, status)
        PROVE  Goal
    <3>1. Len(Append(reqs, status)) = Len(reqs) + 1
      BY <2>1
    <3>2. \A k \in 0..Len(reqs) :
             Outstanding(Append(reqs, status), k) = Outstanding(reqs, k)
      BY <2>1, OutstandingAppend
    <3>3. FirstCount(recs) + Outstanding(Append(reqs, status), Len(reqs) + 1) >= 0
      <4>1. SubscriptionsConserved'
        BY ConservedStep
      <4>2. FirstCount(node_count'[h][l])
              + Outstanding(request'[h][l], Len(request'[h][l])) + drift'[h][l]
              = Cardinality(Subscribers(h, l)')
        BY <1>3, <4>1 DEF SubscriptionsConserved, LaggedCount
      <4>3. Cardinality(Subscribers(h, l)') \in Nat
        <5>1. Subscribers(h, l)' \in SUBSET Flow
          BY DEF Subscribers
        <5>2. QED
          BY <5>1, FlowSetFinite
      <4>4. Outstanding(Append(reqs, status), Len(reqs) + 1) \in Int
        BY <2>1, OutstandingType
      <4>5. QED
        BY <1>1, <2>1, <2>4, <3>1, <4>2, <4>3, <4>4 DEF Sent
    <3>4. \A k \in 0..(Len(reqs) + 1) :
             FirstCount(recs) + Outstanding(Append(reqs, status), k) >= 0
      <4> TAKE k \in 0..(Len(reqs) + 1)
      <4>1. k \in 0..Len(reqs) \/ k = Len(reqs) + 1
        BY <2>1
      <4>2. QED
        BY <2>2, <3>2, <3>3, <4>1
    <3>5. QED
      BY <1>1, <2>4, <3>1, <3>4 DEF Sent
  <2>5. CASE Taken(h, l)
    <3>1. /\ reqs # <<>>
          /\ Len(Tail(reqs)) = Len(reqs) - 1
          /\ 0 \in 0..(Len(reqs) - 1)
          /\ 0 + 1 \in 0..Len(reqs)
      BY <2>1, <2>5 DEF Taken
    <3>2. ~Ignored(recs, Head(reqs))
      <4> SUFFICES ASSUME Ignored(recs, Head(reqs))
                   PROVE  FALSE
        OBVIOUS
      <4>1. FirstCount(recs) = 0 /\ Delta(Head(reqs)) = -1
        BY DEF Ignored, FirstCount, Delta, START, STOP
      <4>2. Outstanding(reqs, 0 + 1) = Outstanding(Tail(reqs), 0) + Delta(Head(reqs))
        BY <2>1, <3>1, OutstandingTail
      <4>3. Outstanding(Tail(reqs), 0) = 0
        BY OutstandingEmpty
      <4>4. FirstCount(recs) + Outstanding(reqs, 0 + 1) >= 0
        BY <2>2, <3>1
      <4>5. QED
        BY <4>1, <4>2, <4>3, <4>4
    <3>3. ASSUME NEW k \in 0..(Len(reqs) - 1)
          PROVE  FirstCount(Registered(recs, Head(reqs)))
                   + Outstanding(Tail(reqs), k) >= 0
      <4>1. k + 1 \in 0..Len(reqs)
        BY <2>1
      <4>2. FirstCount(Registered(recs, Head(reqs))) + Outstanding(Tail(reqs), k)
              = FirstCount(recs) + Outstanding(reqs, k + 1)
                  + (IF Ignored(recs, Head(reqs)) THEN 1 ELSE 0)
        BY <2>1, <3>1, RegisterCounts
      <4>3. FirstCount(recs) + Outstanding(reqs, k + 1) >= 0
        BY <2>2, <4>1
      <4>4. Outstanding(reqs, k + 1) \in Int
        BY <2>1, <4>1
      <4>5. QED
        BY <2>1, <3>2, <4>2, <4>3, <4>4
    <3>4. QED
      BY <1>1, <2>5, <3>1, <3>2, <3>3 DEF Taken
  <2>6. ~Lost(h, l)
    BY DEF Lost
  <2>7. QED
    BY <1>3, <2>3, <2>4, <2>5, <2>6, RemoteStep
<1>4. QED
  BY <1>2, <1>3

\* The inductive invariant of the accounting.
AccountInv ==
    TypeInv /\ SubscriptionsConserved /\ RequestsAreRemote /\ NoRequestIgnored

LEMMA AccountInit == Init => AccountInv
<1> SUFFICES ASSUME Init PROVE AccountInv
  OBVIOUS
<1>1. ASSUME NEW h \in Host, NEW l \in Link
      PROVE  /\ request[h][l] = <<>> /\ node_count[h][l] = <<>> /\ drift[h][l] = 0
             /\ FirstCount(node_count[h][l]) = 0
             /\ Len(request[h][l]) = 0
             /\ Outstanding(request[h][l], 0) = 0
             /\ Cardinality(Subscribers(h, l)) = 0
  <2>1. request[h][l] = <<>> /\ node_count[h][l] = <<>> /\ drift[h][l] = 0
    BY DEF Init
  <2>2. Subscribers(h, l) = {}
    BY DEF Init, Subscribers
  <2>3. QED
    BY <2>1, <2>2, OutstandingEmpty, FS_EmptySet DEF FirstCount
<1>2. SubscriptionsConserved
  BY <1>1 DEF SubscriptionsConserved, LaggedCount
<1>3. RequestsAreRemote
  BY <1>1 DEF RequestsAreRemote
<1>4. NoRequestIgnored
  <2>1. ASSUME NEW h \in Host, NEW l \in Link, NEW k \in 0..Len(request[h][l])
        PROVE  LaggedCount(h, l, k) >= 0
    <3>1. k = 0
      BY <1>1
    <3>2. QED
      BY <1>1, <3>1 DEF LaggedCount
  <2>2. QED
    BY <1>1, <2>1 DEF NoRequestIgnored
<1>5. QED
  BY <1>2, <1>3, <1>4, TypeInvInit DEF AccountInv

LEMMA AccountStep == AccountInv /\ [Next]_vars => AccountInv'
<1> SUFFICES ASSUME AccountInv, [Next]_vars PROVE AccountInv'
  OBVIOUS
<1>1. TypeOK /\ TypeInv
  BY DEF AccountInv, TypeInv
<1>2. QED
  BY <1>1, TypeInvStep, ConservedStep, RemoteRequestsStep, NotIgnoredStep
  DEF AccountInv

\* For any number of hosts, links and flows, and whatever is lost: the records of
\* the responsible host, the requests under way and the drift add up to the
\* number of the requester's flows over the link.
THEOREM Conservation == Spec => []SubscriptionsConserved
<1>1. AccountInv => SubscriptionsConserved
  BY DEF AccountInv
<1>2. QED
  BY <1>1, AccountInit, AccountStep, PTL DEF Spec

\* Without loss the error branch of RazaAgent::recv is dead code, and no record
\* of a remote subscriber is ever negative.
THEOREM RequestsAreCounted == Spec => []NoRequestIgnored
<1>1. AccountInv => NoRequestIgnored
  BY DEF AccountInv
<1>2. QED
  BY <1>1, AccountInit, AccountStep, PTL DEF Spec

-----------------------------------------------------------------------------
(***************************************************************************)
(* Windows                                                                 *)
(***************************************************************************)
\* After flow_end no step but a retransmission timeout opens the window again, and
\* that one opens it for a single packet.
THEOREM EndedStaysSilent == Spec => []EndedIsSilent
<1> DEFINE Closed == \A f \in Flow : flow[f] = "ended" => cwnd[f] <= 1
<1>1. Init => Closed
  BY DEF Init
<1>2. ASSUME TypeInv, Closed, [Next]_vars
      PROVE  Closed'
  <2>0. TypeOK
    BY <1>2 DEF TypeInv
  <2>1. ASSUME NEW g \in Flow, FlowStart(g) \/ FlowEnd(g) \/ TcpExpire(g)
        PROVE  Closed'
    <3>1. SUFFICES ASSUME NEW f \in Flow, flow'[f] = "ended"
                   PROVE  cwnd'[f] <= 1
      OBVIOUS
    <3>2. (flow[f] = "ended" /\ cwnd'[f] = cwnd[f]) \/ cwnd'[f] = 0
      BY <2>0, <2>1, <3>1 DEF FlowStart, FlowEnd, TcpExpire, PollDht, TypeOK
    <3>3. QED
      BY <1>2, <3>2
  <2>rtx. ASSUME NEW g \in Flow, RtxTimeout(g)
          PROVE  Closed'
    <3>1. flow' = flow /\ \A f \in Flow : cwnd'[f] \in {cwnd[f], 1}
      BY <2>0, <2>rtx DEF RtxTimeout, TypeOK
    <3>2. QED
      BY <1>2, <3>1
  <2>2. ASSUME UNCHANGED <<flow, cwnd>>
        PROVE  Closed'
    BY <1>2, <2>2
  <2>3. ASSUME NEW r \in Host, NodeExpire(r)
        PROVE  Closed'
    BY <2>2, <2>3 DEF NodeExpire
  <2>4. ASSUME NEW h \in Host, NEW l \in Link,
               \/ RecvRequest(h, l) \/ RecvReply(h, l) \/ RecvPoll(h, l)
               \/ RecvAnswer(h, l) \/ LoseRequest(h, l) \/ LoseStats(h, l)
        PROVE  Closed'
    BY <2>2, <2>4 DEF RecvRequest, RecvReply, RecvPoll, RecvAnswer, LoseRequest,
                      LoseStats
  <2>5. CASE UNCHANGED vars
    BY <2>2, <2>5 DEF vars
  <2>6. QED
    BY <1>2, <2>1, <2>rtx, <2>3, <2>4, <2>5 DEF Next
<1>3. TypeInv /\ Closed => EndedIsSilent
  BY RateAssumption DEF EndedIsSilent, Window, TypeInv, TypeOK
<1> HIDE DEF Closed
<1>4. QED
  BY <1>1, <1>2, <1>3, TypeInvInit, TypeInvStep, PTL DEF Spec

\* The counter read at a switch never exceeds the flows ever routed over it.
LEMMA CounterBounded ==
    ASSUME TypeInv, NEW l \in Link
    PROVE  /\ Cardinality(AllOver(l)) \in Nat
           /\ numFlows[l] \in Nat
           /\ numFlows[l] <= Cardinality(AllOver(l))
<1>1. AllOver(l) \in SUBSET Flow /\ FlowsOver(l) \in SUBSET AllOver(l)
  BY DEF AllOver, FlowsOver
<1>2. IsFiniteSet(AllOver(l)) /\ Cardinality(AllOver(l)) \in Nat
  BY <1>1, FlowSetFinite
<1>3. Cardinality(FlowsOver(l)) <= Cardinality(AllOver(l))
  BY <1>1, <1>2, FS_Subset
<1>4. QED
  BY <1>2, <1>3 DEF TypeInv, TypeOK, CounterExact

\* A list of known values, and the two ways it grows and shrinks.
Bounded(seq, n) == \A i \in 1..Len(seq) : seq[i] <= n

LEMMA BoundedAppend ==
    ASSUME NEW seq \in Seq(Nat), NEW x \in Nat, NEW n \in Nat,
           Bounded(seq, n), x <= n
    PROVE  Bounded(Append(seq, x), n)
BY DEF Bounded

LEMMA BoundedTail ==
    ASSUME NEW seq \in Seq(Nat), NEW n \in Nat, Bounded(seq, n), seq # <<>>
    PROVE  Bounded(Tail(seq), n) /\ Head(seq) <= n
BY DEF Bounded

\* What a host knows and what is under way stays below the number of flows
\* ever routed over the link.
LEMMA KnownStep ==
    ASSUME TypeInv, KnownCountsBounded, [Next]_vars
    PROVE  KnownCountsBounded'
<1> DEFINE N(l) == Cardinality(AllOver(l))
<1>0. TypeOK
  BY DEF TypeInv
<1>1. ASSUME NEW l \in Link
      PROVE  /\ N(l) \in Nat /\ N(l)' = N(l)
             /\ numFlows[l] \in Nat /\ numFlows[l] <= N(l)
             /\ numFlows'[l] \in Nat /\ numFlows'[l] <= N(l)
  <2>1. TypeInv'
    BY TypeInvStep
  <2>2. N(l)' = N(l)
    BY DEF AllOver, Links
  <2>3. /\ N(l)' \in Nat /\ numFlows'[l] \in Nat /\ numFlows'[l] <= N(l)'
    <3>1. AllOver(l) \in SUBSET Flow /\ FlowsOver(l)' \in SUBSET AllOver(l)
      BY DEF AllOver, FlowsOver
    <3>2. IsFiniteSet(AllOver(l)) /\ Cardinality(AllOver(l)) \in Nat
      BY <3>1, FlowSetFinite
    <3>3. Cardinality(FlowsOver(l)') <= Cardinality(AllOver(l))
      BY <3>1, <3>2, FS_Subset
    <3>4. QED
      BY <2>1, <2>2, <3>2, <3>3 DEF TypeInv, TypeOK, CounterExact
  <2>4. QED
    BY <2>2, <2>3, CounterBounded
<1>2. ASSUME NEW h \in Host, NEW l \in Link
      PROVE  /\ no_flows[h][l] <= N(l) /\ no_flows[h][l] \in Nat
             /\ reply[h][l] \in Seq(Nat) /\ Bounded(reply[h][l], N(l))
             /\ answer[h][l] \in Seq(Nat) /\ Bounded(answer[h][l], N(l))
  BY <1>0 DEF KnownCountsBounded, Bounded, TypeOK
<1> SUFFICES ASSUME NEW h \in Host, NEW l \in Link
             PROVE  /\ no_flows'[h][l] <= N(l)
                    /\ Bounded(reply'[h][l], N(l))
                    /\ Bounded(answer'[h][l], N(l))
  BY <1>1 DEF KnownCountsBounded, Bounded
<1> DEFINE Goal == /\ no_flows'[h][l] <= N(l)
                   /\ Bounded(reply'[h][l], N(l))
                   /\ Bounded(answer'[h][l], N(l))
<1>3. ASSUME NEW f \in Flow, NEW counters, PollDht(f, counters),
             counters[Edge[f]] <= N(Edge[f])
      PROVE  no_flows'[h][l] <= N(l)
  <2>1. Src[f] \in Host /\ Edge[f] \in Link
    BY FlowAssumption
  <2>2. no_flows'[h][l] = IF h = Src[f] /\ l = Edge[f]
                          THEN counters[Edge[f]] ELSE no_flows[h][l]
    BY <1>0, <1>3, <2>1 DEF PollDht, TypeOK
  <2>3. QED
    BY <1>2, <1>3, <2>2
<1>4. ASSUME NEW r \in Host, Expire(r)
      PROVE  Bounded(reply'[h][l], N(l))
  <2>1. reply'[h][l] = reply[h][l]
        \/ reply'[h][l] = Append(reply[h][l], no_flows[r][l])
    BY <1>4 DEF Expire
  <2>2. Bounded(Append(reply[h][l], no_flows[r][l]), N(l))
    BY <1>1, <1>2, BoundedAppend
  <2>3. QED
    BY <1>2, <2>1, <2>2
<1>5. ASSUME NEW f \in Flow, FlowStart(f)
      PROVE  Goal
  <2>1. no_flows'[h][l] <= N(l)
    BY <1>1, <1>3, <1>5, FlowAssumption DEF FlowStart
  <2>2. QED
    BY <1>2, <1>5, <2>1 DEF FlowStart
<1>6. ASSUME NEW f \in Flow, FlowEnd(f)
      PROVE  Goal
  BY <1>2, <1>6 DEF FlowEnd
<1>7. ASSUME NEW f \in Flow, TcpExpire(f)
      PROVE  Goal
  <2>1. no_flows'[h][l] <= N(l)
    BY <1>1, <1>2, <1>3, <1>7, FlowAssumption DEF TcpExpire
  <2>2. QED
    BY <1>2, <1>7, <2>1 DEF TcpExpire
<1>rtx. ASSUME NEW f \in Flow, RtxTimeout(f)
        PROVE  Goal
  BY <1>2, <1>rtx DEF RtxTimeout
<1>8. ASSUME NEW r \in Host, NodeExpire(r)
      PROVE  Goal
  BY <1>2, <1>4, <1>8 DEF NodeExpire
<1>9. ASSUME NEW g \in Host, NEW m \in Link, RecvRequest(g, m)
      PROVE  Goal
  <2>1. Resp[g][m] \in Host
    BY RespAssumption
  <2>2. Bounded(reply'[h][l], N(l))
    BY <1>2, <1>4, <1>9, <2>1 DEF RecvRequest
  <2>3. QED
    BY <1>2, <1>9, <2>2 DEF RecvRequest
<1>10. ASSUME NEW ch \in [Host -> [Link -> Seq(Nat)]], Bounded(ch[h][l], N(l)),
              NEW g \in Host, NEW m \in Link, ch[g][m] # <<>>
       PROVE  Bounded([ch EXCEPT ![g][m] = Tail(@)][h][l], N(l))
  <2>1. CASE g = h /\ m = l
    <3>1. [ch EXCEPT ![g][m] = Tail(@)][h][l] = Tail(ch[h][l])
      BY <2>1
    <3>2. QED
      BY <1>1, <1>10, <2>1, <3>1, BoundedTail
  <2>2. CASE ~(g = h /\ m = l)
    <3>1. [ch EXCEPT ![g][m] = Tail(@)][h][l] = ch[h][l]
      BY <2>2
    <3>2. QED
      BY <1>10, <3>1
  <2>3. QED
    BY <2>1, <2>2
<1>11. ASSUME NEW g \in Host, NEW m \in Link, RecvReply(g, m)
       PROVE  Goal
  <2>1. Bounded(reply'[h][l], N(l))
    BY <1>0, <1>2, <1>10, <1>11 DEF RecvReply, TypeOK
  <2>2. Head(reply[g][m]) <= N(m)
    BY <1>1, <1>2, <1>11, BoundedTail DEF RecvReply
  <2>3. no_flows'[h][l] = IF h = g /\ l = m THEN Head(reply[g][m]) ELSE no_flows[h][l]
    BY <1>0, <1>11 DEF RecvReply, TypeOK
  <2>4. QED
    BY <1>2, <1>11, <2>1, <2>2, <2>3 DEF RecvReply
<1>12. ASSUME NEW g \in Host, NEW m \in Link, RecvPoll(g, m)
       PROVE  Goal
  <2>1. answer'[h][l] = IF h = g /\ l = m THEN Append(answer[h][l], numFlows[l])
                                          ELSE answer[h][l]
    BY <1>0, <1>12 DEF RecvPoll, TypeOK
  <2>2. Bounded(Append(answer[h][l], numFlows[l]), N(l))
    BY <1>1, <1>2, BoundedAppend
  <2>3. QED
    BY <1>2, <1>12, <2>1, <2>2 DEF RecvPoll
<1>13. ASSUME NEW g \in Host, NEW m \in Link, RecvAnswer(g, m)
       PROVE  Goal
  <2>1. Bounded(answer'[h][l], N(l))
    BY <1>0, <1>2, <1>10, <1>13 DEF RecvAnswer, TypeOK
  <2>2. Head(answer[g][m]) <= N(m)
    BY <1>1, <1>2, <1>13, BoundedTail DEF RecvAnswer
  <2>3. no_flows'[h][l] = IF h = g /\ l = m THEN Head(answer[g][m]) ELSE no_flows[h][l]
    BY <1>0, <1>13 DEF RecvAnswer, TypeOK
  <2>4. QED
    BY <1>2, <1>13, <2>1, <2>2, <2>3 DEF RecvAnswer
<1>14. ASSUME NEW g \in Host, NEW m \in Link, LoseRequest(g, m)
       PROVE  Goal
  BY <1>2, <1>14 DEF LoseRequest
<1>15. ASSUME NEW g \in Host, NEW m \in Link, LoseStats(g, m)
       PROVE  Goal
  <2>1. /\ reply \in [Host -> [Link -> Seq(Nat)]]
        /\ answer \in [Host -> [Link -> Seq(Nat)]]
    BY <1>0 DEF TypeOK
  <2>2. Bounded(reply'[h][l], N(l))
    <3>1. \/ reply' = reply
          \/ reply[g][m] # <<>> /\ reply' = [reply EXCEPT ![g][m] = Tail(@)]
      BY <1>15 DEF LoseStats
    <3>2. QED
      BY <1>2, <1>10, <2>1, <3>1
  <2>3. Bounded(answer'[h][l], N(l))
    <3>1. \/ answer' = answer
          \/ answer[g][m] # <<>> /\ answer' = [answer EXCEPT ![g][m] = Tail(@)]
      BY <1>15 DEF LoseStats
    <3>2. QED
      BY <1>2, <1>10, <2>1, <3>1
  <2>4. QED
    BY <1>2, <1>15, <2>2, <2>3 DEF LoseStats
<1>16. CASE UNCHANGED vars
  BY <1>2, <1>16 DEF vars
<1>17. QED
  BY <1>5, <1>6, <1>7, <1>8, <1>9, <1>11, <1>12, <1>13, <1>14, <1>15, <1>16, <1>rtx DEF Next

\* A window computed from bounded counts is positive if the capacity allows one
\* packet to every flow ever routed over each link.
LEMMA PollGivesRoom ==
    ASSUME TypeOK, KnownCountsBounded', TypeOK', NEW f \in Flow, NEW counters,
           PollDht(f, counters),
           \A l \in Links(f) : Capacity[l] >= Max1(Cardinality(AllOver(l)))
    PROVE  cwnd'[f] >= 1
<1>1. Src[f] \in Host /\ Edge[f] \in Link /\ Links(f) \subseteq Link
  BY FlowAssumption DEF Links
<1>2. no_flows'[Src[f]] \in [Link -> Nat]
  BY <1>1 DEF TypeOK
<1>3. cwnd'[f] = FairShare(f, no_flows'[Src[f]])
  BY <1>1 DEF PollDht, TypeOK
<1>4. PICK l \in Links(f) : FairShare(f, no_flows'[Src[f]])
                               = Share(l, no_flows'[Src[f]][l])
  BY <1>2, FairShareIsShare
<1>5. no_flows'[Src[f]][l] <= Cardinality(AllOver(l))
  BY <1>1 DEF KnownCountsBounded, AllOver, Links
<1>6. AllOver(l) \in SUBSET Flow
  BY DEF AllOver
<1>7. Cardinality(AllOver(l)) \in Nat
  BY <1>6, FlowSetFinite
<1>8. Capacity[l] \in Nat
  BY <1>1, RateAssumption
<1>9. Capacity[l] >= Max1(no_flows'[Src[f]][l])
  BY <1>1, <1>2, <1>5, <1>7, <1>8 DEF Max1
<1>10. QED
  BY <1>1, <1>2, <1>3, <1>4, <1>9, ShareType

\* NoStarvation is preserved: flow_start and the poll timer set
\* a window, a retransmission timeout only raises it.
LEMMA RoomStep ==
    ASSUME TypeInv, KnownCountsBounded, NoStarvation, [Next]_vars
    PROVE  NoStarvation'
<1>0. TypeOK /\ TypeOK' /\ KnownCountsBounded'
  BY TypeInvStep, KnownStep DEF TypeInv
<1>1. ASSUME UNCHANGED <<flow, cwnd>>
      PROVE  NoStarvation'
  BY <1>1 DEF NoStarvation, AllOver, Links
<1>2. ASSUME NEW f \in Flow, NEW g \in Flow, FlowStart(g) \/ FlowEnd(g) \/ TcpExpire(g),
             flow'[f] = "active",
             \A l \in Links(f) : Capacity[l] >= Max1(Cardinality(AllOver(l)))
      PROVE  cwnd'[f] >= 1
  <2>1. CASE f # g
    <3>1. flow'[f] = flow[f] /\ cwnd'[f] = cwnd[f]
      BY <1>0, <1>2, <2>1 DEF FlowStart, FlowEnd, TcpExpire, PollDht, TypeOK
    <3>2. QED
      BY <1>2, <3>1 DEF NoStarvation
  <2>2. CASE f = g
    <3>1. FlowStart(f) \/ TcpExpire(f)
      BY <1>0, <1>2, <2>2 DEF FlowEnd, TypeOK
    <3>2. CASE FlowStart(f)
      BY <1>0, <1>2, <3>2, PollGivesRoom DEF FlowStart
    <3>3. CASE TcpExpire(f)
      <4>1. flow[f] # "ended"
        BY <1>2, <3>3 DEF TcpExpire
      <4>2. PollDht(f, numFlows)
        BY <3>3, <4>1 DEF TcpExpire
      <4>3. QED
        BY <1>0, <1>2, <4>2, PollGivesRoom
    <3>4. QED
      BY <3>1, <3>2, <3>3
  <2>3. QED
    BY <2>1, <2>2
<1>rtx. ASSUME NEW g \in Flow, RtxTimeout(g)
        PROVE  NoStarvation'
  <2>1. flow' = flow /\ \A f \in Flow : cwnd'[f] \in {cwnd[f], 1}
    BY <1>0, <1>rtx DEF RtxTimeout, TypeOK
  <2>2. QED
    BY <2>1 DEF NoStarvation, AllOver, Links
<1>3. ASSUME NEW g \in Flow, FlowStart(g) \/ FlowEnd(g) \/ TcpExpire(g)
      PROVE  NoStarvation'
  BY <1>2, <1>3 DEF NoStarvation, AllOver, Links
<1>4. ASSUME NEW r \in Host, NodeExpire(r)
      PROVE  NoStarvation'
  BY <1>1, <1>4 DEF NodeExpire
<1>5. ASSUME NEW h \in Host, NEW l \in Link,
             \/ RecvRequest(h, l) \/ RecvReply(h, l) \/ RecvPoll(h, l)
             \/ RecvAnswer(h, l) \/ LoseRequest(h, l) \/ LoseStats(h, l)
      PROVE  NoStarvation'
  BY <1>1, <1>5 DEF RecvRequest, RecvReply, RecvPoll, RecvAnswer, LoseRequest,
                    LoseStats
<1>6. CASE UNCHANGED vars
  BY <1>1, <1>6 DEF vars
<1>7. QED
  BY <1>3, <1>4, <1>5, <1>6, <1>rtx DEF Next

LEMMA RoomInit == Init => KnownCountsBounded /\ NoStarvation
<1> SUFFICES ASSUME Init PROVE KnownCountsBounded /\ NoStarvation
  OBVIOUS
<1>1. ASSUME NEW l \in Link
      PROVE  Cardinality(AllOver(l)) \in Nat
  BY FlowSetFinite DEF AllOver
<1>2. KnownCountsBounded
  BY <1>1 DEF Init, KnownCountsBounded
<1>3. NoStarvation
  BY DEF Init, NoStarvation
<1>4. QED
  BY <1>2, <1>3

\* No flow under way has a window of zero, however stale its statistics, if each
\* link of its path could carry one packet per POLL_RATE of every flow over it.
THEOREM RoomForEveryFlow == Spec => []NoStarvation
<1> DEFINE Inv == TypeInv /\ KnownCountsBounded /\ NoStarvation
<1>1. Init => Inv
  BY TypeInvInit, RoomInit
<1>2. Inv /\ [Next]_vars => Inv'
  BY TypeInvStep, KnownStep, RoomStep
<1>3. Inv => NoStarvation
  OBVIOUS
<1>4. QED
  BY <1>1, <1>2, <1>3, PTL DEF Spec

-----------------------------------------------------------------------------
(***************************************************************************)
(* Refinement of Subscription                                              *)
(***************************************************************************)
\* A sequence that agrees with s and has one more element is s with that element
\* appended.
LEMMA ExtendedSequence ==
    ASSUME NEW n \in Nat, NEW s \in [1..n -> Int], NEW g \in [1..(n + 1) -> Int],
           \A k \in 1..n : g[k] = s[k]
    PROVE  g = Append(s, g[n + 1])
<1>1. s \in Seq(Int) /\ Len(s) = n
  OBVIOUS
<1>2. g[n + 1] \in Int
  OBVIOUS
<1>3. /\ Append(s, g[n + 1]) \in Seq(Int)
      /\ Len(Append(s, g[n + 1])) = n + 1
      /\ \A i \in 1..n : Append(s, g[n + 1])[i] = s[i]
      /\ Append(s, g[n + 1])[n + 1] = g[n + 1]
  BY <1>1, <1>2
<1>4. \A i \in 1..(n + 1) : i \in 1..n \/ i = n + 1
  OBVIOUS
<1>5. \A i \in 1..(n + 1) : Append(s, g[n + 1])[i] = g[i]
  BY <1>3, <1>4
<1>6. g \in Seq(Int) /\ Len(g) = n + 1
  OBVIOUS
<1>7. QED
  BY <1>3, <1>5, <1>6, SeqEqual

\* A step that sends a request is a Change, one that registers a request is a
\* Learn, and any other step leaves the abstract variables alone.
LEMMA SubscriptionStep ==
    ASSUME ~Lossy, AccountInv, AccountInv', [Next]_vars,
           NEW h \in Host, NEW l \in Link, Resp[h][l] # h
    PROVE  [Sub(h, l)!Next]_(Sub(h, l)!subVars)
<1> DEFINE recs == node_count[h][l]
           reqs == request[h][l]
           recs2 == node_count'[h][l]
           reqs2 == request'[h][l]
           count == Cardinality(Subscribers(h, l))
           count2 == Cardinality(Subscribers(h, l)')
           lag == [k \in 1..Len(reqs) |-> FirstCount(recs) + Outstanding(reqs, k)]
           lag2 == [k \in 1..Len(reqs2) |-> FirstCount(recs2) + Outstanding(reqs2, k)]
<1>1. TypeOK /\ TypeOK'
  BY DEF AccountInv, TypeInv
<1>2. /\ recs \in Seq(Int) /\ reqs \in Seq({START, STOP}) /\ Len(reqs) \in Nat
      /\ FirstCount(recs) \in Int
      /\ \A k \in Nat : Outstanding(reqs, k) \in Int
      /\ count \in Nat
  BY <1>1, PairTypes
<1>3. Lag(h, l) = lag /\ Lag(h, l)' = lag2
  BY DEF Lag, LaggedCount
<1>4. drift[h][l] = 0 /\ drift'[h][l] = 0
  BY DEF AccountInv, NoRequestIgnored
<1>5. FirstCount(recs2) + Outstanding(reqs2, Len(reqs2)) + 0 = count2
  BY <1>4 DEF AccountInv, SubscriptionsConserved, LaggedCount
<1>6. lag \in Seq(Int) /\ Len(lag) = Len(reqs)
  BY <1>2
<1>7. CASE Untouched(h, l)
  <2>1. recs2 = recs /\ lag2 = lag /\ count2 = count
    BY <1>7 DEF Untouched
  <2>2. QED
    BY <1>3, <2>1 DEF Sub!subVars
<1>8. ASSUME NEW status \in {START, STOP}, Sent(h, l, status)
      PROVE  Sub(h, l)!Change
  <2>1. recs2 = recs /\ reqs2 = Append(reqs, status) /\ count2 = count + Delta(status)
    BY <1>8 DEF Sent
  <2>2. Len(reqs2) = Len(reqs) + 1
    BY <1>2, <2>1
  <2>3. \A k \in 0..Len(reqs) : Outstanding(reqs2, k) = Outstanding(reqs, k)
    BY <1>2, <2>1, OutstandingAppend
  <2>4. count2 \in {count + 1, count - 1}
    BY <1>2, <2>1 DEF Delta
  <2>5. count2 \in Nat
    <3>1. Subscribers(h, l)' \in SUBSET Flow
      BY DEF Subscribers
    <3>2. QED
      BY <3>1, FlowSetFinite
  <2>6. FirstCount(recs) + Outstanding(reqs2, Len(reqs) + 1) = count2
    <3>1. Outstanding(reqs2, Len(reqs) + 1) \in Int
      BY <1>2, OutstandingType
    <3>2. QED
      BY <1>2, <1>5, <2>1, <2>2, <3>1
  <2>7. lag2 = Append(lag, count2)
    <3>1. \A k \in 1..Len(reqs) : FirstCount(recs2) + Outstanding(reqs2, k) = lag[k]
      BY <1>2, <2>1, <2>3
    <3>2. FirstCount(recs2) + Outstanding(reqs2, Len(reqs) + 1) = count2
      BY <2>1, <2>6
    <3>3. \A k \in Nat : Outstanding(reqs2, k) \in Int
      BY OutstandingType
    <3>4. /\ lag2 \in [1..(Len(reqs) + 1) -> Int]
          /\ lag2[Len(reqs) + 1] = count2
          /\ \A k \in 1..Len(reqs) : lag2[k] = lag[k]
      <4>1. 1..(Len(reqs) + 1) \subseteq Nat /\ Len(reqs) + 1 \in 1..(Len(reqs) + 1)
            /\ 1..Len(reqs) \subseteq 1..(Len(reqs) + 1)
        BY <1>2
      <4>2. FirstCount(recs2) \in Int
        BY <1>2, <2>1
      <4>3. \A k \in 1..(Len(reqs) + 1) :
               FirstCount(recs2) + Outstanding(reqs2, k) \in Int
        BY <3>3, <4>1, <4>2
      <4>4. lag2 = [k \in 1..(Len(reqs) + 1) |-> FirstCount(recs2) + Outstanding(reqs2, k)]
        BY <2>2
      <4> HIDE DEF lag, lag2, recs2, reqs2, reqs, recs
      <4>5. QED
        BY <3>1, <3>2, <4>1, <4>3, <4>4
    <3>5. lag \in [1..Len(reqs) -> Int]
      BY <1>2
    <3> HIDE DEF lag, lag2, reqs, recs
    <3>6. QED
      BY <1>2, <3>4, <3>5, ExtendedSequence
  <2>8. QED
    BY <1>3, <2>1, <2>4, <2>5, <2>7 DEF Sub!Change
<1>9. CASE Taken(h, l)
  <2>1. /\ reqs # <<>>
        /\ recs2 = Registered(recs, Head(reqs))
        /\ reqs2 = Tail(reqs)
        /\ count2 = count
    BY <1>9 DEF Taken
  <2>2. ~Ignored(recs, Head(reqs))
    BY <1>4, <1>9 DEF Taken
  <2>3. Len(reqs2) = Len(reqs) - 1 /\ Len(reqs) >= 1
    BY <1>2, <2>1
  <2>4. ASSUME NEW k \in 0..(Len(reqs) - 1)
        PROVE  FirstCount(recs2) + Outstanding(reqs2, k)
                 = FirstCount(recs) + Outstanding(reqs, k + 1)
    <3>1. FirstCount(recs2) + Outstanding(reqs2, k)
            = FirstCount(recs) + Outstanding(reqs, k + 1)
                + (IF Ignored(recs, Head(reqs)) THEN 1 ELSE 0)
      BY <1>2, <2>1, RegisterCounts
    <3>2. Outstanding(reqs, k + 1) \in Int
      BY <1>2
    <3>3. QED
      BY <1>2, <2>2, <3>1, <3>2
  <2>5. FirstCount(recs2) = lag[1]
    <3>1. Outstanding(reqs2, 0) = 0
      BY OutstandingEmpty
    <3>2. FirstCount(recs2) \in Int
      BY <1>2, <2>1, RegisteredType
    <3>3. 0 \in 0..(Len(reqs) - 1) /\ 1 \in 1..Len(reqs) /\ 0 + 1 = 1
      BY <1>2, <2>3
    <3>4. FirstCount(recs2) + Outstanding(reqs2, 0)
            = FirstCount(recs) + Outstanding(reqs, 1)
      BY <2>4, <3>3
    <3>5. QED
      BY <3>1, <3>2, <3>3, <3>4
  <2>6. lag2 = Tail(lag)
    <3>1. Tail(lag) = [k \in 1..(Len(reqs) - 1) |-> lag[k + 1]]
      BY <1>6, <2>3
    <3>2. ASSUME NEW k \in 1..(Len(reqs) - 1)
          PROVE  FirstCount(recs2) + Outstanding(reqs2, k) = lag[k + 1]
      <4>1. k \in 0..(Len(reqs) - 1) /\ k + 1 \in 1..Len(reqs)
        BY <1>2
      <4>2. QED
        BY <2>4, <4>1
    <3>3. QED
      BY <2>3, <3>1, <3>2
  <2>7. lag # <<>> /\ Head(lag) = lag[1]
    BY <1>2, <1>6, <2>3
  <2>8. Sub(h, l)!Learn
    BY <1>3, <2>1, <2>5, <2>6, <2>7 DEF Sub!Learn
  <2>9. QED
    BY <2>8 DEF Sub!Next
<1>10. ~Lost(h, l)
  BY DEF Lost
<1>11. QED
  BY <1>1, <1>7, <1>8, <1>9, <1>10, RemoteStep DEF Sub!Next

\* Without loss every remote pair implements Subscription.
THEOREM SubscriptionRefinement == ~Lossy => (Spec => ImplementsSubscription)
<1> SUFFICES ASSUME ~Lossy PROVE Spec => ImplementsSubscription
  OBVIOUS
<1>1. Init => SubInit
  <2> SUFFICES ASSUME Init, NEW h \in Host, NEW l \in Link
               PROVE  Sub(h, l)!Init
    BY DEF SubInit
  <2>1. node_count[h][l] = <<>> /\ request[h][l] = <<>>
    BY DEF Init
  <2>2. Subscribers(h, l) = {}
    BY DEF Init, Subscribers
  <2>3. Lag(h, l) = <<>>
    BY <2>1 DEF Lag
  <2>4. Cardinality(Subscribers(h, l)) = 0 /\ FirstCount(node_count[h][l]) = 0
    BY <2>1, <2>2, FS_EmptySet DEF FirstCount
  <2>5. QED
    BY <2>3, <2>4 DEF Sub!Init
<1>2. AccountInv /\ AccountInv' /\ [Next]_vars => [SubNext]_vars
  BY SubscriptionStep DEF SubNext
<1>3. QED
  BY <1>1, <1>2, AccountInit, AccountStep, PTL DEF Spec, ImplementsSubscription
=============================================================================
