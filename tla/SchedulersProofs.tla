------------------------- MODULE SchedulersProofs -------------------------
(***************************************************************************)
(* Proofs about Timer and Schedulers, for any timers, delays, scripts and  *)
(* widths.  The scheduler's and the timers' checks never fail, and a timer *)
(* fires when it was last set to.  The heap and the calendar queue agree   *)
(* with the list: a simulation does not depend on its scheduler.           *)
(*                                                                         *)
(* TimerInv is the invariant of the list and the timers.  HeapOK adds that *)
(* the heap is ordered and that keys and secondary keys rank its elements  *)
(* as the list does.  CalOK adds that every bucket is its part of the list *)
(* in the list's order, that the counts are exact, and that cal_clock_ is  *)
(* at or before every queued event with lastbucket_ the bucket of that     *)
(* time, from which the search of head starts.                             *)
(***************************************************************************)
EXTENDS Schedulers, TLAPS, WellFoundedInduction, SequenceTheorems, FiniteSetTheorems

\* No two entries are of one event; entries are in the order of their times.
OneEach(q) == \A i, j \in DOMAIN q : q[i].ev = q[j].ev => i = j
InOrder(q) == \A i, j \in DOMAIN q : i < j => q[i].time <= q[j].time

\* uid_ is positive exactly while the event is queued.
UidTells == \A e \in Ev : sch.uid[e] > 0 <=> e \in Queued(sch.queue)

\* The objects of "at" commands to come have never been scheduled.
AtFresh == \A a \in Ats : a >= nextAt => sch.uid[a] = 0

\* Nothing that is queued lies in the past, except for the real-time loop, which is late.
NotPast == ~realtime => \A i \in DOMAIN sch.queue : sch.queue[i].time >= clock

TimerInv ==
    /\ TypeOK /\ NeverAborts /\ FiresWhenSet /\ HandlingRuns
    /\ OneEach(sch.queue) /\ InOrder(sch.queue)
    /\ UidTells /\ AtFresh /\ NotPast

-----------------------------------------------------------------------------
(***************************************************************************)
(* The event list                                                          *)
(***************************************************************************)
LEMMA LeastPosition ==
    ASSUME NEW S, S \subseteq Nat, S # {}
    PROVE  \E x \in S : \A y \in S : x <= y
<1>1. PICK x \in S : \A y \in S : ~(<<y, x>> \in OpToRel(<, Nat))
  BY NatLessThanWellFounded, WFMin
<1>2. \A y \in S : ~(y < x)
  BY <1>1 DEF OpToRel
<1>3. QED
  BY <1>2

\* The loop of ListScheduler::insert finds a place.
LEMMA PlaceFound ==
    ASSUME NEW q \in Seq(Entry), NEW time \in Nat
    PROVE  LET p == Place(q, time)
           IN  /\ p \in 1..(Len(q) + 1)
               /\ \A i \in 1..(p - 1) : q[i].time <= time
               /\ p <= Len(q) => time < q[p].time
<1> DEFINE S == {p \in 1..(Len(q) + 1) : p <= Len(q) => time < q[p].time}
<1>1. S \subseteq Nat /\ S # {}
  <2>1. Len(q) + 1 \in S
    OBVIOUS
  <2>2. QED
    BY <2>1
<1>2. PICK p \in S : \A y \in S : p <= y
  BY <1>1, LeastPosition
<1>3. \A i \in 1..(p - 1) : q[i].time <= time
  <2> SUFFICES ASSUME NEW i \in 1..(p - 1)
               PROVE  q[i].time <= time
    OBVIOUS
  <2>1. i \notin S /\ i \in 1..Len(q)
    BY <1>2
  <2>2. q[i] \in Entry
    BY <2>1
  <2>3. q[i].time \in Nat
    BY <2>2 DEF Entry
  <2>4. QED
    BY <2>1, <2>3
<1>4. QED
  BY <1>2, <1>3 DEF Place

LEMMA InsertedEntries ==
    ASSUME NEW q \in Seq(Entry), NEW e \in Ev, NEW time \in Nat
    PROVE  LET s == Inserted(q, e, time)
               p == Place(q, time)
           IN  /\ s \in Seq(Entry) /\ Len(s) = Len(q) + 1 /\ DOMAIN s = 1..(Len(q) + 1)
               /\ \A i \in 1..(Len(q) + 1) :
                     s[i] = IF i < p THEN q[i] ELSE IF i = p THEN [ev |-> e, time |-> time]
                            ELSE q[i - 1]
<1> DEFINE s == Inserted(q, e, time)
           p == Place(q, time)
           x == [ev |-> e, time |-> time]
<1>1. p \in 1..(Len(q) + 1)
  BY PlaceFound
<1>2. s = [i \in 1..(Len(q) + 1) |-> IF i < p THEN q[i] ELSE IF i = p THEN x ELSE q[i - 1]]
  BY DEF Inserted, InsertedAt
<1>3. x \in Entry
  BY DEF Entry
<1> HIDE DEF s, p, x
<1>4. \A i \in 1..(Len(q) + 1) : (IF i < p THEN q[i] ELSE IF i = p THEN x ELSE q[i - 1]) \in Entry
  BY <1>1, <1>3
<1>5. s \in [1..(Len(q) + 1) -> Entry] /\ Len(q) + 1 \in Nat
  BY <1>2, <1>4
<1>6. s \in Seq(Entry) /\ Len(s) = Len(q) + 1 /\ DOMAIN s = 1..(Len(q) + 1)
  BY <1>5
<1>7. QED
  BY <1>2, <1>6 DEF s, p, x

\* What ListScheduler::insert does to the list of an event that is not in it.
LEMMA InsertedFacts ==
    ASSUME NEW q \in Seq(Entry), NEW e \in Ev, NEW time \in Nat,
           e \notin Queued(q), OneEach(q), InOrder(q)
    PROVE  LET s == Inserted(q, e, time)
           IN  /\ s \in Seq(Entry) /\ Queued(s) = Queued(q) \cup {e}
               /\ OneEach(s) /\ InOrder(s)
               /\ \A i \in DOMAIN s : \/ s[i] = [ev |-> e, time |-> time]
                                      \/ \E j \in DOMAIN q : s[i] = q[j]
<1> DEFINE s == Inserted(q, e, time)
           p == Place(q, time)
           x == [ev |-> e, time |-> time]
           Old(i) == IF i < p THEN i ELSE i - 1
<1>1. /\ s \in Seq(Entry) /\ Len(s) = Len(q) + 1 /\ DOMAIN s = 1..(Len(q) + 1)
      /\ \A i \in 1..(Len(q) + 1) :
            s[i] = IF i < p THEN q[i] ELSE IF i = p THEN x ELSE q[i - 1]
  BY InsertedEntries
<1>2. /\ p \in 1..(Len(q) + 1)
      /\ \A i \in 1..(p - 1) : q[i].time <= time
      /\ p <= Len(q) => time < q[p].time
  BY PlaceFound
<1>3. DOMAIN q = 1..Len(q) /\ Len(q) \in Nat
  OBVIOUS
<1>4. x.ev = e /\ x.time = time
  OBVIOUS
<1>5. \A i \in DOMAIN q : q[i].time \in Nat /\ q[i].ev # e
  <2> TAKE i \in DOMAIN q
  <2>1. q[i] \in Entry
    BY <1>3
  <2>2. QED
    BY <2>1 DEF Entry, Queued
<1> HIDE DEF s, p, x
<1>6. \A i \in 1..(Len(q) + 1) : i # p => Old(i) \in DOMAIN q /\ s[i] = q[Old(i)]
  BY <1>1, <1>2, <1>3
<1>7. s[p] = x
  BY <1>1, <1>2
<1>8. \A i \in DOMAIN s : s[i] = x \/ \E j \in DOMAIN q : s[i] = q[j]
  BY <1>1, <1>6, <1>7
<1>9. Queued(s) = Queued(q) \cup {e}
  <2>1. \A i \in DOMAIN s : s[i].ev \in Queued(q) \cup {e}
    BY <1>4, <1>8 DEF Queued
  <2>2. e \in Queued(s)
    BY <1>1, <1>2, <1>4, <1>7 DEF Queued
  <2>3. \A j \in DOMAIN q : q[j].ev \in Queued(s)
    <3> TAKE j \in DOMAIN q
    <3>1. CASE j < p
      <4>1. j \in DOMAIN s /\ s[j] = q[j]
        BY <1>1, <1>3, <3>1
      <4>2. QED
        BY <4>1 DEF Queued
    <3>2. CASE j >= p
      <4>1. j + 1 \in DOMAIN s /\ s[j + 1] = q[j]
        BY <1>1, <1>2, <1>3, <3>2
      <4>2. QED
        BY <4>1 DEF Queued
    <3>3. QED
      BY <1>2, <1>3, <3>1, <3>2
  <2>4. QED
    BY <2>1, <2>2, <2>3 DEF Queued
<1>10. OneEach(s)
  <2> SUFFICES ASSUME NEW i \in DOMAIN s, NEW j \in DOMAIN s, s[i].ev = s[j].ev
               PROVE  i = j
    BY DEF OneEach
  <2>1. CASE i # p /\ j # p
    <3>1. Old(i) = Old(j)
      BY <1>1, <1>6, <2>1 DEF OneEach
    <3>2. QED
      BY <1>1, <1>2, <2>1, <3>1
  <2>2. CASE i = p \/ j = p
    BY <1>1, <1>4, <1>5, <1>6, <1>7, <2>2
  <2>3. QED
    BY <2>1, <2>2
<1>11. InOrder(s)
  <2> SUFFICES ASSUME NEW i \in DOMAIN s, NEW j \in DOMAIN s, i < j
               PROVE  s[i].time <= s[j].time
    BY DEF InOrder
  <2>1. CASE i # p /\ j # p
    <3>1. Old(i) < Old(j)
      BY <1>1, <1>2, <2>1
    <3>2. QED
      BY <1>1, <1>6, <2>1, <3>1 DEF InOrder
  <2>2. CASE i = p
    <3>1. j - 1 \in DOMAIN q /\ s[j] = q[j - 1] /\ p <= j - 1 /\ p \in DOMAIN q
      BY <1>1, <1>2, <1>3, <2>2
    <3>2. q[p].time <= q[j - 1].time
      BY <1>3, <1>5, <3>1 DEF InOrder
    <3>3. QED
      BY <1>2, <1>3, <1>4, <1>5, <1>7, <2>2, <3>1, <3>2
  <2>3. CASE j = p
    <3>1. i \in DOMAIN q /\ s[i] = q[i] /\ i \in 1..(p - 1)
      BY <1>1, <1>2, <1>3, <2>3
    <3>2. QED
      BY <1>2, <1>4, <1>7, <2>3, <3>1
  <2>4. QED
    BY <2>1, <2>2, <2>3
<1>12. QED
  BY <1>1, <1>8, <1>9, <1>10, <1>11 DEF s, x

\* What ListScheduler::cancel does to the list of an event that is in it.
LEMMA RemovedFacts ==
    ASSUME NEW q \in Seq(Entry), NEW e \in Ev,
           e \in Queued(q), OneEach(q), InOrder(q)
    PROVE  LET s == Removed(q, e)
           IN  /\ s \in Seq(Entry) /\ Queued(s) = Queued(q) \ {e}
               /\ OneEach(s) /\ InOrder(s)
               /\ \A i \in DOMAIN s : \E j \in DOMAIN q : s[i] = q[j]
<1> DEFINE s == Removed(q, e)
           p == CHOOSE p \in DOMAIN q : q[p].ev = e
           Old(i) == IF i < p THEN i ELSE i + 1
<1>1. p \in DOMAIN q /\ q[p].ev = e
  BY DEF Queued
<1>2. s = [i \in 1..(Len(q) - 1) |-> IF i < p THEN q[i] ELSE q[i + 1]]
  BY DEF Removed, RemovedAt
<1>3. DOMAIN q = 1..Len(q) /\ Len(q) \in Nat
  OBVIOUS
<1> HIDE DEF s, p
<1>4. \A i \in 1..(Len(q) - 1) : Old(i) \in DOMAIN q /\ s[i] = q[Old(i)]
  BY <1>1, <1>2, <1>3
<1>5. s \in Seq(Entry) /\ DOMAIN s = 1..(Len(q) - 1)
  <2>1. s \in [1..(Len(q) - 1) -> Entry] /\ Len(q) - 1 \in Nat
    BY <1>1, <1>2, <1>3
  <2>2. QED
    BY <2>1
<1>6. OneEach(s)
  <2> SUFFICES ASSUME NEW i \in DOMAIN s, NEW j \in DOMAIN s, s[i].ev = s[j].ev
               PROVE  i = j
    BY DEF OneEach
  <2>1. Old(i) = Old(j)
    BY <1>4, <1>5 DEF OneEach
  <2>2. i \in Nat /\ j \in Nat /\ p \in Nat
    BY <1>1, <1>3, <1>5
  <2>3. QED
    BY <2>1, <2>2
<1>7. InOrder(s)
  <2> SUFFICES ASSUME NEW i \in DOMAIN s, NEW j \in DOMAIN s, i < j
               PROVE  s[i].time <= s[j].time
    BY DEF InOrder
  <2>1. Old(i) < Old(j)
    BY <1>1, <1>3, <1>5
  <2>2. QED
    BY <1>4, <1>5, <2>1 DEF InOrder
<1>8. Queued(s) = Queued(q) \ {e}
  <2>1. \A i \in DOMAIN s : s[i].ev \in Queued(q) \ {e}
    <3> TAKE i \in DOMAIN s
    <3>1. Old(i) \in DOMAIN q /\ s[i] = q[Old(i)] /\ Old(i) # p
      BY <1>1, <1>3, <1>4, <1>5
    <3>2. s[i].ev # e
      BY <1>1, <3>1 DEF OneEach
    <3>3. QED
      BY <3>1, <3>2 DEF Queued
  <2>2. \A j \in DOMAIN q : q[j].ev # e => q[j].ev \in Queued(s)
    <3> SUFFICES ASSUME NEW j \in DOMAIN q, q[j].ev # e
                 PROVE  q[j].ev \in Queued(s)
      OBVIOUS
    <3>1. CASE j < p
      <4>1. j \in DOMAIN s /\ s[j] = q[j]
        BY <1>1, <1>2, <1>3, <1>5, <3>1
      <4>2. QED
        BY <4>1 DEF Queued
    <3>2. CASE j > p
      <4>1. j - 1 \in DOMAIN s /\ s[j - 1] = q[j]
        BY <1>1, <1>2, <1>3, <1>5, <3>2
      <4>2. QED
        BY <4>1 DEF Queued
    <3>3. QED
      BY <1>1, <1>3, <3>1, <3>2
  <2>3. QED
    BY <2>1, <2>2 DEF Queued
<1>9. \A i \in DOMAIN s : \E j \in DOMAIN q : s[i] = q[j]
  BY <1>4, <1>5
<1>10. QED
  BY <1>5, <1>6, <1>7, <1>8, <1>9 DEF s

\* ListScheduler::deque
LEMMA TailFacts ==
    ASSUME NEW q \in Seq(Entry), q # <<>>, OneEach(q), InOrder(q)
    PROVE  /\ Tail(q) \in Seq(Entry) /\ Head(q) \in Entry
           /\ Head(q).ev \in Queued(q)
           /\ Queued(Tail(q)) = Queued(q) \ {Head(q).ev}
           /\ OneEach(Tail(q)) /\ InOrder(Tail(q))
           /\ \A i \in DOMAIN Tail(q) :
                 /\ \E j \in DOMAIN q : Tail(q)[i] = q[j]
                 /\ Head(q).time <= Tail(q)[i].time
<1>1. /\ DOMAIN q = 1..Len(q) /\ Len(q) \in Nat /\ Len(q) >= 1
      /\ Head(q) = q[1] /\ 1 \in DOMAIN q /\ Head(q) \in Entry
      /\ Tail(q) \in Seq(Entry) /\ Len(Tail(q)) = Len(q) - 1
  OBVIOUS
<1>2. /\ DOMAIN Tail(q) = 1..(Len(q) - 1)
      /\ \A i \in 1..(Len(q) - 1) : i + 1 \in DOMAIN q /\ Tail(q)[i] = q[i + 1]
  BY <1>1
<1> DEFINE s == Tail(q)
<1> HIDE DEF s
<1>3. OneEach(s)
  BY <1>1, <1>2 DEF OneEach, s
<1>4. InOrder(s)
  BY <1>1, <1>2 DEF InOrder, s
<1>5. Queued(s) = Queued(q) \ {q[1].ev}
  <2>1. \A i \in DOMAIN s : s[i].ev \in Queued(q) /\ s[i].ev # q[1].ev
    BY <1>1, <1>2 DEF OneEach, Queued, s
  <2>2. \A j \in DOMAIN q : j # 1 => q[j].ev \in Queued(s)
    <3> SUFFICES ASSUME NEW j \in DOMAIN q, j # 1
                 PROVE  q[j].ev \in Queued(s)
      OBVIOUS
    <3>1. j - 1 \in DOMAIN s /\ s[j - 1] = q[j]
      BY <1>1, <1>2 DEF s
    <3>2. QED
      BY <3>1 DEF Queued
  <2>3. QED
    BY <2>1, <2>2 DEF Queued
<1>6. \A i \in DOMAIN s : (\E j \in DOMAIN q : s[i] = q[j]) /\ q[1].time <= s[i].time
  <2> TAKE i \in DOMAIN s
  <2>1. i + 1 \in DOMAIN q /\ s[i] = q[i + 1] /\ 1 < i + 1
    BY <1>1, <1>2 DEF s
  <2>2. QED
    BY <1>1, <2>1 DEF InOrder
<1>7. q[1].ev \in Queued(q)
  BY <1>1 DEF Queued
<1>8. QED
  BY <1>1, <1>3, <1>4, <1>5, <1>6, <1>7 DEF s

-----------------------------------------------------------------------------
(***************************************************************************)
(* The scheduler's calls                                                   *)
(***************************************************************************)
Sch == [queue : Seq(Entry), uid : [Ev -> {-1, 0, 1}], aborted : BOOLEAN]

SchOK(s) ==
    /\ s \in Sch /\ ~s.aborted
    /\ OneEach(s.queue) /\ InOrder(s.queue)
    /\ \A e \in Ev : s.uid[e] > 0 <=> e \in Queued(s.queue)

LEMMA SchOKNow == ASSUME TimerInv PROVE SchOK(sch)
BY DEF TimerInv, TypeOK, NeverAborts, UidTells, SchOK, Sch

LEMMA ScheduledFacts ==
    ASSUME NEW s, SchOK(s), NEW e \in Ev, NEW time \in Nat, e \notin Queued(s.queue)
    PROVE  LET n == Scheduled(s, e, time)
           IN  /\ SchOK(n) /\ Queued(n.queue) = Queued(s.queue) \cup {e}
               /\ \A a \in Ev : a # e => n.uid[a] = s.uid[a]
               /\ \A i \in DOMAIN n.queue :
                     \/ n.queue[i] = [ev |-> e, time |-> time]
                     \/ \E j \in DOMAIN s.queue : n.queue[i] = s.queue[j]
<1> DEFINE n == Scheduled(s, e, time)
           q == Inserted(s.queue, e, time)
<1>1. s.queue \in Seq(Entry) /\ s.uid \in [Ev -> {-1, 0, 1}] /\ s.aborted = FALSE
  BY DEF SchOK, Sch
<1>2. ~(s.uid[e] > 0)
  BY DEF SchOK
<1>3. n = [queue |-> q, uid |-> [s.uid EXCEPT ![e] = 1], aborted |-> s.aborted]
  BY <1>2 DEF Scheduled
<1>4. /\ q \in Seq(Entry) /\ Queued(q) = Queued(s.queue) \cup {e}
      /\ OneEach(q) /\ InOrder(q)
      /\ \A i \in DOMAIN q : \/ q[i] = [ev |-> e, time |-> time]
                             \/ \E j \in DOMAIN s.queue : q[i] = s.queue[j]
  BY <1>1, InsertedFacts DEF SchOK
<1> HIDE DEF q, n
<1>5. n.queue = q /\ n.uid = [s.uid EXCEPT ![e] = 1] /\ n.aborted = FALSE
  BY <1>1, <1>3
<1>6. n \in Sch
  BY <1>1, <1>3, <1>4 DEF Sch
<1>7. \A a \in Ev : n.uid[a] > 0 <=> a \in Queued(q)
  BY <1>1, <1>4, <1>5 DEF SchOK
<1>8. SchOK(n)
  BY <1>4, <1>5, <1>6, <1>7 DEF SchOK
<1>9. QED
  BY <1>1, <1>4, <1>5, <1>8 DEF n

LEMMA CancelledFacts ==
    ASSUME NEW s, SchOK(s), NEW e \in Ev, e \in Queued(s.queue)
    PROVE  LET n == Cancelled(s, e)
           IN  /\ SchOK(n) /\ Queued(n.queue) = Queued(s.queue) \ {e}
               /\ \A a \in Ev : a # e => n.uid[a] = s.uid[a]
               /\ \A i \in DOMAIN n.queue :
                     \E j \in DOMAIN s.queue : n.queue[i] = s.queue[j]
<1> DEFINE n == Cancelled(s, e)
           q == Removed(s.queue, e)
<1>1. s.queue \in Seq(Entry) /\ s.uid \in [Ev -> {-1, 0, 1}] /\ s.aborted = FALSE
  BY DEF SchOK, Sch
<1>2. s.uid[e] > 0 /\ s.uid[e] = 1
  BY <1>1 DEF SchOK
<1>3. n = [queue |-> q, uid |-> [s.uid EXCEPT ![e] = -1], aborted |-> s.aborted]
  BY <1>2 DEF Cancelled
<1>4. /\ q \in Seq(Entry) /\ Queued(q) = Queued(s.queue) \ {e}
      /\ OneEach(q) /\ InOrder(q)
      /\ \A i \in DOMAIN q : \E j \in DOMAIN s.queue : q[i] = s.queue[j]
  BY <1>1, RemovedFacts DEF SchOK
<1> HIDE DEF q, n
<1>5. n.queue = q /\ n.uid = [s.uid EXCEPT ![e] = -1] /\ n.aborted = FALSE
  BY <1>1, <1>3
<1>6. n \in Sch
  BY <1>1, <1>3, <1>4 DEF Sch
<1>7. \A a \in Ev : n.uid[a] > 0 <=> a \in Queued(q)
  BY <1>1, <1>4, <1>5 DEF SchOK
<1>8. SchOK(n)
  BY <1>4, <1>5, <1>6, <1>7 DEF SchOK
<1>9. QED
  BY <1>1, <1>4, <1>5, <1>8 DEF n

-----------------------------------------------------------------------------
(***************************************************************************)
(* Steps                                                                   *)
(***************************************************************************)
\* Every queued timer is queued for its deadline.
OnTime(q, d) == \A i \in DOMAIN q : q[i].ev \in Timers => q[i].time = d[q[i].ev]
PendingQueued(q, st) == \A t \in Timers : st[t] = "pending" <=> t \in Queued(q)

LEMMA InvParts ==
    ASSUME TimerInv
    PROVE  /\ TypeOK /\ SchOK(sch) /\ OnTime(sch.queue, deadline)
           /\ PendingQueued(sch.queue, status) /\ HandlingRuns /\ AtFresh /\ NotPast
           /\ sch.queue \in Seq(Entry) /\ sch.uid \in [Ev -> {-1, 0, 1}] /\ clock \in Nat
BY SchOKNow DEF TimerInv, TypeOK, FiresWhenSet, OnTime, PendingQueued

LEMMA InvFromParts ==
    ASSUME TypeOK', SchOK(sch'), OnTime(sch'.queue, deadline'),
           PendingQueued(sch'.queue, status'), HandlingRuns', AtFresh', NotPast'
    PROVE  TimerInv'
<1>1. OneEach(sch'.queue) /\ InOrder(sch'.queue) /\ UidTells' /\ NeverAborts'
  BY DEF SchOK, UidTells, NeverAborts
<1>2. FiresWhenSet'
  BY <1>1 DEF FiresWhenSet, OnTime, PendingQueued, OneEach
<1>3. QED
  BY <1>1, <1>2 DEF TimerInv

LEMMA Disjoint ==
    /\ \A t \in Timers : t \in Ev /\ t \notin Ats /\ t # None /\ t # Script /\ t # Tcl
    /\ \A a \in Ats : a \in Ev /\ a \notin Timers /\ a # None /\ a # Script /\ a # Tcl
BY TimerAssumption DEF Ev

\* A timer is set, its earlier event having been taken back if there was one.
LEMMA SetStep ==
    ASSUME TimerInv, NEW t \in Timers, NEW d \in Delays, NEW s, SchOK(s),
           Queued(s.queue) = Queued(sch.queue) \ {t},
           \A a \in Ev : a # t => s.uid[a] = sch.uid[a],
           \A i \in DOMAIN s.queue : \E j \in DOMAIN sch.queue : s.queue[i] = sch.queue[j],
           sch' = Scheduled(s, t, clock + d),
           status' = [status EXCEPT ![t] = "pending"],
           deadline' = [deadline EXCEPT ![t] = clock + d],
           UNCHANGED <<clock, running, halted, realtime, script, nextAt>>
    PROVE  TimerInv'
<1> DEFINE time == clock + d
<1>1. /\ TypeOK /\ SchOK(sch) /\ OnTime(sch.queue, deadline)
      /\ PendingQueued(sch.queue, status) /\ HandlingRuns /\ AtFresh /\ NotPast
      /\ sch.queue \in Seq(Entry) /\ sch.uid \in [Ev -> {-1, 0, 1}] /\ clock \in Nat
  BY InvParts
<1>2. time \in Nat /\ t \in Ev /\ t \notin Ats /\ time >= clock
  BY <1>1, TimerAssumption DEF Ev
<1>3. t \notin Queued(s.queue)
  OBVIOUS
<1>4. /\ SchOK(sch') /\ Queued(sch'.queue) = Queued(s.queue) \cup {t}
      /\ \A a \in Ev : a # t => sch'.uid[a] = s.uid[a]
      /\ \A i \in DOMAIN sch'.queue :
            \/ sch'.queue[i] = [ev |-> t, time |-> time]
            \/ \E j \in DOMAIN s.queue : sch'.queue[i] = s.queue[j]
  BY <1>2, <1>3, ScheduledFacts
<1>5. \A i \in DOMAIN sch'.queue :
         \/ sch'.queue[i] = [ev |-> t, time |-> time]
         \/ /\ sch'.queue[i].ev # t
            /\ \E j \in DOMAIN sch.queue : sch'.queue[i] = sch.queue[j]
  BY <1>3, <1>4 DEF Queued
<1>6. status' \in [Timers -> {"idle", "pending", "handling"}] /\ deadline' \in [Timers -> Nat \cup {-1}]
  BY <1>1, <1>2 DEF TypeOK
<1>7. TypeOK'
  BY <1>1, <1>4, <1>6 DEF TypeOK, SchOK, Sch
<1>8. OnTime(sch'.queue, deadline')
  BY <1>1, <1>5 DEF OnTime, TypeOK
<1>9. PendingQueued(sch'.queue, status')
  BY <1>1, <1>4 DEF PendingQueued, TypeOK
<1>10. HandlingRuns'
  BY <1>1 DEF HandlingRuns, TypeOK
<1>11. AtFresh'
  BY <1>1, <1>2, <1>4, Disjoint DEF AtFresh
<1>12. NotPast'
  <2> SUFFICES ASSUME ~realtime, NEW i \in DOMAIN sch'.queue
               PROVE  sch'.queue[i].time >= clock
    BY DEF NotPast
  <2>1. CASE sch'.queue[i] = [ev |-> t, time |-> time]
    BY <1>2, <2>1
  <2>2. CASE \E j \in DOMAIN sch.queue : sch'.queue[i] = sch.queue[j]
    BY <1>1, <2>2 DEF NotPast
  <2>3. QED
    BY <1>5, <2>1, <2>2
<1>13. QED
  BY <1>4, <1>7, <1>8, <1>9, <1>10, <1>11, <1>12, InvFromParts

LEMMA SchedStep ==
    ASSUME TimerInv, NEW t \in Timers, NEW d \in Delays, Sched(t, d)
    PROVE  TimerInv'
<1>1. SchOK(sch) /\ PendingQueued(sch.queue, status)
  BY InvParts
<1>2. t \notin Queued(sch.queue)
  BY <1>1 DEF Sched, PendingQueued
<1>3. Queued(sch.queue) = Queued(sch.queue) \ {t}
  BY <1>2
<1>4. QED
  BY <1>1, <1>3, SetStep DEF Sched

LEMMA ReschedStep ==
    ASSUME TimerInv, NEW t \in Timers, NEW d \in Delays, Resched(t, d)
    PROVE  TimerInv'
<1> DEFINE s == UnlessPending(t)
<1>1. SchOK(sch) /\ PendingQueued(sch.queue, status) /\ t \in Ev
  BY InvParts, Disjoint
<1>2. /\ SchOK(s) /\ Queued(s.queue) = Queued(sch.queue) \ {t}
      /\ \A a \in Ev : a # t => s.uid[a] = sch.uid[a]
      /\ \A i \in DOMAIN s.queue : \E j \in DOMAIN sch.queue : s.queue[i] = sch.queue[j]
  <2>1. CASE status[t] = "pending"
    <3>1. t \in Queued(sch.queue) /\ s = Cancelled(sch, t)
      BY <1>1, <2>1 DEF PendingQueued, UnlessPending
    <3>2. QED
      BY <1>1, <3>1, CancelledFacts
  <2>2. CASE status[t] # "pending"
    <3>1. t \notin Queued(sch.queue) /\ s = sch
      BY <1>1, <2>2 DEF PendingQueued, UnlessPending
    <3>2. QED
      BY <1>1, <3>1
  <2>3. QED
    BY <2>1, <2>2
<1>3. /\ sch' = Scheduled(s, t, clock + d)
      /\ status' = [status EXCEPT ![t] = "pending"]
      /\ deadline' = [deadline EXCEPT ![t] = clock + d]
      /\ UNCHANGED <<clock, running, halted, realtime, script, nextAt>>
  BY DEF Resched
<1> HIDE DEF s
<1>4. QED
  BY <1>2, <1>3, SetStep

LEMMA CancelStep ==
    ASSUME TimerInv, NEW t \in Timers, Cancel(t)
    PROVE  TimerInv'
<1>1. /\ TypeOK /\ SchOK(sch) /\ OnTime(sch.queue, deadline)
      /\ PendingQueued(sch.queue, status) /\ HandlingRuns /\ AtFresh /\ NotPast
      /\ sch.queue \in Seq(Entry) /\ sch.uid \in [Ev -> {-1, 0, 1}] /\ clock \in Nat
  BY InvParts
<1>2. /\ sch' = Cancelled(sch, t) /\ status' = [status EXCEPT ![t] = "idle"]
      /\ deadline' = [deadline EXCEPT ![t] = -1]
      /\ UNCHANGED <<clock, running, halted, realtime, script, nextAt>>
      /\ t \in Queued(sch.queue) /\ t \in Ev
  BY <1>1, Disjoint DEF Cancel, PendingQueued
<1>3. /\ SchOK(sch') /\ Queued(sch'.queue) = Queued(sch.queue) \ {t}
      /\ \A a \in Ev : a # t => sch'.uid[a] = sch.uid[a]
      /\ \A i \in DOMAIN sch'.queue : \E j \in DOMAIN sch.queue : sch'.queue[i] = sch.queue[j]
  BY <1>1, <1>2, CancelledFacts
<1>4. \A i \in DOMAIN sch'.queue : sch'.queue[i].ev # t
  BY <1>3 DEF Queued
<1>5. status' \in [Timers -> {"idle", "pending", "handling"}] /\ deadline' \in [Timers -> Nat \cup {-1}]
  BY <1>1, <1>2 DEF TypeOK
<1>6. TypeOK'
  BY <1>1, <1>2, <1>3, <1>5 DEF TypeOK, SchOK, Sch
<1>7. OnTime(sch'.queue, deadline')
  BY <1>1, <1>2, <1>3, <1>4 DEF OnTime, TypeOK
<1>8. PendingQueued(sch'.queue, status')
  BY <1>1, <1>2, <1>3 DEF PendingQueued, TypeOK
<1>9. HandlingRuns'
  BY <1>1, <1>2 DEF HandlingRuns, TypeOK
<1>10. AtFresh'
  BY <1>1, <1>2, <1>3, Disjoint DEF AtFresh
<1>11. NotPast'
  BY <1>1, <1>2, <1>3 DEF NotPast
<1>12. QED
  BY <1>3, <1>6, <1>7, <1>8, <1>9, <1>10, <1>11, InvFromParts

LEMMA AtCancelStep ==
    ASSUME TimerInv, NEW a \in Revoked, AtCancel(a)
    PROVE  TimerInv'
<1>1. /\ TypeOK /\ SchOK(sch) /\ OnTime(sch.queue, deadline)
      /\ PendingQueued(sch.queue, status) /\ HandlingRuns /\ AtFresh /\ NotPast
      /\ sch.queue \in Seq(Entry) /\ sch.uid \in [Ev -> {-1, 0, 1}] /\ clock \in Nat
  BY InvParts
<1>2. /\ sch' = Cancelled(sch, a) /\ a \in Queued(sch.queue) /\ a \in Ats /\ a \in Ev
      /\ UNCHANGED <<clock, status, deadline, running, halted, realtime, script, nextAt>>
  BY TimerAssumption, Disjoint DEF AtCancel
<1>3. /\ SchOK(sch') /\ Queued(sch'.queue) = Queued(sch.queue) \ {a}
      /\ \A e \in Ev : e # a => sch'.uid[e] = sch.uid[e]
      /\ \A i \in DOMAIN sch'.queue : \E j \in DOMAIN sch.queue : sch'.queue[i] = sch.queue[j]
  BY <1>1, <1>2, CancelledFacts
<1>4. TypeOK'
  BY <1>1, <1>2, <1>3 DEF TypeOK, SchOK, Sch
<1>5. OnTime(sch'.queue, deadline')
  BY <1>1, <1>2, <1>3 DEF OnTime
<1>6. PendingQueued(sch'.queue, status')
  BY <1>1, <1>2, <1>3, Disjoint DEF PendingQueued
<1>7. HandlingRuns'
  BY <1>1, <1>2 DEF HandlingRuns
<1>8. AtFresh'
  <2>1. sch.uid[a] > 0
    BY <1>1, <1>2 DEF SchOK
  <2>2. ~(a >= nextAt)
    BY <1>1, <1>2, <2>1 DEF AtFresh
  <2>3. QED
    BY <1>1, <1>2, <1>3, <2>2, Disjoint DEF AtFresh
<1>9. NotPast'
  BY <1>1, <1>2, <1>3 DEF NotPast
<1>10. QED
  BY <1>3, <1>4, <1>5, <1>6, <1>7, <1>8, <1>9, InvFromParts

LEMMA AtStep ==
    ASSUME TimerInv, At
    PROVE  TimerInv'
<1>1. /\ TypeOK /\ SchOK(sch) /\ OnTime(sch.queue, deadline)
      /\ PendingQueued(sch.queue, status) /\ HandlingRuns /\ AtFresh /\ NotPast
      /\ sch.queue \in Seq(Entry) /\ sch.uid \in [Ev -> {-1, 0, 1}] /\ clock \in Nat
  BY InvParts
<1> DEFINE a == nextAt
           time == script.times[nextAt]
<1>2. /\ nextAt <= Len(script.times) /\ nextAt' = nextAt + 1
      /\ sch' = IF time >= clock THEN Scheduled(sch, a, time) ELSE sch
      /\ UNCHANGED <<clock, status, deadline, running, halted, realtime, script>>
  BY DEF At
<1>3. script.times \in Seq(Nat) /\ Len(script.times) <= MaxAt /\ MaxAt \in Nat
  BY <1>1, TimerAssumption DEF TypeOK
<1>4. a \in Ats /\ time \in Nat /\ nextAt' \in 1..(MaxAt + 1) /\ a \in Ev
  BY <1>1, <1>2, <1>3 DEF TypeOK, Ats, Ev
<1>5. a \notin Queued(sch.queue)
  BY <1>1, <1>4 DEF AtFresh, SchOK, Ats
<1> HIDE DEF time, a
<1>6. /\ SchOK(sch') /\ Queued(sch'.queue) \subseteq Queued(sch.queue) \cup {a}
      /\ Queued(sch.queue) \subseteq Queued(sch'.queue)
      /\ \A e \in Ev : e # a => sch'.uid[e] = sch.uid[e]
      /\ \A i \in DOMAIN sch'.queue :
            \/ sch'.queue[i] = [ev |-> a, time |-> time] /\ time >= clock
            \/ \E j \in DOMAIN sch.queue : sch'.queue[i] = sch.queue[j]
  <2>1. CASE time >= clock
    <3>1. sch' = Scheduled(sch, a, time)
      BY <1>2, <2>1
    <3>2. /\ SchOK(sch') /\ Queued(sch'.queue) = Queued(sch.queue) \cup {a}
          /\ \A e \in Ev : e # a => sch'.uid[e] = sch.uid[e]
          /\ \A i \in DOMAIN sch'.queue :
                \/ sch'.queue[i] = [ev |-> a, time |-> time]
                \/ \E j \in DOMAIN sch.queue : sch'.queue[i] = sch.queue[j]
      BY <1>1, <1>4, <1>5, <3>1, ScheduledFacts
    <3>3. QED
      BY <2>1, <3>2
  <2>2. CASE ~(time >= clock)
    <3>1. sch' = sch
      BY <1>2, <2>2
    <3>2. QED
      BY <1>1, <3>1
  <2>3. QED
    BY <2>1, <2>2
<1>7. TypeOK'
  BY <1>1, <1>2, <1>4, <1>6 DEF TypeOK, SchOK, Sch
<1>8. OnTime(sch'.queue, deadline')
  BY <1>1, <1>2, <1>4, <1>6, Disjoint DEF OnTime
<1>9. PendingQueued(sch'.queue, status')
  BY <1>1, <1>2, <1>4, <1>6, Disjoint DEF PendingQueued
<1>10. HandlingRuns'
  BY <1>1, <1>2 DEF HandlingRuns
<1>11. AtFresh'
  <2> SUFFICES ASSUME NEW b \in Ats, b >= nextAt + 1
               PROVE  sch'.uid[b] = 0
    BY <1>2 DEF AtFresh
  <2>1. b >= nextAt /\ b # a /\ b \in Ev
    BY <1>1, Disjoint DEF Ats, TypeOK, a
  <2>2. QED
    BY <1>1, <1>6, <2>1 DEF AtFresh
<1>12. NotPast'
  <2> SUFFICES ASSUME ~realtime, NEW i \in DOMAIN sch'.queue
               PROVE  sch'.queue[i].time >= clock
    BY <1>2 DEF NotPast
  <2>1. CASE sch'.queue[i] = [ev |-> a, time |-> time] /\ time >= clock
    BY <2>1
  <2>2. CASE \E j \in DOMAIN sch.queue : sch'.queue[i] = sch.queue[j]
    BY <1>1, <2>2 DEF NotPast
  <2>3. QED
    BY <1>6, <2>1, <2>2
<1>13. QED
  BY <1>6, <1>7, <1>8, <1>9, <1>10, <1>11, <1>12, InvFromParts

LEMMA DispatchStep ==
    ASSUME TimerInv, Dispatch
    PROVE  TimerInv'
<1>1. /\ TypeOK /\ SchOK(sch) /\ OnTime(sch.queue, deadline)
      /\ PendingQueued(sch.queue, status) /\ HandlingRuns /\ AtFresh /\ NotPast
      /\ sch.queue \in Seq(Entry) /\ sch.uid \in [Ev -> {-1, 0, 1}] /\ clock \in Nat
  BY InvParts
<1> DEFINE q == sch.queue
           x == Head(sch.queue)
           now == IF realtime THEN clock ELSE x.time
<1>2. /\ running = None /\ ~sch.aborted /\ q # <<>>
      /\ sch' = Dispatched(x, now) /\ clock' = now /\ running' = x.ev
      /\ status' = [t \in Timers |-> IF t = x.ev THEN "handling" ELSE status[t]]
      /\ deadline' = [t \in Timers |-> IF t = x.ev THEN -1 ELSE deadline[t]]
      /\ UNCHANGED <<halted, realtime, script, nextAt>>
  BY DEF Dispatch
<1>3. OneEach(q) /\ InOrder(q) /\ \A e \in Ev : sch.uid[e] > 0 <=> e \in Queued(q)
  BY <1>1 DEF SchOK
<1>4. /\ Tail(q) \in Seq(Entry) /\ x \in Entry /\ x.ev \in Queued(q)
      /\ Queued(Tail(q)) = Queued(q) \ {x.ev}
      /\ OneEach(Tail(q)) /\ InOrder(Tail(q))
      /\ \A i \in DOMAIN Tail(q) :
            /\ \E j \in DOMAIN q : Tail(q)[i] = q[j]
            /\ x.time <= Tail(q)[i].time
  BY <1>1, <1>2, <1>3, TailFacts
<1>5. x.ev \in Ev /\ x.time \in Nat /\ now \in Nat
  BY <1>1, <1>4 DEF Entry
<1>6. PICK k \in DOMAIN q : q[k] = x
  BY <1>1, <1>2
<1>7. ~(now < clock)
  BY <1>1, <1>5, <1>6 DEF NotPast
<1>8. x.ev \in Timers => status[x.ev] = "pending"
  BY <1>1, <1>4 DEF PendingQueued
<1>9. /\ sch'.queue = Tail(q) /\ sch'.uid = [sch.uid EXCEPT ![x.ev] = -1]
      /\ sch'.aborted = FALSE
      /\ sch' = [queue |-> Tail(q), uid |-> [sch.uid EXCEPT ![x.ev] = -1], aborted |-> FALSE]
  <2>1. sch.uid[x.ev] = 1
    BY <1>1, <1>3, <1>4, <1>5
  <2>2. QED
    BY <1>2, <1>7, <1>8, <2>1 DEF Dispatched
<1> HIDE DEF q, x, now
<1>10. SchOK(sch')
  <2>1. \A e \in Ev : sch'.uid[e] > 0 <=> e \in Queued(sch'.queue)
    BY <1>1, <1>3, <1>4, <1>5, <1>9
  <2>2. sch' \in Sch
    BY <1>1, <1>4, <1>5, <1>9 DEF Sch
  <2>3. QED
    BY <1>4, <1>9, <2>1, <2>2 DEF SchOK
<1>11. TypeOK'
  <2>1. status' \in [Timers -> {"idle", "pending", "handling"}] /\ deadline' \in [Timers -> Nat \cup {-1}]
    BY <1>1, <1>2 DEF TypeOK
  <2>2. QED
    BY <1>1, <1>2, <1>5, <1>10, <2>1 DEF TypeOK, SchOK, Sch
<1>12. OnTime(sch'.queue, deadline')
  <2> SUFFICES ASSUME NEW i \in DOMAIN Tail(q), Tail(q)[i].ev \in Timers
               PROVE  Tail(q)[i].time = deadline'[Tail(q)[i].ev]
    BY <1>9 DEF OnTime
  <2>1. Tail(q)[i].ev # x.ev
    BY <1>4 DEF Queued
  <2>2. Tail(q)[i].time = deadline[Tail(q)[i].ev]
    BY <1>1, <1>4 DEF OnTime, q
  <2>3. QED
    BY <1>2, <2>1, <2>2
<1>13. PendingQueued(sch'.queue, status')
  BY <1>1, <1>2, <1>4, <1>9 DEF PendingQueued, q
<1>14. HandlingRuns'
  <2>1. \A t \in Timers : status[t] # "handling"
    BY <1>1, <1>2, TimerAssumption DEF HandlingRuns, Ev
  <2>2. QED
    BY <1>2, <2>1 DEF HandlingRuns
<1>15. AtFresh'
  <2> SUFFICES ASSUME NEW a \in Ats, a >= nextAt
               PROVE  sch'.uid[a] = 0
    BY <1>2 DEF AtFresh
  <2>1. sch.uid[a] = 0 /\ a \in Ev
    BY <1>1 DEF AtFresh, Ev
  <2>2. a # x.ev
    BY <1>3, <1>4, <2>1
  <2>3. QED
    BY <1>1, <1>9, <2>1, <2>2
<1>16. NotPast'
  <2> SUFFICES ASSUME ~realtime, NEW i \in DOMAIN Tail(q)
               PROVE  Tail(q)[i].time >= clock'
    BY <1>2, <1>9 DEF NotPast
  <2>1. clock' = x.time
    BY <1>2 DEF now
  <2>2. Tail(q)[i] \in Entry /\ x.time <= Tail(q)[i].time
    BY <1>4
  <2>3. QED
    BY <1>5, <2>1, <2>2 DEF Entry
<1>17. QED
  BY <1>10, <1>11, <1>12, <1>13, <1>14, <1>15, <1>16, InvFromParts

LEMMA HandleEndStep ==
    ASSUME TimerInv, HandleEnd
    PROVE  TimerInv'
<1>1. /\ TypeOK /\ SchOK(sch) /\ OnTime(sch.queue, deadline)
      /\ PendingQueued(sch.queue, status) /\ HandlingRuns /\ AtFresh /\ NotPast
      /\ sch.queue \in Seq(Entry) /\ sch.uid \in [Ev -> {-1, 0, 1}] /\ clock \in Nat
  BY InvParts
<1>2. /\ running' = IF halted THEN Script ELSE None
      /\ status' = [t \in Timers |->
                       IF t = running /\ status[t] = "handling" THEN "idle" ELSE status[t]]
      /\ UNCHANGED <<clock, sch, deadline, halted, realtime, script, nextAt>>
  BY DEF HandleEnd
<1>3. \A t \in Timers : /\ status'[t] # "handling"
                        /\ status'[t] = "pending" <=> status[t] = "pending"
                        /\ status'[t] \in {"idle", "pending", "handling"}
  BY <1>1, <1>2 DEF HandlingRuns, TypeOK
<1>4. TypeOK'
  <2>1. status' \in [Timers -> {"idle", "pending", "handling"}]
    BY <1>2, <1>3
  <2>2. QED
    BY <1>1, <1>2, <2>1 DEF TypeOK
<1>5. SchOK(sch') /\ OnTime(sch'.queue, deadline')
  BY <1>1, <1>2
<1>6. PendingQueued(sch'.queue, status')
  BY <1>1, <1>2, <1>3 DEF PendingQueued
<1>7. HandlingRuns'
  BY <1>3 DEF HandlingRuns
<1>8. AtFresh' /\ NotPast'
  BY <1>1, <1>2 DEF AtFresh, NotPast
<1>9. QED
  BY <1>4, <1>5, <1>6, <1>7, <1>8, InvFromParts

\* Steps that leave the schedule and the timers alone and end no handler of a timer.
LEMMA IdleStep ==
    ASSUME TimerInv, UNCHANGED <<sch, status, deadline, realtime, script, nextAt>>,
           clock' \in Nat, ~realtime => clock' = clock,
           running' \in Ev \cup {None, Script, Tcl}, halted' \in BOOLEAN,
           running \in Timers => running' = running
    PROVE  TimerInv'
<1>1. /\ TypeOK /\ SchOK(sch) /\ OnTime(sch.queue, deadline)
      /\ PendingQueued(sch.queue, status) /\ HandlingRuns /\ AtFresh /\ NotPast
  BY InvParts
<1>2. TypeOK'
  BY <1>1 DEF TypeOK
<1>3. HandlingRuns'
  BY <1>1 DEF HandlingRuns
<1>4. AtFresh' /\ NotPast'
  BY <1>1 DEF AtFresh, NotPast
<1>5. SchOK(sch') /\ OnTime(sch'.queue, deadline') /\ PendingQueued(sch'.queue, status')
  BY <1>1
<1>6. QED
  BY <1>2, <1>3, <1>4, <1>5, InvFromParts

-----------------------------------------------------------------------------
(***************************************************************************)
(* Theorems about the list and the timers                                  *)
(***************************************************************************)
LEMMA InvInit == Init => TimerInv
<1> SUFFICES ASSUME Init PROVE TimerInv
  OBVIOUS
<1>1. /\ sch.queue = <<>> /\ sch.uid = [e \in Ev |-> 0] /\ sch.aborted = FALSE
      /\ DOMAIN sch.queue = {} /\ Queued(sch.queue) = {}
  BY DEF Init, Queued
<1>2. TypeOK
  <2>1. sch \in Sch
    BY DEF Init, Sch
  <2>2. /\ status \in [Timers -> {"idle", "pending", "handling"}]
        /\ deadline \in [Timers -> Nat \cup {-1}]
    BY DEF Init
  <2>3. nextAt \in 1..(MaxAt + 1) /\ clock \in Nat
    BY TimerAssumption DEF Init
  <2>4. QED
    BY <2>1, <2>2, <2>3 DEF Init, TypeOK, Sch
<1>3. FiresWhenSet /\ HandlingRuns
  BY <1>1 DEF Init, FiresWhenSet, HandlingRuns
<1>4. OneEach(sch.queue) /\ InOrder(sch.queue)
  BY <1>1 DEF OneEach, InOrder
<1>5. UidTells /\ AtFresh /\ NotPast /\ NeverAborts
  BY <1>1 DEF UidTells, AtFresh, NotPast, NeverAborts, Ev
<1>6. QED
  BY <1>2, <1>3, <1>4, <1>5 DEF TimerInv

LEMMA InvNext == TimerInv /\ [Next]_vars => TimerInv'
<1> SUFFICES ASSUME TimerInv, [Next]_vars PROVE TimerInv'
  OBVIOUS
<1>1. TypeOK
  BY DEF TimerInv
<1>2. {None, Script, Tcl} \cap Timers = {} /\ TimesOfDay \subseteq Nat
  BY TimerAssumption DEF Ev
<1>3. CASE At
  BY <1>3, AtStep
<1>4. CASE Halt
  BY <1>1, <1>4, IdleStep DEF Halt, TypeOK
<1>5. CASE Run
  BY <1>1, <1>2, <1>5, IdleStep DEF Run, TypeOK
<1>6. CASE Dispatch
  BY <1>6, DispatchStep
<1>7. CASE HandleEnd
  BY <1>7, HandleEndStep
<1>8. ASSUME NEW a \in Revoked, AtCancel(a) PROVE TimerInv'
  BY <1>8, AtCancelStep
<1>9. ASSUME NEW t \in Timers, NEW d \in Delays, Sched(t, d) PROVE TimerInv'
  BY <1>9, SchedStep
<1>10. ASSUME NEW t \in Timers, NEW d \in Delays, Resched(t, d) PROVE TimerInv'
  BY <1>10, ReschedStep
<1>11. ASSUME NEW t \in Timers, Cancel(t) PROVE TimerInv'
  BY <1>11, CancelStep
<1>12. ASSUME NEW now \in TimesOfDay, Wake(now) PROVE TimerInv'
  BY <1>1, <1>2, <1>12, IdleStep DEF Wake, TypeOK
<1>13. CASE UNCHANGED vars
  BY <1>1, <1>13, IdleStep DEF vars, TypeOK
<1>14. QED
  BY <1>3, <1>4, <1>5, <1>6, <1>7, <1>8, <1>9, <1>10, <1>11, <1>12, <1>13 DEF Next

\* The inductive invariant: the sign of uid_ tells exactly the queued events, the list is
\* in order and holds each event once, and pending timers are queued for their deadline.
THEOREM TimerInvariant == Spec => []TimerInv
BY InvInit, InvNext, PTL DEF Spec

\* The variables of the event list and of the timers keep their types.
THEOREM TimerTypes == Spec => []TypeOK
<1>1. TimerInv => TypeOK
  BY DEF TimerInv
<1>2. QED
  BY <1>1, TimerInvariant, PTL

\* Neither schedule, cancel, dispatch nor handle ever calls abort(), however handlers
\* interleave sched, resched and cancel of their own and of other timers.
THEOREM ChecksNeverFail == Spec => []NeverAborts
<1>1. TimerInv => NeverAborts
  BY DEF TimerInv
<1>2. QED
  BY <1>1, TimerInvariant, PTL

\* A pending timer has exactly one event in the list, at the time it was last set to.
THEOREM TimersFireWhenSet == Spec => []FiresWhenSet
<1>1. TimerInv => FiresWhenSet
  BY DEF TimerInv
<1>2. QED
  BY <1>1, TimerInvariant, PTL

\* A timer whose handler has returned is idle or pending.
THEOREM HandlingOnlyRunning == Spec => []HandlingRuns
<1>1. TimerInv => HandlingRuns
  BY DEF TimerInv
<1>2. QED
  BY <1>1, TimerInvariant, PTL

-----------------------------------------------------------------------------
(***************************************************************************)
(* Induction and iteration over natural numbers                            *)
(***************************************************************************)
LEMMA InductionSet ==
    ASSUME NEW S, 0 \in S, \A n \in Nat : n \in S => n + 1 \in S
    PROVE  Nat \subseteq S
<1> SUFFICES ASSUME Nat \ S # {} PROVE FALSE
  OBVIOUS
<1>1. PICK n \in Nat \ S : \A m \in Nat \ S : n <= m
  BY LeastPosition
<1>2. n # 0
  BY <1>1
<1>3. n - 1 \in Nat /\ n - 1 \in S
  BY <1>1, <1>2
<1>4. QED
  BY <1>1, <1>3

\* A step function can be iterated: this gives a meaning to the recursive functions of
\* Schedulers.
StepFunction(F, S) == F \in [Nat \X S -> S]
Iterates(f, F, s, S) ==
    f \in [Nat -> S] /\ f[0] = s /\ \A n \in Nat : f[n + 1] = F[<<n, f[n]>>]

LEMMA Iteration ==
    ASSUME NEW S, NEW F, StepFunction(F, S), NEW s \in S
    PROVE  \E f : Iterates(f, F, s, S)
<1> USE DEF StepFunction
<1> DEFINE Good(n) == {f \in [0..n -> S] :
                          f[0] = s /\ \A m \in 0..(n - 1) : f[m + 1] = F[<<m, f[m]>>]}
           N == {n \in Nat : Good(n) # {}}
           w(n) == CHOOSE f : f \in Good(n)
<1>1. Nat \subseteq N
  <2>1. 0 \in N
    <3>1. [m \in 0..0 |-> s] \in Good(0)
      OBVIOUS
    <3>2. QED
      BY <3>1
  <2>2. ASSUME NEW n \in Nat, n \in N PROVE n + 1 \in N
    <3>1. PICK f \in [0..n -> S] :
             f[0] = s /\ \A m \in 0..(n - 1) : f[m + 1] = F[<<m, f[m]>>]
      BY <2>2
    <3> DEFINE g == [m \in 0..(n + 1) |-> IF m <= n THEN f[m] ELSE F[<<n, f[n]>>]]
    <3>2. F[<<n, f[n]>>] \in S
      BY <3>1
    <3>3. g \in [0..(n + 1) -> S] /\ g[0] = s
      BY <3>1, <3>2
    <3>4. \A m \in 0..n : g[m + 1] = F[<<m, g[m]>>]
      <4> TAKE m \in 0..n
      <4>1. CASE m = n
        BY <4>1
      <4>2. CASE m # n
        BY <3>1, <4>2
      <4>3. QED
        BY <4>1, <4>2
    <3>5. g \in Good(n + 1)
      <4> HIDE DEF g
      <4>1. (n + 1) - 1 = n
        OBVIOUS
      <4>2. QED
        BY <3>3, <3>4, <4>1
    <3>6. QED
      <4> HIDE DEF Good, g
      <4> QED
        BY <3>5
  <2>3. QED
    <3> HIDE DEF N
    <3> QED
      BY <2>1, <2>2, InductionSet
<1>2. \A n \in Nat : w(n) \in Good(n)
  BY <1>1
<1> HIDE DEF w
<1>3. \A n \in Nat : w(n) \in [0..n -> S] /\ w(n)[0] = s
                     /\ \A m \in 0..(n - 1) : w(n)[m + 1] = F[<<m, w(n)[m]>>]
  BY <1>2
<1>4. ASSUME NEW n \in Nat PROVE w(n + 1)[n] = w(n)[n]
  <2> DEFINE K == {k \in Nat : k <= n => w(n + 1)[k] = w(n)[k]}
  <2>1. 0 \in K
    BY <1>3
  <2>2. ASSUME NEW k \in Nat, k \in K PROVE k + 1 \in K
    <3> SUFFICES ASSUME k + 1 <= n PROVE w(n + 1)[k + 1] = w(n)[k + 1]
      OBVIOUS
    <3>1. w(n + 1)[k] = w(n)[k]
      BY <2>2
    <3>2. w(n + 1)[k + 1] = F[<<k, w(n + 1)[k]>>] /\ w(n)[k + 1] = F[<<k, w(n)[k]>>]
      BY <1>3
    <3>3. QED
      BY <3>1, <3>2
  <2>3. Nat \subseteq K
    <3> HIDE DEF K
    <3> QED
      BY <2>1, <2>2, InductionSet
  <2>4. QED
    BY <2>3
<1> DEFINE f == [n \in Nat |-> w(n)[n]]
<1>5. f \in [Nat -> S]
  BY <1>3
<1>6. f[0] = s
  BY <1>3
<1>7. \A n \in Nat : f[n + 1] = F[<<n, f[n]>>]
  <2> TAKE n \in Nat
  <2>1. w(n + 1)[n + 1] = F[<<n, w(n + 1)[n]>>]
    BY <1>3
  <2>2. QED
    BY <1>4, <2>1
<1>8. QED
  <2> HIDE DEF f
  <2> QED
    BY <1>5, <1>6, <1>7 DEF Iterates

-----------------------------------------------------------------------------
(***************************************************************************)
(* The path from an index of the heap to the root                          *)
(***************************************************************************)
LEMMA Halving ==
    ASSUME NEW i \in Nat, NEW f \in [Nat -> Nat], f[0] = i,
           \A j \in Nat : f[j + 1] = f[j] \div 2
    PROVE  /\ \A j \in Nat : f[j] <= i /\ (j <= i => f[j] <= i - j) /\ (j >= i => f[j] = 0)
           /\ \A a, b \in Nat : a <= b => f[b] <= f[a]
<1>1. \A j \in Nat : f[j + 1] <= f[j] /\ (f[j] # 0 => f[j + 1] <= f[j] - 1)
  <2> TAKE j \in Nat
  <2>1. f[j] \in Nat /\ f[j + 1] = f[j] \div 2
    OBVIOUS
  <2>2. QED
    BY <2>1
<1>2. \A j \in Nat : f[j] \in Nat
  OBVIOUS
<1> DEFINE J == {j \in Nat : f[j] <= i /\ (j <= i => f[j] <= i - j) /\ (j >= i => f[j] = 0)}
<1>3. 0 \in J
  OBVIOUS
<1>4. ASSUME NEW j \in Nat, j \in J PROVE j + 1 \in J
  <2>1. f[j] <= i /\ (j <= i => f[j] <= i - j) /\ (j >= i => f[j] = 0)
    BY <1>4
  <2>2. /\ f[j + 1] <= f[j] /\ (f[j] # 0 => f[j + 1] <= f[j] - 1)
        /\ f[j] \in Nat /\ f[j + 1] \in Nat
    BY <1>1, <1>2
  <2>3. QED
    BY <2>1, <2>2
<1>5. Nat \subseteq J
  <2> HIDE DEF J
  <2> QED
    BY <1>3, <1>4, InductionSet
<1>6. ASSUME NEW a \in Nat PROVE \A b \in Nat : a <= b => f[b] <= f[a]
  <2> DEFINE B == {b \in Nat : a <= b => f[b] <= f[a]}
  <2>1. 0 \in B
    BY <1>2
  <2>2. ASSUME NEW b \in Nat, b \in B PROVE b + 1 \in B
    <3>1. f[b + 1] <= f[b] /\ f[b] \in Nat /\ f[b + 1] \in Nat /\ f[a] \in Nat
      BY <1>1, <1>2
    <3>2. CASE a <= b
      BY <2>2, <3>1, <3>2
    <3>3. CASE ~(a <= b)
      <4>1. a <= b + 1 => a = b + 1
        BY <3>3
      <4>2. QED
        BY <3>1, <4>1
    <3>4. QED
      BY <3>2, <3>3
  <2>3. Nat \subseteq B
    <3> HIDE DEF B
    <3> QED
      BY <2>1, <2>2, InductionSet
  <2>4. QED
    BY <2>3
<1>7. QED
  BY <1>5, <1>6

LEMMA AncestorsHalve ==
    ASSUME NEW i \in Nat
    PROVE  \E f \in [Nat -> Nat] :
              /\ f[0] = i /\ \A j \in Nat : f[j + 1] = f[j] \div 2
              /\ Ancestors(i) = {f[j] : j \in 0..i} \ {0}
<1> DEFINE F == [p \in Nat \X Nat |-> p[2] \div 2]
<1>1. F \in [Nat \X Nat -> Nat]
  <2>1. \A n \in Nat : n \div 2 \in Nat
    OBVIOUS
  <2>2. \A p \in Nat \X Nat : p[2] \in Nat
    OBVIOUS
  <2>3. QED
    BY <2>1, <2>2
<1>2. PICK f \in [Nat -> Nat] : f[0] = i /\ \A n \in Nat : f[n + 1] = F[<<n, f[n]>>]
  <2>1. StepFunction(F, Nat)
    BY <1>1 DEF StepFunction
  <2> HIDE DEF F
  <2>2. \E f : Iterates(f, F, i, Nat)
    BY <2>1, Iteration, Zenon
  <2>3. QED
    BY <2>2 DEF Iterates
<1>3. \A j \in Nat : f[j + 1] = f[j] \div 2
  BY <1>2
<1> DEFINE Up(u) == u = [j \in 0..i |-> IF j = 0 THEN i ELSE u[j - 1] \div 2]
           g == [j \in 0..i |-> f[j]]
           up == CHOOSE u : Up(u)
<1>4. Up(g)
  <2>1. \A j \in 0..i : f[j] = IF j = 0 THEN i ELSE g[j - 1] \div 2
    <3> TAKE j \in 0..i
    <3>1. CASE j = 0
      BY <1>2, <3>1
    <3>2. CASE j # 0
      <4>1. j - 1 \in Nat /\ j - 1 \in 0..i /\ (j - 1) + 1 = j
        BY <3>2
      <4>2. QED
        BY <1>3, <3>2, <4>1
    <3>3. QED
      BY <3>1, <3>2
  <2>2. QED
    BY <2>1
<1>5. Up(up)
  BY <1>4, Zenon
<1>6. \A j \in 0..i : up[j] = f[j]
  <2> DEFINE J == {j \in Nat : j <= i => up[j] = f[j]}
  <2> HIDE DEF up
  <2>1. \A j \in 0..i : up[j] = IF j = 0 THEN i ELSE up[j - 1] \div 2
    BY <1>5
  <2>2. 0 \in J
    BY <1>2, <2>1
  <2>3. ASSUME NEW j \in Nat, j \in J PROVE j + 1 \in J
    <3> SUFFICES ASSUME j + 1 <= i PROVE up[j + 1] = f[j + 1]
      OBVIOUS
    <3>1. up[j + 1] = up[j] \div 2
      <4>1. j + 1 \in 0..i /\ (j + 1) - 1 = j /\ j + 1 # 0
        OBVIOUS
      <4>2. QED
        BY <2>1, <4>1
    <3>2. QED
      BY <1>3, <2>3, <3>1
  <2>4. Nat \subseteq J
    <3> HIDE DEF J
    <3> QED
      BY <2>2, <2>3, InductionSet
  <2>5. QED
    BY <2>4
<1>7. Ancestors(i) = {up[j] : j \in 0..i} \ {0}
  BY DEF Ancestors
<1>8. {up[j] : j \in 0..i} = {f[j] : j \in 0..i}
  <2> HIDE DEF up
  <2> QED
    BY <1>6
<1>9. QED
  BY <1>2, <1>3, <1>7, <1>8

LEMMA AncestorsChain ==
    ASSUME NEW i \in Nat \ {0}
    PROVE  /\ Ancestors(i) \subseteq 1..i /\ i \in Ancestors(i) /\ 1 \in Ancestors(i)
           /\ \A k \in Ancestors(i) : k # 1 => k \div 2 \in Ancestors(i)
           /\ \A k \in Ancestors(i) : k # i => \E m \in Ancestors(i) : m \div 2 = k /\ m # 1
           /\ \A m, k \in Ancestors(i) : m > k => m \div 2 >= k
           /\ \A m, k \in Ancestors(i) : m \div 2 = k \div 2 => m = k
<1>1. PICK f \in [Nat -> Nat] :
         /\ f[0] = i /\ \A j \in Nat : f[j + 1] = f[j] \div 2
         /\ Ancestors(i) = {f[j] : j \in 0..i} \ {0}
  BY AncestorsHalve
<1>2. /\ \A j \in Nat : f[j] <= i /\ (j <= i => f[j] <= i - j) /\ (j >= i => f[j] = 0)
      /\ \A a, b \in Nat : a <= b => f[b] <= f[a]
  BY <1>1, Halving
<1>3. \A j \in Nat : f[j] \in Nat
  OBVIOUS
<1>4. \A k \in Ancestors(i) : k \in 1..i /\ \E j \in 0..(i - 1) : k = f[j]
  <2> TAKE k \in Ancestors(i)
  <2>1. PICK j \in 0..i : k = f[j] /\ k # 0
    BY <1>1
  <2>2. k \in Nat /\ k <= i /\ j # i
    BY <1>2, <1>3, <2>1
  <2>3. QED
    BY <2>1, <2>2
<1>5. \A j \in 0..i : f[j] # 0 => f[j] \in Ancestors(i)
  BY <1>1
<1>6. i \in Ancestors(i)
  BY <1>1, <1>5
<1>7. \A m, k \in Ancestors(i) : m > k => m \div 2 >= k
  <2> TAKE m, k \in Ancestors(i)
  <2>1. PICK a \in 0..(i - 1) : m = f[a]
    BY <1>4
  <2>2. PICK b \in 0..(i - 1) : k = f[b]
    BY <1>4
  <2>3. m > k => a < b
    <3>1. m \in Nat /\ k \in Nat
      BY <1>3, <2>1, <2>2
    <3>2. b <= a => m <= k
      BY <1>2, <2>1, <2>2
    <3>3. QED
      BY <3>1, <3>2
  <2>4. a < b => f[b] <= f[a + 1]
    BY <1>2
  <2>5. QED
    BY <1>1, <2>1, <2>2, <2>3, <2>4
<1>8. \A k \in Ancestors(i) : k # 1 => k \div 2 \in Ancestors(i)
  <2> SUFFICES ASSUME NEW k \in Ancestors(i), k # 1
               PROVE  k \div 2 \in Ancestors(i)
    OBVIOUS
  <2>1. PICK a \in 0..(i - 1) : k = f[a]
    BY <1>4
  <2>2. k \in 1..i
    BY <1>4
  <2>3. k \div 2 # 0
    BY <2>2
  <2>4. f[a + 1] = k \div 2 /\ a + 1 \in 0..i
    BY <1>1, <2>1
  <2>5. QED
    BY <1>5, <2>3, <2>4
<1>9. \A k \in Ancestors(i) : k # i => \E m \in Ancestors(i) : m \div 2 = k /\ m # 1
  <2> SUFFICES ASSUME NEW k \in Ancestors(i), k # i
               PROVE  \E m \in Ancestors(i) : m \div 2 = k /\ m # 1
    OBVIOUS
  <2>1. PICK a \in 0..(i - 1) : k = f[a]
    BY <1>4
  <2>2. a # 0 /\ k \in 1..i
    BY <1>1, <1>4, <2>1
  <2>3. a - 1 \in Nat /\ a - 1 \in 0..i /\ (a - 1) + 1 = a
    BY <2>2
  <2>4. f[a - 1] \div 2 = k /\ f[a - 1] \in Nat
    BY <1>1, <1>3, <2>1, <2>3
  <2>5. f[a - 1] # 0 /\ f[a - 1] # 1
    BY <2>2, <2>4
  <2>6. f[a - 1] \in Ancestors(i)
    BY <1>5, <2>3, <2>5
  <2>7. QED
    BY <2>4, <2>5, <2>6
<1>10. 1 \in Ancestors(i)
  <2>1. PICK k \in Ancestors(i) : \A y \in Ancestors(i) : k <= y
    <3>1. Ancestors(i) \subseteq Nat /\ Ancestors(i) # {}
      BY <1>4, <1>6
    <3>2. QED
      BY <3>1, LeastPosition
  <2>2. k \in 1..i
    BY <1>4
  <2>3. k # 1 => k \div 2 < k
    BY <2>2
  <2>4. k # 1 => k <= k \div 2
    BY <1>8, <2>1
  <2>5. QED
    BY <2>2, <2>3, <2>4
<1>11. \A m, k \in Ancestors(i) : m \div 2 = k \div 2 => m = k
  <2> SUFFICES ASSUME NEW m \in Ancestors(i), NEW k \in Ancestors(i), m \div 2 = k \div 2
               PROVE  m = k
    OBVIOUS
  <2>1. m \in 1..i /\ k \in 1..i
    BY <1>4
  <2>2. m \div 2 < m /\ k \div 2 < k
    BY <2>1
  <2>3. (m > k => m \div 2 >= k) /\ (k > m => k \div 2 >= m)
    BY <1>7
  <2>4. QED
    BY <2>1, <2>2, <2>3
<1>12. QED
  BY <1>4, <1>6, <1>7, <1>8, <1>9, <1>10, <1>11

LEMMA AncestorsOfChild ==
    ASSUME NEW k \in Nat \ {0}, NEW n \in Nat, n \div 2 = k
    PROVE  Ancestors(n) \subseteq {n} \cup Ancestors(k)
<1>1. PICK f \in [Nat -> Nat] :
         /\ f[0] = n /\ \A j \in Nat : f[j + 1] = f[j] \div 2
         /\ Ancestors(n) = {f[j] : j \in 0..n} \ {0}
  BY AncestorsHalve
<1>2. PICK g \in [Nat -> Nat] :
         /\ g[0] = k /\ \A j \in Nat : g[j + 1] = g[j] \div 2
         /\ Ancestors(k) = {g[j] : j \in 0..k} \ {0}
  BY AncestorsHalve
<1>3. \A j \in Nat : f[j + 1] = g[j]
  <2> DEFINE J == {j \in Nat : f[j + 1] = g[j]}
  <2>1. 0 \in J
    <3>1. f[0 + 1] = f[0] \div 2
      BY <1>1
    <3>2. QED
      BY <1>1, <1>2, <3>1
  <2>2. ASSUME NEW j \in Nat, j \in J PROVE j + 1 \in J
    <3>1. f[(j + 1) + 1] = f[j + 1] \div 2 /\ g[j + 1] = g[j] \div 2
      BY <1>1, <1>2
    <3>2. QED
      BY <2>2, <3>1
  <2>3. Nat \subseteq J
    <3> HIDE DEF J
    <3> QED
      BY <2>1, <2>2, InductionSet
  <2>4. QED
    BY <2>3
<1>4. \A j \in Nat : g[j] <= k /\ (j <= k => g[j] <= k - j) /\ (j >= k => g[j] = 0)
  <2>1. k \in Nat
    OBVIOUS
  <2>2. QED
    BY <1>2, <2>1, Halving
<1>5. SUFFICES ASSUME NEW j \in 0..n, f[j] # 0, j # 0
               PROVE  f[j] \in Ancestors(k)
  BY <1>1
<1>6. j - 1 \in Nat /\ (j - 1) + 1 = j
  BY <1>5
<1>7. f[j] = g[j - 1]
  BY <1>3, <1>6
<1>8. j - 1 \in 0..k
  BY <1>4, <1>5, <1>6, <1>7
<1>9. QED
  BY <1>2, <1>5, <1>7, <1>8

LEMMA GreatestOf ==
    ASSUME NEW n \in Nat, NEW S, S \subseteq 1..n, S # {}
    PROVE  Max(S) \in S /\ \A y \in S : Max(S) >= y
<1> DEFINE T == {n - y : y \in S}
<1>1. T \subseteq Nat /\ T # {}
  <2>1. \A y \in S : n - y \in Nat
    OBVIOUS
  <2>2. QED
    BY <2>1
<1>2. PICK t \in T : \A u \in T : t <= u
  <2> HIDE DEF T
  <2> QED
    BY <1>1, LeastPosition
<1>3. PICK x \in S : t = n - x
  BY <1>2
<1>4. \A y \in S : x >= y
  <2> TAKE y \in S
  <2>1. n - y \in T
    OBVIOUS
  <2>2. n - x <= n - y /\ x \in 1..n /\ y \in 1..n
    BY <1>2, <1>3, <2>1
  <2>3. QED
    BY <2>2
<1>5. QED
  BY <1>4 DEF Max

-----------------------------------------------------------------------------
(***************************************************************************)
(* The heap's operations keep its order and its elements                   *)
(***************************************************************************)
Elem == [key : Nat, skey : Nat, ev : Ev]

AtMost(a, b) == ~KeyLess(b, a)

LEMMA KeyOrder ==
    ASSUME NEW a \in Elem, NEW b \in Elem
    PROVE  /\ KeyLess(a, b) => AtMost(a, b)
           /\ AtMost(a, b) \/ AtMost(b, a)
           /\ AtMost(a, a)
           /\ \A c \in Elem : AtMost(a, b) /\ AtMost(b, c) => AtMost(a, c)
           /\ \A c \in Elem : KeyLess(a, b) /\ AtMost(b, c) => KeyLess(a, c)
           /\ \A c \in Elem : AtMost(a, b) /\ KeyLess(b, c) => KeyLess(a, c)
<1>1. \A c \in Elem : c.key \in Nat /\ c.skey \in Nat
  BY DEF Elem
<1>2. QED
  BY <1>1 DEF AtMost, KeyLess

\* No element is smaller than its parent.
Ordered(h) == \A k \in 2..Len(h) : AtMost(h[k \div 2], h[k])

\* The same, but for the children of the root.
OrderedBelow(h) == \A k \in 2..Len(h) : k \div 2 # 1 => AtMost(h[k \div 2], h[k])

LEMMA ParentsThere ==
    ASSUME NEW n \in Nat
    PROVE  \A k \in 2..n : k \div 2 \in 1..n /\ k \div 2 < k
OBVIOUS

\* s has the elements of h, each once.
SameElems(s, h) ==
    /\ s \in Seq(Elem) /\ Len(s) = Len(h)
    /\ Range(s) = Range(h)
    /\ OneEach(h) => OneEach(s)

\* s is h with its elements rearranged by g.
Rearranges(g, s, h) ==
    /\ g \in [1..Len(h) -> 1..Len(h)] /\ s = [k \in 1..Len(h) |-> h[g[k]]]
    /\ \A k, m \in 1..Len(h) : g[k] = g[m] => k = m
    /\ \A m \in 1..Len(h) : \E k \in 1..Len(h) : g[k] = m

LEMMA Permuted ==
    ASSUME NEW h \in Seq(Elem), NEW s, NEW g, Rearranges(g, s, h)
    PROVE  SameElems(s, h)
<1> USE DEF Rearranges
<1>1. Len(h) \in Nat /\ DOMAIN h = 1..Len(h)
  OBVIOUS
<1>2. s \in [1..Len(h) -> Elem]
  <2>1. \A k \in 1..Len(h) : h[g[k]] \in Elem
    <3> TAKE k \in 1..Len(h)
    <3>1. g[k] \in 1..Len(h)
      OBVIOUS
    <3>2. QED
      BY <3>1
  <2>2. QED
    BY <2>1
<1>3. s \in Seq(Elem) /\ Len(s) = Len(h) /\ DOMAIN s = DOMAIN h
  BY <1>1, <1>2
<1>4. \A k \in DOMAIN h : g[k] \in DOMAIN h /\ s[k] = h[g[k]]
  BY <1>1
<1>5. Range(s) = Range(h)
  <2>1. \A y \in Range(s) : y \in Range(h)
    BY <1>3, <1>4 DEF Range
  <2>2. \A y \in Range(h) : y \in Range(s)
    <3> TAKE y \in Range(h)
    <3>1. PICK m \in DOMAIN h : y = h[m]
      BY DEF Range
    <3>2. PICK k \in DOMAIN h : g[k] = m
      BY <1>1
    <3>3. QED
      BY <1>3, <1>4, <3>1, <3>2 DEF Range
  <2>3. QED
    BY <2>1, <2>2
<1>6. OneEach(h) => OneEach(s)
  <2> SUFFICES ASSUME OneEach(h), NEW k \in DOMAIN s, NEW m \in DOMAIN s, s[k].ev = s[m].ev
               PROVE  k = m
    BY DEF OneEach
  <2>1. g[k] = g[m]
    BY <1>3, <1>4 DEF OneEach
  <2>2. QED
    BY <1>1, <1>3, <2>1
<1>7. QED
  BY <1>3, <1>5, <1>6 DEF SameElems

\* heap_insert: the new element, last in h, finds a place on the way to the root.
LEMMA SiftUpFacts ==
    ASSUME NEW h \in Seq(Elem), Len(h) # 0, NEW x, x = h[Len(h)],
           \A k \in 2..(Len(h) - 1) : AtMost(h[k \div 2], h[k])
    PROVE  SameElems(SiftUp(h, x), h) /\ Ordered(SiftUp(h, x))
<1> DEFINE n == Len(h)
           path == Ancestors(n)
           Stops == {k \in path : k = 1 \/ ~KeyLess(x, h[k \div 2])}
           to == Max(Stops)
           s == SiftUp(h, x)
<1>1. n \in Nat \ {0} /\ DOMAIN h = 1..n /\ \A k \in 1..n : h[k] \in Elem
  OBVIOUS
<1>2. s = [k \in 1..n |->
             IF k = to THEN x ELSE IF k \in path /\ k > to THEN h[k \div 2] ELSE h[k]]
  BY DEF SiftUp
<1> HIDE DEF n, s
<1>3. /\ path \subseteq 1..n /\ n \in path /\ 1 \in path
      /\ \A k \in path : k # 1 => k \div 2 \in path
      /\ \A k \in path : k # n => \E m \in path : m \div 2 = k /\ m # 1
      /\ \A m, k \in path : m > k => m \div 2 >= k
      /\ \A m, k \in path : m \div 2 = k \div 2 => m = k
  BY <1>1, AncestorsChain
<1>4. \A k \in 2..n : k \div 2 \in 1..n /\ k \div 2 < k
  BY <1>1, ParentsThere
<1> HIDE DEF path
<1>5. to \in Stops /\ \A k \in Stops : to >= k
  <2>1. Stops \subseteq 1..n /\ Stops # {}
    BY <1>3
  <2> HIDE DEF Stops
  <2>2. QED
    BY <1>1, <2>1, GreatestOf
<1>6. to \in path /\ to \in 1..n /\ (to # 1 => AtMost(h[to \div 2], x))
  BY <1>3, <1>5 DEF AtMost
<1>7. \A k \in path : k > to =>
         /\ k # 1 /\ k \in 2..n /\ KeyLess(x, h[k \div 2])
         /\ k \div 2 \in path /\ k \div 2 >= to /\ k \div 2 < k
  <2> SUFFICES ASSUME NEW k \in path, k > to
               PROVE  /\ k # 1 /\ k \in 2..n /\ KeyLess(x, h[k \div 2])
                      /\ k \div 2 \in path /\ k \div 2 >= to /\ k \div 2 < k
    OBVIOUS
  <2>1. k \in 1..n /\ k # 1 /\ k \in 2..n
    BY <1>3, <1>6
  <2>2. k \notin Stops
    BY <1>5, <1>6, <2>1
  <2>3. QED
    BY <1>3, <1>4, <1>6, <2>1, <2>2
<1> HIDE DEF to, Stops
<1> DEFINE g == [k \in 1..n |-> IF k = to THEN n ELSE IF k \in path /\ k > to THEN k \div 2 ELSE k]
<1>8. SameElems(s, h)
  <2>1. \A k \in 1..n : g[k] = IF k = to THEN n ELSE IF k \in path /\ k > to THEN k \div 2 ELSE k
    OBVIOUS
  <2>2. g \in [1..n -> 1..n]
    <3>1. \A k \in 1..n :
             (IF k = to THEN n ELSE IF k \in path /\ k > to THEN k \div 2 ELSE k) \in 1..n
      BY <1>1, <1>3, <1>7
    <3>2. QED
      BY <3>1
  <2>3. s = [k \in 1..n |-> h[g[k]]]
    BY <1>2 DEF n
  <2> HIDE DEF g
  <2>4. ASSUME NEW k \in 1..n, NEW m \in 1..n, g[k] = g[m] PROVE k = m
    <3>1. \A j \in path : j > to => j \div 2 < n /\ j \div 2 \in path /\ j \div 2 >= to
      BY <1>1, <1>3, <1>7
    <3>2. \A j \in 1..n : (j = to => g[j] = n) /\ (j \in path /\ j > to => g[j] = j \div 2)
                          /\ (~(j \in path /\ j >= to) => g[j] = j)
      BY <1>1, <1>6, <2>1
    <3> DEFINE Lower(j) == j \in path /\ j > to
    <3>3. CASE Lower(k) /\ Lower(m)
      BY <1>3, <2>4, <3>2, <3>3
    <3>4. \A j \in 1..n :
             \/ j = to /\ g[j] = n
             \/ j # to /\ Lower(j) /\ g[j] # n /\ g[j] \in path /\ g[j] >= to
             \/ j # to /\ ~Lower(j) /\ g[j] = j /\ g[j] # n /\ ~(g[j] \in path /\ g[j] >= to)
      <4> TAKE j \in 1..n
      <4>1. CASE j = to
        BY <3>2, <4>1
      <4>2. CASE Lower(j)
        <5>1. j # to
          BY <1>6, <4>2
        <5>2. g[j] = j \div 2
          BY <3>2, <4>2
        <5>3. j \div 2 # n /\ j \div 2 \in path /\ j \div 2 >= to
          BY <1>1, <3>1, <4>2
        <5>4. QED
          BY <4>2, <5>1, <5>2, <5>3
      <4>3. CASE j # to /\ ~Lower(j)
        <5>1. ~(j \in path /\ j >= to)
          BY <1>6, <4>3
        <5>2. g[j] = j /\ j # n
          BY <1>1, <1>3, <1>6, <3>2, <5>1
        <5>3. QED
          BY <4>3, <5>1, <5>2
      <4>4. QED
        BY <4>1, <4>2, <4>3
    <3> HIDE DEF Lower
    <3>5. QED
      BY <2>4, <3>3, <3>4
  <2>5. ASSUME NEW m \in 1..n PROVE \E k \in 1..n : g[k] = m
    <3>1. CASE m = n
      BY <1>6, <2>1, <3>1
    <3>2. CASE m # n /\ m \in path /\ m >= to
      <4>1. PICK k \in path : k \div 2 = m /\ k # 1
        BY <1>3, <3>2
      <4>2. k \in 1..n /\ k > to
        BY <1>1, <1>3, <1>4, <1>6, <3>2, <4>1
      <4>3. g[k] = m
        BY <1>1, <1>6, <2>1, <4>1, <4>2
      <4>4. QED
        BY <4>2, <4>3
    <3>3. CASE ~(m \in path /\ m >= to)
      <4>1. g[m] = m
        BY <1>1, <1>6, <2>1, <3>3
      <4>2. QED
        BY <4>1
    <3>4. QED
      BY <3>1, <3>2, <3>3
  <2>6. Rearranges(g, s, h)
    BY <2>2, <2>3, <2>4, <2>5 DEF n, Rearranges
  <2>7. QED
    BY <2>6, Permuted
<1>9. ASSUME NEW k \in 2..n PROVE AtMost(s[k \div 2], s[k])
  <2> DEFINE p == k \div 2
  <2>1. p \in 1..n /\ p < k /\ k \in 1..n /\ x \in Elem
    BY <1>1, <1>4 DEF n
  <2>2. \A j \in 1..n : s[j] =
           IF j = to THEN x ELSE IF j \in path /\ j > to THEN h[j \div 2] ELSE h[j]
    BY <1>2
  <2>3. \A j \in 2..n : j # n => AtMost(h[j \div 2], h[j]) /\ h[j \div 2] \in Elem /\ h[j] \in Elem
    <3> SUFFICES ASSUME NEW j \in 2..n, j # n
                 PROVE  AtMost(h[j \div 2], h[j]) /\ h[j \div 2] \in Elem /\ h[j] \in Elem
      OBVIOUS
    <3>1. j \in 2..(n - 1) /\ j \in 1..n /\ j \div 2 \in 1..n
      BY <1>1, <1>4
    <3>2. AtMost(h[j \div 2], h[j])
      BY <3>1 DEF n
    <3>3. h[j \div 2] \in Elem /\ h[j] \in Elem
      BY <1>1, <3>1
    <3>4. QED
      BY <3>2, <3>3
  <2>4. h[k] \in Elem /\ h[p] \in Elem /\ (p # 1 => p \in 2..n /\ h[p \div 2] \in Elem)
    BY <1>1, <1>4, <2>1
  <2>5. CASE k = to
    <3>1. s[k] = x /\ s[p] = h[p]
      BY <1>1, <1>6, <2>1, <2>2, <2>5
    <3>2. QED
      BY <1>6, <2>1, <2>5, <3>1
  <2>6. CASE k \in path /\ k > to
    <3>1. s[k] = h[p] /\ p \in path /\ p >= to /\ KeyLess(x, h[p])
      BY <1>1, <1>6, <1>7, <2>1, <2>2, <2>6
    <3>2. CASE p = to
      BY <2>1, <2>2, <2>4, <3>1, <3>2, KeyOrder
    <3>3. CASE p # to
      <4>1. s[p] = h[p \div 2] /\ p # 1 /\ p # n
        BY <1>1, <1>6, <2>1, <2>2, <3>1, <3>3
      <4>2. QED
        BY <2>3, <2>4, <3>1, <4>1
    <3>4. QED
      BY <3>2, <3>3
  <2>7. CASE k \in path /\ k < to
    <3>1. s[k] = h[k] /\ s[p] = h[p] /\ k # n
      BY <1>1, <1>6, <2>1, <2>2, <2>7
    <3>2. QED
      BY <2>3, <3>1
  <2>8. CASE k \notin path
    <3>1. s[k] = h[k] /\ k # n /\ AtMost(h[p], h[k])
      BY <1>3, <1>6, <2>1, <2>2, <2>3, <2>8
    <3>2. CASE p = to
      <4>1. to # n
        BY <1>1, <2>1, <3>2
      <4>2. PICK m \in path : m \div 2 = to /\ m # 1
        BY <1>3, <1>6, <4>1
      <4>3. m > to
        BY <1>3, <1>4, <4>2
      <4>4. KeyLess(x, h[p])
        BY <1>7, <3>2, <4>2, <4>3
      <4>5. QED
        BY <2>1, <2>2, <2>4, <3>1, <3>2, <4>4, KeyOrder
    <3>3. CASE p \in path /\ p > to
      <4>1. s[p] = h[p \div 2] /\ p # 1 /\ p # n
        BY <1>1, <1>6, <2>1, <2>2, <3>3
      <4>2. AtMost(h[p \div 2], h[p])
        BY <2>3, <2>4, <4>1
      <4>3. QED
        BY <2>4, <3>1, <4>1, <4>2, KeyOrder
    <3>4. CASE p # to /\ ~(p \in path /\ p > to)
      BY <2>1, <2>2, <3>1, <3>4
    <3>5. QED
      BY <3>2, <3>3, <3>4
  <2>9. QED
    BY <1>1, <1>6, <2>1, <2>5, <2>6, <2>7, <2>8
<1>10. QED
  BY <1>8, <1>9 DEF Ordered, SameElems, s, n

LEMMA ChildFacts ==
    ASSUME NEW h \in Seq(Elem), NEW k \in 1..Len(h)
    PROVE  /\ Child(h, k) = k \/ (Child(h, k) \in 2..Len(h) /\ Child(h, k) \div 2 = k)
           /\ \A m \in 2..Len(h) : m \div 2 = k =>
                 Child(h, k) # k /\ AtMost(h[Child(h, k)], h[m])
<1> DEFINE n == Len(h)
<1>1. n \in Nat /\ \A j \in 1..n : h[j] \in Elem
  OBVIOUS
<1>2. (2 * k) \div 2 = k /\ (2 * k + 1) \div 2 = k
  OBVIOUS
<1>3. \A m \in 2..n : m \div 2 = k => m = 2 * k \/ m = 2 * k + 1
  OBVIOUS
<1> HIDE DEF n
<1>4. k \in 1..n
  BY DEF n
<1>5. CASE 2 * k + 1 <= n
  <2>1. 2 * k \in 2..n /\ 2 * k + 1 \in 2..n
    BY <1>1, <1>4, <1>5
  <2>2. h[2 * k] \in Elem /\ h[2 * k + 1] \in Elem
    BY <1>1, <2>1
  <2>3. Child(h, k) = IF KeyLess(h[2 * k], h[2 * k + 1]) THEN 2 * k ELSE 2 * k + 1
    BY <1>5 DEF Child, n
  <2>4. AtMost(h[2 * k], h[2 * k]) /\ AtMost(h[2 * k + 1], h[2 * k + 1])
    BY <2>2, KeyOrder
  <2>5. CASE KeyLess(h[2 * k], h[2 * k + 1])
    <3>1. AtMost(h[2 * k], h[2 * k + 1]) /\ Child(h, k) = 2 * k
      BY <2>2, <2>3, <2>5, KeyOrder
    <3>2. QED
      BY <1>1, <1>2, <1>3, <1>4, <2>1, <2>4, <3>1 DEF n
  <2>6. CASE ~KeyLess(h[2 * k], h[2 * k + 1])
    <3>1. AtMost(h[2 * k + 1], h[2 * k]) /\ Child(h, k) = 2 * k + 1
      BY <2>3, <2>6 DEF AtMost
    <3>2. QED
      BY <1>1, <1>2, <1>3, <1>4, <2>1, <2>4, <3>1 DEF n
  <2>7. QED
    BY <2>5, <2>6
<1>6. CASE ~(2 * k + 1 <= n) /\ 2 * k <= n
  <2>1. 2 * k \in 2..n /\ Child(h, k) = 2 * k
    BY <1>1, <1>4, <1>6 DEF Child, n
  <2>2. h[2 * k] \in Elem
    BY <1>1, <2>1
  <2>3. AtMost(h[2 * k], h[2 * k])
    BY <2>2, KeyOrder
  <2>4. \A m \in 2..n : m \div 2 = k => m = 2 * k
    BY <1>1, <1>3, <1>4, <1>6
  <2>5. QED
    BY <1>1, <1>2, <1>4, <2>1, <2>3, <2>4 DEF n
<1>7. CASE ~(2 * k <= n)
  <2>1. Child(h, k) = k
    BY <1>1, <1>4, <1>7 DEF Child, n
  <2>2. \A m \in 2..n : m \div 2 # k
    BY <1>1, <1>3, <1>4, <1>7
  <2>3. QED
    BY <2>1, <2>2 DEF n
<1>8. QED
  BY <1>1, <1>4, <1>5, <1>6, <1>7

\* Heapify: the root sinks below all smaller elements.
LEMMA HeapifyFacts ==
    ASSUME NEW h \in Seq(Elem), Len(h) # 0, OrderedBelow(h)
    PROVE  SameElems(Heapify(h), h) /\ Ordered(Heapify(h))
<1> DEFINE n == Len(h)
           x == h[1]
           OnWay(m) == m = Child(h, m \div 2) /\ KeyLess(h[m], x)
           Reached == {k \in 1..n : \A m \in Ancestors(k) \ {1} : OnWay(m)}
           to == Max(Reached)
           path == Ancestors(to)
           s == Heapify(h)
<1>1. n \in Nat \ {0} /\ DOMAIN h = 1..n /\ \A k \in 1..n : h[k] \in Elem
  OBVIOUS
<1>2. s = [k \in 1..n |->
             IF k = to THEN x ELSE IF k \in path THEN h[Child(h, k)] ELSE h[k]]
  BY DEF Heapify
<1> HIDE DEF s
<1>3. \A k \in 1..n :
         /\ Child(h, k) = k \/ (Child(h, k) \in 2..n /\ Child(h, k) \div 2 = k)
         /\ \A m \in 2..n : m \div 2 = k => Child(h, k) # k /\ AtMost(h[Child(h, k)], h[m])
  BY ChildFacts
<1> HIDE DEF n
<1>4. \A k \in 2..n : k \div 2 \in 1..n /\ k \div 2 < k
  BY <1>1, ParentsThere
<1> HIDE DEF OnWay, to
<1>5. to \in Reached /\ \A k \in Reached : to >= k
  <2>1. 1 \in Reached
    <3>1. Ancestors(1) \subseteq 1..1
      BY AncestorsChain
    <3>2. QED
      BY <1>1, <3>1
  <2>2. Reached \subseteq 1..n /\ Reached # {}
    BY <2>1
  <2> HIDE DEF Reached
  <2>3. QED
    BY <1>1, <2>2, GreatestOf DEF to
<1>6. to \in 1..n /\ \A m \in path : m # 1 => OnWay(m)
  BY <1>5
<1>7. /\ path \subseteq 1..to /\ to \in path /\ 1 \in path
      /\ \A k \in path : k # 1 => k \div 2 \in path
      /\ \A k \in path : k # to => \E m \in path : m \div 2 = k /\ m # 1
  <2>1. to \in Nat \ {0}
    BY <1>1, <1>6
  <2>2. QED
    BY <2>1, AncestorsChain
<1>8. Child(h, to) = to \/ AtMost(x, h[Child(h, to)])
  <2> SUFFICES ASSUME Child(h, to) # to, KeyLess(h[Child(h, to)], x)
               PROVE  FALSE
    BY DEF AtMost
  <2> DEFINE c == Child(h, to)
  <2>1. c \in 2..n /\ c \div 2 = to
    BY <1>3, <1>6
  <2>2. Ancestors(c) \subseteq {c} \cup path
    <3>1. to \in Nat \ {0} /\ c \in Nat
      BY <1>1, <1>6, <2>1
    <3>2. QED
      BY <2>1, <3>1, AncestorsOfChild
  <2>3. OnWay(c)
    BY <2>1 DEF OnWay
  <2>4. c \in Reached
    BY <1>1, <1>6, <2>1, <2>2, <2>3
  <2>5. to >= c /\ to < c
    BY <1>1, <1>4, <1>5, <2>1, <2>4
  <2>6. QED
    BY <1>1, <1>6, <2>1, <2>5
<1> HIDE DEF path, Reached
<1>9. ASSUME NEW k \in path, k # to
      PROVE  /\ k \in 1..n /\ Child(h, k) \in path /\ Child(h, k) # 1 /\ Child(h, k) \in 2..n
             /\ Child(h, k) \div 2 = k /\ KeyLess(h[Child(h, k)], x)
  <2>1. PICK m \in path : m \div 2 = k /\ m # 1
    BY <1>7, <1>9
  <2>2. m = Child(h, k) /\ KeyLess(h[m], x)
    BY <1>6, <2>1 DEF OnWay
  <2>3. m \in 2..n /\ k \in 1..n
    BY <1>1, <1>6, <1>7, <2>1
  <2>4. QED
    BY <2>1, <2>2, <2>3
<1>10. \A m \in path : m # 1 => m \in 2..n /\ m \div 2 \in path /\ m \div 2 # to
                                /\ Child(h, m \div 2) = m
  <2> SUFFICES ASSUME NEW m \in path, m # 1
               PROVE  m \in 2..n /\ m \div 2 \in path /\ m \div 2 # to /\ Child(h, m \div 2) = m
    OBVIOUS
  <2>1. m \in 2..n /\ m <= to
    BY <1>1, <1>6, <1>7
  <2>2. m \div 2 \in path /\ m \div 2 < m /\ m \div 2 \in 1..n
    BY <1>4, <1>7, <2>1
  <2>3. m = Child(h, m \div 2)
    BY <1>6 DEF OnWay
  <2>4. QED
    BY <1>1, <1>6, <2>1, <2>2, <2>3
<1> DEFINE g == [k \in 1..n |-> IF k = to THEN 1 ELSE IF k \in path THEN Child(h, k) ELSE k]
<1>11. SameElems(s, h)
  <2>1. \A k \in 1..n : g[k] = IF k = to THEN 1 ELSE IF k \in path THEN Child(h, k) ELSE k
    OBVIOUS
  <2>2. g \in [1..n -> 1..n]
    <3>1. \A k \in 1..n : (IF k = to THEN 1 ELSE IF k \in path THEN Child(h, k) ELSE k) \in 1..n
      BY <1>1, <1>9
    <3>2. QED
      BY <3>1
  <2>3. s = [k \in 1..n |-> h[g[k]]]
    BY <1>2
  <2> HIDE DEF g
  <2>4. ASSUME NEW k \in 1..n, NEW m \in 1..n, g[k] = g[m] PROVE k = m
    BY <1>7, <1>9, <2>1, <2>4
  <2>5. ASSUME NEW m \in 1..n PROVE \E k \in 1..n : g[k] = m
    <3>1. CASE m = 1
      BY <1>6, <2>1, <3>1
    <3>2. CASE m # 1 /\ m \in path
      <4>1. m \in 2..n /\ m \div 2 \in path /\ m \div 2 # to /\ Child(h, m \div 2) = m
        BY <1>10, <3>2
      <4>2. m \div 2 \in 1..n
        BY <1>4, <4>1
      <4>3. QED
        BY <2>1, <4>1, <4>2
    <3>3. CASE m \notin path
      BY <1>7, <2>1, <3>3
    <3>4. QED
      BY <3>1, <3>2, <3>3
  <2>6. Rearranges(g, s, h)
    BY <2>2, <2>3, <2>4, <2>5 DEF n, Rearranges
  <2>7. QED
    BY <2>6, Permuted
<1>12. ASSUME NEW k \in 2..n PROVE AtMost(s[k \div 2], s[k])
  <2> DEFINE p == k \div 2
  <2>1. p \in 1..n /\ p < k /\ k \in 1..n
    BY <1>1, <1>4
  <2>2. \A j \in 1..n : s[j] = IF j = to THEN x ELSE IF j \in path THEN h[Child(h, j)] ELSE h[j]
    BY <1>2
  <2>3. \A j \in 2..n : j \div 2 # 1 => AtMost(h[j \div 2], h[j])
    BY DEF OrderedBelow, n
  <2>4. h[k] \in Elem /\ h[p] \in Elem /\ x \in Elem /\ 1 \in 1..n
    BY <1>1, <2>1
  <2>5. CASE k \in path
    <3>1. p \in path /\ p # to /\ Child(h, p) = k
      BY <1>1, <1>10, <2>1, <2>5
    <3>2. s[p] = h[k] /\ KeyLess(h[k], x)
      BY <1>9, <2>1, <2>2, <3>1
    <3>3. CASE k = to
      BY <2>1, <2>2, <2>4, <3>2, <3>3, KeyOrder
    <3>4. CASE k # to
      <4>1. Child(h, k) \in 2..n /\ Child(h, k) \div 2 = k /\ s[k] = h[Child(h, k)]
        BY <1>9, <2>1, <2>2, <2>5, <3>4
      <4>2. QED
        BY <1>1, <2>1, <2>3, <3>2, <4>1
    <3>5. QED
      BY <3>3, <3>4
  <2>6. CASE k \notin path
    <3>1. s[k] = h[k]
      BY <1>7, <2>1, <2>2, <2>6
    <3>2. Child(h, p) # p /\ AtMost(h[Child(h, p)], h[k]) /\ Child(h, p) \in 2..n
      BY <1>3, <2>1
    <3>3. h[Child(h, p)] \in Elem
      BY <1>1, <3>2
    <3>4. CASE p = to
      <4>1. AtMost(x, h[Child(h, p)]) /\ s[p] = x
        BY <1>8, <2>1, <2>2, <3>2, <3>4
      <4>2. QED
        BY <2>4, <3>1, <3>2, <3>3, <4>1, KeyOrder
    <3>5. CASE p # to /\ p \in path
      BY <2>1, <2>2, <3>1, <3>2, <3>5
    <3>6. CASE p \notin path
      BY <1>7, <2>1, <2>2, <2>3, <3>1, <3>6
    <3>7. QED
      BY <3>4, <3>5, <3>6
  <2>7. QED
    BY <2>5, <2>6
<1>13. QED
  BY <1>11, <1>12 DEF Ordered, SameElems, s, n

\* heap_delete, its loop: the element at i gets to the root, the rest stays in order.
LEMMA ToRootFacts ==
    ASSUME NEW h \in Seq(Elem), NEW i \in 1..Len(h), Ordered(h)
    PROVE  /\ SameElems(ToRoot(h, i), h) /\ ToRoot(h, i)[1] = h[i]
           /\ OrderedBelow(ToRoot(h, i))
<1> DEFINE n == Len(h)
           path == Ancestors(i)
           s == ToRoot(h, i)
           g == [k \in 1..n |-> IF k = 1 THEN i ELSE IF k \in path THEN k \div 2 ELSE k]
<1>1. n \in Nat \ {0} /\ i \in 1..n /\ \A k \in 1..n : h[k] \in Elem
  OBVIOUS
<1>2. s = [k \in 1..n |-> IF k = 1 THEN h[i] ELSE IF k \in path THEN h[k \div 2] ELSE h[k]]
  BY DEF ToRoot
<1> HIDE DEF n, s
<1>3. /\ path \subseteq 1..i /\ i \in path /\ 1 \in path
      /\ \A k \in path : k # 1 => k \div 2 \in path
      /\ \A k \in path : k # i => \E m \in path : m \div 2 = k /\ m # 1
      /\ \A m, k \in path : m \div 2 = k \div 2 => m = k
  BY <1>1, AncestorsChain
<1>4. \A k \in 2..n : k \div 2 \in 1..n /\ k \div 2 < k
  BY <1>1, ParentsThere
<1> HIDE DEF path
<1>5. \A k \in path : k # 1 => k \in 2..n /\ k \div 2 \in path /\ k \div 2 \in 1..n /\ k \div 2 # i
  <2> SUFFICES ASSUME NEW k \in path, k # 1
               PROVE  k \in 2..n /\ k \div 2 \in path /\ k \div 2 \in 1..n /\ k \div 2 # i
    OBVIOUS
  <2>1. k \in 2..n /\ k <= i
    BY <1>1, <1>3
  <2>2. k \div 2 \in 1..n /\ k \div 2 < k
    BY <1>4, <2>1
  <2>3. QED
    BY <1>1, <1>3, <2>1, <2>2
<1>6. SameElems(s, h)
  <2>1. \A k \in 1..n : g[k] = IF k = 1 THEN i ELSE IF k \in path THEN k \div 2 ELSE k
    OBVIOUS
  <2>2. g \in [1..n -> 1..n]
    <3>1. \A k \in 1..n : (IF k = 1 THEN i ELSE IF k \in path THEN k \div 2 ELSE k) \in 1..n
      BY <1>1, <1>5
    <3>2. QED
      BY <3>1
  <2>3. s = [k \in 1..n |-> h[g[k]]]
    BY <1>2
  <2> HIDE DEF g
  <2>4. ASSUME NEW k \in 1..n, NEW m \in 1..n, g[k] = g[m] PROVE k = m
    BY <1>3, <1>5, <2>1, <2>4
  <2>5. ASSUME NEW m \in 1..n PROVE \E k \in 1..n : g[k] = m
    <3>1. CASE m = i
      BY <1>1, <2>1, <3>1
    <3>2. CASE m # i /\ m \in path
      <4>1. PICK k \in path : k \div 2 = m /\ k # 1
        BY <1>3, <3>2
      <4>2. k \in 1..n
        BY <1>1, <1>5, <4>1
      <4>3. QED
        BY <2>1, <4>1, <4>2
    <3>3. CASE m \notin path
      BY <1>3, <2>1, <3>3
    <3>4. QED
      BY <3>1, <3>2, <3>3
  <2>6. Rearranges(g, s, h)
    BY <2>2, <2>3, <2>4, <2>5 DEF n, Rearranges
  <2>7. QED
    BY <2>6, Permuted
<1>7. s[1] = h[i]
  BY <1>1, <1>2
<1>8. ASSUME NEW k \in 2..n, k \div 2 # 1 PROVE AtMost(s[k \div 2], s[k])
  <2> DEFINE p == k \div 2
  <2>1. p \in 2..n /\ p < k /\ k \in 1..n /\ p \in 1..n /\ k # 1 /\ p # 1
    BY <1>1, <1>4, <1>8
  <2>2. p \div 2 \in 1..n
    BY <1>4, <2>1
  <2>3. AtMost(h[p], h[k]) /\ AtMost(h[p \div 2], h[p])
    BY <1>8, <2>1 DEF Ordered, n
  <2>4. h[k] \in Elem /\ h[p] \in Elem /\ h[p \div 2] \in Elem
    BY <1>1, <2>1, <2>2
  <2>5. AtMost(h[p \div 2], h[k])
    BY <2>3, <2>4, KeyOrder
  <2>6. /\ s[k] = IF k \in path THEN h[p] ELSE h[k]
        /\ s[p] = IF p \in path THEN h[p \div 2] ELSE h[p]
    BY <1>2, <2>1
  <2>7. k \in path => p \in path
    BY <1>5, <2>1
  <2>8. QED
    BY <2>3, <2>5, <2>6, <2>7
<1>9. QED
  BY <1>6, <1>7, <1>8 DEF OrderedBelow, SameElems, s, n

\* heap_extract_min takes off the root, whatever it is.
LEMMA ExtractMinFacts ==
    ASSUME NEW h \in Seq(Elem), Len(h) # 0, OrderedBelow(h), OneEach(h)
    PROVE  LET s == ExtractMin(h)
           IN  /\ s \in Seq(Elem) /\ OneEach(s) /\ Ordered(s)
               /\ Range(s) = Range(h) \ {h[1]}
<1> DEFINE n == Len(h)
<1>1. n \in Nat \ {0} /\ DOMAIN h = 1..n /\ \A k \in 1..n : h[k] \in Elem
  OBVIOUS
<1>2. CASE n = 1
  <2>1. ExtractMin(h) = <<>>
    BY <1>2 DEF ExtractMin
  <2>2. DOMAIN << >> = {} /\ Len(<< >>) = 0 /\ << >> \in Seq(Elem)
    OBVIOUS
  <2>3. Range(<<>>) = {}
    BY <2>2 DEF Range
  <2>4. Range(h) = {h[1]}
    BY <1>1, <1>2 DEF Range
  <2>5. OneEach(<<>>) /\ Ordered(<<>>)
    BY <2>2 DEF OneEach, Ordered
  <2>6. QED
    BY <2>1, <2>2, <2>3, <2>4, <2>5
<1>3. CASE n # 1
  <2> DEFINE r == [Front(h) EXCEPT ![1] = Last(h)]
             N == n - 1
  <2>1. N \in Nat \ {0} /\ n = N + 1
    BY <1>1, <1>3
  <2>2. r = [k \in 1..N |-> IF k = 1 THEN h[n] ELSE h[k]]
    <3>1. Front(h) = [k \in 1..N |-> h[k]]
      BY <1>1, <2>1 DEF Front
    <3>2. Last(h) = h[n]
      BY DEF Last
    <3>3. QED
      BY <3>1, <3>2
  <2>3. ExtractMin(h) = Heapify(r)
    BY <1>3 DEF ExtractMin
  <2> HIDE DEF r, N, n
  <2>4. r \in Seq(Elem) /\ Len(r) = N /\ DOMAIN r = 1..N
    <3>1. r \in [1..N -> Elem]
      BY <1>1, <2>1, <2>2
    <3>2. QED
      BY <2>1, <3>1
  <2>5. OrderedBelow(r)
    <3> SUFFICES ASSUME NEW k \in 2..N, k \div 2 # 1
                 PROVE  AtMost(r[k \div 2], r[k])
      BY <2>4 DEF OrderedBelow
    <3>1. k \in 2..n /\ k \div 2 \in 1..N
      BY <2>1
    <3>2. r[k] = h[k] /\ r[k \div 2] = h[k \div 2]
      BY <2>1, <2>2, <3>1
    <3>3. QED
      BY <3>1, <3>2 DEF OrderedBelow, n
  <2>6. OneEach(r)
    <3> SUFFICES ASSUME NEW k \in 1..N, NEW m \in 1..N, r[k].ev = r[m].ev
                 PROVE  k = m
      BY <2>4 DEF OneEach
    <3> DEFINE o(j) == IF j = 1 THEN n ELSE j
    <3>1. r[k] = h[o(k)] /\ r[m] = h[o(m)] /\ o(k) \in DOMAIN h /\ o(m) \in DOMAIN h
      BY <1>1, <2>1, <2>2
    <3>2. o(k) = o(m)
      BY <3>1 DEF OneEach
    <3>3. QED
      BY <2>1, <3>2
  <2>7. Range(r) = Range(h) \ {h[1]}
    <3>1. \A j \in 1..n : j # 1 => h[j] # h[1]
      BY <1>1 DEF OneEach
    <3>2. \A y \in Range(r) : \E j \in 1..n : j # 1 /\ y = h[j]
      <4> TAKE y \in Range(r)
      <4>1. PICK k \in 1..N : y = r[k]
        BY <2>4 DEF Range
      <4>2. QED
        BY <1>3, <2>1, <2>2, <4>1
    <3>3. \A j \in 1..n : j # 1 => h[j] \in Range(r)
      <4> SUFFICES ASSUME NEW j \in 1..n, j # 1 PROVE h[j] \in Range(r)
        OBVIOUS
      <4>1. CASE j = n
        BY <2>1, <2>2, <2>4, <4>1 DEF Range
      <4>2. CASE j # n
        <5>1. j \in 1..N /\ r[j] = h[j]
          BY <2>1, <2>2, <4>2
        <5>2. QED
          BY <2>4, <5>1 DEF Range
      <4>3. QED
        BY <4>1, <4>2
    <3>4. Range(h) = {h[j] : j \in 1..n}
      BY <1>1 DEF Range
    <3>5. QED
      BY <3>1, <3>2, <3>3, <3>4
  <2>8. SameElems(Heapify(r), r) /\ Ordered(Heapify(r))
    BY <2>1, <2>4, <2>5, HeapifyFacts
  <2>9. QED
    BY <2>3, <2>6, <2>7, <2>8 DEF SameElems
<1>4. QED
  BY <1>2, <1>3

\* No element of the heap is smaller than its root.
LEMMA RootLeast ==
    ASSUME NEW h \in Seq(Elem), Ordered(h), NEW k \in 1..Len(h)
    PROVE  AtMost(h[1], h[k])
<1> DEFINE n == Len(h)
           K == {j \in 1..n : ~AtMost(h[1], h[j])}
<1>1. n \in Nat /\ k \in 1..n /\ \A j \in 1..n : h[j] \in Elem
  OBVIOUS
<1>2. SUFFICES ASSUME K # {} PROVE FALSE
  BY <1>1
<1>3. PICK j \in K : \A m \in K : j <= m
  <2>1. K \subseteq Nat
    OBVIOUS
  <2>2. QED
    BY <1>2, <2>1, LeastPosition
<1>4. j \in 1..n /\ h[j] \in Elem /\ h[1] \in Elem
  BY <1>1, <1>3
<1>5. j # 1
  BY <1>3, <1>4, KeyOrder
<1>6. j \in 2..n
  BY <1>4, <1>5
<1>7. j \div 2 \in 1..n /\ j \div 2 < j
  BY <1>1, <1>6, ParentsThere
<1>8. AtMost(h[1], h[j \div 2]) /\ h[j \div 2] \in Elem
  BY <1>1, <1>3, <1>4, <1>7
<1>9. AtMost(h[j \div 2], h[j])
  BY <1>6 DEF Ordered
<1>10. QED
  BY <1>3, <1>4, <1>8, <1>9, KeyOrder

-----------------------------------------------------------------------------
(***************************************************************************)
(* The order of entries in a list                                          *)
(***************************************************************************)
LEMMA InRange ==
    ASSUME NEW q \in Seq(Entry)
    PROVE  /\ Range(q) \subseteq Entry
           /\ \A i \in 1..Len(q) : q[i] \in Range(q)
           /\ \A x \in Range(q) : \E i \in 1..Len(q) : x = q[i]
           /\ Len(q) \in Nat /\ DOMAIN q = 1..Len(q)
BY DEF Range

\* In a list with one entry for each event, Before is a linear order.
LEMMA BeforeOrder ==
    ASSUME NEW q \in Seq(Entry), OneEach(q), NEW x \in Range(q), NEW y \in Range(q)
    PROVE  /\ Before(q, x, y) => x # y /\ ~Before(q, y, x)
           /\ x # y => Before(q, x, y) \/ Before(q, y, x)
           /\ InOrder(q) /\ Before(q, x, y) => x.time <= y.time
           /\ x.ev = y.ev => x = y
           /\ \A i, j \in 1..Len(q) : x = q[i] /\ y = q[j] => (Before(q, x, y) <=> i < j)
<1>1. Len(q) \in Nat /\ DOMAIN q = 1..Len(q)
  OBVIOUS
<1>2. PICK i \in 1..Len(q) : x = q[i]
  BY DEF Range
<1>3. PICK j \in 1..Len(q) : y = q[j]
  BY DEF Range
<1>4. \A m, k \in 1..Len(q) : q[m] = q[k] => m = k
  BY <1>1 DEF OneEach
<1>5. /\ \A m \in 1..Len(q) : q[m] = x => m = i
      /\ \A m \in 1..Len(q) : q[m] = y => m = j
  BY <1>2, <1>3, <1>4
<1>6. Before(q, x, y) <=> i < j
  BY <1>1, <1>2, <1>3, <1>5 DEF Before
<1>7. Before(q, y, x) <=> j < i
  BY <1>1, <1>2, <1>3, <1>5 DEF Before
<1>8. x.ev = y.ev => x = y
  BY <1>1, <1>2, <1>3 DEF OneEach
<1>9. InOrder(q) /\ i < j => x.time <= y.time
  BY <1>1, <1>2, <1>3 DEF InOrder
<1>10. QED
  BY <1>1, <1>2, <1>3, <1>5, <1>6, <1>7, <1>8, <1>9

\* s has z at place p and is otherwise q.
LEMMA InsertedAtFacts ==
    ASSUME NEW q \in Seq(Entry), OneEach(q), NEW p \in 1..(Len(q) + 1),
           NEW z \in Entry, z.ev \notin Queued(q), NEW s, s = InsertedAt(q, p, z)
    PROVE  /\ s \in Seq(Entry) /\ OneEach(s) /\ Len(s) = Len(q) + 1
           /\ Range(s) = Range(q) \cup {z} /\ z \notin Range(q)
           /\ \A x, y \in Range(q) : Before(s, x, y) <=> Before(q, x, y)
           /\ \A i \in 1..Len(q) : Before(s, q[i], z) <=> i < p
           /\ \A i \in 1..Len(q) : Before(s, z, q[i]) <=> i >= p
<1> DEFINE n == Len(q)
           New(i) == IF i < p THEN i ELSE i + 1
           Old(i) == IF i < p THEN i ELSE i - 1
<1>1. n \in Nat /\ DOMAIN q = 1..n /\ \A i \in 1..n : q[i] \in Entry
  OBVIOUS
<1>2. s = [i \in 1..(n + 1) |-> IF i < p THEN q[i] ELSE IF i = p THEN z ELSE q[i - 1]]
  BY DEF InsertedAt
<1>3. p \in 1..(n + 1)
  OBVIOUS
<1> HIDE DEF n
<1>4. s \in Seq(Entry) /\ Len(s) = n + 1 /\ DOMAIN s = 1..(n + 1)
  <2>1. \A i \in 1..(n + 1) : (IF i < p THEN q[i] ELSE IF i = p THEN z ELSE q[i - 1]) \in Entry
    BY <1>1, <1>3
  <2>2. s \in [1..(n + 1) -> Entry] /\ n + 1 \in Nat
    BY <1>1, <1>2, <2>1
  <2>3. QED
    BY <2>2
<1>5. \A i \in 1..n : New(i) \in 1..(n + 1) /\ New(i) # p /\ s[New(i)] = q[i]
  BY <1>1, <1>2, <1>3
<1>6. \A i \in 1..(n + 1) : i # p => Old(i) \in 1..n /\ New(Old(i)) = i
  BY <1>1, <1>3
<1>7. s[p] = z
  BY <1>2, <1>3
<1>8. \A i \in 1..n : q[i].ev # z.ev
  BY <1>1 DEF Queued
<1>9. OneEach(s)
  <2> SUFFICES ASSUME NEW i \in 1..(n + 1), NEW j \in 1..(n + 1), s[i].ev = s[j].ev
               PROVE  i = j
    BY <1>4 DEF OneEach
  <2>1. CASE i # p /\ j # p
    <3>1. q[Old(i)].ev = q[Old(j)].ev /\ Old(i) \in 1..n /\ Old(j) \in 1..n
      BY <1>5, <1>6, <2>1
    <3>2. Old(i) = Old(j)
      BY <1>1, <3>1 DEF OneEach
    <3>3. QED
      BY <1>6, <2>1, <3>2
  <2>2. CASE i = p \/ j = p
    <3>1. \A m \in 1..(n + 1) : m # p => s[m].ev # z.ev
      <4> SUFFICES ASSUME NEW m \in 1..(n + 1), m # p PROVE s[m].ev # z.ev
        OBVIOUS
      <4>1. Old(m) \in 1..n /\ s[m] = q[Old(m)]
        BY <1>5, <1>6
      <4>2. QED
        BY <1>8, <4>1
    <3>2. QED
      BY <1>7, <2>2, <3>1
  <2>3. QED
    BY <2>1, <2>2
<1>10. Range(q) = {q[i] : i \in 1..n} /\ Range(s) = {s[i] : i \in 1..(n + 1)}
  BY <1>1, <1>4 DEF Range
<1>11. Range(s) = Range(q) \cup {z} /\ z \notin Range(q)
  <2>1. \A y \in Range(s) : y \in Range(q) \cup {z}
    <3> TAKE y \in Range(s)
    <3>1. PICK i \in 1..(n + 1) : y = s[i]
      BY <1>10
    <3>2. CASE i = p
      BY <1>7, <3>1, <3>2
    <3>3. CASE i # p
      <4>1. Old(i) \in 1..n /\ y = q[Old(i)]
        BY <1>5, <1>6, <3>1, <3>3
      <4>2. QED
        BY <1>10, <4>1
    <3>4. QED
      BY <3>2, <3>3
  <2>2. \A i \in 1..n : q[i] \in Range(s)
    <3> TAKE i \in 1..n
    <3>1. New(i) \in 1..(n + 1) /\ q[i] = s[New(i)]
      BY <1>5
    <3>2. QED
      BY <1>10, <3>1
  <2>3. z \in Range(s)
    BY <1>3, <1>7, <1>10
  <2>4. QED
    BY <1>8, <1>10, <2>1, <2>2, <2>3
<1>12. \A i, j \in 1..(n + 1) : Before(s, s[i], s[j]) <=> i < j
  <2> TAKE i, j \in 1..(n + 1)
  <2>1. s[i] \in Range(s) /\ s[j] \in Range(s)
    BY <1>10
  <2>2. QED
    BY <1>4, <1>9, <2>1, BeforeOrder
<1>13. \A i, j \in 1..n : Before(s, q[i], q[j]) <=> Before(q, q[i], q[j])
  <2> TAKE i, j \in 1..n
  <2>1. q[i] \in Range(q) /\ q[j] \in Range(q)
    BY <1>10
  <2>2. Before(q, q[i], q[j]) <=> i < j
    BY <2>1, BeforeOrder DEF n
  <2>3. Before(s, q[i], q[j]) <=> New(i) < New(j)
    BY <1>5, <1>12
  <2>4. QED
    BY <1>3, <2>2, <2>3
<1>14. \A i \in 1..n : (Before(s, q[i], z) <=> i < p) /\ (Before(s, z, q[i]) <=> i >= p)
  <2> TAKE i \in 1..n
  <2>1. Before(s, s[New(i)], s[p]) <=> New(i) < p
    BY <1>3, <1>5, <1>12
  <2>2. Before(s, s[p], s[New(i)]) <=> p < New(i)
    BY <1>3, <1>5, <1>12
  <2>3. QED
    BY <1>3, <1>5, <1>7, <2>1, <2>2
<1>15. \A x, y \in Range(q) : Before(s, x, y) <=> Before(q, x, y)
  <2> TAKE x, y \in Range(q)
  <2>1. PICK i \in 1..n : x = q[i]
    BY <1>10
  <2>2. PICK j \in 1..n : y = q[j]
    BY <1>10
  <2>3. QED
    BY <1>13, <2>1, <2>2
<1>16. QED
  BY <1>4, <1>9, <1>11, <1>14, <1>15 DEF n

\* insert of the list: behind the entries that are not later.
LEMMA InsertedOrder ==
    ASSUME NEW q \in Seq(Entry), OneEach(q), InOrder(q), NEW e \in Ev, e \notin Queued(q),
           NEW t \in Nat, NEW z, z = [ev |-> e, time |-> t], NEW s, s = Inserted(q, e, t)
    PROVE  /\ s \in Seq(Entry) /\ OneEach(s) /\ InOrder(s) /\ z \in Entry
           /\ Range(s) = Range(q) \cup {z} /\ z \notin Range(q) /\ Len(s) = Len(q) + 1
           /\ \A x, y \in Range(q) : Before(s, x, y) <=> Before(q, x, y)
           /\ \A x \in Range(q) : /\ Before(s, x, z) <=> x.time <= t
                                  /\ Before(s, z, x) <=> t < x.time
<1> DEFINE p == Place(q, t)
<1>1. z \in Entry /\ z.ev = e /\ z.time = t
  BY DEF Entry
<1>2. /\ p \in 1..(Len(q) + 1)
      /\ \A i \in 1..(p - 1) : q[i].time <= t
      /\ p <= Len(q) => t < q[p].time
  BY PlaceFound
<1>3. s = InsertedAt(q, p, z)
  BY DEF Inserted
<1>4. InOrder(s)
  BY InsertedFacts
<1> HIDE DEF p
<1>5. /\ s \in Seq(Entry) /\ OneEach(s) /\ Len(s) = Len(q) + 1
      /\ Range(s) = Range(q) \cup {z} /\ z \notin Range(q)
      /\ \A x, y \in Range(q) : Before(s, x, y) <=> Before(q, x, y)
      /\ \A i \in 1..Len(q) : Before(s, q[i], z) <=> i < p
      /\ \A i \in 1..Len(q) : Before(s, z, q[i]) <=> i >= p
  BY <1>1, <1>2, <1>3, InsertedAtFacts
<1>6. Len(q) \in Nat /\ DOMAIN q = 1..Len(q) /\ \A i \in 1..Len(q) : q[i].time \in Nat
  <2>1. \A i \in 1..Len(q) : q[i] \in Entry
    OBVIOUS
  <2>2. QED
    BY <2>1 DEF Entry
<1>7. \A i \in 1..Len(q) : (i < p <=> q[i].time <= t) /\ (i >= p <=> t < q[i].time)
  <2> TAKE i \in 1..Len(q)
  <2>1. CASE i < p
    <3>1. q[i].time <= t
      BY <1>2, <2>1
    <3>2. QED
      BY <1>2, <1>6, <2>1, <3>1
  <2>2. CASE i >= p
    <3>1. p \in 1..Len(q) /\ t < q[p].time
      BY <1>2, <1>6, <2>2
    <3>2. q[p].time <= q[i].time
      BY <1>2, <1>6, <2>2, <3>1 DEF InOrder
    <3>3. q[i].time \in Nat /\ q[p].time \in Nat
      BY <1>6, <3>1
    <3>4. t < q[i].time
      BY <3>1, <3>2, <3>3
    <3>5. QED
      BY <1>2, <2>2, <3>3, <3>4
  <2>3. QED
    BY <1>2, <2>1, <2>2
<1>8. \A x \in Range(q) : \E i \in 1..Len(q) : x = q[i]
  BY InRange
<1>9. QED
  BY <1>1, <1>4, <1>5, <1>7, <1>8

\* s is q without its entry at p.
LEMMA RemovedAtFacts ==
    ASSUME NEW q \in Seq(Entry), OneEach(q), NEW p \in 1..Len(q), NEW s, s = RemovedAt(q, p)
    PROVE  /\ s \in Seq(Entry) /\ OneEach(s) /\ Len(s) = Len(q) - 1
           /\ Range(s) = Range(q) \ {q[p]}
           /\ \A x, y \in Range(s) : Before(s, x, y) <=> Before(q, x, y)
           /\ InOrder(q) => InOrder(s)
<1> DEFINE n == Len(q)
           New(i) == IF i < p THEN i ELSE i - 1
           Old(i) == IF i < p THEN i ELSE i + 1
<1>1. n \in Nat /\ DOMAIN q = 1..n /\ (\A i \in 1..n : q[i] \in Entry) /\ p \in 1..n
  OBVIOUS
<1>2. s = [i \in 1..(n - 1) |-> IF i < p THEN q[i] ELSE q[i + 1]]
  BY DEF RemovedAt
<1> HIDE DEF n
<1>3. \A i \in 1..(n - 1) : Old(i) \in 1..n /\ Old(i) # p /\ s[i] = q[Old(i)]
  BY <1>1, <1>2
<1>4. s \in Seq(Entry) /\ Len(s) = n - 1 /\ DOMAIN s = 1..(n - 1)
  <2>1. \A i \in 1..(n - 1) : (IF i < p THEN q[i] ELSE q[i + 1]) \in Entry
    BY <1>1
  <2>2. s \in [1..(n - 1) -> Entry] /\ n - 1 \in Nat
    BY <1>1, <1>2, <2>1
  <2>3. QED
    BY <2>2
<1>5. \A i \in 1..n : i # p => New(i) \in 1..(n - 1) /\ Old(New(i)) = i
  BY <1>1
<1>6. OneEach(s)
  <2> SUFFICES ASSUME NEW i \in 1..(n - 1), NEW j \in 1..(n - 1), s[i].ev = s[j].ev
               PROVE  i = j
    BY <1>4 DEF OneEach
  <2>1. Old(i) \in DOMAIN q /\ Old(j) \in DOMAIN q /\ q[Old(i)].ev = q[Old(j)].ev
    BY <1>1, <1>3
  <2>2. Old(i) = Old(j)
    BY <2>1 DEF OneEach
  <2>3. QED
    BY <1>1, <2>2
<1>7. Range(q) = {q[i] : i \in 1..n} /\ Range(s) = {s[i] : i \in 1..(n - 1)}
  BY <1>1, <1>4 DEF Range
<1>8. Range(s) = Range(q) \ {q[p]}
  <2>1. \A i \in 1..n : i # p => q[i] # q[p]
    BY <1>1 DEF OneEach
  <2>2. \A y \in Range(s) : y \in Range(q) \ {q[p]}
    <3> TAKE y \in Range(s)
    <3>1. PICK i \in 1..(n - 1) : y = s[i]
      BY <1>7
    <3>2. Old(i) \in 1..n /\ Old(i) # p /\ y = q[Old(i)]
      BY <1>3, <3>1
    <3>3. QED
      BY <1>7, <2>1, <3>2
  <2>3. \A i \in 1..n : i # p => q[i] \in Range(s)
    <3> SUFFICES ASSUME NEW i \in 1..n, i # p PROVE q[i] \in Range(s)
      OBVIOUS
    <3>1. New(i) \in 1..(n - 1) /\ q[i] = s[New(i)]
      BY <1>3, <1>5
    <3>2. QED
      BY <1>7, <3>1
  <2>4. QED
    BY <1>7, <2>2, <2>3
<1>9. \A x, y \in Range(s) : Before(s, x, y) <=> Before(q, x, y)
  <2> TAKE x, y \in Range(s)
  <2>1. PICK i \in 1..(n - 1) : x = s[i]
    BY <1>7
  <2>2. PICK j \in 1..(n - 1) : y = s[j]
    BY <1>7
  <2>3. Before(s, x, y) <=> i < j
    BY <1>4, <1>6, <2>1, <2>2, BeforeOrder
  <2>4. x \in Range(q) /\ y \in Range(q)
    BY <1>8
  <2>5. x = q[Old(i)] /\ y = q[Old(j)] /\ Old(i) \in 1..n /\ Old(j) \in 1..n
    BY <1>3, <2>1, <2>2
  <2>6. Before(q, x, y) <=> Old(i) < Old(j)
    BY <2>4, <2>5, BeforeOrder DEF n
  <2>7. QED
    BY <1>1, <2>3, <2>6
<1>10. InOrder(q) => InOrder(s)
  <2> SUFFICES ASSUME InOrder(q), NEW i \in 1..(n - 1), NEW j \in 1..(n - 1), i < j
               PROVE  s[i].time <= s[j].time
    BY <1>4 DEF InOrder
  <2>1. Old(i) \in DOMAIN q /\ Old(j) \in DOMAIN q /\ Old(i) < Old(j)
    BY <1>1, <1>3
  <2>2. QED
    BY <1>3, <2>1 DEF InOrder
<1>11. QED
  BY <1>4, <1>6, <1>8, <1>9, <1>10 DEF n

LEMMA RemovedOrder ==
    ASSUME NEW q \in Seq(Entry), OneEach(q), NEW z \in Range(q), NEW s, s = Removed(q, z.ev)
    PROVE  /\ s \in Seq(Entry) /\ OneEach(s) /\ Len(s) = Len(q) - 1
           /\ Range(s) = Range(q) \ {z}
           /\ \A x, y \in Range(s) : Before(s, x, y) <=> Before(q, x, y)
           /\ InOrder(q) => InOrder(s)
<1> DEFINE p == CHOOSE p \in DOMAIN q : q[p].ev = z.ev
<1>1. DOMAIN q = 1..Len(q) /\ Len(q) \in Nat
  OBVIOUS
<1>2. PICK i \in DOMAIN q : z = q[i]
  BY DEF Range
<1>3. p \in DOMAIN q /\ q[p].ev = z.ev
  BY <1>2
<1>4. s = RemovedAt(q, p)
  BY DEF Removed
<1> HIDE DEF p
<1>5. q[p] = z
  BY <1>2, <1>3 DEF OneEach
<1>6. QED
  BY <1>1, <1>3, <1>4, <1>5, RemovedAtFacts

LEMMA TailOrder ==
    ASSUME NEW q \in Seq(Entry), OneEach(q), q # <<>>, NEW s, s = Tail(q)
    PROVE  /\ s \in Seq(Entry) /\ OneEach(s) /\ Len(s) = Len(q) - 1
           /\ Range(s) = Range(q) \ {Head(q)} /\ Head(q) \in Range(q)
           /\ \A x, y \in Range(s) : Before(s, x, y) <=> Before(q, x, y)
           /\ InOrder(q) => InOrder(s)
           /\ \A x \in Range(q) : x # Head(q) => Before(q, Head(q), x)
           /\ InOrder(q) => \A x \in Range(q) : Head(q).time <= x.time
<1>1. DOMAIN q = 1..Len(q) /\ Len(q) \in Nat /\ Len(q) >= 1 /\ Head(q) = q[1] /\ 1 \in DOMAIN q
  OBVIOUS
<1>2. s = RemovedAt(q, 1)
  <2>1. Tail(q) = [i \in 1..(Len(q) - 1) |-> q[i + 1]]
    <3>1. Tail(q) \in Seq(Entry) /\ Len(Tail(q)) = Len(q) - 1
      BY <1>1
    <3>2. \A i \in 1..(Len(q) - 1) : Tail(q)[i] = q[i + 1]
      BY <1>1
    <3> DEFINE t == Tail(q)
               n == Len(q) - 1
    <3> HIDE DEF t, n
    <3>3. t = [i \in 1..n |-> t[i]]
      <4>1. t \in Seq(Entry) /\ Len(t) = n
        BY <3>1 DEF t, n
      <4>2. DOMAIN t = 1..n
        BY <4>1
      <4>3. t = [i \in DOMAIN t |-> t[i]]
        BY <4>1
      <4>4. QED
        BY <4>2, <4>3
    <3>4. QED
      BY <3>2, <3>3 DEF t, n
  <2>2. RemovedAt(q, 1) = [i \in 1..(Len(q) - 1) |-> q[i + 1]]
    BY <1>1 DEF RemovedAt
  <2>3. QED
    BY <2>1, <2>2
<1>3. q[1] \in Range(q)
  BY <1>1 DEF Range
<1>4. \A x \in Range(q) : x # Head(q) => Before(q, Head(q), x)
  <2> SUFFICES ASSUME NEW x \in Range(q), x # q[1] PROVE Before(q, q[1], x)
    BY <1>1
  <2>1. PICK i \in 1..Len(q) : x = q[i]
    BY InRange
  <2>2. QED
    BY <1>1, <2>1 DEF Before
<1>5. InOrder(q) => \A x \in Range(q) : Head(q).time <= x.time
  <2> SUFFICES ASSUME InOrder(q), NEW x \in Range(q) PROVE q[1].time <= x.time
    BY <1>1
  <2>1. CASE x = q[1]
    <3>1. q[1] \in Entry
      BY <1>1
    <3>2. q[1].time \in Nat
      BY <3>1 DEF Entry
    <3>3. QED
      BY <2>1, <3>2
  <2>2. CASE x # q[1]
    BY <1>1, <1>3, <1>4, <2>2, BeforeOrder
  <2>3. QED
    BY <2>1, <2>2
<1>6. 1 \in 1..Len(q)
  BY <1>1
<1>7. /\ s \in Seq(Entry) /\ OneEach(s) /\ Len(s) = Len(q) - 1
      /\ Range(s) = Range(q) \ {q[1]}
      /\ \A x, y \in Range(s) : Before(s, x, y) <=> Before(q, x, y)
      /\ InOrder(q) => InOrder(s)
  BY <1>2, <1>6, RemovedAtFacts
<1>8. QED
  BY <1>1, <1>3, <1>4, <1>5, <1>7

-----------------------------------------------------------------------------
(***************************************************************************)
(* The heap holds the entries of the list and ranks them as it does        *)
(***************************************************************************)
EntryOf(y) == [ev |-> y.ev, time |-> y.key]

LEMMA EntryOfFields == \A y : EntryOf(y).ev = y.ev /\ EntryOf(y).time = y.key
BY DEF EntryOf

Ranked(E, q) ==
    /\ \A y \in E : EntryOf(y) \in Range(q)
    /\ \A x \in Range(q) : \E y \in E : EntryOf(y) = x
    /\ \A y, z \in E : Before(q, EntryOf(y), EntryOf(z)) <=> KeyLess(y, z)

HeapType == [elems : Seq(Elem), skey : Nat]

HeapOK(hp, q) ==
    /\ hp \in HeapType
    /\ Ordered(hp.elems) /\ OneEach(hp.elems)
    /\ \A y \in Range(hp.elems) : y.skey < hp.skey
    /\ Ranked(Range(hp.elems), q)

LEMMA InElems ==
    ASSUME NEW h \in Seq(Elem)
    PROVE  /\ Range(h) \subseteq Elem
           /\ \A i \in 1..Len(h) : h[i] \in Range(h)
           /\ \A x \in Range(h) : \E i \in 1..Len(h) : x = h[i]
           /\ Len(h) \in Nat /\ DOMAIN h = 1..Len(h)
           /\ OneEach(h) => \A x, y \in Range(h) : x.ev = y.ev => x = y
BY DEF Range, OneEach

\* Taking an element off the heap and its entry off the list.
LEMMA RankedWithout ==
    ASSUME NEW E \in SUBSET Elem, NEW q, Ranked(E, q), NEW r \in E,
           \A x, y \in E : x.ev = y.ev => x = y,
           NEW s, Range(s) = Range(q) \ {EntryOf(r)},
           \A x, y \in Range(s) : Before(s, x, y) <=> Before(q, x, y)
    PROVE  Ranked(E \ {r}, s)
<1>1. \A y \in E : EntryOf(y).ev = y.ev
  BY DEF EntryOf
<1>2. \A y \in E : y # r => EntryOf(y) # EntryOf(r)
  BY <1>1
<1>3. \A y \in E \ {r} : EntryOf(y) \in Range(s)
  BY <1>2 DEF Ranked
<1>4. \A x \in Range(s) : \E y \in E \ {r} : EntryOf(y) = x
  BY DEF Ranked
<1>5. \A y, z \in E \ {r} : Before(s, EntryOf(y), EntryOf(z)) <=> KeyLess(y, z)
  BY <1>3 DEF Ranked
<1>6. QED
  BY <1>3, <1>4, <1>5 DEF Ranked

LEMMA HeapInsertFacts ==
    ASSUME NEW hp, NEW q \in Seq(Entry), HeapOK(hp, q), OneEach(q), InOrder(q),
           NEW e \in Ev, e \notin Queued(q), NEW t \in Nat
    PROVE  HeapOK(HeapInsert(hp, e, t), Inserted(q, e, t))
<1> DEFINE h == hp.elems
           x == [key |-> t, skey |-> hp.skey, ev |-> e]
           a == Append(h, x)
           u == SiftUp(a, x)
           s == Inserted(q, e, t)
           z == [ev |-> e, time |-> t]
<1>1. /\ h \in Seq(Elem) /\ hp.skey \in Nat /\ Ordered(h) /\ OneEach(h)
      /\ (\A y \in Range(h) : y.skey < hp.skey) /\ Ranked(Range(h), q)
  BY DEF HeapOK, HeapType
<1>2. x \in Elem /\ x.key = t /\ x.skey = hp.skey /\ x.ev = e /\ EntryOf(x) = z
  BY <1>1 DEF Elem, EntryOf
<1>3. HeapInsert(hp, e, t) = [elems |-> u, skey |-> hp.skey + 1]
  BY DEF HeapInsert
<1>4. /\ s \in Seq(Entry) /\ Range(s) = Range(q) \cup {z} /\ z \notin Range(q)
      /\ \A y, w \in Range(q) : Before(s, y, w) <=> Before(q, y, w)
      /\ \A y \in Range(q) : /\ Before(s, y, z) <=> y.time <= t
                             /\ Before(s, z, y) <=> t < y.time
      /\ OneEach(s)
  BY InsertedOrder
<1> HIDE DEF h, x, s, z
<1>5. /\ a \in Seq(Elem) /\ Len(a) = Len(h) + 1 /\ a[Len(a)] = x
      /\ \A k \in 1..Len(h) : a[k] = h[k]
      /\ Len(h) \in Nat /\ DOMAIN h = 1..Len(h) /\ DOMAIN a = 1..(Len(h) + 1)
  BY <1>1, <1>2
<1> HIDE DEF a, u
<1>6. \A y \in Range(h) : y.ev # e /\ EntryOf(y) \in Range(q) /\ y \in Elem
  <2> TAKE y \in Range(h)
  <2>1. EntryOf(y) \in Range(q)
    BY <1>1 DEF Ranked
  <2>2. PICK i \in 1..Len(q) : EntryOf(y) = q[i]
    BY <2>1, InRange
  <2>3. y.ev = q[i].ev /\ i \in DOMAIN q
    BY <2>2 DEF EntryOf
  <2>4. QED
    BY <1>1, <2>1, <2>3, InElems DEF Queued
<1>7. OneEach(a)
  <2> SUFFICES ASSUME NEW i \in 1..(Len(h) + 1), NEW j \in 1..(Len(h) + 1), a[i].ev = a[j].ev
               PROVE  i = j
    BY <1>5 DEF OneEach
  <2>1. \A k \in 1..Len(h) : a[k].ev # e
    BY <1>1, <1>5, <1>6, InElems
  <2>2. a[Len(h) + 1].ev = e
    BY <1>2, <1>5
  <2>3. CASE i = Len(h) + 1 \/ j = Len(h) + 1
    BY <1>5, <2>1, <2>2, <2>3
  <2>4. CASE i # Len(h) + 1 /\ j # Len(h) + 1
    <3>1. i \in DOMAIN h /\ j \in DOMAIN h /\ h[i].ev = h[j].ev
      BY <1>5, <2>4
    <3>2. QED
      BY <1>1, <3>1 DEF OneEach
  <2>5. QED
    BY <2>3, <2>4
<1>8. Range(a) = Range(h) \cup {x}
  <2>1. Range(a) = {a[i] : i \in 1..(Len(h) + 1)} /\ Range(h) = {h[i] : i \in 1..Len(h)}
    BY <1>5 DEF Range
  <2>2. QED
    BY <1>5, <2>1
<1>9. \A k \in 2..(Len(a) - 1) : AtMost(a[k \div 2], a[k])
  <2> TAKE k \in 2..(Len(a) - 1)
  <2>1. k \in 2..Len(h)
    BY <1>5
  <2>2. k \div 2 \in 1..Len(h) /\ k \in 1..Len(h)
    BY <1>5, <2>1, ParentsThere
  <2>3. AtMost(h[k \div 2], h[k])
    BY <1>1, <2>1 DEF Ordered
  <2>4. QED
    BY <1>5, <2>2, <2>3
<1>10. SameElems(u, a) /\ Ordered(u)
  <2>1. Len(a) # 0 /\ x = a[Len(a)]
    BY <1>5
  <2>2. QED
    BY <1>5, <1>9, <2>1, SiftUpFacts DEF u
<1>11. u \in Seq(Elem) /\ OneEach(u) /\ Range(u) = Range(h) \cup {x}
  BY <1>7, <1>8, <1>10 DEF SameElems
<1>12. \A y \in Range(h) : y.key \in Nat /\ y.skey \in Nat /\ EntryOf(y).time = y.key
  BY <1>6 DEF Elem, EntryOf
<1>13. \A y \in Range(u) : y.skey < hp.skey + 1
  <2> TAKE y \in Range(u)
  <2>1. CASE y = x
    BY <1>1, <1>2, <2>1
  <2>2. CASE y # x
    <3>1. y \in Range(h)
      BY <1>11, <2>2
    <3>2. QED
      BY <1>1, <1>12, <3>1
  <2>3. QED
    BY <2>1, <2>2
<1>14. ASSUME NEW y \in Range(h)
       PROVE  (KeyLess(y, x) <=> y.key <= t) /\ (KeyLess(x, y) <=> t < y.key)
  <2>1. y.skey < hp.skey /\ y.key \in Nat /\ y.skey \in Nat
    BY <1>1, <1>12
  <2>2. QED
    BY <1>1, <1>2, <2>1 DEF KeyLess
<1>15. Ranked(Range(u), s)
  <2>1. \A y \in Range(u) : EntryOf(y) \in Range(s)
    BY <1>2, <1>4, <1>6, <1>11
  <2>2. \A w \in Range(s) : \E y \in Range(u) : EntryOf(y) = w
    <3> TAKE w \in Range(s)
    <3>1. CASE w = z
      BY <1>2, <1>11, <3>1
    <3>2. CASE w \in Range(q)
      BY <1>1, <1>11, <3>2 DEF Ranked
    <3>3. QED
      BY <1>4, <3>1, <3>2
  <2>3. ASSUME NEW y \in Range(u), NEW w \in Range(u)
        PROVE  Before(s, EntryOf(y), EntryOf(w)) <=> KeyLess(y, w)
    <3>1. CASE y # x /\ w # x
      <4>1. y \in Range(h) /\ w \in Range(h)
        BY <1>11, <3>1
      <4>2. Before(q, EntryOf(y), EntryOf(w)) <=> KeyLess(y, w)
        BY <1>1, <4>1 DEF Ranked
      <4>3. QED
        BY <1>4, <1>6, <4>1, <4>2
    <3>2. CASE y # x /\ w = x
      <4>1. y \in Range(h)
        BY <1>11, <3>2
      <4>2. Before(s, EntryOf(y), z) <=> EntryOf(y).time <= t
        BY <1>4, <1>6, <4>1
      <4>3. QED
        BY <1>2, <1>12, <1>14, <3>2, <4>1, <4>2
    <3>3. CASE y = x /\ w # x
      <4>1. w \in Range(h)
        BY <1>11, <3>3
      <4>2. Before(s, z, EntryOf(w)) <=> t < EntryOf(w).time
        BY <1>4, <1>6, <4>1
      <4>3. QED
        BY <1>2, <1>12, <1>14, <3>3, <4>1, <4>2
    <3>4. CASE y = x /\ w = x
      <4>1. ~Before(s, z, z)
        BY <1>4, BeforeOrder
      <4>2. ~KeyLess(x, x)
        BY <1>1, <1>2 DEF KeyLess
      <4>3. QED
        BY <1>2, <3>4, <4>1, <4>2
    <3>5. QED
      BY <3>1, <3>2, <3>3, <3>4
  <2>4. QED
    BY <2>1, <2>2, <2>3 DEF Ranked
<1>16. [elems |-> u, skey |-> hp.skey + 1] \in HeapType
  BY <1>1, <1>11 DEF HeapType
<1> DEFINE new == [elems |-> u, skey |-> hp.skey + 1]
<1>17. new.elems = u /\ new.skey = hp.skey + 1 /\ new \in HeapType
  BY <1>16
<1> HIDE DEF new
<1>18. HeapOK(new, s)
  BY <1>10, <1>11, <1>13, <1>15, <1>17 DEF HeapOK
<1>19. QED
  BY <1>3, <1>18 DEF new, s

\* Removing the root of u, which has the elements of the heap.
LEMMA ExtractedFacts ==
    ASSUME NEW hp, NEW q, HeapOK(hp, q), NEW u \in Seq(Elem), Len(u) # 0,
           OrderedBelow(u), OneEach(u), Range(u) = Range(hp.elems),
           NEW s, Range(s) = Range(q) \ {EntryOf(u[1])},
           \A x, y \in Range(s) : Before(s, x, y) <=> Before(q, x, y)
    PROVE  HeapOK([hp EXCEPT !.elems = ExtractMin(u)], s)
<1> DEFINE E == Range(hp.elems)
           v == ExtractMin(u)
           new == [hp EXCEPT !.elems = v]
<1>1. hp \in HeapType /\ (\A y \in E : y.skey < hp.skey) /\ Ranked(E, q)
  BY DEF HeapOK
<1>2. v \in Seq(Elem) /\ OneEach(v) /\ Ordered(v) /\ Range(v) = E \ {u[1]}
  BY ExtractMinFacts
<1> HIDE DEF v
<1>3. new \in HeapType /\ new.elems = v /\ new.skey = hp.skey
  BY <1>1, <1>2 DEF HeapType
<1> HIDE DEF new
<1>4. E \in SUBSET Elem /\ (\A x, y \in E : x.ev = y.ev => x = y) /\ u[1] \in E
  <2>1. 1 \in 1..Len(u)
    OBVIOUS
  <2>2. QED
    BY <2>1, InElems
<1> HIDE DEF E
<1>5. Ranked(E \ {u[1]}, s)
  BY <1>1, <1>4, RankedWithout
<1>6. QED
  BY <1>1, <1>2, <1>3, <1>5 DEF HeapOK, new, v

\* The root of the heap is the head of the list, and there is one if the other is there.
LEMMA RootIsHead ==
    ASSUME NEW hp, NEW q \in Seq(Entry), HeapOK(hp, q), OneEach(q), q # <<>>
    PROVE  Len(hp.elems) # 0 /\ EntryOf(hp.elems[1]) = Head(q)
<1> DEFINE h == hp.elems
<1>1. h \in Seq(Elem) /\ Ordered(h) /\ Ranked(Range(h), q)
  BY DEF HeapOK, HeapType
<1> HIDE DEF h
<1>2. Head(q) \in Range(q) /\ \A x \in Range(q) : x # Head(q) => Before(q, Head(q), x)
  BY TailOrder
<1>3. PICK y \in Range(h) : EntryOf(y) = Head(q)
  BY <1>1, <1>2 DEF Ranked
<1>4. PICK k \in 1..Len(h) : y = h[k]
  BY <1>1, <1>3, InElems
<1>5. Len(h) # 0 /\ 1 \in 1..Len(h)
  BY <1>1, <1>4
<1>6. h[1] \in Range(h)
  BY <1>1, <1>5, InElems
<1>7. ~KeyLess(y, h[1])
  BY <1>1, <1>4, RootLeast DEF AtMost
<1>8. ~Before(q, Head(q), EntryOf(h[1]))
  BY <1>1, <1>3, <1>6, <1>7 DEF Ranked
<1>9. EntryOf(h[1]) \in Range(q)
  BY <1>1, <1>6 DEF Ranked
<1>10. QED
  BY <1>2, <1>5, <1>8, <1>9 DEF h

LEMMA HeapDequeFacts ==
    ASSUME NEW hp, NEW q \in Seq(Entry), HeapOK(hp, q), OneEach(q), q # <<>>
    PROVE  HeapOK(HeapDeque(hp), Tail(q))
<1> DEFINE h == hp.elems
           s == Tail(q)
<1>1. h \in Seq(Elem) /\ Ordered(h) /\ OneEach(h)
  BY DEF HeapOK, HeapType
<1>2. Len(h) # 0 /\ EntryOf(h[1]) = Head(q)
  BY RootIsHead
<1>3. OrderedBelow(h)
  BY <1>1 DEF Ordered, OrderedBelow
<1>4. /\ Range(s) = Range(q) \ {Head(q)}
      /\ \A x, y \in Range(s) : Before(s, x, y) <=> Before(q, x, y)
  BY TailOrder
<1> HIDE DEF s
<1>5. HeapOK([hp EXCEPT !.elems = ExtractMin(h)], s)
  BY <1>1, <1>2, <1>3, <1>4, ExtractedFacts
<1>6. QED
  BY <1>5 DEF HeapDeque, s

LEMMA HeapCancelFacts ==
    ASSUME NEW hp, NEW q \in Seq(Entry), HeapOK(hp, q), OneEach(q), NEW z \in Range(q)
    PROVE  HeapOK(HeapCancel(hp, z.ev), Removed(q, z.ev))
<1> DEFINE h == hp.elems
           i == CHOOSE i \in DOMAIN h : h[i].ev = z.ev
           u == ToRoot(h, i)
           s == Removed(q, z.ev)
<1>1. h \in Seq(Elem) /\ Ordered(h) /\ OneEach(h) /\ Ranked(Range(h), q)
  BY DEF HeapOK, HeapType
<1>2. PICK y \in Range(h) : EntryOf(y) = z
  BY <1>1 DEF Ranked
<1>3. PICK k \in 1..Len(h) : y = h[k]
  BY <1>1, <1>2, InElems
<1>4. DOMAIN h = 1..Len(h) /\ y.ev = z.ev
  BY <1>1, <1>2 DEF EntryOf
<1>5. i \in 1..Len(h) /\ h[i].ev = z.ev
  BY <1>3, <1>4
<1>6. h[i] = y
  BY <1>1, <1>3, <1>4, <1>5 DEF OneEach
<1> HIDE DEF h, i
<1>7. SameElems(u, h) /\ u[1] = h[i] /\ OrderedBelow(u)
  BY <1>1, <1>5, ToRootFacts
<1>8. u \in Seq(Elem) /\ Len(u) = Len(h) /\ Range(u) = Range(h) /\ OneEach(u)
  BY <1>1, <1>7 DEF SameElems
<1>9. Len(u) # 0 /\ EntryOf(u[1]) = z
  BY <1>1, <1>2, <1>5, <1>6, <1>7, <1>8
<1>10. /\ Range(s) = Range(q) \ {z}
       /\ \A x, w \in Range(s) : Before(s, x, w) <=> Before(q, x, w)
  BY RemovedOrder
<1> HIDE DEF u, s
<1>11. HeapOK([hp EXCEPT !.elems = ExtractMin(u)], s)
  BY <1>7, <1>8, <1>9, <1>10, ExtractedFacts DEF h
<1>12. QED
  BY <1>11 DEF HeapCancel, s, u, h, i

LEMMA SameCount ==
    ASSUME NEW S, NEW T, IsFiniteSet(S), NEW f \in [S -> T],
           \A x, y \in S : f[x] = f[y] => x = y,
           \A t \in T : \E x \in S : f[x] = t
    PROVE  IsFiniteSet(T) /\ Cardinality(T) = Cardinality(S)
<1>1. f \in Injection(S, T)
  BY DEF Injection, IsInjective
<1>2. f \in Surjection(S, T)
  BY DEF Surjection
<1>3. ExistsBijection(S, T)
  BY <1>1, <1>2 DEF Bijection, ExistsBijection
<1>4. QED
  BY <1>3, FS_Bijection

\* The rank of an element in the heap is its entry's place in the list.
LEMMA HeapRanks ==
    ASSUME NEW hp, NEW q \in Seq(Entry), HeapOK(hp, q), OneEach(q)
    PROVE  LET h == hp.elems
           IN  /\ Len(h) = Len(q)
               /\ \A i \in DOMAIN q : \E k \in DOMAIN h :
                     /\ h[k].ev = q[i].ev /\ h[k].key = q[i].time
                     /\ Cardinality({j \in DOMAIN h : KeyLess(h[j], h[k])}) = i - 1
<1> DEFINE h == hp.elems
           n == Len(q)
           m == Len(h)
           at == [i \in 1..n |-> CHOOSE k \in 1..m : EntryOf(h[k]) = q[i]]
<1>1. h \in Seq(Elem) /\ OneEach(h) /\ Ranked(Range(h), q)
  BY DEF HeapOK, HeapType
<1>2. n \in Nat /\ m \in Nat /\ DOMAIN q = 1..n /\ DOMAIN h = 1..m
  BY <1>1
<1> HIDE DEF h
<1>3. \A i \in 1..n : at[i] \in 1..m /\ EntryOf(h[at[i]]) = q[i]
  <2> TAKE i \in 1..n
  <2>1. q[i] \in Range(q)
    BY InRange
  <2>2. PICK y \in Range(h) : EntryOf(y) = q[i]
    BY <1>1, <2>1 DEF Ranked
  <2>3. PICK k \in 1..m : y = h[k]
    BY <1>1, <2>2, InElems
  <2>4. QED
    BY <2>2, <2>3
<1>4. at = [i \in 1..n |-> at[i]]
  OBVIOUS
<1> HIDE DEF at, n, m
<1>5. at \in [1..n -> 1..m]
  BY <1>3, <1>4
<1>6. \A i, j \in 1..n : q[i] = q[j] => i = j
  BY <1>2 DEF OneEach
<1>7. \A i, j \in 1..n : at[i] = at[j] => i = j
  BY <1>3, <1>6
<1>8. \A k \in 1..m : \E i \in 1..n : at[i] = k
  <2> TAKE k \in 1..m
  <2>1. h[k] \in Range(h)
    BY <1>1, InElems DEF m
  <2>2. EntryOf(h[k]) \in Range(q)
    BY <1>1, <2>1 DEF Ranked
  <2>3. PICK i \in 1..n : EntryOf(h[k]) = q[i]
    BY <2>2, InRange DEF n
  <2>4. h[at[i]].ev = h[k].ev /\ at[i] \in 1..m
    BY <1>3, <2>3, EntryOfFields
  <2>5. QED
    BY <1>1, <1>2, <2>4 DEF OneEach
<1>9. m = n
  <2>1. IsFiniteSet(1..n) /\ Cardinality(1..n) = n /\ Cardinality(1..m) = m
    <3>1. 1 \in Int /\ n \in Int /\ m \in Int
      BY <1>2
    <3>2. /\ IsFiniteSet(1..n) /\ Cardinality(1..n) = (IF 1 > n THEN 0 ELSE n - 1 + 1)
          /\ Cardinality(1..m) = (IF 1 > m THEN 0 ELSE m - 1 + 1)
      BY <3>1, FS_Interval
    <3>3. QED
      BY <1>2, <3>2
  <2>2. Cardinality(1..m) = Cardinality(1..n)
    BY <1>5, <1>7, <1>8, <2>1, SameCount
  <2>3. QED
    BY <2>1, <2>2
<1>10. ASSUME NEW i \in 1..n
       PROVE  /\ h[at[i]].ev = q[i].ev /\ h[at[i]].key = q[i].time
              /\ Cardinality({j \in 1..m : KeyLess(h[j], h[at[i]])}) = i - 1
  <2> DEFINE S == 1..(i - 1)
             T == {j \in 1..m : KeyLess(h[j], h[at[i]])}
             f == [j \in S |-> at[j]]
  <2>1. h[at[i]].ev = q[i].ev /\ h[at[i]].key = q[i].time
    BY <1>3, EntryOfFields
  <2>2. ASSUME NEW j \in 1..n PROVE KeyLess(h[at[j]], h[at[i]]) <=> j < i
    <3>1. q[i] \in Range(q) /\ q[j] \in Range(q)
      BY InRange DEF n
    <3>2. Before(q, q[j], q[i]) <=> j < i
      BY <3>1, BeforeOrder DEF n
    <3>3. h[at[j]] \in Range(h) /\ h[at[i]] \in Range(h)
      BY <1>1, <1>3, InElems DEF m
    <3>4. Before(q, EntryOf(h[at[j]]), EntryOf(h[at[i]])) <=> KeyLess(h[at[j]], h[at[i]])
      BY <1>1, <3>3 DEF Ranked
    <3>5. QED
      BY <1>3, <3>2, <3>4
  <2>3. S \subseteq 1..n /\ \A j \in S : j < i
    BY <1>2
  <2>4. \A j \in S : at[j] \in T
    BY <1>3, <2>2, <2>3
  <2>5. \A k \in T : \E j \in S : at[j] = k
    <3> TAKE k \in T
    <3>1. PICK j \in 1..n : at[j] = k
      BY <1>8
    <3>2. j < i
      BY <2>2, <3>1
    <3>3. QED
      BY <1>2, <3>1, <3>2
  <2>6. IsFiniteSet(S) /\ Cardinality(S) = i - 1
    <3>1. 1 \in Int /\ i - 1 \in Int
      BY <1>2
    <3>2. IsFiniteSet(S) /\ Cardinality(S) = (IF 1 > i - 1 THEN 0 ELSE (i - 1) - 1 + 1)
      BY <3>1, FS_Interval
    <3>3. QED
      BY <1>2, <3>2
  <2> HIDE DEF S, T
  <2>7. f \in [S -> T] /\ \A j \in S : f[j] = at[j]
    BY <2>4
  <2> HIDE DEF f
  <2>8. Cardinality(T) = Cardinality(S)
    <3>1. \A x, y \in S : f[x] = f[y] => x = y
      BY <1>7, <2>3, <2>7
    <3>2. \A t \in T : \E x \in S : f[x] = t
      BY <2>5, <2>7
    <3>3. QED
      BY <2>6, <2>7, <3>1, <3>2, SameCount
  <2>9. QED
    BY <2>1, <2>6, <2>8 DEF T
<1>11. QED
  BY <1>2, <1>3, <1>9, <1>10 DEF h, n, m

\* What HeapAgrees says, from the invariant.
LEMMA HeapOKAgrees ==
    ASSUME sch.queue \in Seq(Entry), OneEach(sch.queue), HeapOK(heap, sch.queue)
    PROVE  HeapAgrees
<1> DEFINE h == heap.elems
           q == sch.queue
<1>1. /\ Len(h) = Len(q)
      /\ \A i \in DOMAIN q : \E k \in DOMAIN h :
            /\ h[k].ev = q[i].ev /\ h[k].key = q[i].time
            /\ Cardinality({j \in DOMAIN h : KeyLess(h[j], h[k])}) = i - 1
  BY HeapRanks
<1>2. q # <<>> => h[1].ev = Head(q).ev
  <2> SUFFICES ASSUME q # <<>> PROVE h[1].ev = Head(q).ev
    OBVIOUS
  <2>1. EntryOf(h[1]) = Head(q)
    BY RootIsHead
  <2>2. QED
    BY <2>1 DEF EntryOf
<1>3. QED
  BY <1>1, <1>2 DEF HeapAgrees

-----------------------------------------------------------------------------
(***************************************************************************)
(* The calls that a step makes to the three schedulers                     *)
(***************************************************************************)
\* None but a look at the next event.
Looks == sch'.queue = sch.queue /\ heap' = heap /\ cal' \in {cal, Peeked(cal)}

\* An event that is not queued is scheduled.
Schedules ==
    \E e \in Ev, t \in Nat :
        /\ e \notin Queued(sch.queue)
        /\ sch'.queue = Inserted(sch.queue, e, t) /\ InsertAll(heap, cal, e, t)

\* A queued event is cancelled; it is moved.
Cancels ==
    \E z \in Range(sch.queue) :
        /\ sch'.queue = Removed(sch.queue, z.ev)
        /\ heap' = HeapCancel(heap, z.ev) /\ cal' = CalCancel(cal, z.ev, z.time)

Moves ==
    \E z \in Range(sch.queue), t \in Nat :
        /\ sch'.queue = Inserted(Removed(sch.queue, z.ev), z.ev, t)
        /\ InsertAll(HeapCancel(heap, z.ev), CalCancel(cal, z.ev, z.time), z.ev, t)

\* The next event is taken off.
Deques ==
    /\ sch.queue # <<>> /\ sch'.queue = Tail(sch.queue) /\ heap' = HeapDeque(heap)
    /\ \E a \in BOOLEAN, w \in Widths : cal' = CalDeque(cal, a, w)

LEMMA ScheduledQueue ==
    ASSUME NEW s, SchOK(s), NEW e \in Ev, e \notin Queued(s.queue), NEW t
    PROVE  Scheduled(s, e, t).queue = Inserted(s.queue, e, t)
<1>1. ~(s.uid[e] > 0)
  BY DEF SchOK
<1>2. QED
  BY <1>1 DEF Scheduled

LEMMA CancelledQueue ==
    ASSUME NEW s, SchOK(s), NEW e \in Ev, e \in Queued(s.queue)
    PROVE  Cancelled(s, e).queue = Removed(s.queue, e)
<1>1. s.uid[e] > 0 /\ s.uid[e] \in {-1, 0, 1}
  BY DEF SchOK, Sch
<1>2. ~(s.uid[e] <= 0)
  BY <1>1
<1>3. QED
  BY <1>2 DEF Cancelled

\* The entry of a queued event.
LEMMA QueuedEntry ==
    ASSUME SchOK(sch), NEW e \in Queued(sch.queue)
    PROVE  \E z \in Range(sch.queue) : z.ev = e /\ TimeOf(e) = z.time
<1> DEFINE q == sch.queue
           i == CHOOSE i \in DOMAIN q : q[i].ev = e
<1>1. i \in DOMAIN q /\ q[i].ev = e
  BY DEF Queued
<1>2. TimeOf(e) = q[i].time
  BY DEF TimeOf
<1>3. q[i] \in Range(q)
  BY <1>1 DEF Range
<1>4. QED
  BY <1>1, <1>2, <1>3

LEMMA CancelCalls ==
    ASSUME SchOK(sch), NEW e \in Ev, e \in Queued(sch.queue), sch' = Cancelled(sch, e),
           CancelAll(e)
    PROVE  Cancels
<1>1. PICK z \in Range(sch.queue) : z.ev = e /\ TimeOf(e) = z.time
  BY QueuedEntry
<1>2. sch'.queue = Removed(sch.queue, z.ev)
  BY <1>1, CancelledQueue
<1>3. heap' = HeapCancel(heap, z.ev) /\ cal' = CalCancel(cal, z.ev, z.time)
  BY <1>1 DEF CancelAll
<1>4. QED
  BY <1>2, <1>3 DEF Cancels

LEMMA TimerCalls ==
    ASSUME TimerInv, NEW t \in Timers, NEW d \in Delays
    PROVE  /\ Sched(t, d) /\ InsertAll(heap, cal, t, clock + d) => Schedules
           /\ SResched(t, d) => Schedules \/ Moves
<1>1. /\ SchOK(sch) /\ PendingQueued(sch.queue, status) /\ t \in Ev /\ clock \in Nat
      /\ TypeOK
  BY InvParts, Disjoint
<1>2. clock + d \in Nat
  BY <1>1, TimerAssumption
<1>3. ASSUME t \notin Queued(sch.queue), InsertAll(heap, cal, t, clock + d),
             sch' = Scheduled(sch, t, clock + d)
      PROVE  Schedules
  <2>1. sch'.queue = Inserted(sch.queue, t, clock + d)
    BY <1>1, <1>3, ScheduledQueue
  <2>2. QED
    BY <1>1, <1>2, <1>3, <2>1 DEF Schedules
<1>4. Sched(t, d) /\ InsertAll(heap, cal, t, clock + d) => Schedules
  <2> SUFFICES ASSUME Sched(t, d), InsertAll(heap, cal, t, clock + d) PROVE Schedules
    OBVIOUS
  <2>1. t \notin Queued(sch.queue) /\ sch' = Scheduled(sch, t, clock + d)
    BY <1>1 DEF Sched, PendingQueued
  <2>2. QED
    BY <1>3, <2>1
<1>5. ASSUME SResched(t, d), status[t] = "pending" PROVE Moves
  <2>1. t \in Queued(sch.queue)
    BY <1>1, <1>5 DEF PendingQueued
  <2>2. PICK z \in Range(sch.queue) : z.ev = t /\ TimeOf(t) = z.time
    BY <1>1, <2>1, QueuedEntry
  <2> DEFINE s == Cancelled(sch, t)
  <2>3. SchOK(s) /\ s.queue = Removed(sch.queue, t) /\ t \notin Queued(s.queue)
    BY <1>1, <2>1, CancelledFacts, CancelledQueue
  <2>4. sch' = Scheduled(s, t, clock + d)
    BY <1>5 DEF SResched, Resched, UnlessPending
  <2> HIDE DEF s
  <2>5. sch'.queue = Inserted(s.queue, t, clock + d)
    BY <1>1, <2>3, <2>4, ScheduledQueue
  <2>6. InsertAll(HeapCancel(heap, t), CalCancel(cal, t, TimeOf(t)), t, clock + d)
    BY <1>5 DEF SResched
  <2>7. QED
    BY <1>2, <2>2, <2>3, <2>5, <2>6 DEF Moves
<1>6. ASSUME SResched(t, d), status[t] # "pending" PROVE Schedules
  <2>1. t \notin Queued(sch.queue)
    BY <1>1, <1>6 DEF PendingQueued
  <2>2. sch' = Scheduled(sch, t, clock + d)
    BY <1>6 DEF SResched, Resched, UnlessPending
  <2>3. InsertAll(heap, cal, t, clock + d)
    BY <1>6 DEF SResched
  <2>4. QED
    BY <1>3, <2>1, <2>2, <2>3
<1>7. QED
  BY <1>4, <1>5, <1>6

LEMMA AtCalls ==
    ASSUME TimerInv, SAt
    PROVE  Schedules \/ Looks
<1> DEFINE a == nextAt
           time == script.times[nextAt]
<1>1. TypeOK /\ SchOK(sch) /\ AtFresh /\ clock \in Nat
  BY InvParts
<1>2. script.times \in Seq(Nat) /\ Len(script.times) <= MaxAt /\ MaxAt \in Nat
  BY <1>1, TimerAssumption DEF TypeOK
<1>3. a \in Ats /\ time \in Nat /\ a \in Ev
  BY <1>1, <1>2 DEF SAt, At, TypeOK, Ats, Ev
<1>4. a \notin Queued(sch.queue)
  BY <1>1, <1>3 DEF AtFresh, SchOK, Ats
<1>5. CASE time >= clock
  <2>1. sch' = Scheduled(sch, a, time) /\ InsertAll(heap, cal, a, time)
    BY <1>5 DEF SAt, At
  <2> HIDE DEF a, time
  <2>2. sch'.queue = Inserted(sch.queue, a, time)
    BY <1>1, <1>3, <1>4, <2>1, ScheduledQueue
  <2>3. QED
    BY <1>3, <1>4, <2>1, <2>2 DEF Schedules
<1>6. CASE ~(time >= clock)
  <2>1. sch' = sch /\ heap' = heap /\ cal' = cal
    BY <1>6 DEF SAt, At
  <2>2. QED
    BY <2>1 DEF Looks
<1>7. QED
  BY <1>5, <1>6

\* What a step does to the three schedulers.
LEMMA StepCalls ==
    ASSUME TimerInv, [SNext]_svars
    PROVE  /\ [Next]_vars
           /\ Looks \/ Schedules \/ Cancels \/ Moves \/ Deques
<1> USE DEF Next
<1>1. CASE SAt
  BY <1>1, AtCalls DEF SAt
<1>2. CASE SDispatch
  <2>1. Dispatch /\ sch'.queue = Tail(sch.queue) /\ sch.queue # <<>>
    BY <1>2 DEF SDispatch, Dispatch, Dispatched
  <2>2. QED
    BY <1>2, <2>1 DEF SDispatch, Deques
<1>3. CASE SHandleEnd
  BY <1>3 DEF SHandleEnd, HandleEnd, Looks
<1>4. CASE (Halt \/ Run) /\ UNCHANGED <<heap, cal>>
  BY <1>4 DEF Halt, Run, Looks
<1>5. ASSUME NEW a \in Revoked, AtCancel(a), CancelAll(a) PROVE Next /\ Cancels
  <2>1. SchOK(sch) /\ a \in Ev
    BY InvParts, TimerAssumption DEF Ev
  <2>2. QED
    BY <1>5, <2>1, CancelCalls DEF AtCancel
<1>6. ASSUME NEW t \in Timers, NEW d \in Delays, Sched(t, d),
             InsertAll(heap, cal, t, clock + d)
      PROVE  Next /\ Schedules
  BY <1>6, TimerCalls
<1>7. ASSUME NEW t \in Timers, NEW d \in Delays, SResched(t, d)
      PROVE  Next /\ (Schedules \/ Moves)
  BY <1>7, TimerCalls DEF SResched
<1>8. ASSUME NEW t \in Timers, Cancel(t), CancelAll(t) PROVE Next /\ Cancels
  <2>1. SchOK(sch) /\ t \in Ev /\ t \in Queued(sch.queue) /\ sch' = Cancelled(sch, t)
    BY <1>8, InvParts, Disjoint DEF PendingQueued, Cancel
  <2>2. QED
    BY <1>8, <2>1, CancelCalls
<1>9. ASSUME NEW now \in TimesOfDay, SWake(now) PROVE Next /\ Looks
  BY <1>9 DEF SWake, Wake, Looks
<1>10. CASE UNCHANGED svars
  BY <1>10 DEF svars, vars, Looks
<1>11. QED
  BY <1>1, <1>2, <1>3, <1>4, <1>5, <1>6, <1>7, <1>8, <1>9, <1>10 DEF SNext, SAt, SDispatch, SHandleEnd

LEMMA HeapStep ==
    ASSUME SchOK(sch), HeapOK(heap, sch.queue),
           Looks \/ Schedules \/ Cancels \/ Moves \/ Deques
    PROVE  HeapOK(heap', sch'.queue)
<1> DEFINE q == sch.queue
<1>1. q \in Seq(Entry) /\ OneEach(q) /\ InOrder(q)
  BY DEF SchOK, Sch
<1>2. CASE Looks
  BY <1>2 DEF Looks
<1>3. CASE Schedules
  <2>1. PICK e \in Ev, t \in Nat : /\ e \notin Queued(q) /\ sch'.queue = Inserted(q, e, t)
                                   /\ heap' = HeapInsert(heap, e, t)
    BY <1>3 DEF Schedules, InsertAll
  <2>2. QED
    BY <1>1, <2>1, HeapInsertFacts
<1>4. CASE Cancels
  <2>1. PICK z \in Range(q) : sch'.queue = Removed(q, z.ev) /\ heap' = HeapCancel(heap, z.ev)
    BY <1>4 DEF Cancels
  <2>2. QED
    BY <1>1, <2>1, HeapCancelFacts
<1>5. CASE Moves
  <2>1. PICK z \in Range(q), t \in Nat :
           /\ sch'.queue = Inserted(Removed(q, z.ev), z.ev, t)
           /\ heap' = HeapInsert(HeapCancel(heap, z.ev), z.ev, t)
    BY <1>5 DEF Moves, InsertAll
  <2> DEFINE r == Removed(q, z.ev)
             h == HeapCancel(heap, z.ev)
  <2>2. HeapOK(h, r)
    BY <1>1, HeapCancelFacts
  <2>3. z.ev \in Ev /\ z.ev \in Queued(q)
    <3>1. PICK i \in DOMAIN q : z = q[i]
      BY DEF Range
    <3>2. z \in Entry
      BY <1>1, InRange
    <3>3. QED
      BY <3>1, <3>2 DEF Queued, Entry
  <2>4. r \in Seq(Entry) /\ OneEach(r) /\ InOrder(r) /\ z.ev \notin Queued(r)
    BY <1>1, <2>3, RemovedFacts
  <2> HIDE DEF r, h, q
  <2>5. HeapOK(HeapInsert(h, z.ev, t), Inserted(r, z.ev, t))
    BY <2>2, <2>3, <2>4, HeapInsertFacts
  <2>6. QED
    BY <2>1, <2>5 DEF r, h
<1>6. CASE Deques
  <2>1. q # <<>> /\ sch'.queue = Tail(q) /\ heap' = HeapDeque(heap)
    BY <1>6 DEF Deques
  <2>2. QED
    BY <1>1, <2>1, HeapDequeFacts
<1>7. QED
  BY <1>2, <1>3, <1>4, <1>5, <1>6

LEMMA HeapInit ==
    ASSUME SInit
    PROVE  HeapOK(heap, sch.queue)
<1>1. sch.queue = <<>> /\ heap = [elems |-> <<>>, skey |-> 0]
  BY DEF SInit, Init
<1>2. DOMAIN << >> = {} /\ Len(<< >>) = 0 /\ << >> \in Seq(Elem)
  OBVIOUS
<1>3. Range(<<>>) = {}
  BY <1>2 DEF Range
<1>4. heap.elems = <<>> /\ heap \in HeapType
  BY <1>1, <1>2 DEF HeapType
<1>5. Ordered(<<>>) /\ OneEach(<<>>) /\ Ranked({}, <<>>)
  BY <1>2, <1>3 DEF Ordered, OneEach, Ranked
<1>6. QED
  BY <1>1, <1>3, <1>4, <1>5 DEF HeapOK

HeapInv == TimerInv /\ HeapOK(heap, sch.queue)

LEMMA HeapInvariant == SSpec => []HeapInv
<1>1. SInit => HeapInv
  BY InvInit, HeapInit DEF HeapInv, SInit
<1>2. HeapInv /\ [SNext]_svars => HeapInv'
  <2> SUFFICES ASSUME HeapInv, [SNext]_svars PROVE HeapInv'
    OBVIOUS
  <2>1. TimerInv'
    BY StepCalls, InvNext DEF HeapInv
  <2>2. HeapOK(heap', sch'.queue)
    BY StepCalls, HeapStep, InvParts DEF HeapInv
  <2>3. QED
    BY <2>1, <2>2 DEF HeapInv
<1>3. QED
  BY <1>1, <1>2, PTL DEF SSpec

\* The heap scheduler would give up the events that the list holds in the list's order,
\* those of equal time too, through every insertion, extraction and deletion.
THEOREM HeapAgreesAlways == SSpec => []HeapAgrees
<1>1. HeapInv => HeapAgrees
  BY InvParts, HeapOKAgrees DEF HeapInv, SchOK
<1>2. QED
  BY <1>1, HeapInvariant, PTL

-----------------------------------------------------------------------------
(***************************************************************************)
(* Days and years of the calendar                                          *)
(***************************************************************************)
\* Division with rest.
LEMMA Division ==
    ASSUME NEW t \in Nat, NEW w \in Nat \ {0}
    PROVE  /\ t \div w \in Nat /\ t % w \in 0..(w - 1)
           /\ t % w = t - w * (t \div w)
           /\ w * (t \div w) <= t /\ t < w * (t \div w) + w
<1>1. t \div w \in Nat
  OBVIOUS
<1>2. t % w \in 0..(w - 1)
  OBVIOUS
<1>3. t % w = t - w * (t \div w)
  OBVIOUS
<1>4. w * (t \div w) <= t
  OBVIOUS
<1>5. t < w * (t \div w) + w
  OBVIOUS
<1>6. QED
  BY <1>1, <1>2, <1>3, <1>4, <1>5

LEMMA Product ==
    ASSUME NEW w \in Nat, NEW a \in Int, NEW b \in Int
    PROVE  /\ w * a \in Int /\ w * (a + b) = w * a + w * b
           /\ a <= b => w * a <= w * b
           /\ w * (a - b) = w * a - w * b
OBVIOUS

\* Days with the same rest are whole years apart.
LEMMA SameDay ==
    ASSUME NEW n \in Nat \ {0}, NEW a \in Nat, NEW b \in Nat, a % n = b % n, a <= b
    PROVE  b = a \/ b >= a + n
<1> DEFINE x == a \div n
           y == b \div n
<1>1. x \in Nat /\ y \in Nat /\ a - n * x = b - n * y
  BY Division
<1> HIDE DEF x, y
<1>2. CASE y <= x
  <2>1. n * y <= n * x /\ n * x \in Int /\ n * y \in Int
    BY <1>1, <1>2, Product
  <2>2. QED
    BY <1>1, <2>1
<1>3. CASE x + 1 <= y
  <2>1. n * (x + 1) <= n * y /\ n * (x + 1) = n * x + n * 1 /\ n * x \in Int /\ n * y \in Int
    BY <1>1, <1>3, Product
  <2>2. n * 1 = n
    OBVIOUS
  <2>3. QED
    BY <1>1, <2>1, <2>2
<1>4. QED
  BY <1>1, <1>2, <1>3

\* The k-th bucket from that of day d is the one of day d + k.
LEMMA DaysOn ==
    ASSUME NEW n \in Nat \ {0}, NEW d \in Nat, NEW k \in Nat
    PROVE  ((d % n) + k) % n = (d + k) % n
<1> DEFINE x == d \div n
           a == (d % n) + k
           y == a \div n
           r == a % n
<1>1. /\ x \in Nat /\ d % n \in 0..(n - 1) /\ d % n = d - n * x
  BY Division
<1>2. a \in Nat
  BY <1>1
<1>3. y \in Nat /\ r \in 0..(n - 1) /\ r = a - n * y
  BY <1>2, Division
<1> HIDE DEF x, y
<1>4. n * (x + y) = n * x + n * y /\ n * x \in Int /\ n * y \in Int /\ n * (x + y) \in Int
  BY <1>1, <1>3, Product
<1>5. d + k = n * (x + y) + r
  <2>1. r = (d % n) + k - n * y
    BY <1>3
  <2> HIDE DEF r
  <2>2. QED
    BY <1>1, <1>3, <1>4, <2>1
<1> HIDE DEF a, r
<1> DEFINE z == x + y
           t == d + k
           u == t \div n
<1>6. z \in Nat /\ t \in Nat /\ u \in Nat /\ t % n = t - n * u /\ t % n \in 0..(n - 1)
  <2>1. z \in Nat /\ t \in Nat
    BY <1>1, <1>3
  <2> HIDE DEF z, t
  <2>2. QED
    BY <2>1, Division
<1>7. t = n * z + r /\ n * z \in Int
  BY <1>4, <1>5
<1> HIDE DEF z, t, u
<1>8. t % n = r
  <2>1. CASE u = z
    BY <1>3, <1>6, <1>7, <2>1
  <2>2. CASE u + 1 <= z
    <3>1. n * (u + 1) <= n * z /\ n * (u + 1) = n * u + n * 1 /\ n * u \in Int /\ n * 1 = n
      BY <1>6, <2>2, Product
    <3>2. QED
      BY <1>3, <1>6, <1>7, <3>1
  <2>3. CASE z + 1 <= u
    <3>1. n * (z + 1) <= n * u /\ n * (z + 1) = n * z + n * 1 /\ n * u \in Int /\ n * 1 = n
      BY <1>6, <2>3, Product
    <3>2. QED
      BY <1>3, <1>6, <1>7, <3>1
  <2>4. QED
    BY <1>6, <2>1, <2>2, <2>3
<1>9. QED
  BY <1>8 DEF r, a, t

-----------------------------------------------------------------------------
(***************************************************************************)
(* What the steps of the calendar change in its fields                     *)
(***************************************************************************)
Sizes == {n \in Nat : n >= 4}
Width == Nat \ {0}

CalSet(n, w) ==
    [buckets : [0..(n - 1) -> Seq(Entry)], count : [0..(n - 1) -> Int], n : {n}, width : {w},
     last : 0..(n - 1), clock : Nat, stat : Int, size : Int]

TimesOf(S) == {x.time : x \in S}

\* Adding an entry of time t to bucket i, which becomes b; taking one away.
AddedTo(c, i, t, b) == [Counted(c, i, t, 1) EXCEPT !.buckets[i] = b, !.size = @ + 1]
TakenFrom(c, i, t, b) == Counted([c EXCEPT !.buckets[i] = b, !.size = @ - 1], i, t, -1)

LEMMA CalFields ==
    ASSUME NEW n \in Sizes, NEW w \in Width, NEW c \in CalSet(n, w)
    PROVE  /\ c.buckets \in [0..(n - 1) -> Seq(Entry)] /\ c.count \in [0..(n - 1) -> Int]
           /\ c.n = n /\ c.width = w /\ c.last \in 0..(n - 1) /\ c.clock \in Nat
           /\ c.stat \in Int /\ c.size \in Int
BY DEF CalSet

CountedOK(d, c, n, w, i, t, by) ==
    /\ d \in CalSet(n, w) /\ d.buckets = c.buckets /\ d.last = c.last
    /\ d.clock = c.clock /\ d.size = c.size
    /\ t \in TimesOf(Range(c.buckets[i])) => d.stat = c.stat /\ d.count = c.count
    /\ t \notin TimesOf(Range(c.buckets[i])) =>
          /\ d.stat = c.stat + by
          /\ d.count = [c.count EXCEPT ![i] = @ + by]

LEMMA CountedFields ==
    ASSUME NEW n \in Sizes, NEW w \in Width, NEW c \in CalSet(n, w), NEW i \in 0..(n - 1),
           NEW t \in Nat, NEW by \in Int, NEW d, d = Counted(c, i, t, by)
    PROVE  CountedOK(d, c, n, w, i, t, by)
<1> DEFINE b == c.buckets[i]
           seen == \E k \in DOMAIN b : b[k].time = t
<1>1. seen <=> t \in TimesOf(Range(b))
  BY DEF TimesOf, Range
<1>2. CASE seen
  <2>1. d = c
    BY <1>2 DEF Counted
  <2>2. QED
    BY <1>1, <1>2, <2>1 DEF CountedOK
<1>3. CASE ~seen
  <2>1. d = [c EXCEPT !.stat = @ + by, !.count[i] = @ + by]
    BY <1>3 DEF Counted
  <2>2. d.count = [c.count EXCEPT ![i] = @ + by] /\ d.stat = c.stat + by
    BY <2>1 DEF CalSet
  <2>3. /\ d.buckets = c.buckets /\ d.last = c.last
        /\ d.clock = c.clock /\ d.size = c.size /\ d.n = c.n /\ d.width = c.width
    BY <2>1 DEF CalSet
  <2>4. [c.count EXCEPT ![i] = @ + by] \in [0..(n - 1) -> Int] /\ c.stat + by \in Int
    <3>1. c.count \in [0..(n - 1) -> Int] /\ c.stat \in Int
      BY CalFields
    <3>2. c.count[i] + by \in Int
      <4>1. c.count[i] \in Int
        BY <3>1, Zenon
      <4>2. QED
        BY <4>1
    <3>3. [c.count EXCEPT ![i] = @ + by] \in [0..(n - 1) -> Int]
      BY <3>1, <3>2, Zenon
    <3>4. QED
      BY <3>1, <3>3
  <2>5. d \in CalSet(n, w)
    BY <2>1, <2>4 DEF CalSet
  <2>6. QED
    BY <1>1, <1>3, <2>2, <2>3, <2>5 DEF CountedOK
<1>4. QED
  BY <1>2, <1>3

AddedOK(d, c, n, w, i, t, b) ==
    /\ d \in CalSet(n, w) /\ d.buckets = [c.buckets EXCEPT ![i] = b]
    /\ d.last = c.last /\ d.clock = c.clock /\ d.size = c.size + 1
    /\ t \in TimesOf(Range(c.buckets[i])) => d.stat = c.stat /\ d.count = c.count
    /\ t \notin TimesOf(Range(c.buckets[i])) =>
          /\ d.stat = c.stat + 1
          /\ d.count = [c.count EXCEPT ![i] = @ + 1]

LEMMA AddedFields ==
    ASSUME NEW n \in Sizes, NEW w \in Width, NEW c \in CalSet(n, w), NEW i \in 0..(n - 1),
           NEW t \in Nat, NEW b \in Seq(Entry), NEW d, d = AddedTo(c, i, t, b)
    PROVE  AddedOK(d, c, n, w, i, t, b)
<1> DEFINE e == Counted(c, i, t, 1)
<1>1. /\ e \in CalSet(n, w) /\ e.buckets = c.buckets /\ e.last = c.last
      /\ e.clock = c.clock /\ e.size = c.size
      /\ t \in TimesOf(Range(c.buckets[i])) => e.stat = c.stat /\ e.count = c.count
      /\ t \notin TimesOf(Range(c.buckets[i])) =>
            /\ e.stat = c.stat + 1
            /\ e.count = [c.count EXCEPT ![i] = @ + 1]
  <2>1. 1 \in Int /\ e = Counted(c, i, t, 1)
    OBVIOUS
  <2> HIDE DEF e
  <2>2. CountedOK(e, c, n, w, i, t, 1)
    BY <2>1, CountedFields
  <2>3. QED
    BY <2>2 DEF CountedOK
<1>2. d = [e EXCEPT !.buckets[i] = b, !.size = @ + 1]
  BY DEF AddedTo
<1> HIDE DEF e
<1>3. d.buckets = [e.buckets EXCEPT ![i] = b] /\ d.size = e.size + 1
  BY <1>1, <1>2 DEF CalSet
<1>4. d.last = e.last /\ d.clock = e.clock /\ d.stat = e.stat /\ d.count = e.count
  BY <1>1, <1>2 DEF CalSet
<1>5. [e.buckets EXCEPT ![i] = b] \in [0..(n - 1) -> Seq(Entry)] /\ e.size + 1 \in Int
  BY <1>1, CalFields
<1>6. d \in CalSet(n, w)
  BY <1>1, <1>2, <1>5 DEF CalSet
<1>7. QED
  BY <1>1, <1>3, <1>4, <1>6 DEF AddedOK

TakenOK(d, c, n, w, i, t, b) ==
    /\ d \in CalSet(n, w) /\ d.buckets = [c.buckets EXCEPT ![i] = b]
    /\ d.last = c.last /\ d.clock = c.clock /\ d.size = c.size - 1
    /\ t \in TimesOf(Range(b)) => d.stat = c.stat /\ d.count = c.count
    /\ t \notin TimesOf(Range(b)) =>
          /\ d.stat = c.stat - 1
          /\ d.count = [c.count EXCEPT ![i] = @ - 1]

LEMMA TakenFields ==
    ASSUME NEW n \in Sizes, NEW w \in Width, NEW c \in CalSet(n, w), NEW i \in 0..(n - 1),
           NEW t \in Nat, NEW b \in Seq(Entry), NEW d, d = TakenFrom(c, i, t, b)
    PROVE  TakenOK(d, c, n, w, i, t, b)
<1> DEFINE e == [c EXCEPT !.buckets[i] = b, !.size = @ - 1]
<1>1. d = Counted(e, i, t, -1)
  BY DEF TakenFrom
<1>2. e.buckets = [c.buckets EXCEPT ![i] = b] /\ e.size = c.size - 1
  BY DEF CalSet
<1>3. e.last = c.last /\ e.clock = c.clock /\ e.stat = c.stat /\ e.count = c.count
  BY DEF CalSet
<1>4. [c.buckets EXCEPT ![i] = b] \in [0..(n - 1) -> Seq(Entry)] /\ c.size - 1 \in Int
  BY CalFields
<1>5. e \in CalSet(n, w)
  BY <1>4 DEF CalSet
<1>6. e.buckets[i] = b
  <2>1. c.buckets \in [0..(n - 1) -> Seq(Entry)]
    BY CalFields
  <2>2. QED
    BY <1>2, <2>1
<1> HIDE DEF e
<1>7. /\ d \in CalSet(n, w) /\ d.buckets = e.buckets /\ d.last = e.last
      /\ d.clock = e.clock /\ d.size = e.size
      /\ t \in TimesOf(Range(b)) => d.stat = e.stat /\ d.count = e.count
      /\ t \notin TimesOf(Range(b)) =>
            /\ d.stat = e.stat + -1
            /\ d.count = [e.count EXCEPT ![i] = @ + -1]
  <2>1. -1 \in Int
    OBVIOUS
  <2>2. CountedOK(d, e, n, w, i, t, -1)
    BY <1>1, <1>5, <2>1, CountedFields
  <2>3. QED
    BY <1>6, <2>2 DEF CountedOK
<1>8. e.stat + -1 = c.stat - 1 /\ [e.count EXCEPT ![i] = @ + -1] = [c.count EXCEPT ![i] = @ - 1]
  <2>0. c.stat \in Int /\ c.count \in [0..(n - 1) -> Int]
    BY CalFields
  <2>1. c.stat \in Int /\ c.count[i] \in Int
    BY <2>0
  <2>2. c.count[i] + -1 = c.count[i] - 1 /\ c.stat + -1 = c.stat - 1
    BY <2>1
  <2>3. QED
    BY <1>3, <2>2
<1>9. QED
  BY <1>2, <1>3, <1>7, <1>8 DEF TakenOK

-----------------------------------------------------------------------------
(***************************************************************************)
(* The counts of distinct times                                            *)
(***************************************************************************)
BucketOf(n, w, t) == (t \div w) % n

PartOf(n, w, M, i) == {x \in M : BucketOf(n, w, x.time) = i}

CountsOK(c, n, w, M) ==
    /\ c.size = Cardinality(M) /\ c.stat = Cardinality(TimesOf(M))
    /\ \A i \in 0..(n - 1) : c.count[i] = Cardinality(TimesOf(PartOf(n, w, M, i)))

LEMMA BucketType ==
    ASSUME NEW n \in Sizes, NEW w \in Width, NEW t \in Nat
    PROVE  BucketOf(n, w, t) \in 0..(n - 1)
<1>1. n \in Nat \ {0} /\ w \in Nat \ {0}
  BY DEF Sizes, Width
<1>2. t \div w \in Nat
  BY <1>1, Division
<1>3. QED
  BY <1>1, <1>2, Division DEF BucketOf

LEMMA HashIs ==
    ASSUME NEW n \in Sizes, NEW w \in Width, NEW c \in CalSet(n, w), NEW t
    PROVE  Hash(c, t) = BucketOf(n, w, t)
BY CalFields DEF Hash, BucketOf

LEMMA TimesFinite ==
    ASSUME NEW S, IsFiniteSet(S)
    PROVE  IsFiniteSet(TimesOf(S)) /\ Cardinality(TimesOf(S)) \in Nat
<1> DEFINE f == [x \in S |-> x.time]
<1>1. f \in Surjection(S, TimesOf(S))
  BY DEF Surjection, TimesOf
<1>2. QED
  BY <1>1, FS_Surjection, FS_CardinalityType

\* One more entry: its time counts if no other entry of its bucket has it.
Grown(n, w, M, z, i) ==
    LET N == M \cup {z}
        P == PartOf(n, w, M, i)
        seen == z.time \in TimesOf(P)
    IN  /\ IsFiniteSet(N) /\ Cardinality(N) = Cardinality(M) + 1
        /\ PartOf(n, w, N, i) = P \cup {z}
        /\ \A j : j # i => PartOf(n, w, N, j) = PartOf(n, w, M, j)
        /\ Cardinality(TimesOf(N)) =
              IF seen THEN Cardinality(TimesOf(M)) ELSE Cardinality(TimesOf(M)) + 1
        /\ Cardinality(TimesOf(P \cup {z})) =
              IF seen THEN Cardinality(TimesOf(P)) ELSE Cardinality(TimesOf(P)) + 1

LEMMA OneMore ==
    ASSUME NEW n, NEW w, NEW M, IsFiniteSet(M), NEW z, z \notin M,
           NEW i, i = BucketOf(n, w, z.time)
    PROVE  Grown(n, w, M, z, i)
<1> DEFINE N == M \cup {z}
           P == PartOf(n, w, M, i)
<1>1. IsFiniteSet(N) /\ Cardinality(N) = Cardinality(M) + 1
  BY FS_AddElement
<1>2. PartOf(n, w, N, i) = P \cup {z}
  BY DEF PartOf
<1>3. \A j : j # i => PartOf(n, w, N, j) = PartOf(n, w, M, j)
  BY DEF PartOf
<1>4. z.time \in TimesOf(P) <=> z.time \in TimesOf(M)
  <2>1. \A x \in M : x.time = z.time => x \in P
    BY DEF PartOf
  <2>2. P \subseteq M
    BY DEF PartOf
  <2> HIDE DEF P
  <2>3. QED
    BY <2>1, <2>2 DEF TimesOf
<1>5. IsFiniteSet(P)
  <2>1. P \in SUBSET M
    BY DEF PartOf
  <2>2. QED
    BY <2>1, FS_Subset
<1>6. TimesOf(N) = TimesOf(M) \cup {z.time} /\ TimesOf(P \cup {z}) = TimesOf(P) \cup {z.time}
  <2> HIDE DEF P
  <2> QED
    BY DEF TimesOf
<1>7. IsFiniteSet(TimesOf(M)) /\ IsFiniteSet(TimesOf(P))
  BY <1>5, TimesFinite
<1> HIDE DEF N, P
<1>8. Cardinality(TimesOf(M) \cup {z.time}) =
         IF z.time \in TimesOf(M) THEN Cardinality(TimesOf(M)) ELSE Cardinality(TimesOf(M)) + 1
  BY <1>7, FS_AddElement
<1>9. Cardinality(TimesOf(P) \cup {z.time}) =
         IF z.time \in TimesOf(P) THEN Cardinality(TimesOf(P)) ELSE Cardinality(TimesOf(P)) + 1
  BY <1>7, FS_AddElement
<1>10. QED
  BY <1>1, <1>2, <1>3, <1>4, <1>6, <1>8, <1>9 DEF Grown, N, P

LEMMA CountsAdded ==
    ASSUME NEW n \in Sizes, NEW w \in Width, NEW c \in CalSet(n, w),
           NEW M, IsFiniteSet(M), CountsOK(c, n, w, M), NEW z \in Entry, z \notin M,
           NEW i \in 0..(n - 1), i = BucketOf(n, w, z.time), NEW b \in Seq(Entry),
           Range(c.buckets[i]) = PartOf(n, w, M, i),
           NEW d, d = AddedTo(c, i, z.time, b)
    PROVE  CountsOK(d, n, w, M \cup {z})
<1> DEFINE N == M \cup {z}
           P == PartOf(n, w, M, i)
           seen == z.time \in TimesOf(P)
<1>1. /\ Cardinality(N) = Cardinality(M) + 1
      /\ PartOf(n, w, N, i) = P \cup {z}
      /\ \A j : j # i => PartOf(n, w, N, j) = PartOf(n, w, M, j)
      /\ Cardinality(TimesOf(N)) =
            IF seen THEN Cardinality(TimesOf(M)) ELSE Cardinality(TimesOf(M)) + 1
      /\ Cardinality(TimesOf(P \cup {z})) =
            IF seen THEN Cardinality(TimesOf(P)) ELSE Cardinality(TimesOf(P)) + 1
  <2>1. Grown(n, w, M, z, i)
    BY OneMore
  <2>2. QED
    BY <2>1 DEF Grown
<1>2. z.time \in Nat
  BY DEF Entry
<1>3. /\ d.size = c.size + 1
      /\ seen => d.stat = c.stat /\ d.count = c.count
      /\ ~seen => d.stat = c.stat + 1 /\ d.count = [c.count EXCEPT ![i] = @ + 1]
  <2>1. AddedOK(d, c, n, w, i, z.time, b)
    BY <1>2, AddedFields
  <2>2. QED
    BY <2>1 DEF AddedOK
<1> HIDE DEF N, P, seen
<1>4. /\ c.size = Cardinality(M) /\ c.stat = Cardinality(TimesOf(M))
      /\ \A j \in 0..(n - 1) : c.count[j] = Cardinality(TimesOf(PartOf(n, w, M, j)))
  BY DEF CountsOK
<1>5. c.count \in [0..(n - 1) -> Int]
  BY CalFields
<1>6. \A j \in 0..(n - 1) : d.count[j] = IF j = i /\ ~seen THEN c.count[i] + 1 ELSE c.count[j]
  <2>1. CASE seen
    BY <1>3, <2>1
  <2>2. CASE ~seen
    BY <1>3, <1>5, <2>2, Zenon
  <2>3. QED
    BY <2>1, <2>2
<1>7. ASSUME NEW j \in 0..(n - 1) PROVE d.count[j] = Cardinality(TimesOf(PartOf(n, w, N, j)))
  <2>1. CASE j # i
    <3>1. d.count[j] = c.count[j]
      BY <1>6, <2>1
    <3>2. QED
      BY <1>1, <1>4, <2>1, <3>1
  <2>2. CASE j = i
    <3>1. d.count[i] = IF seen THEN c.count[i] ELSE c.count[i] + 1
      BY <1>6, <2>2
    <3>2. c.count[i] = Cardinality(TimesOf(P))
      BY <1>4 DEF P
    <3>3. QED
      BY <1>1, <2>2, <3>1, <3>2
  <2>3. QED
    BY <2>1, <2>2
<1>8. d.size = Cardinality(N) /\ d.stat = Cardinality(TimesOf(N))
  BY <1>1, <1>3, <1>4
<1>9. QED
  BY <1>7, <1>8 DEF CountsOK, N

LEMMA CountsTaken ==
    ASSUME NEW n \in Sizes, NEW w \in Width, NEW c \in CalSet(n, w),
           NEW M, IsFiniteSet(M), CountsOK(c, n, w, M), NEW z \in Entry, z \in M,
           NEW i \in 0..(n - 1), i = BucketOf(n, w, z.time), NEW b \in Seq(Entry),
           Range(b) = PartOf(n, w, M \ {z}, i),
           NEW d, d = TakenFrom(c, i, z.time, b)
    PROVE  CountsOK(d, n, w, M \ {z})
<1> DEFINE N == M \ {z}
           P == PartOf(n, w, N, i)
           seen == z.time \in TimesOf(P)
<1>1. IsFiniteSet(N) /\ z \notin N /\ N \cup {z} = M
  BY FS_RemoveElement
<1> HIDE DEF N
<1>2. /\ Cardinality(M) = Cardinality(N) + 1
      /\ PartOf(n, w, M, i) = P \cup {z}
      /\ \A j : j # i => PartOf(n, w, M, j) = PartOf(n, w, N, j)
      /\ Cardinality(TimesOf(M)) =
            IF seen THEN Cardinality(TimesOf(N)) ELSE Cardinality(TimesOf(N)) + 1
      /\ Cardinality(TimesOf(P \cup {z})) =
            IF seen THEN Cardinality(TimesOf(P)) ELSE Cardinality(TimesOf(P)) + 1
  <2>1. Grown(n, w, N, z, i)
    BY <1>1, OneMore
  <2>2. QED
    BY <1>1, <2>1 DEF Grown
<1>3. z.time \in Nat
  BY DEF Entry
<1>4. /\ d.size = c.size - 1
      /\ seen => d.stat = c.stat /\ d.count = c.count
      /\ ~seen => d.stat = c.stat - 1 /\ d.count = [c.count EXCEPT ![i] = @ - 1]
  <2>1. TakenOK(d, c, n, w, i, z.time, b)
    BY <1>3, TakenFields
  <2>2. QED
    BY <2>1 DEF TakenOK, N
<1>5. /\ Cardinality(N) \in Nat /\ Cardinality(TimesOf(N)) \in Nat
      /\ Cardinality(TimesOf(P)) \in Nat
  <2>1. P \in SUBSET N
    BY DEF PartOf
  <2> HIDE DEF P
  <2>2. IsFiniteSet(P)
    BY <1>1, <2>1, FS_Subset
  <2>3. QED
    BY <1>1, <2>2, TimesFinite, FS_CardinalityType
<1> HIDE DEF P, seen
<1>6. /\ c.size = Cardinality(M) /\ c.stat = Cardinality(TimesOf(M))
      /\ \A j \in 0..(n - 1) : c.count[j] = Cardinality(TimesOf(PartOf(n, w, M, j)))
  BY DEF CountsOK
<1>7. c.count \in [0..(n - 1) -> Int]
  BY CalFields
<1>8. \A j \in 0..(n - 1) : d.count[j] = IF j = i /\ ~seen THEN c.count[i] - 1 ELSE c.count[j]
  <2>1. CASE seen
    BY <1>4, <2>1
  <2>2. CASE ~seen
    BY <1>4, <1>7, <2>2, Zenon
  <2>3. QED
    BY <2>1, <2>2
<1>9. ASSUME NEW j \in 0..(n - 1) PROVE d.count[j] = Cardinality(TimesOf(PartOf(n, w, N, j)))
  <2>1. CASE j # i
    <3>1. d.count[j] = c.count[j]
      BY <1>8, <2>1
    <3>2. QED
      BY <1>2, <1>6, <2>1, <3>1
  <2>2. CASE j = i
    <3>1. d.count[i] = IF seen THEN c.count[i] ELSE c.count[i] - 1
      BY <1>8, <2>2
    <3>2. c.count[i] = IF seen THEN Cardinality(TimesOf(P)) ELSE Cardinality(TimesOf(P)) + 1
      BY <1>2, <1>6
    <3>3. d.count[i] = Cardinality(TimesOf(P))
      BY <1>5, <3>1, <3>2
    <3>4. QED
      BY <2>2, <3>3 DEF P
  <2>3. QED
    BY <2>1, <2>2
<1>10. d.size = Cardinality(N) /\ d.stat = Cardinality(TimesOf(N))
  BY <1>2, <1>4, <1>5, <1>6
<1>11. QED
  BY <1>9, <1>10 DEF CountsOK, N

-----------------------------------------------------------------------------
(***************************************************************************)
(* The buckets hold the entries M of the list, in its order                *)
(***************************************************************************)
Agrees(b, q, P) ==
    Range(b) = P /\ \A x, y \in P : Before(b, x, y) <=> Before(q, x, y)

CalHolds(c, n, w, q, M) ==
    /\ c \in CalSet(n, w)
    /\ \A i \in 0..(n - 1) : Agrees(c.buckets[i], q, PartOf(n, w, M, i))
    /\ CountsOK(c, n, w, M)
    /\ c.last = BucketOf(n, w, c.clock)
    /\ \A x \in M : c.clock <= x.time

\* Two lists have the entries M in the same order.
SameOrder(s, q, M) == \A x, y \in M : Before(s, x, y) <=> Before(q, x, y)

List(q) == q \in Seq(Entry) /\ OneEach(q) /\ InOrder(q)

\* A bucket is itself a list.
LEMMA BucketIsList ==
    ASSUME NEW q, List(q), NEW b \in Seq(Entry), NEW P \in SUBSET Range(q), Agrees(b, q, P)
    PROVE  List(b)
<1>1. /\ DOMAIN b = 1..Len(b) /\ Len(b) \in Nat
      /\ \A k \in 1..Len(b) : b[k] \in P /\ b[k] \in Range(q)
  BY InRange DEF Agrees
<1>2. q \in Seq(Entry) /\ OneEach(q) /\ InOrder(q)
  BY DEF List
<1>3. ASSUME NEW k \in 1..Len(b), NEW m \in 1..Len(b), k < m PROVE Before(q, b[k], b[m])
  <2>1. Before(b, b[k], b[m])
    BY <1>1, <1>3 DEF Before
  <2>2. QED
    BY <1>1, <2>1 DEF Agrees
<1>4. OneEach(b)
  <2> SUFFICES ASSUME NEW k \in 1..Len(b), NEW m \in 1..Len(b), b[k].ev = b[m].ev
               PROVE  k = m
    BY <1>1 DEF OneEach
  <2>1. b[k] = b[m]
    BY <1>1, <1>2, BeforeOrder
  <2>2. ~Before(q, b[k], b[m]) /\ ~Before(q, b[m], b[k])
    BY <1>1, <1>2, <2>1, BeforeOrder
  <2>3. ~(k < m) /\ ~(m < k)
    BY <1>3, <2>2
  <2>4. QED
    BY <1>1, <2>3
<1>5. InOrder(b)
  <2> SUFFICES ASSUME NEW k \in 1..Len(b), NEW m \in 1..Len(b), k < m
               PROVE  b[k].time <= b[m].time
    BY <1>1 DEF InOrder
  <2>1. QED
    BY <1>1, <1>2, <1>3, BeforeOrder
<1>6. QED
  BY <1>4, <1>5 DEF List

\* The first entry of a bucket and the rest of it.
LEMMA BucketHead ==
    ASSUME NEW q, List(q), NEW b \in Seq(Entry), NEW P \in SUBSET Range(q), Agrees(b, q, P),
           NEW g \in P, \A x \in P : x # g => Before(q, g, x)
    PROVE  /\ b # <<>> /\ Head(b) = g
           /\ Tail(b) \in Seq(Entry) /\ Agrees(Tail(b), q, P \ {g})
<1>1. b \in Seq(Entry) /\ OneEach(b)
  BY BucketIsList DEF List
<1>2. PICK k \in 1..Len(b) : g = b[k]
  BY InRange DEF Agrees
<1>3. b # <<>>
  BY <1>2
<1>4. /\ Tail(b) \in Seq(Entry) /\ Range(Tail(b)) = P \ {Head(b)} /\ Head(b) \in P
      /\ \A x, y \in Range(Tail(b)) : Before(Tail(b), x, y) <=> Before(b, x, y)
      /\ \A x \in P : x # Head(b) => Before(b, Head(b), x)
  BY <1>1, <1>3, TailOrder DEF Agrees
<1>5. Head(b) = g
  <2> SUFFICES ASSUME Head(b) # g PROVE FALSE
    OBVIOUS
  <2>1. Before(q, Head(b), g) /\ Before(q, g, Head(b))
    BY <1>4 DEF Agrees
  <2>2. QED
    BY <1>4, <2>1, BeforeOrder DEF List
<1>6. Agrees(Tail(b), q, P \ {g})
  BY <1>4, <1>5 DEF Agrees
<1>7. QED
  BY <1>3, <1>4, <1>5, <1>6

\* An entry z is added to its bucket, and the list becomes s.
Adds(c, d, n, w, q, s, M, z, b) ==
    LET i == BucketOf(n, w, z.time)
    IN  /\ CalHolds(c, n, w, q, M) /\ IsFiniteSet(M) /\ z \in Entry
        /\ z \notin M /\ c.clock <= z.time
        /\ SameOrder(s, q, M)
        /\ b \in Seq(Entry) /\ Agrees(b, s, PartOf(n, w, M, i) \cup {z})
        /\ d = AddedTo(c, i, z.time, b)

LEMMA HoldsAdded ==
    ASSUME NEW n \in Sizes, NEW w \in Width, NEW c, NEW d, NEW q, NEW s, NEW M, NEW z, NEW b,
           Adds(c, d, n, w, q, s, M, z, b)
    PROVE  CalHolds(d, n, w, s, M \cup {z}) /\ d.clock = c.clock
<1> DEFINE i == BucketOf(n, w, z.time)
<1>0. /\ CalHolds(c, n, w, q, M) /\ IsFiniteSet(M) /\ z \in Entry
      /\ z \notin M /\ c.clock <= z.time
      /\ SameOrder(s, q, M)
      /\ b \in Seq(Entry) /\ Agrees(b, s, PartOf(n, w, M, i) \cup {z})
      /\ d = AddedTo(c, i, z.time, b) /\ i = BucketOf(n, w, z.time)
  BY DEF Adds
<1> HIDE DEF i
<1> DEFINE N == M \cup {z}
<1>1. z.time \in Nat
  BY <1>0 DEF Entry
<1>2. i \in 0..(n - 1)
  BY <1>0, <1>1, BucketType
<1>3. /\ c \in CalSet(n, w) /\ CountsOK(c, n, w, M) /\ c.last = BucketOf(n, w, c.clock)
      /\ (\A x \in M : c.clock <= x.time)
      /\ \A j \in 0..(n - 1) : Agrees(c.buckets[j], q, PartOf(n, w, M, j))
  BY <1>0 DEF CalHolds
<1>4. AddedOK(d, c, n, w, i, z.time, b)
  BY <1>0, <1>1, <1>2, <1>3, AddedFields
<1>5. /\ d \in CalSet(n, w) /\ d.buckets = [c.buckets EXCEPT ![i] = b]
      /\ d.last = c.last /\ d.clock = c.clock
  BY <1>4 DEF AddedOK
<1>6. CountsOK(d, n, w, N)
  <2>1. Range(c.buckets[i]) = PartOf(n, w, M, i)
    BY <1>2, <1>3 DEF Agrees
  <2>2. QED
    BY <1>0, <1>2, <1>3, <2>1, CountsAdded
<1>7. c.buckets \in [0..(n - 1) -> Seq(Entry)]
  BY <1>3, CalFields
<1>8. /\ PartOf(n, w, N, i) = PartOf(n, w, M, i) \cup {z}
      /\ \A j : j # i => PartOf(n, w, N, j) = PartOf(n, w, M, j)
  <2>1. Grown(n, w, M, z, i)
    BY <1>0, OneMore
  <2>2. QED
    BY <2>1 DEF Grown
<1>9. ASSUME NEW j \in 0..(n - 1) PROVE Agrees(d.buckets[j], s, PartOf(n, w, N, j))
  <2>1. CASE j = i
    <3>1. d.buckets[j] = b
      BY <1>2, <1>5, <1>7, <2>1, Zenon
    <3>2. QED
      BY <1>0, <1>8, <2>1, <3>1
  <2>2. CASE j # i
    <3>1. d.buckets[j] = c.buckets[j]
      BY <1>5, <1>7, <2>2, Zenon
    <3>2. Agrees(c.buckets[j], s, PartOf(n, w, M, j))
      <4>1. PartOf(n, w, M, j) \subseteq M
        BY DEF PartOf
      <4>2. QED
        BY <1>0, <1>3, <4>1 DEF Agrees, SameOrder
    <3>3. QED
      BY <1>8, <2>2, <3>1, <3>2
  <2>3. QED
    BY <2>1, <2>2
<1>10. \A x \in N : d.clock <= x.time
  BY <1>0, <1>3, <1>5
<1>11. QED
  BY <1>3, <1>5, <1>6, <1>9, <1>10 DEF CalHolds

Takes(c, d, n, w, q, s, M, z, b) ==
    LET i == BucketOf(n, w, z.time)
    IN  /\ CalHolds(c, n, w, q, M) /\ IsFiniteSet(M) /\ z \in Entry
        /\ z \in M
        /\ SameOrder(s, q, M \ {z})
        /\ b \in Seq(Entry) /\ Agrees(b, s, PartOf(n, w, M, i) \ {z})
        /\ d = TakenFrom(c, i, z.time, b)

LEMMA HoldsTaken ==
    ASSUME NEW n \in Sizes, NEW w \in Width, NEW c, NEW d, NEW q, NEW s, NEW M, NEW z, NEW b,
           Takes(c, d, n, w, q, s, M, z, b)
    PROVE  CalHolds(d, n, w, s, M \ {z}) /\ d.clock = c.clock
<1> DEFINE i == BucketOf(n, w, z.time)
<1>0. /\ CalHolds(c, n, w, q, M) /\ IsFiniteSet(M) /\ z \in Entry
      /\ z \in M
      /\ SameOrder(s, q, M \ {z})
      /\ b \in Seq(Entry) /\ Agrees(b, s, PartOf(n, w, M, i) \ {z})
      /\ d = TakenFrom(c, i, z.time, b) /\ i = BucketOf(n, w, z.time)
  BY DEF Takes
<1> HIDE DEF i
<1> DEFINE N == M \ {z}
<1>1. z.time \in Nat
  BY <1>0 DEF Entry
<1>2. i \in 0..(n - 1)
  BY <1>0, <1>1, BucketType
<1>3. /\ c \in CalSet(n, w) /\ CountsOK(c, n, w, M) /\ c.last = BucketOf(n, w, c.clock)
      /\ (\A x \in M : c.clock <= x.time)
      /\ \A j \in 0..(n - 1) : Agrees(c.buckets[j], q, PartOf(n, w, M, j))
  BY <1>0 DEF CalHolds
<1>4. TakenOK(d, c, n, w, i, z.time, b)
  BY <1>0, <1>1, <1>2, <1>3, TakenFields
<1>5. /\ d \in CalSet(n, w) /\ d.buckets = [c.buckets EXCEPT ![i] = b]
      /\ d.last = c.last /\ d.clock = c.clock
  BY <1>4 DEF TakenOK
<1>6. /\ PartOf(n, w, N, i) = PartOf(n, w, M, i) \ {z}
      /\ \A j : j # i => PartOf(n, w, N, j) = PartOf(n, w, M, j)
  BY <1>0 DEF PartOf
<1>7. CountsOK(d, n, w, N)
  <2>1. Range(b) = PartOf(n, w, N, i)
    BY <1>0, <1>6 DEF Agrees
  <2>2. QED
    BY <1>0, <1>2, <1>3, <2>1, CountsTaken
<1>8. c.buckets \in [0..(n - 1) -> Seq(Entry)]
  BY <1>3, CalFields
<1>9. ASSUME NEW j \in 0..(n - 1) PROVE Agrees(d.buckets[j], s, PartOf(n, w, N, j))
  <2>1. CASE j = i
    <3>1. d.buckets[j] = b
      BY <1>2, <1>5, <1>8, <2>1, Zenon
    <3>2. QED
      BY <1>0, <1>6, <2>1, <3>1
  <2>2. CASE j # i
    <3>1. d.buckets[j] = c.buckets[j]
      BY <1>5, <1>8, <2>2, Zenon
    <3>2. Agrees(c.buckets[j], s, PartOf(n, w, N, j))
      <4>1. PartOf(n, w, N, j) \subseteq N /\ PartOf(n, w, N, j) = PartOf(n, w, M, j)
        BY <1>6, <2>2 DEF PartOf
      <4>2. QED
        BY <1>0, <1>3, <4>1 DEF Agrees, SameOrder
    <3>3. QED
      BY <3>1, <3>2
  <2>3. QED
    BY <2>1, <2>2
<1>10. \A x \in N : d.clock <= x.time
  BY <1>0, <1>3, <1>5
<1>11. QED
  BY <1>3, <1>5, <1>7, <1>9, <1>10 DEF CalHolds

-----------------------------------------------------------------------------
(***************************************************************************)
(* insert2                                                                 *)
(***************************************************************************)
\* The loop of insert2 finds a place, in any bucket.
LEMMA Place2Found ==
    ASSUME NEW b \in Seq(Entry), NEW t \in Nat
    PROVE  LET p == Place2(b, t)
           IN  /\ p \in 1..(Len(b) + 1)
               /\ \A i \in 1..(p - 1) : b[i].time < t
               /\ p <= Len(b) => t <= b[p].time
<1> DEFINE S == {p \in 1..(Len(b) + 1) : p <= Len(b) => t <= b[p].time}
<1>1. S \subseteq Nat /\ S # {}
  <2>1. Len(b) + 1 \in S
    OBVIOUS
  <2>2. QED
    BY <2>1
<1>2. PICK p \in S : \A y \in S : p <= y
  BY <1>1, LeastPosition
<1>3. \A i \in 1..(p - 1) : b[i].time < t
  <2> SUFFICES ASSUME NEW i \in 1..(p - 1)
               PROVE  b[i].time < t
    OBVIOUS
  <2>1. i \notin S /\ i \in 1..Len(b)
    BY <1>2
  <2>2. b[i] \in Entry
    BY <2>1
  <2>3. b[i].time \in Nat
    BY <2>2 DEF Entry
  <2>4. QED
    BY <2>1, <2>3
<1>4. QED
  BY <1>2, <1>3 DEF Place2

LEMMA InsertedAtType ==
    ASSUME NEW b \in Seq(Entry), NEW p \in 1..(Len(b) + 1), NEW x \in Entry
    PROVE  InsertedAt(b, p, x) \in Seq(Entry)
<1>1. \A i \in 1..(Len(b) + 1) : (IF i < p THEN b[i] ELSE IF i = p THEN x ELSE b[i - 1]) \in Entry
  OBVIOUS
<1>2. InsertedAt(b, p, x) \in [1..(Len(b) + 1) -> Entry] /\ Len(b) + 1 \in Nat
  BY <1>1 DEF InsertedAt
<1>3. QED
  BY <1>2

LEMMA Insert2Is ==
    ASSUME NEW n \in Sizes, NEW w \in Width, NEW c \in CalSet(n, w), NEW x \in Entry,
           NEW i, i = BucketOf(n, w, x.time), NEW b, b = c.buckets[i]
    PROVE  /\ i \in 0..(n - 1) /\ b \in Seq(Entry) /\ x.time \in Nat
           /\ Insert2(c, x) = AddedTo(c, i, x.time, InsertedAt(b, Place2(b, x.time), x))
<1>1. x.time \in Nat
  BY DEF Entry
<1>2. i \in 0..(n - 1) /\ i = Hash(c, x.time)
  BY <1>1, BucketType, HashIs
<1>3. b \in Seq(Entry)
  <2>1. c.buckets \in [0..(n - 1) -> Seq(Entry)]
    BY CalFields
  <2>2. QED
    BY <1>2, <2>1, Zenon
<1> DEFINE e == Counted(c, i, x.time, 1)
<1>4. e.buckets = c.buckets
  BY DEF Counted, CalSet
<1>5. Insert2(c, x) = [e EXCEPT
         !.buckets[i] = InsertedAt(e.buckets[i], Place2(e.buckets[i], x.time), x), !.size = @ + 1]
  BY <1>2 DEF Insert2
<1> HIDE DEF e
<1>6. QED
  BY <1>1, <1>2, <1>3, <1>4, <1>5 DEF AddedTo, e

LEMMA Insert2Type ==
    ASSUME NEW n \in Sizes, NEW w \in Width, NEW c \in CalSet(n, w), NEW x \in Entry
    PROVE  Insert2(c, x) \in CalSet(n, w)
<1> DEFINE i == BucketOf(n, w, x.time)
           b == c.buckets[i]
           a == InsertedAt(b, Place2(b, x.time), x)
<1>1. i = BucketOf(n, w, x.time) /\ b = c.buckets[i]
  OBVIOUS
<1> HIDE DEF i, b
<1>2. /\ i \in 0..(n - 1) /\ b \in Seq(Entry) /\ x.time \in Nat
      /\ Insert2(c, x) = AddedTo(c, i, x.time, a)
  BY <1>1, Insert2Is
<1>3. a \in Seq(Entry)
  BY <1>2, Place2Found, InsertedAtType
<1> HIDE DEF a
<1>4. AddedOK(Insert2(c, x), c, n, w, i, x.time, a)
  BY <1>2, <1>3, AddedFields
<1>5. QED
  BY <1>4 DEF AddedOK

\* insert2 of an entry that comes before those of its time: what resize relies on.
LEMMA Insert2Holds ==
    ASSUME NEW n \in Sizes, NEW w \in Width, NEW q, List(q), NEW M \in SUBSET Range(q),
           IsFiniteSet(M), NEW c, CalHolds(c, n, w, q, M), NEW z \in Range(q), z \notin M,
           c.clock <= z.time, \A y \in M : y.time = z.time => Before(q, z, y)
    PROVE  /\ CalHolds(Insert2(c, z), n, w, q, M \cup {z})
           /\ Insert2(c, z).clock = c.clock
<1> DEFINE i == BucketOf(n, w, z.time)
           b == c.buckets[i]
           p == Place2(b, z.time)
           a == InsertedAt(b, p, z)
           P == PartOf(n, w, M, i)
<1>1. z \in Entry /\ q \in Seq(Entry) /\ OneEach(q) /\ InOrder(q) /\ c \in CalSet(n, w)
  BY InRange DEF List, CalHolds
<1>2. i = BucketOf(n, w, z.time) /\ b = c.buckets[i]
  OBVIOUS
<1> HIDE DEF i, b
<1>3. /\ i \in 0..(n - 1) /\ b \in Seq(Entry) /\ z.time \in Nat
      /\ Insert2(c, z) = AddedTo(c, i, z.time, a)
  BY <1>1, <1>2, Insert2Is
<1>4. P \subseteq M /\ P \in SUBSET Range(q) /\ Agrees(b, q, P)
  BY <1>2, <1>3 DEF CalHolds, PartOf
<1>5. List(b)
  BY <1>3, <1>4, BucketIsList
<1>6. /\ p \in 1..(Len(b) + 1)
      /\ \A k \in 1..(p - 1) : b[k].time < z.time
      /\ p <= Len(b) => z.time <= b[p].time
  BY <1>3, Place2Found
<1> HIDE DEF p, P
<1>7. Range(b) = P
  BY <1>4 DEF Agrees
<1>8. z.ev \notin Queued(b)
  <2> SUFFICES ASSUME NEW k \in DOMAIN b, b[k].ev = z.ev PROVE FALSE
    BY DEF Queued
  <2>1. b[k] \in P /\ b[k] \in Range(q)
    BY <1>4, <1>7 DEF Range
  <2>2. b[k] = z
    BY <1>1, <2>1, BeforeOrder
  <2>3. QED
    BY <1>4, <2>1, <2>2
<1>9. /\ a \in Seq(Entry) /\ OneEach(a) /\ Range(a) = P \cup {z} /\ z \notin P
      /\ \A x, y \in P : Before(a, x, y) <=> Before(b, x, y)
      /\ \A k \in 1..Len(b) : Before(a, b[k], z) <=> k < p
      /\ \A k \in 1..Len(b) : Before(a, z, b[k]) <=> k >= p
  BY <1>1, <1>3, <1>5, <1>6, <1>7, <1>8, InsertedAtFacts DEF List
<1> HIDE DEF a
<1>10. ASSUME NEW x \in P
       PROVE  (Before(a, x, z) <=> Before(q, x, z)) /\ (Before(a, z, x) <=> Before(q, z, x))
  <2>1. PICK k \in 1..Len(b) : x = b[k]
    BY <1>3, <1>7, InRange
  <2>2. x \in Range(q) /\ x \in M /\ x # z /\ x \in Entry
    BY <1>1, <1>4, InRange
  <2>3. x.time \in Nat /\ z.time \in Nat /\ Len(b) \in Nat
    BY <1>3, <2>2 DEF Entry
  <2>4. /\ Before(q, x, z) => ~Before(q, z, x)
        /\ Before(q, x, z) \/ Before(q, z, x)
        /\ Before(q, x, z) => x.time <= z.time
        /\ Before(q, z, x) => z.time <= x.time
    BY <1>1, <2>2, BeforeOrder
  <2>5. CASE k < p
    <3>1. x.time < z.time
      BY <1>6, <2>1, <2>5
    <3>2. Before(q, x, z) /\ ~Before(q, z, x)
      BY <2>3, <2>4, <3>1
    <3>3. Before(a, x, z) /\ ~Before(a, z, x)
      BY <1>6, <1>9, <2>1, <2>5
    <3>4. QED
      BY <3>2, <3>3
  <2>6. CASE k >= p
    <3>1. p \in 1..Len(b) /\ z.time <= b[p].time
      BY <1>6, <2>3, <2>6
    <3>2. b[p].time <= x.time /\ b[p].time \in Nat
      <4>1. DOMAIN b = 1..Len(b) /\ b[p] \in Entry
        BY <1>3, <3>1
      <4>2. b[p].time \in Nat
        BY <4>1 DEF Entry
      <4>3. CASE p = k
        <5>1. b[p].time = x.time
          BY <2>1, <4>3
        <5>2. QED
          BY <4>2, <5>1
      <4>4. CASE p # k
        BY <1>5, <1>6, <2>1, <2>6, <3>1, <4>1, <4>2, <4>4 DEF List, InOrder
      <4>5. QED
        BY <4>2, <4>3, <4>4
    <3>3. z.time <= x.time
      BY <2>3, <3>1, <3>2
    <3>4. Before(q, z, x) /\ ~Before(q, x, z)
      <4>1. CASE x.time = z.time
        BY <2>2, <2>4, <4>1
      <4>2. CASE x.time # z.time
        BY <2>3, <2>4, <3>3, <4>2
      <4>3. QED
        BY <4>1, <4>2
    <3>5. Before(a, z, x) /\ ~Before(a, x, z)
      BY <1>6, <1>9, <2>1, <2>6
    <3>6. QED
      BY <3>4, <3>5
  <2>7. QED
    BY <1>6, <2>5, <2>6
<1>11. ~Before(a, z, z) /\ ~Before(q, z, z)
  <2>1. z \in Range(a)
    BY <1>9
  <2>2. QED
    BY <1>1, <1>9, <2>1, BeforeOrder
<1>12. Agrees(a, q, P \cup {z})
  <2> SUFFICES ASSUME NEW x \in P \cup {z}, NEW y \in P \cup {z}
               PROVE  Before(a, x, y) <=> Before(q, x, y)
    BY <1>9 DEF Agrees
  <2>1. CASE x \in P /\ y \in P
    BY <1>4, <1>9, <2>1 DEF Agrees
  <2>2. CASE x = z \/ y = z
    BY <1>10, <1>11, <2>2
  <2>3. QED
    BY <2>1, <2>2
<1>13. SameOrder(q, q, M)
  BY DEF SameOrder
<1>14. Agrees(a, q, PartOf(n, w, M, i) \cup {z})
  BY <1>12 DEF P
<1>15. Adds(c, Insert2(c, z), n, w, q, q, M, z, a)
  BY <1>1, <1>2, <1>3, <1>9, <1>13, <1>14 DEF Adds
<1>16. QED
  BY <1>15, HoldsAdded

-----------------------------------------------------------------------------
(***************************************************************************)
(* resize                                                                  *)
(***************************************************************************)
\* f goes from s in steps of F, N times.
Steps(f, F, s, S, N) ==
    f \in [0..N -> S] /\ f[0] = s /\ \A k \in 1..N : f[k] = F[<<k - 1, f[k - 1]>>]

LEMMA StepsThere ==
    ASSUME NEW S, NEW F, StepFunction(F, S), NEW s \in S, NEW N \in Nat
    PROVE  \E f : Steps(f, F, s, S, N)
<1>1. PICK h : Iterates(h, F, s, S)
  BY Iteration, Zenon
<1>2. h \in [Nat -> S] /\ h[0] = s /\ \A n \in Nat : h[n + 1] = F[<<n, h[n]>>]
  BY <1>1 DEF Iterates
<1> DEFINE f == [k \in 0..N |-> h[k]]
<1>3. f \in [0..N -> S] /\ f[0] = s
  BY <1>2
<1>4. ASSUME NEW k \in 1..N PROVE f[k] = F[<<k - 1, f[k - 1]>>]
  <2>1. k - 1 \in Nat /\ (k - 1) + 1 = k /\ k \in 0..N /\ k - 1 \in 0..N
    OBVIOUS
  <2>2. h[k] = F[<<k - 1, h[k - 1]>>]
    BY <1>2, <2>1
  <2>3. QED
    BY <2>1, <2>2
<1>5. Steps(f, F, s, S, N)
  BY <1>3, <1>4 DEF Steps
<1>6. QED
  BY <1>5

\* g: the calendar after each insert2 of the loop that empties b.
Empties(g, c, b, n, w) ==
    /\ g \in [0..Len(b) -> CalSet(n, w)] /\ g[0] = c /\ g[Len(b)] = Emptied(c, b)
    /\ \A k \in 1..Len(b) : g[k] = Insert2(g[k - 1], b[Len(b) - k + 1])

LEMMA EmptiedSteps ==
    ASSUME NEW n \in Sizes, NEW w \in Width, NEW c \in CalSet(n, w), NEW b \in Seq(Entry)
    PROVE  \E g : Empties(g, c, b, n, w)
<1> DEFINE N == Len(b)
           S == CalSet(n, w)
           F == [p \in Nat \X S |->
                   IF p[1] < N THEN Insert2(p[2], b[N - (p[1] + 1) + 1]) ELSE p[2]]
<1>1. N \in Nat /\ \A j \in 1..N : b[j] \in Entry
  OBVIOUS
<1>2. \A x \in S, e \in Entry : Insert2(x, e) \in S
  BY Insert2Type
<1> HIDE DEF N, S
<1>3. StepFunction(F, S)
  <2>1. ASSUME NEW p \in Nat \X S
        PROVE  (IF p[1] < N THEN Insert2(p[2], b[N - (p[1] + 1) + 1]) ELSE p[2]) \in S
    <3>1. p[1] \in Nat /\ p[2] \in S
      OBVIOUS
    <3>2. CASE p[1] < N
      <4>1. N - (p[1] + 1) + 1 \in 1..N
        BY <1>1, <3>1, <3>2
      <4>2. QED
        BY <1>1, <1>2, <3>1, <3>2, <4>1
    <3>3. QED
      BY <3>1, <3>2
  <2>2. QED
    BY <2>1 DEF StepFunction
<1>4. c \in S
  BY DEF S
<1>5. \A m \in Nat, x \in S :
         m < N => F[<<m, x>>] = Insert2(x, b[N - (m + 1) + 1])
  OBVIOUS
<1> HIDE DEF F
<1>6. PICK f : Steps(f, F, c, S, N)
  BY <1>1, <1>3, <1>4, StepsThere, Zenon
<1>7. /\ f \in [0..N -> S] /\ f[0] = c
      /\ \A k \in 1..N : f[k] = F[<<k - 1, f[k - 1]>>]
  BY <1>6 DEF Steps
<1>8. ASSUME NEW k \in 1..N PROVE f[k] = Insert2(f[k - 1], b[N - k + 1])
  <2>1. k - 1 \in Nat /\ k - 1 < N /\ (k - 1) + 1 = k /\ k - 1 \in 0..N
    BY <1>1
  <2>2. f[k - 1] \in S
    BY <1>7, <2>1
  <2>3. QED
    BY <1>5, <1>7, <2>1, <2>2
<1> DEFINE Eq(u) == u = [k \in 0..N |-> IF k = 0 THEN c ELSE Insert2(u[k - 1], b[N - k + 1])]
           g == CHOOSE u : Eq(u)
<1>9. Eq(f)
  <2>1. f = [k \in 0..N |-> f[k]]
    BY <1>7
  <2>2. \A k \in 0..N : f[k] = IF k = 0 THEN c ELSE Insert2(f[k - 1], b[N - k + 1])
    BY <1>1, <1>7, <1>8
  <2>3. QED
    BY <2>1, <2>2
<1>10. Eq(g)
  BY <1>9, Zenon
<1>11. Emptied(c, b) = g[N]
  BY DEF Emptied, N
<1> HIDE DEF g
<1>12. /\ \A k \in 0..N : g[k] = IF k = 0 THEN c ELSE Insert2(g[k - 1], b[N - k + 1])
       /\ g = [k \in 0..N |-> g[k]]
  BY <1>10
<1>13. g[0] = c /\ \A k \in 1..N : g[k] = Insert2(g[k - 1], b[N - k + 1])
  BY <1>1, <1>12
<1>14. \A k \in 0..N : g[k] \in S
  <2> DEFINE K == {k \in Nat : k <= N => g[k] \in S}
  <2>1. 0 \in K
    BY <1>4, <1>13
  <2>2. ASSUME NEW k \in Nat, k \in K PROVE k + 1 \in K
    <3> SUFFICES ASSUME k + 1 <= N PROVE g[k + 1] \in S
      OBVIOUS
    <3>1. k + 1 \in 1..N /\ (k + 1) - 1 = k /\ N - (k + 1) + 1 \in 1..N /\ k <= N
      BY <1>1
    <3>2. g[k] \in S
      BY <2>2, <3>1
    <3>3. QED
      BY <1>1, <1>2, <1>13, <3>1, <3>2
  <2>3. Nat \subseteq K
    <3> HIDE DEF K
    <3> QED
      BY <2>1, <2>2, InductionSet
  <2>4. QED
    BY <1>1, <2>3
<1>15. g \in [0..N -> S]
  BY <1>12, <1>14
<1>16. Empties(g, c, b, n, w)
  BY <1>11, <1>13, <1>15 DEF Empties, N, S
<1>17. QED
  BY <1>16

LEMMA RangeFinite ==
    ASSUME NEW q, List(q)
    PROVE  IsFiniteSet(Range(q)) /\ Cardinality(Range(q)) = Len(q)
<1> DEFINE N == Len(q)
           f == [i \in 1..N |-> q[i]]
<1>1. N \in Nat /\ DOMAIN q = 1..N /\ Range(q) = {q[i] : i \in 1..N}
  BY DEF Range, List
<1>2. \A i, j \in 1..N : q[i] = q[j] => i = j
  BY <1>1 DEF List, OneEach
<1> HIDE DEF N
<1>3. f \in [1..N -> Range(q)] /\ \A i \in 1..N : f[i] = q[i]
  BY <1>1
<1> HIDE DEF f
<1>4. IsFiniteSet(1..N) /\ Cardinality(1..N) = N
  <2>1. 1 \in Int /\ N \in Int
    BY <1>1
  <2>2. IsFiniteSet(1..N) /\ Cardinality(1..N) = (IF 1 > N THEN 0 ELSE N - 1 + 1)
    BY <2>1, FS_Interval
  <2>3. QED
    BY <1>1, <2>2
<1>5. (\A x, y \in 1..N : f[x] = f[y] => x = y) /\ (\A t \in Range(q) : \E x \in 1..N : f[x] = t)
  BY <1>1, <1>2, <1>3
<1>6. QED
  BY <1>3, <1>4, <1>5, SameCount DEF N

LEMMA EmptiedType ==
    ASSUME NEW n \in Sizes, NEW w \in Width, NEW c \in CalSet(n, w), NEW b \in Seq(Entry)
    PROVE  Emptied(c, b) \in CalSet(n, w)
<1>1. PICK g : Empties(g, c, b, n, w)
  BY EmptiedSteps
<1>2. Len(b) \in 0..Len(b)
  OBVIOUS
<1>3. QED
  BY <1>1, <1>2 DEF Empties

\* Emptying a bucket from its end: each entry comes before those of its time that were
\* moved earlier, so insert2 keeps their order.
LEMMA EmptiedHolds ==
    ASSUME NEW n \in Sizes, NEW w \in Width, NEW q, List(q), NEW M \in SUBSET Range(q),
           NEW c, CalHolds(c, n, w, q, M), NEW b \in Seq(Entry), NEW P \in SUBSET Range(q),
           Agrees(b, q, P), \A x \in P : x \notin M /\ c.clock <= x.time,
           \A x \in P, y \in M : x.time # y.time
    PROVE  CalHolds(Emptied(c, b), n, w, q, M \cup P) /\ Emptied(c, b).clock = c.clock
<1> DEFINE N == Len(b)
           End(k) == {b[j] : j \in (N - k + 1)..N}
<1>1. PICK g : Empties(g, c, b, n, w)
  <2>1. c \in CalSet(n, w)
    BY DEF CalHolds
  <2>2. QED
    BY <2>1, EmptiedSteps
<1>2. /\ g[0] = c /\ g[N] = Emptied(c, b)
      /\ \A k \in 1..N : g[k] = Insert2(g[k - 1], b[N - k + 1])
  BY <1>1 DEF Empties
<1>3. N \in Nat /\ DOMAIN b = 1..N /\ P = {b[j] : j \in 1..N} /\ OneEach(b)
  <2>1. List(b)
    BY BucketIsList
  <2>2. QED
    BY <2>1 DEF Agrees, Range, List
<1> HIDE DEF N
<1> DEFINE Good(k) == CalHolds(g[k], n, w, q, M \cup End(k)) /\ g[k].clock = c.clock
           K == {k \in Nat : k <= N => Good(k)}
<1>4. 0 \in K
  <2>1. End(0) = {}
    BY <1>3
  <2> HIDE DEF End
  <2>2. M \cup End(0) = M
    BY <2>1
  <2>3. QED
    BY <1>2, <2>2
<1>5. ASSUME NEW k \in Nat, k \in K PROVE k + 1 \in K
  <2> SUFFICES ASSUME k + 1 <= N PROVE Good(k + 1)
    OBVIOUS
  <2> DEFINE m == N - k
             z == b[m]
             E == End(k)
             R == M \cup E
             d == g[k]
  <2>1. m \in 1..N /\ k + 1 \in 1..N /\ (k + 1) - 1 = k /\ N - (k + 1) + 1 = m /\ k <= N
    BY <1>3
  <2>2. CalHolds(d, n, w, q, R) /\ d.clock = c.clock
    BY <1>5, <2>1
  <2>3. g[k + 1] = Insert2(d, z)
    BY <1>2, <2>1
  <2>4. E = {b[j] : j \in (m + 1)..N} /\ End(k + 1) = {b[j] : j \in m..N}
    BY <1>3
  <2> HIDE DEF End, m, E
  <2>5. End(k + 1) = E \cup {z}
    <3>1. m..N = (m + 1)..N \cup {m}
      BY <1>3, <2>1
    <3>2. QED
      BY <2>4, <3>1
  <2>6. z \in P /\ E \subseteq P
    BY <1>3, <2>1, <2>4
  <2>7. \A y \in E : y # z /\ Before(q, z, y)
    <3> TAKE y \in E
    <3>1. PICK j \in (m + 1)..N : y = b[j]
      BY <2>4
    <3>2. j \in 1..N /\ m < j /\ j # m
      BY <1>3, <2>1
    <3>3. Before(b, z, y)
      BY <1>3, <2>1, <3>1, <3>2 DEF Before
    <3>4. b[j].ev # b[m].ev
      BY <1>3, <2>1, <3>2 DEF OneEach
    <3>5. QED
      BY <2>6, <3>1, <3>3, <3>4 DEF Agrees
  <2> HIDE DEF z, d
  <2>8. R \in SUBSET Range(q) /\ z \in Range(q) /\ z \notin R
    BY <2>6, <2>7
  <2>9. IsFiniteSet(R)
    BY <2>8, RangeFinite, FS_Subset
  <2>10. \A y \in R : y.time = z.time => Before(q, z, y)
    BY <2>6, <2>7
  <2> HIDE DEF R
  <2>11. d.clock <= z.time
    BY <2>2, <2>6
  <2>12. CalHolds(Insert2(d, z), n, w, q, R \cup {z}) /\ Insert2(d, z).clock = d.clock
    BY <2>2, <2>8, <2>9, <2>10, <2>11, Insert2Holds
  <2>13. M \cup End(k + 1) = R \cup {z}
    BY <2>5 DEF R
  <2>14. QED
    BY <2>2, <2>3, <2>12, <2>13
<1>6. Nat \subseteq K
  <2> HIDE DEF K
  <2> QED
    BY <1>4, <1>5, InductionSet
<1>7. Good(N)
  BY <1>3, <1>6
<1>8. End(N) = P
  <2>1. N - N + 1 = 1
    BY <1>3
  <2>2. QED
    BY <1>3, <2>1
<1> HIDE DEF End
<1>9. QED
  BY <1>2, <1>7, <1>8

\* reinit makes an empty calendar.
LEMMA CalendarHolds ==
    ASSUME NEW n \in Sizes, NEW w \in Width, NEW start \in Nat, NEW q
    PROVE  /\ CalHolds(Calendar(n, w, start), n, w, q, {})
           /\ Calendar(n, w, start).clock = start
<1> DEFINE c == Calendar(n, w, start)
           B == [i \in 0..(n - 1) |-> <<>>]
           C == [i \in 0..(n - 1) |-> 0]
<1>1. c = [buckets |-> B, count |-> C, n |-> n, width |-> w, last |-> BucketOf(n, w, start),
           clock |-> start, stat |-> 0, size |-> 0]
  BY DEF Calendar, Hash, BucketOf
<1>2. BucketOf(n, w, start) \in 0..(n - 1)
  BY BucketType
<1>3. << >> \in Seq(Entry) /\ DOMAIN << >> = {}
  OBVIOUS
<1>4. B \in [0..(n - 1) -> Seq(Entry)] /\ C \in [0..(n - 1) -> Int]
  BY <1>3
<1>5. Range(<<>>) = {}
  BY <1>3 DEF Range
<1>6. \A i : PartOf(n, w, {}, i) = {}
  BY DEF PartOf
<1>7. TimesOf({}) = {}
  BY DEF TimesOf
<1> HIDE DEF B, C
<1>8. c \in CalSet(n, w)
  BY <1>1, <1>2, <1>4 DEF CalSet
<1>9. /\ c.buckets = B /\ c.count = C /\ c.last = BucketOf(n, w, start) /\ c.clock = start
      /\ c.stat = 0 /\ c.size = 0
  BY <1>1
<1> HIDE DEF c
<1>10. \A i \in 0..(n - 1) : Agrees(c.buckets[i], q, PartOf(n, w, {}, i))
  BY <1>5, <1>6, <1>9 DEF Agrees, B
<1>11. CountsOK(c, n, w, {})
  <2>1. \A i \in 0..(n - 1) : c.count[i] = 0
    BY <1>9 DEF C
  <2>2. QED
    BY <1>6, <1>7, <1>9, <2>1, FS_EmptySet DEF CountsOK
<1>12. QED
  BY <1>8, <1>9, <1>10, <1>11 DEF CalHolds, c

\* g: the calendar after each bucket of c has been emptied.
Resizes(g, c, n, k, m, v) ==
    /\ g \in [0..n -> CalSet(m, v)]
    /\ g[0] = Calendar(m, v, c.clock) /\ g[n] = Resized(c, k, v)
    /\ \A i \in 1..n : g[i] = Emptied(g[i - 1], c.buckets[i - 1])

LEMMA ResizedSteps ==
    ASSUME NEW n \in Sizes, NEW w \in Width, NEW c \in CalSet(n, w),
           NEW k \in Nat, NEW v \in Width, NEW m, m = IF k < 4 THEN 4 ELSE k
    PROVE  m \in Sizes /\ \E g : Resizes(g, c, n, k, m, v)
<1> DEFINE S == CalSet(m, v)
           s == Calendar(m, v, c.clock)
           F == [p \in Nat \X S |-> IF p[1] < n THEN Emptied(p[2], c.buckets[p[1]]) ELSE p[2]]
<1>1. m \in Sizes /\ n \in Nat
  BY DEF Sizes
<1>2. /\ c.buckets \in [0..(n - 1) -> Seq(Entry)] /\ c.n = n /\ c.clock \in Nat
      /\ \A j \in 0..(n - 1) : c.buckets[j] \in Seq(Entry)
  <2>1. c.buckets \in [0..(n - 1) -> Seq(Entry)] /\ c.n = n /\ c.clock \in Nat
    BY CalFields
  <2>2. QED
    BY <2>1
<1>3. \A x \in S, b \in Seq(Entry) : Emptied(x, b) \in S
  BY <1>1, EmptiedType
<1>4. s \in S
  <2>1. CalHolds(s, m, v, <<>>, {})
    BY <1>1, <1>2, CalendarHolds
  <2>2. QED
    BY <2>1 DEF CalHolds
<1> HIDE DEF S, s
<1>5. StepFunction(F, S)
  <2>1. ASSUME NEW p \in Nat \X S
        PROVE  (IF p[1] < n THEN Emptied(p[2], c.buckets[p[1]]) ELSE p[2]) \in S
    <3>1. p[1] \in Nat /\ p[2] \in S
      OBVIOUS
    <3>2. CASE p[1] < n
      <4>1. p[1] \in 0..(n - 1)
        BY <1>1, <3>1, <3>2
      <4>2. QED
        BY <1>2, <1>3, <3>1, <3>2, <4>1
    <3>3. QED
      BY <3>1, <3>2
  <2>2. QED
    BY <2>1 DEF StepFunction
<1>6. \A i \in Nat, x \in S : i < n => F[<<i, x>>] = Emptied(x, c.buckets[i])
  OBVIOUS
<1> HIDE DEF F
<1>7. PICK f : Steps(f, F, s, S, n)
  BY <1>1, <1>4, <1>5, StepsThere, Zenon
<1>8. /\ f \in [0..n -> S] /\ f[0] = s
      /\ \A i \in 1..n : f[i] = F[<<i - 1, f[i - 1]>>]
  BY <1>7 DEF Steps
<1>9. ASSUME NEW i \in 1..n PROVE f[i] = Emptied(f[i - 1], c.buckets[i - 1])
  <2>1. i - 1 \in Nat /\ i - 1 < n /\ i - 1 \in 0..n
    BY <1>1
  <2>2. f[i - 1] \in S
    BY <1>8, <2>1
  <2>3. QED
    BY <1>6, <1>8, <2>1, <2>2
<1> DEFINE Eq(u) == u = [i \in 0..n |-> IF i = 0 THEN s ELSE Emptied(u[i - 1], c.buckets[i - 1])]
           g == CHOOSE u : Eq(u)
<1>10. Eq(f)
  <2>1. f = [i \in 0..n |-> f[i]]
    BY <1>8
  <2>2. \A i \in 0..n : f[i] = IF i = 0 THEN s ELSE Emptied(f[i - 1], c.buckets[i - 1])
    BY <1>1, <1>8, <1>9
  <2>3. QED
    BY <2>1, <2>2
<1>11. Eq(g)
  BY <1>10, Zenon
<1>12. Resized(c, k, v) = g[n]
  BY <1>2 DEF Resized, s
<1> HIDE DEF g
<1>13. /\ \A i \in 0..n : g[i] = IF i = 0 THEN s ELSE Emptied(g[i - 1], c.buckets[i - 1])
       /\ g = [i \in 0..n |-> g[i]]
  BY <1>11
<1>14. g[0] = s /\ \A i \in 1..n : g[i] = Emptied(g[i - 1], c.buckets[i - 1])
  <2>1. 0 \in 0..n /\ \A i \in 1..n : i \in 0..n /\ i # 0
    BY <1>1
  <2>2. QED
    BY <1>13, <2>1
<1>15. \A i \in 0..n : g[i] \in S
  <2> DEFINE K == {i \in Nat : i <= n => g[i] \in S}
  <2>1. 0 \in K
    BY <1>4, <1>14
  <2>2. ASSUME NEW i \in Nat, i \in K PROVE i + 1 \in K
    <3> SUFFICES ASSUME i + 1 <= n PROVE g[i + 1] \in S
      OBVIOUS
    <3>1. i + 1 \in 1..n /\ (i + 1) - 1 = i /\ i \in 0..(n - 1) /\ i <= n
      BY <1>1
    <3>2. g[i] \in S
      BY <2>2, <3>1
    <3>3. QED
      BY <1>2, <1>3, <1>14, <3>1, <3>2
  <2>3. Nat \subseteq K
    <3> HIDE DEF K
    <3> QED
      BY <2>1, <2>2, InductionSet
  <2>4. QED
    BY <1>1, <2>3
<1>16. g \in [0..n -> S]
  BY <1>13, <1>15
<1>17. Resizes(g, c, n, k, m, v)
  BY <1>12, <1>14, <1>16 DEF Resizes, S, s
<1>18. QED
  BY <1>1, <1>17

\* resize keeps the entries and their order, for any new size and width.
LEMMA ResizedHolds ==
    ASSUME NEW n \in Sizes, NEW w \in Width, NEW q, List(q), NEW c,
           CalHolds(c, n, w, q, Range(q)), NEW k \in Nat, NEW v \in Width
    PROVE  \E m \in Sizes : /\ CalHolds(Resized(c, k, v), m, v, q, Range(q))
                            /\ Resized(c, k, v).clock = c.clock
<1> DEFINE m == IF k < 4 THEN 4 ELSE k
           R == Range(q)
           Upto(i) == {x \in R : BucketOf(n, w, x.time) < i}
<1>1. /\ c \in CalSet(n, w) /\ (\A x \in R : c.clock <= x.time)
      /\ \A j \in 0..(n - 1) : Agrees(c.buckets[j], q, PartOf(n, w, R, j))
  BY DEF CalHolds
<1>2. m = IF k < 4 THEN 4 ELSE k
  OBVIOUS
<1> HIDE DEF m
<1>3. m \in Sizes /\ \E g : Resizes(g, c, n, k, m, v)
  BY <1>1, <1>2, ResizedSteps
<1>4. PICK g : Resizes(g, c, n, k, m, v)
  BY <1>3
<1>5. /\ g[0] = Calendar(m, v, c.clock) /\ g[n] = Resized(c, k, v)
      /\ \A i \in 1..n : g[i] = Emptied(g[i - 1], c.buckets[i - 1])
  BY <1>4 DEF Resizes
<1>6. c.clock \in Nat /\ n \in Nat
  BY <1>1, CalFields DEF Sizes
<1>7. \A j \in 0..(n - 1) : c.buckets[j] \in Seq(Entry)
  <2>1. c.buckets \in [0..(n - 1) -> Seq(Entry)]
    BY <1>1, CalFields
  <2>2. QED
    BY <2>1
<1>8. \A x \in R : BucketOf(n, w, x.time) \in 0..(n - 1)
  <2> TAKE x \in R
  <2>1. x \in Entry
    BY InRange DEF List
  <2>2. x.time \in Nat
    BY <2>1 DEF Entry
  <2>3. QED
    BY <2>2, BucketType
<1> DEFINE Good(i) == CalHolds(g[i], m, v, q, Upto(i)) /\ g[i].clock = c.clock
           K == {i \in Nat : i <= n => Good(i)}
<1>9. 0 \in K
  <2>1. Upto(0) = {}
    <3> SUFFICES ASSUME NEW x \in R, BucketOf(n, w, x.time) < 0 PROVE FALSE
      OBVIOUS
    <3>1. BucketOf(n, w, x.time) \in 0..(n - 1)
      BY <1>8
    <3>2. QED
      BY <3>1
  <2> HIDE DEF Upto
  <2>2. CalHolds(g[0], m, v, q, {}) /\ g[0].clock = c.clock
    BY <1>3, <1>5, <1>6, CalendarHolds
  <2>3. QED
    BY <2>1, <2>2
<1>10. ASSUME NEW i \in Nat, i \in K PROVE i + 1 \in K
  <2> SUFFICES ASSUME i + 1 <= n PROVE Good(i + 1)
    OBVIOUS
  <2> DEFINE M == Upto(i)
             P == PartOf(n, w, R, i)
             d == g[i]
             b == c.buckets[i]
  <2>1. i \in 0..(n - 1) /\ i + 1 \in 1..n /\ (i + 1) - 1 = i /\ i <= n
    BY <1>6
  <2>2. CalHolds(d, m, v, q, M) /\ d.clock = c.clock
    BY <1>10, <2>1
  <2>3. g[i + 1] = Emptied(d, b)
    BY <1>5, <2>1
  <2>4. b \in Seq(Entry) /\ Agrees(b, q, P)
    BY <1>1, <1>7, <2>1
  <2>5. M \in SUBSET R /\ P \in SUBSET R
    BY DEF PartOf
  <2>6. \A x \in P, y \in M : x # y /\ x.time # y.time
    <3> TAKE x \in P, y \in M
    <3>1. BucketOf(n, w, x.time) = i /\ BucketOf(n, w, y.time) < i
      BY DEF PartOf
    <3>2. BucketOf(n, w, x.time) # BucketOf(n, w, y.time)
      BY <3>1
    <3>3. QED
      BY <3>2
  <2>7. Upto(i + 1) = M \cup P
    <3>1. \A x \in R : BucketOf(n, w, x.time) < i + 1 <=>
                          BucketOf(n, w, x.time) < i \/ BucketOf(n, w, x.time) = i
      <4> TAKE x \in R
      <4>1. BucketOf(n, w, x.time) \in 0..(n - 1)
        BY <1>8
      <4>2. QED
        BY <1>6, <4>1
    <3>2. QED
      BY <3>1 DEF PartOf
  <2>8. \A x \in P : x \notin M /\ d.clock <= x.time
    BY <1>1, <2>2, <2>5, <2>6
  <2> HIDE DEF M, P, d, b, R, Upto
  <2>9. CalHolds(Emptied(d, b), m, v, q, M \cup P) /\ Emptied(d, b).clock = d.clock
    BY <1>3, <2>2, <2>4, <2>5, <2>6, <2>8, EmptiedHolds DEF R
  <2>10. QED
    BY <2>2, <2>3, <2>7, <2>9
<1>11. Nat \subseteq K
  <2> HIDE DEF K
  <2> QED
    BY <1>9, <1>10, InductionSet
<1>12. Good(n)
  BY <1>6, <1>11
<1>13. Upto(n) = R
  <2>1. \A x \in R : BucketOf(n, w, x.time) < n
    BY <1>6, <1>8
  <2>2. QED
    BY <2>1
<1> HIDE DEF Upto
<1>14. QED
  BY <1>3, <1>5, <1>12, <1>13

-----------------------------------------------------------------------------
(***************************************************************************)
(* head                                                                    *)
(***************************************************************************)
LEMMA LaterDay ==
    ASSUME NEW w \in Nat \ {0}, NEW s \in Nat, NEW t \in Nat, s <= t
    PROVE  s \div w <= t \div w
OBVIOUS

\* An event of the k-th bucket is on its day of this year, or a year later.
LEMMA ThisOrNext ==
    ASSUME NEW n \in Sizes, NEW d \in Nat, NEW e \in Nat, d <= e, NEW k \in 0..(n - 2),
           e % n = (d + k) % n
    PROVE  e = d + k \/ e >= d + k + n
<1>1. n \in Nat \ {0} /\ d + k \in Nat
  BY DEF Sizes
<1>2. CASE d + k <= e
  BY <1>1, <1>2, SameDay
<1>3. CASE e <= d + k
  <2>1. d + k = e \/ d + k >= e + n
    BY <1>1, <1>3, SameDay
  <2>2. QED
    BY <1>1, <2>1
<1>4. QED
  BY <1>1, <1>2, <1>3

\* The limits of head tell this year's events from later ones.
LEMMA LimitsTell ==
    ASSUME NEW n \in Sizes, NEW w \in Width, NEW c \in CalSet(n, w),
           NEW s \in Nat, NEW t \in Nat, s <= t, NEW k \in 0..(n - 2),
           (t \div w) % n = ((s \div w) + k) % n
    PROVE  t - s < Limit(c, k) <=> t \div w = (s \div w) + k
<1> DEFINE d == s \div w
           e == t \div w
           W == w * n
           L == Limit(c, k)
<1>1. n \in Nat /\ n >= 4 /\ w \in Nat \ {0} /\ c.n = n /\ c.width = w
  BY CalFields DEF Sizes, Width
<1>2. d \in Nat /\ e \in Nat /\ w * d <= s /\ s < w * d + w /\ w * e <= t /\ t < w * e + w
  BY <1>1, Division
<1>3. d <= e /\ (e = d + k \/ e >= d + k + n)
  <2>1. d <= e
    BY <1>1, LaterDay
  <2> HIDE DEF d, e
  <2>2. e % n = (d + k) % n
    BY DEF d, e
  <2>3. QED
    BY <1>2, <2>1, <2>2, ThisOrNext
<1> HIDE DEF d, e
<1>4. W \in Nat /\ w * 4 <= W /\ w * 4 = w + w + w + w
  <2>1. w * 4 <= w * n /\ w * n \in Int
    BY <1>1, Product
  <2>2. w * 4 = w + w + w + w
    BY <1>1
  <2>3. QED
    BY <1>1, <2>1, <2>2
<1>5. L = (IF k = 0 THEN W \div 2 ELSE IF k = 1 THEN W \div 2 + w ELSE W)
  BY <1>1 DEF Limit
<1> HIDE DEF W, L
<1>6. W \div 2 \in Nat /\ w + w <= W \div 2 /\ W \div 2 + w <= W /\ W \div 2 + w + w <= W
  BY <1>1, <1>4
<1>7. w * d \in Int /\ w * e \in Int /\ w * k \in Int /\ w * (d + k) = w * d + w * k
  BY <1>1, <1>2, Product
<1>8. (k = 0 => w * k = 0) /\ (k = 1 => w * k = w) /\ (k >= 1 => w <= w * k)
  <2>1. w * 0 = 0 /\ w * 1 = w
    BY <1>1
  <2>2. k >= 1 => w * 1 <= w * k
    BY <1>1, Product
  <2>3. QED
    BY <2>1, <2>2
<1>9. w * k + w <= W
  <2>1. w * (k + 1) <= w * n /\ w * (k + 1) = w * k + w * 1 /\ w * 1 = w
    BY <1>1, Product
  <2>2. QED
    BY <2>1 DEF W
<1>10. CASE e = d + k
  <2>1. t - s < w * k + w
    BY <1>1, <1>2, <1>7, <1>10
  <2>2. w * k + w <= L
    BY <1>1, <1>4, <1>5, <1>6, <1>7, <1>8, <1>9
  <2>3. L \in Int
    BY <1>1, <1>4, <1>5, <1>6
  <2>4. t - s < L
    BY <1>1, <1>7, <2>1, <2>2, <2>3
  <2>5. QED
    BY <1>10, <2>4 DEF d, e, L
<1>11. CASE e >= d + k + n
  <2>1. w * (d + k + n) <= w * e /\ w * (d + k + n) = w * (d + k) + W
    BY <1>1, <1>2, <1>11, Product DEF W
  <2>2. t - s >= w * k + W - w
    BY <1>1, <1>2, <1>4, <1>7, <2>1
  <2>3. L <= w * k + W - w
    BY <1>1, <1>4, <1>5, <1>6, <1>7, <1>8
  <2>4. ~(t - s < L) /\ e # d + k
    <3>1. L \in Int
      BY <1>1, <1>4, <1>5, <1>6
    <3>2. QED
      BY <1>1, <1>2, <1>4, <1>7, <1>11, <2>2, <2>3, <3>1
  <2>5. QED
    BY <2>4 DEF d, e, L
<1>12. QED
  BY <1>3, <1>10, <1>11

LEMMA LeastOf ==
    ASSUME NEW S, S \subseteq Nat, S # {}
    PROVE  Min(S) \in S /\ \A y \in S : Min(S) <= y
<1>1. PICK x \in S : \A y \in S : x <= y
  BY LeastPosition
<1>2. QED
  BY <1>1 DEF Min

LEMMA NthIs ==
    ASSUME NEW n \in Sizes, NEW w \in Width, NEW q, NEW M, NEW c, CalHolds(c, n, w, q, M),
           NEW k \in 0..(n - 2)
    PROVE  Nth(c, k) = ((c.clock \div w) + k) % n /\ Nth(c, k) \in 0..(n - 1)
<1> DEFINE d == c.clock \div w
<1>1. n \in Nat \ {0} /\ w \in Nat \ {0} /\ k \in Nat
  BY DEF Sizes, Width
<1>2. c \in CalSet(n, w) /\ c.last = d % n
  BY DEF CalHolds, BucketOf
<1>3. c.n = n /\ c.clock \in Nat
  BY <1>2, CalFields
<1>4. d \in Nat
  BY <1>1, <1>3, Division
<1> HIDE DEF d
<1>5. ((d % n) + k) % n = (d + k) % n
  BY <1>1, <1>4, DaysOn
<1>6. d + k \in Nat
  BY <1>1, <1>4
<1>7. (d + k) % n \in 0..(n - 1)
  BY <1>1, <1>6, Division
<1>8. QED
  BY <1>2, <1>3, <1>5, <1>7 DEF Nth, d

\* A bucket of this year begins with an event of that day.
LEMMA ThisYearDay ==
    ASSUME NEW n \in Sizes, NEW w \in Width, NEW q, List(q), NEW c,
           CalHolds(c, n, w, q, Range(q)), NEW k \in 0..(n - 2)
    PROVE  LET b == c.buckets[Nth(c, k)]
           IN  /\ b # <<>> => Head(b) \in Range(q) /\ BucketOf(n, w, Head(b).time) = Nth(c, k)
               /\ ThisYear(c, k) <=>
                     b # <<>> /\ Head(b).time \div w = (c.clock \div w) + k
<1> DEFINE j == Nth(c, k)
           b == c.buckets[j]
           h == Head(b)
<1>1. j = ((c.clock \div w) + k) % n /\ j \in 0..(n - 1)
  BY NthIs
<1>2. /\ c \in CalSet(n, w) /\ (\A x \in Range(q) : c.clock <= x.time)
      /\ \A i \in 0..(n - 1) : Agrees(c.buckets[i], q, PartOf(n, w, Range(q), i))
  BY DEF CalHolds
<1>3. ThisYear(c, k) <=> b # <<>> /\ h.time - c.clock < Limit(c, k)
  BY DEF ThisYear
<1>4. c.clock \in Nat /\ b \in Seq(Entry)
  <2>1. c.buckets \in [0..(n - 1) -> Seq(Entry)] /\ c.clock \in Nat
    BY <1>2, CalFields
  <2>2. QED
    BY <1>1, <2>1
<1> HIDE DEF j
<1>5. Agrees(b, q, PartOf(n, w, Range(q), j))
  BY <1>1, <1>2
<1> HIDE DEF b
<1>6. CASE b # <<>>
  <2>1. h \in Range(b)
    BY <1>4, <1>6 DEF Range
  <2>2. h \in Range(q) /\ BucketOf(n, w, h.time) = j
    BY <1>5, <2>1 DEF Agrees, PartOf
  <2>3. h \in Entry
    BY <2>2, InRange DEF List
  <2>4. h.time \in Nat /\ c.clock <= h.time
    BY <1>2, <2>2, <2>3 DEF Entry
  <2>5. (h.time \div w) % n = ((c.clock \div w) + k) % n
    BY <1>1, <2>2 DEF BucketOf
  <2> HIDE DEF h
  <2>6. h.time - c.clock < Limit(c, k) <=> h.time \div w = (c.clock \div w) + k
    BY <1>2, <1>4, <2>4, <2>5, LimitsTell
  <2>7. QED
    BY <1>3, <1>6, <2>2, <2>6 DEF h, b, j
<1>7. CASE b = <<>>
  BY <1>3, <1>7 DEF b, j
<1>8. QED
  BY <1>6, <1>7

\* The search of head ends at the bucket of the list's first event, which is first there.
LEMMA HeadFound ==
    ASSUME NEW n \in Sizes, NEW w \in Width, NEW q, List(q), q # <<>>, NEW c,
           CalHolds(c, n, w, q, Range(q))
    PROVE  LET g == Head(q)
               j == BucketOf(n, w, g.time)
           IN  /\ HeadBucket(c) = j /\ CalHead(c) = g
               /\ Tail(c.buckets[j]) \in Seq(Entry)
               /\ Agrees(Tail(c.buckets[j]), q, PartOf(n, w, Range(q), j) \ {g})
<1> DEFINE R == Range(q)
           g == Head(q)
           j == BucketOf(n, w, g.time)
           b == c.buckets[j]
           d == c.clock \div w
           Y == {k \in 0..(n - 2) : ThisYear(c, k)}
<1>1. /\ c \in CalSet(n, w) /\ (\A x \in R : c.clock <= x.time)
      /\ \A i \in 0..(n - 1) : Agrees(c.buckets[i], q, PartOf(n, w, R, i))
  BY DEF CalHolds
<1>2. q \in Seq(Entry) /\ OneEach(q) /\ InOrder(q)
  BY DEF List
<1>3. g \in R /\ (\A x \in R : x # g => Before(q, g, x)) /\ (\A x \in R : g.time <= x.time)
  BY <1>2, TailOrder
<1>4. \A x \in R : x.time \in Nat
  <2> TAKE x \in R
  <2>1. x \in Entry
    BY <1>2, InRange
  <2>2. QED
    BY <2>1 DEF Entry
<1>5. n \in Nat /\ n >= 4 /\ w \in Nat \ {0}
  BY DEF Sizes, Width
<1>6. c.buckets \in [0..(n - 1) -> Seq(Entry)] /\ c.clock \in Nat /\ c.n = n
  BY <1>1, CalFields
<1> HIDE DEF g, R
<1>7. j \in 0..(n - 1) /\ b \in Seq(Entry)
  <2>1. j \in 0..(n - 1)
    BY <1>3, <1>4, BucketType
  <2> HIDE DEF j
  <2>2. QED
    BY <1>6, <2>1
<1>8. /\ b # <<>> /\ Head(b) = g
      /\ Tail(b) \in Seq(Entry) /\ Agrees(Tail(b), q, PartOf(n, w, R, j) \ {g})
  <2> DEFINE P == PartOf(n, w, R, j)
  <2>1. P \in SUBSET R /\ g \in P
    BY <1>3 DEF PartOf
  <2>2. Agrees(b, q, P)
    BY <1>1, <1>7
  <2> HIDE DEF P, b, j
  <2>3. \A x \in P : x # g => Before(q, g, x)
    BY <1>3, <2>1
  <2>4. P \in SUBSET Range(q)
    BY <2>1 DEF R
  <2>5. b # <<>> /\ Head(b) = g /\ Tail(b) \in Seq(Entry) /\ Agrees(Tail(b), q, P \ {g})
    BY <1>7, <2>1, <2>2, <2>3, <2>4, BucketHead
  <2>6. QED
    BY <2>5 DEF P
<1> HIDE DEF b, j
<1>9. d \in Nat
  BY <1>5, <1>6, Division
<1>10. HeadBucket(c) = j
  <2>1. CASE Y # {}
    <3> DEFINE m == Min(Y)
               bm == c.buckets[Nth(c, m)]
               h == Head(bm)
               k == (g.time \div w) - d
    <3>1. m \in Y /\ \A y \in Y : m <= y
      <4>1. Y \subseteq Nat
        OBVIOUS
      <4> HIDE DEF Y
      <4>2. QED
        BY <2>1, <4>1, LeastOf
    <3>2. HeadBucket(c) = Nth(c, m)
      <4>1. \E i \in 0..(c.n - 2) : ThisYear(c, i)
        BY <1>6, <2>1
      <4>2. QED
        BY <1>6, <4>1 DEF HeadBucket
    <3> HIDE DEF m
    <3>3. m \in 0..(n - 2) /\ ThisYear(c, m)
      BY <3>1
    <3>4. bm # <<>> /\ h \in R /\ h.time \div w = d + m
      BY <3>3, ThisYearDay DEF R
    <3> HIDE DEF bm, h
    <3>5. g.time \div w <= d + m /\ d <= g.time \div w /\ g.time \div w \in Nat
      <4>1. g.time \in Nat /\ h.time \in Nat /\ g.time <= h.time /\ c.clock <= g.time
        BY <1>1, <1>3, <1>4, <3>4
      <4>2. g.time \div w <= h.time \div w /\ d <= g.time \div w
        BY <1>5, <1>6, <4>1, LaterDay
      <4>3. g.time \div w \in Nat
        BY <1>5, <4>1, Division
      <4>4. QED
        BY <3>4, <4>2, <4>3
    <3> DEFINE e == g.time \div w
    <3>6. k \in 0..(n - 2) /\ k <= m /\ e = d + k
      <4>1. e \in Nat /\ e <= d + m /\ d <= e /\ k = e - d
        BY <3>5
      <4> HIDE DEF e, k, d
      <4>2. QED
        BY <1>5, <1>9, <3>3, <4>1
    <3> HIDE DEF k
    <3>7. Nth(c, k) = j
      <4>1. Nth(c, k) = (d + k) % n
        BY <3>6, NthIs DEF R
      <4>2. QED
        BY <3>6, <4>1 DEF j, BucketOf
    <3>8. ThisYear(c, k)
      <4>1. c.buckets[Nth(c, k)] = b
        BY <3>7 DEF b
      <4>2. ThisYear(c, k) <=> b # <<>> /\ Head(b).time \div w = d + k
        BY <3>6, <4>1, ThisYearDay DEF R
      <4>3. QED
        BY <1>8, <3>6, <4>2
    <3>9. m = k
      BY <3>1, <3>3, <3>6, <3>8
    <3>10. QED
      BY <3>2, <3>7, <3>9
  <2>2. CASE Y = {}
    <3> DEFINE Least(i) ==
                 /\ c.buckets[i] # <<>>
                 /\ \A m \in DOMAIN c.buckets :
                       c.buckets[m] # <<>> => Head(c.buckets[i]).time <= Head(c.buckets[m]).time
               i == HeadBucket(c)
    <3>1. DOMAIN c.buckets = 0..(n - 1)
      BY <1>6
    <3>2. ASSUME NEW m \in 0..(n - 1), c.buckets[m] # <<>>
          PROVE  Head(c.buckets[m]) \in R /\ BucketOf(n, w, Head(c.buckets[m]).time) = m
      <4> DEFINE bm == c.buckets[m]
      <4>1. bm \in Seq(Entry) /\ bm # <<>>
        BY <1>6, <3>2
      <4>2. Head(bm) \in Range(bm)
        BY <4>1 DEF Range
      <4>3. Agrees(bm, q, PartOf(n, w, R, m))
        BY <1>1
      <4>4. QED
        BY <4>2, <4>3 DEF Agrees, PartOf
    <3>3. Least(j)
      <4>1. c.buckets[j] # <<>> /\ Head(c.buckets[j]) = g
        BY <1>8 DEF b
      <4>2. \A m \in DOMAIN c.buckets : c.buckets[m] # <<>> => g.time <= Head(c.buckets[m]).time
        BY <1>3, <3>1, <3>2
      <4>3. QED
        BY <4>1, <4>2
    <3>4. i = CHOOSE u \in DOMAIN c.buckets : Least(u)
      <4>1. ~ \E k \in 0..(c.n - 2) : ThisYear(c, k)
        BY <1>6, <2>2
      <4>2. QED
        BY <4>1 DEF HeadBucket
    <3>5. i \in 0..(n - 1) /\ Least(i)
      <4> HIDE DEF i, Least
      <4> QED
        BY <1>7, <3>1, <3>3, <3>4
    <3> HIDE DEF i
    <3>6. Head(c.buckets[i]).time <= g.time
      BY <1>7, <1>8, <3>1, <3>5 DEF b
    <3> HIDE DEF Least
    <3>7. Head(c.buckets[i]) \in R /\ BucketOf(n, w, Head(c.buckets[i]).time) = i
      BY <3>2, <3>5 DEF Least
    <3>8. Head(c.buckets[i]).time = g.time
      BY <1>3, <1>4, <3>6, <3>7
    <3>9. QED
      BY <3>7, <3>8 DEF i, j
  <2>3. QED
    BY <2>1, <2>2
<1>11. CalHead(c) = g
  BY <1>8, <1>10 DEF CalHead, b
<1>12. QED
  BY <1>8, <1>10, <1>11 DEF b, j, g, R

-----------------------------------------------------------------------------
(***************************************************************************)
(* insert, cancel and deque of the calendar                                *)
(***************************************************************************)
\* The clock is moved to a time before that of every entry, and lastbucket_ with it.
MovedTo(d, c, n, w, t) ==
    \/ d = [c EXCEPT !.last = BucketOf(n, w, t), !.clock = t]
    \/ d = [c EXCEPT !.clock = t, !.last = BucketOf(n, w, t)]

LEMMA ClockMoved ==
    ASSUME NEW n \in Sizes, NEW w \in Width, NEW q, NEW M, NEW c, CalHolds(c, n, w, q, M),
           NEW t \in Nat, \A x \in M : t <= x.time,
           NEW d, MovedTo(d, c, n, w, t)
    PROVE  CalHolds(d, n, w, q, M) /\ d.clock = t /\ d.buckets = c.buckets
<1>1. /\ c \in CalSet(n, w) /\ CountsOK(c, n, w, M)
      /\ \A i \in 0..(n - 1) : Agrees(c.buckets[i], q, PartOf(n, w, M, i))
  BY DEF CalHolds
<1> DEFINE j == BucketOf(n, w, t)
<1>2. j \in 0..(n - 1) /\ j = BucketOf(n, w, t)
  BY BucketType
<1> HIDE DEF j
<1>3. /\ d.buckets = c.buckets /\ d.count = c.count /\ d.stat = c.stat /\ d.size = c.size
      /\ d.clock = t /\ d.last = j
  BY <1>1, <1>2 DEF CalSet, MovedTo
<1>4. d \in CalSet(n, w)
  BY <1>1, <1>2 DEF CalSet, MovedTo
<1>5. CountsOK(d, n, w, M)
  BY <1>1, <1>3 DEF CountsOK
<1>6. QED
  BY <1>1, <1>2, <1>3, <1>4, <1>5 DEF CalHolds

LEMMA RewoundHolds ==
    ASSUME NEW n \in Sizes, NEW w \in Width, NEW q, NEW M, NEW c, CalHolds(c, n, w, q, M),
           \A x \in M : x.time \in Nat, NEW t \in Nat, NEW d, d = Rewound(c, t)
    PROVE  CalHolds(d, n, w, q, M) /\ d.clock <= t /\ d.buckets = c.buckets
<1>1. c \in CalSet(n, w) /\ \A x \in M : c.clock <= x.time
  BY DEF CalHolds
<1>2. c.clock \in Nat
  BY <1>1, CalFields
<1>3. CASE c.clock > t
  <2>1. \A x \in M : t <= x.time
    BY <1>1, <1>2, <1>3
  <2>2. d = [c EXCEPT !.clock = t, !.last = Hash(c, t)]
    BY <1>3 DEF Rewound
  <2>3. Hash(c, t) = BucketOf(n, w, t)
    BY <1>1, HashIs
  <2>4. MovedTo(d, c, n, w, t)
    BY <2>2, <2>3 DEF MovedTo
  <2>5. CalHolds(d, n, w, q, M) /\ d.clock = t /\ d.buckets = c.buckets
    BY <2>1, <2>4, ClockMoved
  <2>6. QED
    BY <2>5
<1>4. CASE ~(c.clock > t)
  <2>1. d = c
    BY <1>4 DEF Rewound
  <2>2. QED
    BY <1>2, <1>4, <2>1
<1>5. QED
  BY <1>3, <1>4

LEMMA ListTimes ==
    ASSUME NEW q, List(q)
    PROVE  q \in Seq(Entry) /\ OneEach(q) /\ InOrder(q) /\ \A x \in Range(q) : x.time \in Nat
<1>1. q \in Seq(Entry) /\ OneEach(q) /\ InOrder(q)
  BY DEF List
<1>2. ASSUME NEW x \in Range(q) PROVE x.time \in Nat
  <2>1. x \in Entry
    BY <1>1, InRange
  <2>2. QED
    BY <2>1 DEF Entry
<1>3. QED
  BY <1>1, <1>2

\* An entry put behind those of its time in its bucket and in the list.
LEMMA InsertedAgrees ==
    ASSUME NEW q, List(q), NEW b \in Seq(Entry), NEW P \in SUBSET Range(q), Agrees(b, q, P),
           NEW e \in Ev, e \notin Queued(q), NEW t \in Nat,
           NEW z, z = [ev |-> e, time |-> t], NEW s, s = Inserted(q, e, t),
           NEW a, a = Inserted(b, e, t)
    PROVE  a \in Seq(Entry) /\ Agrees(a, s, P \cup {z})
<1>1. q \in Seq(Entry) /\ OneEach(q) /\ InOrder(q)
  BY DEF List
<1>2. b \in Seq(Entry) /\ OneEach(b) /\ InOrder(b)
  BY BucketIsList DEF List
<1>3. Range(b) = P /\ \A x, y \in P : Before(b, x, y) <=> Before(q, x, y)
  BY DEF Agrees
<1>4. e \notin Queued(b)
  <2> SUFFICES ASSUME NEW k \in DOMAIN b, b[k].ev = e PROVE FALSE
    BY DEF Queued
  <2>1. b[k] \in Range(q)
    BY <1>3 DEF Range
  <2>2. PICK i \in DOMAIN q : b[k] = q[i]
    BY <2>1 DEF Range
  <2>3. QED
    BY <2>2 DEF Queued
<1>5. /\ OneEach(s) /\ s \in Seq(Entry) /\ Range(s) = Range(q) \cup {z}
      /\ \A x, y \in Range(q) : Before(s, x, y) <=> Before(q, x, y)
      /\ \A x \in Range(q) : /\ Before(s, x, z) <=> x.time <= t
                             /\ Before(s, z, x) <=> t < x.time
  BY <1>1, InsertedOrder
<1>6. /\ a \in Seq(Entry) /\ OneEach(a) /\ Range(a) = P \cup {z}
      /\ \A x, y \in P : Before(a, x, y) <=> Before(b, x, y)
      /\ \A x \in P : /\ Before(a, x, z) <=> x.time <= t
                      /\ Before(a, z, x) <=> t < x.time
  BY <1>2, <1>3, <1>4, InsertedOrder
<1>7. ~Before(a, z, z) /\ ~Before(s, z, z)
  <2>1. z \in Range(a) /\ z \in Range(s)
    BY <1>5, <1>6
  <2>2. QED
    BY <1>5, <1>6, <2>1, BeforeOrder
<1>8. ASSUME NEW x \in P \cup {z}, NEW y \in P \cup {z}
      PROVE  Before(a, x, y) <=> Before(s, x, y)
  <2>1. CASE x \in P /\ y \in P
    BY <1>3, <1>5, <1>6, <2>1
  <2>2. CASE x \in P /\ y = z
    BY <1>5, <1>6, <2>2
  <2>3. CASE x = z /\ y \in P
    BY <1>5, <1>6, <2>3
  <2>4. CASE x = z /\ y = z
    BY <1>7, <2>4
  <2>5. QED
    BY <2>1, <2>2, <2>3, <2>4
<1>9. QED
  BY <1>6, <1>8 DEF Agrees

\* The calendar holds the events of the list q.
CalOK(c, q) == \E n \in Sizes, w \in Width : CalHolds(c, n, w, q, Range(q))

\* What resize is asked for is no matter.
LEMMA ResizedOK ==
    ASSUME NEW q, List(q), NEW c, CalOK(c, q), NEW k \in Nat, NEW v \in Width
    PROVE  CalOK(Resized(c, k, v), q)
<1>1. PICK n \in Sizes, w \in Width : CalHolds(c, n, w, q, Range(q))
  BY DEF CalOK
<1>2. \E m \in Sizes : CalHolds(Resized(c, k, v), m, v, q, Range(q))
  BY <1>1, ResizedHolds
<1>3. QED
  BY <1>2 DEF CalOK

LEMMA SizeOK ==
    ASSUME NEW q, NEW c, CalOK(c, q)
    PROVE  c.n \in Nat /\ 2 * c.n \in Nat /\ c.n \div 2 \in Nat
<1>1. PICK n \in Sizes, w \in Width : CalHolds(c, n, w, q, Range(q))
  BY DEF CalOK
<1>2. c \in CalSet(n, w)
  BY <1>1 DEF CalHolds
<1>3. c.n = n /\ n \in Nat
  BY <1>2, CalFields DEF Sizes
<1>4. QED
  BY <1>3, Division

LEMMA CalInsertIs ==
    ASSUME NEW n \in Sizes, NEW w \in Width, NEW q, NEW M, NEW c, CalHolds(c, n, w, q, M),
           \A x \in M : x.time \in Nat, NEW e, NEW t \in Nat, NEW v,
           NEW f, f = Rewound(c, t), NEW i, i = BucketOf(n, w, t),
           NEW d, d = AddedTo(f, i, t, Inserted(c.buckets[i], e, t))
    PROVE  CalInsert(c, e, t, v) = IF d.stat > Top(d) THEN Resized(d, 2 * d.n, v) ELSE d
<1>1. c \in CalSet(n, w)
  BY DEF CalHolds
<1>2. Hash(c, t) = i
  BY <1>1, HashIs
<1>3. CalHolds(f, n, w, q, M) /\ f.buckets = c.buckets
  BY RewoundHolds
<1>4. f \in CalSet(n, w)
  BY <1>3 DEF CalHolds
<1> DEFINE g == Counted(f, i, t, 1)
<1>5. g.buckets = c.buckets
  BY <1>3, <1>4 DEF Counted, CalSet
<1>6. d = [g EXCEPT !.buckets[i] = Inserted(c.buckets[i], e, t), !.size = @ + 1]
  BY DEF AddedTo
<1>7. g = Counted(Rewound(c, t), Hash(c, t), t, 1)
  BY <1>2
<1> HIDE DEF g
<1>8. d = [g EXCEPT !.buckets[i] = Inserted(@, e, t), !.size = @ + 1]
  BY <1>5, <1>6
<1>9. QED
  BY <1>2, <1>7, <1>8 DEF CalInsert

LEMMA CalInsertOK ==
    ASSUME NEW q, List(q), NEW c, CalOK(c, q), NEW e \in Ev, e \notin Queued(q),
           NEW t \in Nat, NEW v \in Width, NEW s, s = Inserted(q, e, t)
    PROVE  CalOK(CalInsert(c, e, t, v), s)
<1>1. PICK n \in Sizes, w \in Width : CalHolds(c, n, w, q, Range(q))
  BY DEF CalOK
<1> DEFINE z == [ev |-> e, time |-> t]
           f == Rewound(c, t)
           i == BucketOf(n, w, t)
           b == c.buckets[i]
           a == Inserted(b, e, t)
           d == AddedTo(f, i, t, a)
           R == Range(q)
           P == PartOf(n, w, R, i)
<1>2. q \in Seq(Entry) /\ OneEach(q) /\ InOrder(q) /\ \A x \in R : x.time \in Nat
  BY ListTimes
<1>3. /\ List(s) /\ z \in Entry /\ Range(s) = R \cup {z} /\ z \notin R
      /\ \A x, y \in R : Before(s, x, y) <=> Before(q, x, y)
  BY <1>2, InsertedOrder DEF List
<1>4. CalHolds(f, n, w, q, R) /\ f.clock <= t
  BY <1>1, <1>2, RewoundHolds
<1>5. i \in 0..(n - 1) /\ b \in Seq(Entry) /\ P \in SUBSET R /\ Agrees(b, q, P)
  <2>1. i \in 0..(n - 1)
    BY BucketType
  <2>2. c \in CalSet(n, w) /\ \A j \in 0..(n - 1) : Agrees(c.buckets[j], q, PartOf(n, w, R, j))
    BY <1>1 DEF CalHolds
  <2>3. c.buckets \in [0..(n - 1) -> Seq(Entry)]
    BY <2>2, CalFields
  <2> HIDE DEF i, R
  <2>4. b \in Seq(Entry) /\ Agrees(b, q, P)
    BY <2>1, <2>2, <2>3
  <2>5. QED
    BY <2>1, <2>4 DEF PartOf
<1>6. a \in Seq(Entry) /\ Agrees(a, s, P \cup {z})
  <2>1. z = [ev |-> e, time |-> t] /\ a = Inserted(b, e, t) /\ R = Range(q)
    OBVIOUS
  <2> HIDE DEF z, a, b, P, R
  <2>2. QED
    BY <1>5, <2>1, InsertedAgrees
<1>7. Adds(f, d, n, w, q, s, R, z, a)
  <2>1. z.time = t /\ IsFiniteSet(R) /\ SameOrder(s, q, R)
    BY <1>3, RangeFinite DEF SameOrder
  <2>2. i = BucketOf(n, w, z.time) /\ d = AddedTo(f, i, z.time, a) /\ P = PartOf(n, w, R, i)
    BY <2>1
  <2> HIDE DEF z, a, b, P, R, i, f, d
  <2>3. QED
    BY <1>3, <1>4, <1>6, <2>1, <2>2 DEF Adds
<1>8. CalInsert(c, e, t, v) = IF d.stat > Top(d) THEN Resized(d, 2 * d.n, v) ELSE d
  <2>1. f = Rewound(c, t) /\ i = BucketOf(n, w, t) /\ d = AddedTo(f, i, t, Inserted(c.buckets[i], e, t))
    OBVIOUS
  <2> HIDE DEF f, i, d
  <2>2. QED
    BY <1>1, <1>2, <2>1, CalInsertIs
<1> HIDE DEF z, a, f, d, R
<1>9. CalHolds(d, n, w, s, R \cup {z})
  BY <1>7, HoldsAdded
<1>10. CalOK(d, s)
  BY <1>3, <1>9 DEF CalOK
<1>11. CalOK(Resized(d, 2 * d.n, v), s)
  BY <1>3, <1>10, SizeOK, ResizedOK
<1>12. QED
  BY <1>8, <1>10, <1>11

\* An entry is removed from its bucket and from the list.
LEMMA RemovedAgrees ==
    ASSUME NEW q, List(q), NEW b \in Seq(Entry), NEW P \in SUBSET Range(q), Agrees(b, q, P),
           NEW z \in P, NEW s, s = Removed(q, z.ev), NEW a, a = Removed(b, z.ev)
    PROVE  a \in Seq(Entry) /\ Agrees(a, s, P \ {z})
<1>1. q \in Seq(Entry) /\ OneEach(q) /\ z \in Range(q)
  BY DEF List
<1>2. b \in Seq(Entry) /\ OneEach(b)
  BY BucketIsList DEF List
<1>3. Range(b) = P /\ \A x, y \in P : Before(b, x, y) <=> Before(q, x, y)
  BY DEF Agrees
<1>4. /\ Range(s) = Range(q) \ {z}
      /\ \A x, y \in Range(s) : Before(s, x, y) <=> Before(q, x, y)
  BY <1>1, RemovedOrder
<1>5. /\ a \in Seq(Entry) /\ Range(a) = P \ {z}
      /\ \A x, y \in Range(a) : Before(a, x, y) <=> Before(b, x, y)
  BY <1>2, <1>3, RemovedOrder
<1>6. QED
  BY <1>3, <1>4, <1>5 DEF Agrees

LEMMA CalCancelOK ==
    ASSUME NEW q, List(q), NEW c, CalOK(c, q), NEW z \in Range(q),
           NEW s, s = Removed(q, z.ev)
    PROVE  CalOK(CalCancel(c, z.ev, z.time), s) /\ List(s)
<1>1. PICK n \in Sizes, w \in Width : CalHolds(c, n, w, q, Range(q))
  BY DEF CalOK
<1> DEFINE i == BucketOf(n, w, z.time)
           b == c.buckets[i]
           a == Removed(b, z.ev)
           d == CalCancel(c, z.ev, z.time)
           R == Range(q)
           P == PartOf(n, w, R, i)
<1>2. q \in Seq(Entry) /\ OneEach(q) /\ InOrder(q) /\ z.time \in Nat /\ z \in Entry
  BY ListTimes, InRange
<1>3. /\ List(s) /\ Range(s) = R \ {z}
      /\ \A x, y \in R \ {z} : Before(s, x, y) <=> Before(q, x, y)
  BY <1>2, RemovedOrder DEF List
<1>4. c \in CalSet(n, w) /\ \A j \in 0..(n - 1) : Agrees(c.buckets[j], q, PartOf(n, w, R, j))
  BY <1>1 DEF CalHolds
<1>5. i \in 0..(n - 1) /\ b \in Seq(Entry) /\ P \in SUBSET R /\ Agrees(b, q, P) /\ z \in P
  <2>1. i \in 0..(n - 1)
    BY <1>2, BucketType
  <2>2. c.buckets \in [0..(n - 1) -> Seq(Entry)]
    BY <1>4, CalFields
  <2>3. z \in P
    BY DEF PartOf
  <2> HIDE DEF i, R
  <2>4. b \in Seq(Entry) /\ Agrees(b, q, P)
    BY <1>4, <2>1, <2>2
  <2>5. QED
    BY <2>1, <2>3, <2>4 DEF PartOf
<1>6. a \in Seq(Entry) /\ Agrees(a, s, P \ {z})
  <2>1. a = Removed(b, z.ev) /\ R = Range(q)
    OBVIOUS
  <2> HIDE DEF a, b, P, R
  <2>2. QED
    BY <1>5, <2>1, RemovedAgrees
<1>7. d = TakenFrom(c, i, z.time, a)
  <2>1. Hash(c, z.time) = i
    BY <1>4, HashIs
  <2>2. d = Counted([c EXCEPT !.buckets[i] = Removed(@, z.ev), !.size = @ - 1], i, z.time, -1)
    BY <2>1 DEF CalCancel
  <2>3. QED
    BY <2>2 DEF TakenFrom
<1>8. Takes(c, d, n, w, q, s, R, z, a)
  <2>1. IsFiniteSet(R) /\ SameOrder(s, q, R \ {z}) /\ z \in R
    BY <1>3, RangeFinite DEF SameOrder
  <2>2. i = BucketOf(n, w, z.time) /\ P = PartOf(n, w, R, i) /\ CalHolds(c, n, w, q, R)
    BY <1>1
  <2> HIDE DEF a, b, P, R, i, d
  <2>3. QED
    BY <1>2, <1>6, <1>7, <2>1, <2>2 DEF Takes
<1> HIDE DEF a, d, R
<1>9. CalHolds(d, n, w, s, R \ {z})
  BY <1>8, HoldsTaken
<1>10. QED
  BY <1>3, <1>9 DEF CalOK, d

\* head finds the next event and moves the clock to it; with none queued it does nothing.
LEMMA PeekedHolds ==
    ASSUME NEW n \in Sizes, NEW w \in Width, NEW q, List(q), NEW c,
           CalHolds(c, n, w, q, Range(q)), NEW p, p = Peeked(c)
    PROVE  CalHolds(p, n, w, q, Range(q)) /\ (q # <<>> => p.clock = Head(q).time)
<1>1. c.size = Len(q)
  <2>1. c.size = Cardinality(Range(q))
    BY DEF CalHolds, CountsOK
  <2>2. QED
    BY <2>1, RangeFinite
<1>2. q \in Seq(Entry) /\ OneEach(q) /\ InOrder(q) /\ \A x \in Range(q) : x.time \in Nat
  BY ListTimes
<1>3. CASE q = <<>>
  <2>1. c.size = 0
    BY <1>1, <1>3
  <2>2. p = c
    BY <2>1 DEF Peeked
  <2>3. QED
    BY <1>3, <2>2
<1>4. CASE q # <<>>
  <2> DEFINE g == Head(q)
  <2>1. c.size # 0
    BY <1>1, <1>2, <1>4
  <2>2. p = [c EXCEPT !.last = HeadBucket(c), !.clock = CalHead(c).time]
    BY <2>1 DEF Peeked
  <2>3. HeadBucket(c) = BucketOf(n, w, g.time) /\ CalHead(c) = g
    BY <1>4, HeadFound
  <2>4. g \in Range(q) /\ \A x \in Range(q) : g.time <= x.time
    BY <1>2, <1>4, TailOrder
  <2> HIDE DEF g
  <2>5. MovedTo(p, c, n, w, g.time)
    BY <2>2, <2>3 DEF MovedTo
  <2>6. CalHolds(p, n, w, q, Range(q)) /\ p.clock = g.time
    BY <1>2, <2>4, <2>5, ClockMoved
  <2>7. QED
    BY <2>6 DEF g
<1>5. QED
  BY <1>3, <1>4

\* The first event is taken off the bucket it is in, once the clock is at its time.
LEMMA FirstTaken ==
    ASSUME NEW n \in Sizes, NEW w \in Width, NEW q, List(q), q # <<>>, NEW r,
           CalHolds(r, n, w, q, Range(q)), r.clock = Head(q).time,
           NEW d, d = TakenFrom(r, r.last, r.clock, Tail(r.buckets[r.last]))
    PROVE  CalOK(d, Tail(q)) /\ List(Tail(q))
<1> DEFINE g == Head(q)
           s == Tail(q)
           i == BucketOf(n, w, g.time)
           a == Tail(r.buckets[i])
           R == Range(q)
           P == PartOf(n, w, R, i) \ {g}
<1>1. q \in Seq(Entry) /\ OneEach(q) /\ InOrder(q)
  BY DEF List
<1>2. /\ List(s) /\ Range(s) = R \ {g} /\ g \in R
      /\ \A x, y \in Range(s) : Before(s, x, y) <=> Before(q, x, y)
  BY <1>1, TailOrder DEF List
<1>3. g \in Entry
  BY <1>1, <1>2, InRange
<1>4. r.last = i
  BY DEF CalHolds
<1>5. a \in Seq(Entry) /\ Agrees(a, q, P)
  BY HeadFound
<1>6. d = TakenFrom(r, i, g.time, a)
  BY <1>4
<1>7. P \subseteq Range(s) /\ i = BucketOf(n, w, g.time) /\ P = PartOf(n, w, R, i) \ {g}
  BY <1>2 DEF PartOf
<1>8. IsFiniteSet(R) /\ CalHolds(r, n, w, q, R)
  BY RangeFinite
<1> HIDE DEF g, s, i, a, R, P
<1>9. Agrees(a, s, P)
  BY <1>2, <1>5, <1>7 DEF Agrees
<1>10. SameOrder(s, q, R \ {g})
  BY <1>2 DEF SameOrder
<1>11. Takes(r, d, n, w, q, s, R, g, a)
  BY <1>2, <1>3, <1>5, <1>6, <1>7, <1>8, <1>9, <1>10 DEF Takes
<1>12. CalHolds(d, n, w, s, R \ {g})
  BY <1>11, HoldsTaken
<1>13. CalOK(d, s)
  BY <1>2, <1>12 DEF CalOK
<1>14. QED
  BY <1>2, <1>13 DEF s

LEMMA CalDequeOK ==
    ASSUME NEW q, List(q), q # <<>>, NEW c, CalOK(c, q), NEW adjusted \in BOOLEAN,
           NEW v \in Width
    PROVE  CalOK(CalDeque(c, adjusted, v), Tail(q))
<1>1. PICK n \in Sizes, w \in Width : CalHolds(c, n, w, q, Range(q))
  BY DEF CalOK
<1> DEFINE p == Peeked(c)
           r == IF adjusted THEN Resized(p, p.n, v) ELSE p
           d == TakenFrom(r, r.last, r.clock, Tail(r.buckets[r.last]))
<1>2. CalHolds(p, n, w, q, Range(q)) /\ p.clock = Head(q).time
  BY <1>1, PeekedHolds
<1>3. CalDeque(c, adjusted, v) = IF d.stat < Bottom(d) THEN Resized(d, d.n \div 2, v) ELSE d
  BY DEF CalDeque, TakenFrom
<1>4. r = IF adjusted THEN Resized(p, p.n, v) ELSE p
  OBVIOUS
<1>5. d = TakenFrom(r, r.last, r.clock, Tail(r.buckets[r.last]))
  OBVIOUS
<1> HIDE DEF p, r, d
<1>6. \E m \in Sizes, u \in Width : CalHolds(r, m, u, q, Range(q)) /\ r.clock = Head(q).time
  <2>1. p.n \in Nat
    <3>1. CalOK(p, q)
      BY <1>2 DEF CalOK
    <3>2. QED
      BY <3>1, SizeOK
  <2>2. \E m \in Sizes : /\ CalHolds(Resized(p, p.n, v), m, v, q, Range(q))
                         /\ Resized(p, p.n, v).clock = p.clock
    BY <1>2, <2>1, ResizedHolds
  <2>3. QED
    BY <1>2, <1>4, <2>2
<1>7. CalOK(d, Tail(q)) /\ List(Tail(q))
  BY <1>5, <1>6, FirstTaken
<1>8. CalOK(Resized(d, d.n \div 2, v), Tail(q))
  BY <1>7, SizeOK, ResizedOK
<1>9. QED
  BY <1>3, <1>7, <1>8

-----------------------------------------------------------------------------
(***************************************************************************)
(* The calendar and the list, always                                       *)
(***************************************************************************)
LEMMA CalStep ==
    ASSUME SchOK(sch), CalOK(cal, sch.queue),
           Looks \/ Schedules \/ Cancels \/ Moves \/ Deques
    PROVE  CalOK(cal', sch'.queue)
<1> DEFINE q == sch.queue
<1>1. List(q)
  BY DEF SchOK, Sch, List
<1>2. Widths \subseteq Width
  BY WidthAssumption DEF Width
<1>3. CASE Looks
  <2>1. PICK n \in Sizes, w \in Width : CalHolds(cal, n, w, q, Range(q))
    BY DEF CalOK
  <2>2. CalHolds(Peeked(cal), n, w, q, Range(q))
    BY <1>1, <2>1, PeekedHolds
  <2>3. CalOK(Peeked(cal), q)
    BY <2>2 DEF CalOK
  <2>4. QED
    BY <1>3, <2>3 DEF Looks
<1>4. CASE Schedules
  <2>1. PICK e \in Ev, t \in Nat, v \in Widths :
           /\ e \notin Queued(q) /\ sch'.queue = Inserted(q, e, t)
           /\ cal' = CalInsert(cal, e, t, v)
    BY <1>4 DEF Schedules, InsertAll
  <2>2. v \in Width
    BY <1>2
  <2>3. QED
    BY <1>1, <2>1, <2>2, CalInsertOK
<1>5. CASE Cancels
  <2>1. PICK z \in Range(q) :
           sch'.queue = Removed(q, z.ev) /\ cal' = CalCancel(cal, z.ev, z.time)
    BY <1>5 DEF Cancels
  <2>2. QED
    BY <1>1, <2>1, CalCancelOK
<1>6. CASE Moves
  <2>1. PICK z \in Range(q), t \in Nat, v \in Widths :
           /\ sch'.queue = Inserted(Removed(q, z.ev), z.ev, t)
           /\ cal' = CalInsert(CalCancel(cal, z.ev, z.time), z.ev, t, v)
    BY <1>6 DEF Moves, InsertAll
  <2> DEFINE r == Removed(q, z.ev)
             c == CalCancel(cal, z.ev, z.time)
  <2>2. CalOK(c, r) /\ List(r)
    BY <1>1, CalCancelOK
  <2>3. z.ev \in Ev /\ z.ev \in Queued(q)
    <3>1. PICK i \in DOMAIN q : z = q[i]
      BY DEF Range
    <3>2. z \in Entry
      BY <1>1, InRange DEF List
    <3>3. QED
      BY <3>1, <3>2 DEF Queued, Entry
  <2>4. z.ev \notin Queued(r)
    BY <1>1, <2>3, RemovedFacts DEF List
  <2>5. v \in Width
    BY <1>2
  <2> HIDE DEF r, c, q
  <2>6. CalOK(CalInsert(c, z.ev, t, v), Inserted(r, z.ev, t))
    BY <2>2, <2>3, <2>4, <2>5, CalInsertOK
  <2>7. QED
    BY <2>1, <2>6 DEF r, c
<1>7. CASE Deques
  <2>1. PICK a \in BOOLEAN, v \in Widths :
           q # <<>> /\ sch'.queue = Tail(q) /\ cal' = CalDeque(cal, a, v)
    BY <1>7 DEF Deques
  <2>2. v \in Width
    BY <1>2
  <2>3. QED
    BY <1>1, <2>1, <2>2, CalDequeOK
<1>8. QED
  BY <1>3, <1>4, <1>5, <1>6, <1>7

LEMMA CalInit ==
    ASSUME SInit
    PROVE  CalOK(cal, sch.queue)
<1>1. sch.queue = <<>> /\ cal = Calendar(4, 1, 0)
  BY DEF SInit, Init
<1>2. Range(<<>>) = {}
  BY DEF Range
<1>3. 4 \in Sizes /\ 1 \in Width /\ 0 \in Nat
  BY DEF Sizes, Width
<1>4. CalHolds(cal, 4, 1, <<>>, {})
  BY <1>1, <1>3, CalendarHolds
<1>5. QED
  BY <1>1, <1>2, <1>3, <1>4 DEF CalOK

CalInv == TimerInv /\ CalOK(cal, sch.queue)

LEMMA CalInvariant == SSpec => []CalInv
<1>1. SInit => CalInv
  BY InvInit, CalInit DEF CalInv, SInit
<1>2. CalInv /\ [SNext]_svars => CalInv'
  <2> SUFFICES ASSUME CalInv, [SNext]_svars PROVE CalInv'
    OBVIOUS
  <2>1. TimerInv'
    BY StepCalls, InvNext DEF CalInv
  <2>2. CalOK(cal', sch'.queue)
    BY StepCalls, CalStep, InvParts DEF CalInv
  <2>3. QED
    BY <2>1, <2>2 DEF CalInv
<1>3. QED
  BY <1>1, <1>2, PTL DEF SSpec

\* Each bucket of the calendar is the part of the list that hashes to it, in the list's
\* order: no insertion, cancellation, dequeue or resize of CalendarScheduler loses an event,
\* keeps one that was taken off, or changes the order of events of equal time, whatever the
\* widths that newwidth and resize come to.
THEOREM BucketsAgreeAlways == SSpec => []BucketsAgree
<1>1. CalInv => BucketsAgree
  <2> SUFFICES ASSUME CalInv PROVE BucketsAgree
    OBVIOUS
  <2> DEFINE q == sch.queue
  <2>1. PICK n \in Sizes, w \in Width : CalHolds(cal, n, w, q, Range(q))
    BY DEF CalInv, CalOK
  <2>2. /\ cal \in CalSet(n, w)
        /\ \A i \in 0..(n - 1) : Agrees(cal.buckets[i], q, PartOf(n, w, Range(q), i))
    BY <2>1 DEF CalHolds
  <2>3. cal.buckets \in [0..(n - 1) -> Seq(Entry)]
    BY <2>2, CalFields
  <2>4. DOMAIN cal.buckets = 0..(n - 1)
    BY <2>3
  <2> SUFFICES ASSUME NEW i \in 0..(n - 1)
               PROVE  LET b == cal.buckets[i]
                      IN  /\ Range(b) = {x \in Range(q) : Hash(cal, x.time) = i}
                          /\ \A x, y \in Range(b) : Before(b, x, y) <=> Before(q, x, y)
    BY <2>4 DEF BucketsAgree
  <2>5. \A t : Hash(cal, t) = BucketOf(n, w, t)
    BY <2>2, HashIs
  <2>6. PartOf(n, w, Range(q), i) = {x \in Range(q) : Hash(cal, x.time) = i}
    BY <2>5 DEF PartOf
  <2>7. QED
    BY <2>2, <2>6 DEF Agrees
<1>2. QED
  BY <1>1, CalInvariant, PTL

\* The event that head finds, from lastbucket_ and within a year of cal_clock_ or else by
\* a look at every bucket, is the first of the list.
THEOREM HeadIsNextAlways == SSpec => []HeadIsNext
<1>1. CalInv => HeadIsNext
  <2> SUFFICES ASSUME CalInv, sch.queue # <<>> PROVE CalHead(cal) = Head(sch.queue)
    BY DEF HeadIsNext
  <2> DEFINE q == sch.queue
  <2>1. PICK n \in Sizes, w \in Width : CalHolds(cal, n, w, q, Range(q))
    BY DEF CalInv, CalOK
  <2>2. List(q)
    BY InvParts DEF CalInv, SchOK, Sch, List
  <2>3. QED
    BY <2>1, <2>2, HeadFound
<1>2. QED
  BY <1>1, CalInvariant, PTL

\* qsize_ counts the queued events, stat_qsize_ their distinct times and count_ those of
\* each bucket: what decides on a resize is never out by one.
THEOREM CountsExactAlways == SSpec => []CountsExact
<1>1. CalInv => CountsExact
  <2> SUFFICES ASSUME CalInv PROVE CountsExact
    OBVIOUS
  <2> DEFINE q == sch.queue
  <2>1. PICK n \in Sizes, w \in Width : CalHolds(cal, n, w, q, Range(q))
    BY DEF CalInv, CalOK
  <2>2. List(q)
    BY InvParts DEF CalInv, SchOK, Sch, List
  <2>3. /\ cal \in CalSet(n, w) /\ CountsOK(cal, n, w, Range(q))
        /\ \A i \in 0..(n - 1) : Agrees(cal.buckets[i], q, PartOf(n, w, Range(q), i))
    BY <2>1 DEF CalHolds
  <2>4. cal.buckets \in [0..(n - 1) -> Seq(Entry)]
    BY <2>3, CalFields
  <2>5. DOMAIN cal.buckets = 0..(n - 1)
    BY <2>4
  <2>6. \A s : TimesOf(Range(s)) = {s[k].time : k \in DOMAIN s}
    BY DEF TimesOf, Range
  <2>7. cal.size = Len(q) /\ cal.stat = Cardinality({q[k].time : k \in DOMAIN q})
    <3>1. cal.size = Cardinality(Range(q)) /\ cal.stat = Cardinality(TimesOf(Range(q)))
      BY <2>3 DEF CountsOK
    <3>2. Cardinality(Range(q)) = Len(q)
      BY <2>2, RangeFinite
    <3>3. TimesOf(Range(q)) = {q[k].time : k \in DOMAIN q}
      BY <2>6
    <3>4. QED
      BY <3>1, <3>2, <3>3
  <2>8. ASSUME NEW i \in 0..(n - 1)
        PROVE  cal.count[i] = Cardinality({cal.buckets[i][k].time : k \in DOMAIN cal.buckets[i]})
    <3> DEFINE b == cal.buckets[i]
    <3>1. cal.count[i] = Cardinality(TimesOf(PartOf(n, w, Range(q), i)))
      BY <2>3 DEF CountsOK
    <3>2. Range(b) = PartOf(n, w, Range(q), i)
      BY <2>3 DEF Agrees
    <3>3. TimesOf(Range(b)) = {b[k].time : k \in DOMAIN b}
      BY <2>6
    <3>4. QED
      BY <3>1, <3>2, <3>3
  <2>9. QED
    BY <2>5, <2>7, <2>8 DEF CountsExact
<1>2. QED
  BY <1>1, CalInvariant, PTL
=============================================================================
