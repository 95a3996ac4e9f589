----------------------------- MODULE Schedulers -----------------------------
(***************************************************************************)
(* The heap and the calendar queue of common/scheduler.cc, run in step     *)
(* with the list of module Timer: every call that timers, scripts and the  *)
(* run loop make to the scheduler is made to all three.  The calendar is   *)
(* the default scheduler and the one under the real-time loop, which looks *)
(* at the next event without taking it off.                                *)
(*                                                                         *)
(* What is shown is that a simulation does not depend on its scheduler:    *)
(* events of equal time too come in the order in which they were           *)
(* scheduled, through every swap of the heap and every resize of the       *)
(* calendar.                                                               *)
(*                                                                         *)
(* Times and widths are whole numbers here.  The width that newwidth and   *)
(* resize compute from gaps and search lengths is any member of Widths.    *)
(***************************************************************************)
EXTENDS Timer, SequencesExt, FiniteSetsExt

CONSTANTS
    Widths,       \* values of width_
    MaxSets       \* bound, for each script: how often timers are set in a run

ASSUME WidthAssumption == Widths \subseteq Nat \ {0} /\ 1 \in Widths

VARIABLES
    heap,   \* elems: h_elems, from index 1; skey: h_s_key
    cal     \* buckets (0..n-1) with their count_, n: nbuckets_, width: width_,
            \* last: lastbucket_, clock: cal_clock_, stat: stat_qsize_, size: qsize_

svars == <<vars, heap, cal>>

-----------------------------------------------------------------------------
(***************************************************************************)
(* Heap (indices are one higher than in the code)                          *)
(***************************************************************************)
\* KEY_LESS_THAN
KeyLess(a, b) == a.key < b.key \/ (a.key = b.key /\ a.skey < b.skey)

\* The indices from i up to the root.
Ancestors(i) ==
    LET up[j \in 0..i] == IF j = 0 THEN i ELSE up[j - 1] \div 2
    IN  {up[j] : j \in 0..i} \ {0}

\* The while loop of heap_insert: elements move down to make room for x, from the last index.
SiftUp(h, x) ==
    LET path == Ancestors(Len(h))
        to == Max({k \in path : k = 1 \/ ~KeyLess(x, h[k \div 2])})
    IN  [k \in 1..Len(h) |->
            IF k = to THEN x ELSE IF k \in path /\ k > to THEN h[k \div 2] ELSE h[k]]

HeapInsert(hp, e, time) ==
    LET x == [key |-> time, skey |-> hp.skey, ev |-> e]
    IN  [elems |-> SiftUp(Append(hp.elems, x), x), skey |-> hp.skey + 1]

\* Mutant: the left child is taken whenever there is one.
ChildLeft(h, i) == IF 2 * i <= Len(h) THEN 2 * i ELSE i

\* The child that heapify compares with i: the smaller one, or i if there is none.
Child(h, i) ==
    IF 2 * i + 1 <= Len(h)
    THEN IF KeyLess(h[2 * i], h[2 * i + 1]) THEN 2 * i ELSE 2 * i + 1
    ELSE IF 2 * i <= Len(h) THEN 2 * i ELSE i

\* Heapify: the root x changes places with a smaller child as long as there is one.  It gets
\* to the indices that are the child on every level above, with smaller elements than x.
Heapify(h) ==
    LET x == h[1]
        reached == {k \in 1..Len(h) : \A m \in Ancestors(k) \ {1} :
                       m = Child(h, m \div 2) /\ KeyLess(h[m], x)}
        to == Max(reached)
    IN  [k \in 1..Len(h) |->
            IF k = to THEN x ELSE IF k \in Ancestors(to) THEN h[Child(h, k)] ELSE h[k]]

\* heap_extract_min: the last element becomes the root and sinks.
ExtractMin(h) == IF Len(h) = 1 THEN <<>> ELSE Heapify([Front(h) EXCEPT ![1] = Last(h)])

HeapDeque(hp) == [hp EXCEPT !.elems = ExtractMin(@)]

\* The loop of heap_delete: the element is swapped up to the root whatever its key.
ToRoot(h, i) ==
    [k \in 1..Len(h) |->
        IF k = 1 THEN h[i] ELSE IF k \in Ancestors(i) THEN h[k \div 2] ELSE h[k]]

HeapCancel(hp, e) ==
    [hp EXCEPT !.elems =
        ExtractMin(ToRoot(@, CHOOSE i \in DOMAIN hp.elems : hp.elems[i].ev = e))]

-----------------------------------------------------------------------------
(***************************************************************************)
(* CalendarScheduler                                                       *)
(***************************************************************************)
\* CALENDAR_HASH
Hash(c, time) == (time \div c.width) % c.n

\* reinit
Calendar(n, width, start) ==
    LET c == [n |-> n, width |-> width]
    IN  [buckets |-> [i \in 0..(n - 1) |-> <<>>], count |-> [i \in 0..(n - 1) |-> 0],
         n |-> n, width |-> width, last |-> Hash(c, start), clock |-> start,
         stat |-> 0, size |-> 0]

Top(c) == 2 * c.n
Bottom(c) == (c.n \div 2) - 2

\* How a bucket with x counts: distinct times only.
Counted(c, i, time, by) ==
    IF \E k \in DOMAIN c.buckets[i] : c.buckets[i][k].time = time
    THEN c
    ELSE [c EXCEPT !.stat = @ + by, !.count[i] = @ + by]

\* Mutant: behind the events of its time.
Insert2Behind(c, x) ==
    LET i == Hash(c, x.time)
    IN  [Counted(c, i, x.time, 1) EXCEPT
            !.buckets[i] = Inserted(@, x.ev, x.time), !.size = @ + 1]

\* Where insert2 stops: at the first event that is not earlier.
Place2(b, time) ==
    CHOOSE p \in 1..(Len(b) + 1) :
        /\ \A i \in 1..(p - 1) : b[i].time < time
        /\ p <= Len(b) => time <= b[p].time

\* insert2: before the events of its time.
Insert2(c, x) ==
    LET i == Hash(c, x.time)
    IN  [Counted(c, i, x.time, 1) EXCEPT
            !.buckets[i] = InsertedAt(@, Place2(@, x.time), x), !.size = @ + 1]

\* resize: the bucket b is emptied from its end into c,
Emptied(c, b) ==
    LET moved[k \in 0..Len(b)] ==
          IF k = 0 THEN c ELSE Insert2(moved[k - 1], b[Len(b) - k + 1])
    IN  moved[Len(b)]

\* ... and so is every bucket into the new ones.
Resized(c, n, width) ==
    LET moved[i \in 0..c.n] ==
          IF i = 0 THEN Calendar(IF n < 4 THEN 4 ELSE n, width, c.clock)
          ELSE Emptied(moved[i - 1], c.buckets[i - 1])
    IN  moved[c.n]

\* Mutant: cal_clock_ is left ahead of the new event.
RewoundNever(c, time) == c

\* The start of insert: cal_clock_ may be ahead, after a look at the next event.
Rewound(c, time) ==
    IF c.clock > time THEN [c EXCEPT !.clock = time, !.last = Hash(c, time)] ELSE c

CalInsert(c, e, time, width) ==
    LET i == Hash(c, time)
        d == [Counted(Rewound(c, time), i, time, 1) EXCEPT
                 !.buckets[i] = Inserted(@, e, time), !.size = @ + 1]
    IN  IF d.stat > Top(d) THEN Resized(d, 2 * d.n, width) ELSE d

\* The k-th bucket that head looks at, and the time within which its first event must lie
\* to be taken without a look at the other buckets.  The last bucket is not asked.
Nth(c, k) == (c.last + k) % c.n
Limit(c, k) ==
    CASE k = 0 -> (c.width * c.n) \div 2
      [] k = 1 -> (c.width * c.n) \div 2 + c.width
      [] OTHER -> c.width * c.n

ThisYear(c, k) ==
    LET b == c.buckets[Nth(c, k)]
    IN  b # <<>> /\ Head(b).time - c.clock < Limit(c, k)

\* head: the bucket of the next event.
HeadBucket(c) ==
    IF \E k \in 0..(c.n - 2) : ThisYear(c, k)
    THEN Nth(c, Min({k \in 0..(c.n - 2) : ThisYear(c, k)}))
    ELSE CHOOSE i \in DOMAIN c.buckets :
            /\ c.buckets[i] # <<>>
            /\ \A j \in DOMAIN c.buckets :
                  c.buckets[j] # <<>> => Head(c.buckets[i]).time <= Head(c.buckets[j]).time

CalHead(c) == Head(c.buckets[HeadBucket(c)])

\* head moves lastbucket_ and cal_clock_ to the event.
Peeked(c) ==
    IF c.size = 0 THEN c ELSE [c EXCEPT !.last = HeadBucket(c), !.clock = CalHead(c).time]

\* deque.  adjusted: the search lengths since the last time ask for another width.
CalDeque(c, adjusted, width) ==
    LET p == Peeked(c)
        r == IF adjusted THEN Resized(p, p.n, width) ELSE p
        u == [r EXCEPT !.buckets[r.last] = Tail(@), !.size = @ - 1]
        d == Counted(u, r.last, r.clock, -1)
    IN  IF d.stat < Bottom(d) THEN Resized(d, d.n \div 2, width) ELSE d

\* Mutant: the counts are left alone.
CalCancelUncounted(c, e, time) ==
    LET i == Hash(c, time)
    IN  [c EXCEPT !.buckets[i] = Removed(@, e), !.size = @ - 1]

\* cancel, of an event with that time.
CalCancel(c, e, time) ==
    LET i == Hash(c, time)
    IN  Counted([c EXCEPT !.buckets[i] = Removed(@, e), !.size = @ - 1], i, time, -1)

-----------------------------------------------------------------------------
(***************************************************************************)
(* The calls of module Timer, made to all schedulers                       *)
(***************************************************************************)
SInit == Init /\ heap = [elems |-> <<>>, skey |-> 0] /\ cal = Calendar(4, 1, 0)

TimeOf(e) == LET i == CHOOSE i \in DOMAIN sch.queue : sch.queue[i].ev = e
             IN  sch.queue[i].time

\* An event is scheduled, after h and c have lost its earlier entry.
InsertAll(h, c, e, time) ==
    /\ heap' = HeapInsert(h, e, time)
    /\ \E w \in Widths : cal' = CalInsert(c, e, time, w)

SetBound == heap.skey < nextAt - 1 + MaxSets[script]

SAt ==
    /\ At
    /\ IF script.times[nextAt] >= clock
       THEN InsertAll(heap, cal, nextAt, script.times[nextAt])
       ELSE UNCHANGED <<heap, cal>>

CancelAll(e) == heap' = HeapCancel(heap, e) /\ cal' = CalCancel(cal, e, TimeOf(e))

SResched(t, d) ==
    /\ Resched(t, d) /\ SetBound
    /\ IF status[t] = "pending"
       THEN InsertAll(HeapCancel(heap, t), CalCancel(cal, t, TimeOf(t)), t, clock + d)
       ELSE InsertAll(heap, cal, t, clock + d)

SDispatch ==
    /\ Dispatch
    /\ heap' = HeapDeque(heap)
    /\ \E a \in BOOLEAN, w \in Widths : cal' = CalDeque(cal, a, w)

\* A handler returns; the real-time loop looks at the next event.
SHandleEnd ==
    /\ HandleEnd
    /\ cal' = IF realtime /\ ~halted THEN Peeked(cal) ELSE cal
    /\ UNCHANGED heap

SWake(now) == Wake(now) /\ cal' = Peeked(cal) /\ UNCHANGED heap

SNext ==
    \/ SAt \/ SDispatch \/ SHandleEnd
    \/ (Halt \/ Run) /\ UNCHANGED <<heap, cal>>
    \/ \E a \in Revoked : AtCancel(a) /\ CancelAll(a)
    \/ \E t \in Timers, d \in Delays :
          Sched(t, d) /\ SetBound /\ InsertAll(heap, cal, t, clock + d)
    \/ \E t \in Timers, d \in Delays : SResched(t, d)
    \/ \E t \in Timers : Cancel(t) /\ CancelAll(t)
    \/ \E now \in TimesOfDay : SWake(now)

SSpec == SInit /\ [][SNext]_svars

-----------------------------------------------------------------------------
(***************************************************************************)
(* Properties                                                              *)
(***************************************************************************)
\* The heap holds the events of the list and would give them up in its order: keys and
\* secondary keys rank them as the list does, and the root is the list's head.
HeapAgrees ==
    LET h == heap.elems
        q == sch.queue
    IN  /\ Len(h) = Len(q)
        /\ \A i \in DOMAIN q : \E k \in DOMAIN h :
              /\ h[k].ev = q[i].ev /\ h[k].key = q[i].time
              /\ Cardinality({j \in DOMAIN h : KeyLess(h[j], h[k])}) = i - 1
        /\ q # <<>> => h[1].ev = Head(q).ev

Before(s, x, y) == \E i, j \in DOMAIN s : i < j /\ s[i] = x /\ s[j] = y

\* Each bucket is the part of the list that hashes to it, in the list's order: resizing
\* loses nothing and keeps events of equal time in the order they were scheduled in.
BucketsAgree ==
    \A i \in DOMAIN cal.buckets :
        LET b == cal.buckets[i]
        IN  /\ Range(b) = {x \in Range(sch.queue) : Hash(cal, x.time) = i}
            /\ \A x, y \in Range(b) : Before(b, x, y) <=> Before(sch.queue, x, y)

\* The event that head finds by looking a year ahead is the next one, also after the
\* real-time loop has looked at an event and an earlier one was scheduled.
HeadIsNext == sch.queue # <<>> => CalHead(cal) = Head(sch.queue)

\* The counts on which resizing rests are exact: distinct times in all and per bucket.
CountsExact ==
    /\ cal.size = Len(sch.queue)
    /\ cal.stat = Cardinality({sch.queue[k].time : k \in DOMAIN sch.queue})
    /\ \A i \in DOMAIN cal.buckets :
          cal.count[i] = Cardinality({cal.buckets[i][k].time : k \in DOMAIN cal.buckets[i]})
=============================================================================
