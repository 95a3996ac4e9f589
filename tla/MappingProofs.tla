--------------------------- MODULE MappingProofs ---------------------------
(***************************************************************************)
(* Proofs about Mapping: slice_list's iterator is never exhausted early    *)
(* and ends empty, every sender finds exactly one responsible host for     *)
(* every link, and the links are spread evenly in each rack, for racks,    *)
(* links and hosts of any number.                                          *)
(***************************************************************************)
EXTENDS Mapping, FiniteSetTheorems, TLAPS

-----------------------------------------------------------------------------
(***************************************************************************)
(* The inductive invariant                                                 *)
(***************************************************************************)
\* The links that host h is given beforehand.
Base(h) == IF own THEN HostLinks[h] ELSE {}

\* Racks are dealt with one after the other, each as a whole.
AtRack ==
    /\ first % RackSize = 0
    /\ pc = "own" => first = 0
    /\ pc = "slice" => first < NumHosts
    /\ pc = "done" => first >= NumHosts

\* The lists before slot are complete, the ones after it are empty; the odd links are fewer
\* than the lists that are to come.
Sizes ==
    pc = "slice" =>
        /\ remain <= RackSize - slot
        /\ \A n \in 0..(RackSize - 1) :
              /\ n < slot => Cardinality(result[n]) \in {slice_size, slice_size + 1}
              /\ n = slot => Cardinality(result[n]) <= Wanted
              /\ n > slot => result[n] = {}

\* The iterator and the lists hold every free link of the rack exactly once.
Dealt ==
    pc = "slice" =>
        /\ \A l \in Link : l \in Free(first) <=>
              l \in left \/ \E n \in 0..(RackSize - 1) : l \in result[n]
        /\ \A n \in 0..(RackSize - 1) : left \cap result[n] = {}
        /\ \A m, n \in 0..(RackSize - 1) : m # n => result[m] \cap result[n] = {}

\* Hosts of racks to come have what they were given beforehand.
Untouched == \A h \in Host : h >= first => allocations[h] = IF pc = "own" THEN {} ELSE Base(h)

SameRack(g, h) == g \div RackSize = h \div RackSize

\* In a rack that is finished every link is given out,
Covered == \A h \in Host, l \in Link : h < first =>
              \E r \in Host : SameRack(r, h) /\ l \in allocations[r]

\* ... to one host,
Unique == \A g, h \in Host : g < first /\ h < first /\ SameRack(g, h) /\ g # h =>
              allocations[g] \cap allocations[h] = {}

\* ... and evenly.
Even == \A g, h \in Host : g < first /\ h < first /\ SameRack(g, h) =>
              Cardinality(allocations[g] \ Base(g)) - Cardinality(allocations[h] \ Base(h)) \in -1..1

IInv == TypeOK /\ AtRack /\ IteratorSuffices /\ Sizes /\ Dealt /\ Untouched
            /\ Covered /\ Unique /\ Even

-----------------------------------------------------------------------------
(***************************************************************************)
(* Racks in numbers                                                        *)
(***************************************************************************)
LEMMA DivMod ==
    ASSUME NEW h \in Nat, NEW r \in Nat \ {0}
    PROVE  /\ h \div r \in Nat /\ h % r \in 0..(r - 1)
           /\ h = r * (h \div r) + (h % r)
<1>1. h \div r \in Int /\ h % r \in 0..(r - 1)
  OBVIOUS
<1>2. h = r * (h \div r) + (h % r)
  OBVIOUS
<1>3. h \div r >= 0
  OBVIOUS
<1>4. QED
  BY <1>1, <1>2, <1>3

LEMMA DivUnique ==
    ASSUME NEW r \in Nat \ {0}, NEW q \in Nat, NEW n \in 0..(r - 1)
    PROVE  (r * q + n) \div r = q /\ (r * q + n) % r = n
OBVIOUS

LEMMA MulMono ==
    ASSUME NEW a \in Nat, NEW b \in Nat, NEW c \in Nat, a <= b
    PROVE  c * a <= c * b
OBVIOUS

LEMMA MulStrict ==
    ASSUME NEW a \in Nat, NEW b \in Nat, NEW c \in Nat, c * a < c * b
    PROVE  a < b
BY MulMono

\* The numbers in the rack that starts at f.
LEMMA RackNumbers ==
    ASSUME NEW r \in Nat \ {0}, NEW f \in Nat, f % r = 0, NEW h \in Nat
    PROVE  /\ f <= h /\ h < f + r <=> h \div r = f \div r
           /\ h < f <=> h \div r < f \div r
           /\ f <= h /\ h < f + r => h = f + (h % r)
<1> DEFINE q == f \div r
           p == h \div r
           m == h % r
<1>1. q \in Nat /\ f = r * q
  BY DivMod
<1>2. p \in Nat /\ m \in 0..(r - 1) /\ h = r * p + m
  BY DivMod
<1> HIDE DEF q, p, m
<1>3. CASE p = q
  BY <1>1, <1>2, <1>3 DEF p, q, m
<1>4. CASE p < q
  <2>1. r * (p + 1) <= r * q
    BY <1>1, <1>2, <1>4, MulMono
  <2>2. r * (p + 1) = r * p + r
    BY <1>2
  <2>3. h < f
    BY <1>1, <1>2, <2>1, <2>2
  <2>4. QED
    BY <1>1, <1>2, <1>4, <2>3 DEF p, q, m
<1>5. CASE p > q
  <2>1. r * (q + 1) <= r * p
    BY <1>1, <1>2, <1>5, MulMono
  <2>2. r * (q + 1) = r * q + r
    BY <1>1
  <2>3. h >= f + r
    BY <1>1, <1>2, <2>1, <2>2
  <2>4. QED
    BY <1>1, <1>2, <1>5, <2>3 DEF p, q, m
<1>6. QED
  BY <1>1, <1>2, <1>3, <1>4, <1>5

LEMMA RackStart ==
    ASSUME NEW r \in Nat \ {0}, NEW f \in Nat, f % r = 0
    PROVE  /\ (f + r) % r = 0
           /\ \A n \in 0..(r - 1) : (f + n) % r = n
           /\ \A N \in Nat : N % r = 0 /\ f < N => f + r <= N
<1> DEFINE q == f \div r
<1>1. q \in Nat /\ f = r * q
  BY DivMod
<1> HIDE DEF q
<1>2. f + r = r * (q + 1) + 0
  BY <1>1
<1>3. (f + r) % r = 0
  BY <1>1, <1>2, DivUnique
<1>4. \A n \in 0..(r - 1) : (f + n) % r = n
  BY <1>1, DivUnique
<1>5. ASSUME NEW N \in Nat, N % r = 0, f < N
      PROVE  f + r <= N
  <2> DEFINE p == N \div r
  <2>1. p \in Nat /\ N = r * p
    BY <1>5, DivMod
  <2> HIDE DEF p
  <2>2. q < p
    BY <1>1, <1>5, <2>1, MulStrict
  <2>3. r * (q + 1) <= r * p
    BY <1>1, <2>1, <2>2, MulMono
  <2>4. QED
    BY <1>2, <1>1, <2>1, <2>3
<1>6. QED
  BY <1>3, <1>4, <1>5

-----------------------------------------------------------------------------
(***************************************************************************)
(* Each action keeps the invariant                                         *)
(***************************************************************************)
LEMMA Constants ==
    /\ NumHosts \in Nat /\ RackSize \in Nat \ {0}
    /\ HostPerRack \in Nat \ {0}
    /\ Host \subseteq Nat
    /\ \A h \in Host : HostLinks[h] \subseteq Link
    /\ \A g, h \in Host : g # h => HostLinks[g] \cap HostLinks[h] = {}
BY MappingAssumption DEF Host

LEMMA FiniteLinks ==
    ASSUME NEW S, S \subseteq Link
    PROVE  IsFiniteSet(S) /\ Cardinality(S) \in Nat
<1>1. IsFiniteSet(S)
  BY MappingAssumption, FS_Subset
<1>2. QED
  BY <1>1, FS_CardinalityType

LEMMA InitKeeps == Init => IInv
<1> SUFFICES ASSUME Init
             PROVE  IInv
  OBVIOUS
<1> USE Constants
<1>1. TypeOK
  BY DEF Init, TypeOK, NoSlices
<1>2. AtRack
  BY DEF Init, AtRack
<1>3. IteratorSuffices /\ Sizes /\ Dealt
  BY DEF Init, IteratorSuffices, Sizes, Dealt
<1>4. Untouched /\ Covered /\ Unique /\ Even
  BY DEF Init, Untouched, Covered, Unique, Even
<1>5. QED
  BY <1>1, <1>2, <1>3, <1>4 DEF IInv

LEMMA GiveOwnKeeps == IInv /\ GiveOwn => IInv'
<1> SUFFICES ASSUME IInv, GiveOwn
             PROVE  IInv'
  OBVIOUS
<1> USE Constants DEF IInv
<1>1. TypeOK'
  BY MappingAssumption DEF GiveOwn, TypeOK
<1>2. AtRack'
  BY DEF GiveOwn, AtRack
<1>3. IteratorSuffices' /\ Sizes' /\ Dealt'
  BY DEF GiveOwn, IteratorSuffices, Sizes, Dealt
<1>4. first = 0
  BY DEF GiveOwn, AtRack
<1>5. Untouched'
  BY <1>4 DEF GiveOwn, Untouched, Base
<1>6. \A h \in Host : ~(h < first')
  BY <1>4 DEF GiveOwn
<1>8. Covered' /\ Unique' /\ Even'
  BY <1>6 DEF Covered, Unique, Even
<1>7. QED
  BY <1>1, <1>2, <1>3, <1>5, <1>8

LEMMA StartRackKeeps == IInv /\ StartRack => IInv'
<1> SUFFICES ASSUME IInv, StartRack
             PROVE  IInv'
  OBVIOUS
<1> USE Constants DEF IInv
<1> DEFINE c == Cardinality(Free(first))
           s == c \div RackSize
           r == c % RackSize
<1>1. Free(first) \subseteq Link /\ c \in Nat
  BY FiniteLinks DEF Free
<1>2. s \in Nat /\ r \in 0..(RackSize - 1) /\ c = RackSize * s + r
  BY <1>1, DivMod
<1>3. left' = Free(first) /\ slice_size' = s /\ remain' = r /\ slot' = 0
  BY DEF StartRack
<1>4. \A n \in 0..(RackSize - 1) : result'[n] = {}
  BY DEF StartRack, NoSlices
<1>5. s \in Nat /\ r \in 0..(RackSize - 1)
  BY <1>2
<1>6. Cardinality(left') = c
  BY <1>3
<1> HIDE DEF c, s, r
<1>7. TypeOK'
  BY <1>1, <1>3, <1>5 DEF StartRack, TypeOK, NoSlices
<1>8. AtRack'
  BY DEF StartRack, AtRack
<1>9. IteratorSuffices'
  <2>1. Cardinality(result'[0]) = 0
    BY <1>4, FS_EmptySet
  <2>2. c = (RackSize - 0) * s + r - 0
    BY <1>2
  <2>3. QED
    BY <1>3, <1>6, <2>1, <2>2 DEF IteratorSuffices
<1>10. Sizes'
  <2>1. Cardinality({}) = 0
    BY FS_EmptySet
  <2>2. remain' <= RackSize - slot'
    BY <1>3, <1>5
  <2>3. 0 <= Wanted'
    BY <1>3, <1>5 DEF Wanted
  <2>4. ASSUME NEW n \in 0..(RackSize - 1)
        PROVE  /\ ~(n < slot')
               /\ Cardinality(result'[n]) <= Wanted'
               /\ result'[n] = {}
    BY <1>3, <1>4, <2>1, <2>3
  <2>5. QED
    BY <2>2, <2>4 DEF Sizes
<1>11. Dealt'
  BY <1>4 DEF StartRack, Dealt, Free
<1>12. Untouched' /\ Covered' /\ Unique' /\ Even'
  BY DEF StartRack, Untouched, Covered, Unique, Even, Base
<1>13. QED
  BY <1>7, <1>8, <1>9, <1>10, <1>11, <1>12

LEMMA TakeKeeps == ASSUME NEW l \in Link PROVE IInv /\ Take(l) => IInv'
<1> SUFFICES ASSUME IInv, Take(l)
             PROVE  IInv'
  OBVIOUS
<1> USE Constants DEF IInv
<1>1. /\ pc = "slice" /\ slot \in 0..(RackSize - 1) /\ l \in left
      /\ left \subseteq Link /\ result \in [0..(RackSize - 1) -> SUBSET Link]
      /\ slice_size \in Nat /\ remain \in Nat
  BY DEF Take, TypeOK
<1>2. /\ left' = left \ {l}
      /\ result' \in [0..(RackSize - 1) -> SUBSET Link]
      /\ result'[slot] = result[slot] \cup {l}
      /\ \A n \in 0..(RackSize - 1) : n # slot => result'[n] = result[n]
  BY <1>1 DEF Take
<1>3. l \notin result[slot]
  BY <1>1 DEF Dealt
<1>4. Cardinality(left') = Cardinality(left) - 1 /\ Cardinality(left) \in Nat
  BY <1>1, <1>2, FiniteLinks, FS_RemoveElement
<1>5. /\ Cardinality(result'[slot]) = Cardinality(result[slot]) + 1
      /\ Cardinality(result[slot]) \in Nat
  BY <1>1, <1>2, <1>3, FiniteLinks, FS_AddElement
<1>6. TypeOK'
  BY <1>1, <1>2 DEF Take, TypeOK
<1>7. AtRack'
  BY DEF Take, AtRack
<1>8. IteratorSuffices'
  <2>1. Cardinality(left) = (RackSize - slot) * slice_size + remain - Cardinality(result[slot])
    BY <1>1 DEF IteratorSuffices
  <2>2. (RackSize - slot) * slice_size \in Int
    BY <1>1
  <2>3. Cardinality(left') =
            (RackSize - slot) * slice_size + remain - Cardinality(result'[slot])
    BY <1>1, <1>4, <1>5, <2>1, <2>2
  <2>4. QED
    BY <1>1, <2>3 DEF Take, IteratorSuffices
<1>9. Sizes'
  <2>1. Wanted \in Nat /\ Cardinality(result'[slot]) \in Nat
        /\ Cardinality(result'[slot]) <= Wanted
    BY <1>1, <1>5 DEF Take, Wanted
  <2>2. Wanted' = Wanted /\ slot' = slot /\ slice_size' = slice_size /\ remain' = remain
    BY DEF Take, Wanted
  <2>3. ASSUME NEW n \in 0..(RackSize - 1)
        PROVE  /\ n < slot => Cardinality(result'[n]) \in {slice_size, slice_size + 1}
               /\ n = slot => Cardinality(result'[n]) <= Wanted
               /\ n > slot => result'[n] = {}
    <3>1. CASE n = slot
      BY <1>1, <2>1, <3>1
    <3>2. CASE n # slot
      BY <1>1, <1>2, <3>2 DEF Sizes
    <3>3. QED
      BY <3>1, <3>2
  <2>4. remain <= RackSize - slot
    BY <1>1 DEF Sizes
  <2>5. QED
    BY <2>2, <2>3, <2>4 DEF Sizes
<1>10. Dealt'
  <2>1. Free(first)' = Free(first)
    BY DEF Take, Free
  <2>2. ASSUME NEW x \in Link
        PROVE  x \in Free(first) <=>
                   x \in left' \/ \E n \in 0..(RackSize - 1) : x \in result'[n]
    BY <1>1, <1>2 DEF Dealt
  <2>3. \A n \in 0..(RackSize - 1) : left' \cap result'[n] = {}
    BY <1>1, <1>2 DEF Dealt
  <2>4. ASSUME NEW m \in 0..(RackSize - 1), NEW n \in 0..(RackSize - 1), m # n
        PROVE  result'[m] \cap result'[n] = {}
    BY <1>1, <1>2, <2>4 DEF Dealt
  <2>5. QED
    BY <2>1, <2>2, <2>3, <2>4 DEF Dealt
<1>11. Untouched' /\ Covered' /\ Unique' /\ Even'
  BY DEF Take, Untouched, Covered, Unique, Even, Base
<1>12. QED
  BY <1>6, <1>7, <1>8, <1>9, <1>10, <1>11

LEMMA NextSlotKeeps == IInv /\ NextSlot => IInv'
<1> SUFFICES ASSUME IInv, NextSlot
             PROVE  IInv'
  OBVIOUS
<1> USE Constants DEF IInv
<1>1. /\ pc = "slice" /\ slot \in 0..(RackSize - 1)
      /\ left \subseteq Link /\ result \in [0..(RackSize - 1) -> SUBSET Link]
      /\ slice_size \in Nat /\ remain \in 0..(RackSize - 1)
      /\ slot' = slot + 1
      /\ remain' = IF remain > 0 THEN remain - 1 ELSE 0
      /\ slice_size' = slice_size /\ left' = left /\ result' = result
  BY DEF NextSlot, TypeOK
<1>2. Cardinality(result[slot]) = Wanted /\ Wanted \in {slice_size, slice_size + 1}
  BY DEF NextSlot, Wanted
<1>3. \A n \in 0..(RackSize - 1) : n > slot => Cardinality(result[n]) = 0
  BY <1>1, FS_EmptySet DEF Sizes
<1>4. TypeOK'
  BY <1>1 DEF NextSlot, TypeOK
<1>5. AtRack'
  BY DEF NextSlot, AtRack
<1>6. IteratorSuffices'
  <2>1. Cardinality(left) = (RackSize - slot) * slice_size + remain - Wanted
    BY <1>1, <1>2 DEF IteratorSuffices
  <2>2. Wanted = slice_size + remain - remain'
    BY <1>1 DEF Wanted
  <2>3. (RackSize - slot) * slice_size = (RackSize - (slot + 1)) * slice_size + slice_size
    BY <1>1
  <2>4. Cardinality(left) = (RackSize - (slot + 1)) * slice_size + remain'
    <3> DEFINE x == (RackSize - slot) * slice_size
               y == (RackSize - (slot + 1)) * slice_size
    <3>1. x \in Int /\ y \in Int /\ x = y + slice_size /\ remain' \in Int
      BY <1>1, <2>3
    <3>2. Cardinality(left) = x + remain - Wanted
      BY <2>1
    <3> HIDE DEF x, y
    <3>3. Cardinality(left) = y + remain'
      BY <1>1, <2>2, <3>1, <3>2
    <3>4. QED
      BY <3>3 DEF y
  <2>5. slot + 1 < RackSize => Cardinality(result'[slot + 1]) = 0
    BY <1>1, <1>3
  <2>6. CASE slot + 1 < RackSize
    <3>1. ((RackSize - (slot + 1)) * slice_size) \in Int /\ remain' \in Int
      BY <1>1
    <3>2. QED
      BY <1>1, <2>4, <2>5, <2>6, <3>1 DEF IteratorSuffices
  <2>7. CASE ~(slot + 1 < RackSize)
    <3>1. ((RackSize - (slot + 1)) * slice_size) \in Int /\ remain' \in Int
      BY <1>1
    <3>2. QED
      BY <1>1, <2>4, <2>7, <3>1 DEF IteratorSuffices
  <2>8. QED
    BY <2>6, <2>7
<1>7. Sizes'
  <2>1. remain' <= RackSize - slot'
    BY <1>1 DEF Sizes
  <2>2. ASSUME NEW n \in 0..(RackSize - 1), n < slot'
        PROVE  Cardinality(result'[n]) \in {slice_size', slice_size' + 1}
    BY <1>1, <1>2, <2>2 DEF Sizes
  <2>3. ASSUME NEW n \in 0..(RackSize - 1), n = slot'
        PROVE  Cardinality(result'[n]) <= Wanted'
    <3>1. Wanted' >= 0
      BY <1>1 DEF Wanted
    <3>2. QED
      BY <1>1, <1>3, <2>3, <3>1
  <2>4. ASSUME NEW n \in 0..(RackSize - 1), n > slot'
        PROVE  result'[n] = {}
    BY <1>1, <2>4 DEF Sizes
  <2>5. QED
    BY <2>1, <2>2, <2>3, <2>4 DEF Sizes
<1>8. Dealt'
  BY <1>1 DEF NextSlot, Dealt, Free
<1>9. Untouched' /\ Covered' /\ Unique' /\ Even'
  BY DEF NextSlot, Untouched, Covered, Unique, Even, Base
<1>10. QED
  BY <1>4, <1>5, <1>6, <1>7, <1>8, <1>9

\* The rack that starts at f, in terms of hosts.
LEMMA RackHosts ==
    ASSUME NEW f \in Nat, f % RackSize = 0
    PROVE  /\ \A h \in Host : h \in Rack(f) <=> f <= h /\ h < f + RackSize
           /\ \A g, h \in Host : SameRack(g, h) =>
                 (g < f <=> h < f) /\ (g \in Rack(f) <=> h \in Rack(f))
           /\ \A g, h \in Rack(f) : SameRack(g, h) /\ (g % RackSize = h % RackSize => g = h)
<1> USE Constants
<1>1. \A h \in Host : h \in Rack(f) <=> f <= h /\ h < f + RackSize
  BY DEF Rack
<1>2. \A h \in Host :
         /\ h \in Rack(f) <=> h \div RackSize = f \div RackSize
         /\ h < f <=> h \div RackSize < f \div RackSize
         /\ h \in Rack(f) => h = f + (h % RackSize)
  BY <1>1, RackNumbers
<1>3. ASSUME NEW g \in Host, NEW h \in Host, SameRack(g, h)
      PROVE  (g < f <=> h < f) /\ (g \in Rack(f) <=> h \in Rack(f))
  BY <1>2, <1>3, Zenon DEF SameRack
<1>4. ASSUME NEW g \in Rack(f), NEW h \in Rack(f)
      PROVE  SameRack(g, h) /\ (g % RackSize = h % RackSize => g = h)
  <2>1. g \in Host /\ h \in Host
    BY DEF Rack
  <2>2. QED
    BY <1>2, <2>1, Zenon DEF SameRack
<1>5. QED
  BY <1>1, <1>3, <1>4

LEMMA EndRackKeeps == IInv /\ EndRack => IInv'
<1> SUFFICES ASSUME IInv, EndRack
             PROVE  IInv'
  OBVIOUS
<1> USE Constants DEF IInv
<1> DEFINE f == first
           S(h) == result[h % RackSize]
<1>1. /\ pc = "slice" /\ slot = RackSize
      /\ f \in Nat /\ slice_size \in Nat /\ remain \in Nat
      /\ result \in [0..(RackSize - 1) -> SUBSET Link]
      /\ allocations \in [Host -> SUBSET Link]
      /\ first' = f + RackSize /\ own' = own /\ pc' \in {"rack", "done"}
      /\ pc' = "done" => first' >= NumHosts
  BY DEF EndRack, TypeOK
<1>2. f % RackSize = 0 /\ f < NumHosts
  BY <1>1 DEF AtRack
<1>3. /\ first' % RackSize = 0 /\ f + RackSize <= NumHosts
      /\ \A n \in 0..(RackSize - 1) : (f + n) % RackSize = n
  BY <1>1, <1>2, MappingAssumption, RackStart
<1>4. \A h \in Host : h % RackSize \in 0..(RackSize - 1)
  BY DivMod
<1>5. left = {}
  <2>1. remain = 0
    BY <1>1 DEF Sizes
  <2>2. Cardinality(left) = (RackSize - slot) * slice_size + remain - 0
    BY <1>1 DEF IteratorSuffices
  <2>3. (RackSize - slot) * slice_size = 0
    BY <1>1
  <2>4. Cardinality(left) = 0
    BY <2>1, <2>2, <2>3
  <2>5. QED
    BY <2>4, FiniteLinks, FS_EmptySet DEF TypeOK
<1>6. \A h \in Host : allocations'[h] =
          IF h \in Rack(f) THEN allocations[h] \cup S(h) ELSE allocations[h]
  BY DEF EndRack, SliceOf
<1>7. \A h \in Host : Base(h)' = Base(h)
  BY DEF EndRack, Base
<1>8. \A h \in Rack(f) : h \in Host /\ f <= h
  BY DEF Rack
<1>9. \A h \in Rack(f) : allocations[h] = Base(h)
  BY <1>1, <1>8 DEF Untouched
<1>10. \A h \in Rack(f) : allocations'[h] = Base(h) \cup S(h)
  BY <1>6, <1>8, <1>9
<1>11. \A h \in Host : h \notin Rack(f) => allocations'[h] = allocations[h]
  BY <1>6
<1>12. \A n \in 0..(RackSize - 1), h \in Rack(f) : result[n] \cap Base(h) = {}
  <2> SUFFICES ASSUME NEW n \in 0..(RackSize - 1), NEW h \in Rack(f), NEW l \in result[n],
                      l \in Base(h)
               PROVE  FALSE
    OBVIOUS
  <2>1. l \in Link
    BY <1>1
  <2>2. l \in Free(f)
    BY <1>1, <2>1 DEF Dealt
  <2>3. l \notin allocations[h]
    BY <2>2 DEF Free
  <2>4. QED
    BY <1>9, <2>3
<1>13. \A g, h \in Host : g # h => Base(g) \cap Base(h) = {}
  BY DEF Base
<1> HIDE DEF S
<1>14. TypeOK'
  <2>1. allocations' \in [Host -> SUBSET Link]
    <3>1. \A h \in Host : S(h) \subseteq Link
      BY <1>1, <1>4 DEF S
    <3>2. \A h \in Host : SliceOf(h) = S(h)
      BY DEF SliceOf, S
    <3>3. QED
      BY <1>1, <3>1, <3>2 DEF EndRack
  <2>2. f + RackSize \in Nat
    BY <1>1
  <2>3. QED
    BY <1>1, <2>1, <2>2 DEF EndRack, TypeOK
<1>15. AtRack'
  BY <1>1, <1>3 DEF AtRack
<1>16. IteratorSuffices' /\ Sizes' /\ Dealt'
  BY <1>1 DEF IteratorSuffices, Sizes, Dealt
<1>17. Untouched'
  <2> SUFFICES ASSUME NEW h \in Host, h >= f + RackSize
               PROVE  allocations'[h] = Base(h)
    BY <1>1, <1>7 DEF Untouched
  <2>1. h \notin Rack(f) /\ h >= f
    BY <1>1 DEF Rack
  <2>2. QED
    BY <1>1, <1>11, <2>1 DEF Untouched
<1>18. \A h \in Host : h < f + RackSize => h < f \/ h \in Rack(f)
  BY <1>1 DEF Rack
<1>19. \A h \in Host : h < f => h \notin Rack(f)
  BY <1>1 DEF Rack
<1>20. Covered'
  <2> SUFFICES ASSUME NEW h \in Host, NEW l \in Link, h < f + RackSize
               PROVE  \E r \in Host : SameRack(r, h) /\ l \in allocations'[r]
    BY <1>1 DEF Covered
  <2>1. CASE h < f
    <3>1. PICK r \in Host : SameRack(r, h) /\ l \in allocations[r]
      BY <2>1 DEF Covered
    <3>2. r < f
      BY <1>1, <1>2, <2>1, <3>1, RackHosts
    <3>3. QED
      BY <1>11, <1>19, <3>1, <3>2
  <2>2. CASE h \in Rack(f)
    <3>1. CASE l \in Free(f)
      <4>1. PICK n \in 0..(RackSize - 1) : l \in result[n]
        BY <1>1, <1>5, <3>1 DEF Dealt
      <4>2. f + n \in Rack(f)
        BY <1>1, <1>3 DEF Rack, Host
      <4>3. l \in S(f + n)
        BY <1>3, <4>1 DEF S
      <4>4. SameRack(f + n, h) /\ f + n \in Host
        BY <1>1, <1>2, <1>8, <2>2, <4>2, RackHosts
      <4>5. l \in allocations'[f + n]
        BY <1>10, <4>2, <4>3
      <4>6. QED
        BY <4>4, <4>5, Zenon
    <3>2. CASE l \notin Free(f)
      <4>1. PICK r \in Rack(f) : l \in allocations[r]
        BY <3>2 DEF Free
      <4>2. SameRack(r, h) /\ r \in Host
        BY <1>1, <1>2, <1>8, <2>2, <4>1, RackHosts
      <4>3. l \in allocations'[r]
        BY <1>6, <4>1, <4>2
      <4>4. QED
        BY <4>2, <4>3
    <3>3. QED
      BY <3>1, <3>2
  <2>3. QED
    BY <1>18, <2>1, <2>2
<1>21. Unique'
  <2> SUFFICES ASSUME NEW g \in Host, NEW h \in Host, g < f + RackSize, h < f + RackSize,
                      SameRack(g, h), g # h
               PROVE  allocations'[g] \cap allocations'[h] = {}
    BY <1>1 DEF Unique
  <2>1. CASE g < f /\ h < f
    BY <1>11, <1>19, <2>1 DEF Unique
  <2>2. CASE g \in Rack(f) /\ h \in Rack(f)
    <3>1. g % RackSize # h % RackSize
      BY <1>1, <1>2, <2>2, RackHosts
    <3>2. S(g) \cap S(h) = {}
      BY <1>1, <1>4, <3>1 DEF Dealt, S
    <3>3. S(g) \cap Base(h) = {} /\ S(h) \cap Base(g) = {} /\ Base(g) \cap Base(h) = {}
      BY <1>4, <1>12, <1>13, <2>2 DEF S
    <3>4. QED
      BY <1>10, <2>2, <3>2, <3>3
  <2>3. QED
    BY <1>1, <1>2, <1>18, <1>19, <2>1, <2>2, RackHosts
<1>22. Even'
  <2> SUFFICES ASSUME NEW g \in Host, NEW h \in Host, g < f + RackSize, h < f + RackSize,
                      SameRack(g, h)
               PROVE  Cardinality(allocations'[g] \ Base(g))
                          - Cardinality(allocations'[h] \ Base(h)) \in -1..1
    BY <1>1, <1>7 DEF Even
  <2>1. CASE g < f /\ h < f
    BY <1>11, <1>19, <2>1 DEF Even
  <2>2. CASE g \in Rack(f) /\ h \in Rack(f)
    <3>1. allocations'[g] \ Base(g) = S(g) /\ allocations'[h] \ Base(h) = S(h)
      BY <1>4, <1>10, <1>12, <2>2 DEF S
    <3>2. \A n \in 0..(RackSize - 1) : Cardinality(result[n]) \in {slice_size, slice_size + 1}
      BY <1>1 DEF Sizes
    <3>3. /\ Cardinality(S(g)) \in {slice_size, slice_size + 1}
          /\ Cardinality(S(h)) \in {slice_size, slice_size + 1}
      BY <1>4, <3>2 DEF S
    <3>4. \A a, b \in {slice_size, slice_size + 1} : a - b \in -1..1
      BY <1>1
    <3>5. QED
      BY <3>1, <3>3, <3>4
  <2>3. QED
    BY <1>1, <1>2, <1>18, <1>19, <2>1, <2>2, RackHosts
<1>23. QED
  BY <1>14, <1>15, <1>16, <1>17, <1>20, <1>21, <1>22

-----------------------------------------------------------------------------
(***************************************************************************)
(* Theorems                                                                *)
(***************************************************************************)
LEMMA NextKeeps == IInv /\ [Next]_vars => IInv'
<1> SUFFICES ASSUME IInv, [Next]_vars
             PROVE  IInv'
  OBVIOUS
<1>1. CASE UNCHANGED vars
  BY <1>1 DEF vars, IInv, TypeOK, AtRack, IteratorSuffices, Sizes, Wanted, Dealt, Free, Untouched,
              Covered, Unique, Even, Base
<1>2. QED
  BY <1>1, GiveOwnKeeps, StartRackKeeps, TakeKeeps, NextSlotKeeps, EndRackKeeps
  DEF Next, Terminated

LEMMA Invariance == Spec => []IInv
BY InitKeeps, NextKeeps, PTL DEF Spec

\* slice_list and the loop over racks keep the variables' types, whatever the racks and links.
THEOREM TypesKept == Spec => []TypeOK
<1>1. IInv => TypeOK
  BY DEF IInv
<1>2. QED
  BY <1>1, Invariance, PTL

\* slice_list's iterator is never exhausted early, and nothing is left over: the lists want
\* exactly what it holds at every moment, for any number of links and hosts of a rack.
THEOREM IteratorSufficesAlways == Spec => []IteratorSuffices
<1>1. IInv => IteratorSuffices
  BY DEF IInv
<1>2. QED
  BY <1>1, Invariance, PTL

\* If HOST_PER_RACK of tcp.h is the size of the generator's racks, init_DHT finds exactly one
\* responsible host for every sender and every link, and that host finds itself.
THEOREM OneResponsibleAlways == Spec => []OneResponsible
<1>1. ASSUME IInv
      PROVE  OneResponsible
  <2> SUFFICES ASSUME pc = "done", HostPerRack = RackSize, NEW h \in Host, NEW l \in Link
               PROVE  /\ Cardinality(Responsible(h, l)) = 1
                      /\ \A r \in Responsible(h, l) : Responsible(r, l) = {r}
    BY DEF OneResponsible
  <2> USE Constants
  <2>1. \A g \in Host : g < first
    BY <1>1 DEF IInv, AtRack, Host, TypeOK
  <2>2. ASSUME NEW g \in Host
        PROVE  \E r \in Host : SameRack(r, g) /\ Responsible(g, l) = {r}
    <3> DEFINE s == g - (g % RackSize)
    <3>1. s \in Nat /\ s % RackSize = 0 /\ s <= g /\ g < s + RackSize
      <4>1. /\ g \div RackSize \in Nat /\ g % RackSize \in 0..(RackSize - 1)
            /\ g = RackSize * (g \div RackSize) + (g % RackSize)
        BY DivMod
      <4> DEFINE q == g \div RackSize
                 m == g % RackSize
      <4>2. q \in Nat /\ m \in 0..(RackSize - 1) /\ g = RackSize * q + m
        BY <4>1
      <4> HIDE DEF q, m
      <4>3. g - m = RackSize * q + 0 /\ RackSize * q \in Nat
        BY <4>2
      <4>4. (RackSize * q + 0) % RackSize = 0
        <5>1. 0 \in 0..(RackSize - 1)
          OBVIOUS
        <5>2. QED
          BY <4>2, <5>1, DivUnique, Zenon
      <4>5. g - m \in Nat /\ (g - m) % RackSize = 0 /\ g - m <= g /\ g < (g - m) + RackSize
        BY <4>2, <4>3, <4>4
      <4>6. QED
        BY <4>5 DEF m
    <3>0. Responsible(g, l) =
              {r \in Host : s <= r /\ r <= s + RackSize - 1 /\ l \in allocations[r]}
      BY Zenon DEF Responsible
    <3> HIDE DEF s
    <3>2. Responsible(g, l) = {r \in Rack(s) : l \in allocations[r]}
      <4>1. \A r \in Host : r <= s + RackSize - 1 <=> r < s + RackSize
        BY <3>1
      <4>2. QED
        BY <3>0, <4>1 DEF Rack
    <3>3. g \in Rack(s)
      BY <3>1 DEF Rack
    <3>4. PICK r \in Host : SameRack(r, g) /\ l \in allocations[r]
      BY <1>1, <2>1 DEF IInv, Covered
    <3>5. r \in Rack(s)
      BY <3>1, <3>3, <3>4, RackHosts
    <3>6. ASSUME NEW x \in Rack(s), l \in allocations[x]
          PROVE  x = r
      <4>1. x \in Host /\ SameRack(x, r)
        BY <3>1, <3>5, RackHosts DEF Rack
      <4>2. QED
        BY <1>1, <2>1, <3>4, <3>6, <4>1 DEF IInv, Unique
    <3>7. QED
      BY <3>2, <3>4, <3>5, <3>6
  <2>3. PICK r \in Host : SameRack(r, h) /\ Responsible(h, l) = {r}
    BY <2>2
  <2>4. l \in allocations[r]
    BY <2>3 DEF Responsible
  <2>5. PICK x \in Host : SameRack(x, r) /\ Responsible(r, l) = {x}
    BY <2>2
  <2>6. l \in allocations[x]
    BY <2>5 DEF Responsible
  <2>7. x = r
    BY <1>1, <2>1, <2>4, <2>5, <2>6 DEF IInv, Unique
  <2>8. QED
    BY <2>3, <2>5, <2>7, FS_Singleton
<1>2. QED
  BY <1>1, Invariance, PTL

\* Apart from links of their own, any two hosts of a rack answer for the same number of links,
\* up to one: generateMapping spreads the work evenly.
THEOREM EvenLoadAlways == Spec => []EvenLoad
<1>1. ASSUME IInv
      PROVE  EvenLoad
  <2>1. pc = "done" => \A g \in Host : g < first
    BY <1>1, Constants DEF IInv, AtRack, Host, TypeOK
  <2>2. QED
    BY <1>1, <2>1 DEF IInv, Even, EvenLoad, SameRack, Base
<1>2. QED
  BY <1>1, Invariance, PTL
=============================================================================
