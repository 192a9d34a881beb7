-------------------------- MODULE AdmissionProofs --------------------------
(***************************************************************************)
(* Proofs about Admission, for every number of lanes, workers and roots,   *)
(* every stagger, and whether or not episodes may end without evaluating.  *)
(***************************************************************************)
EXTENDS Admission, FiniteSetTheorems, WellFoundedInduction, NaturalsInduction, TLAPS

-----------------------------------------------------------------------------
(* The lanes' idle workers, counted. *)

WaitersOf(w) == {x \in Lanes \X (1..Workers) : x[2] <= w[x[1]]}

(* Lanes and workers are finitely many. *)
LEMMA PlacesFinite ==
    /\ IsFiniteSet(Lanes) /\ Cardinality(Lanes) \in Nat
    /\ IsFiniteSet(1..Workers) /\ Cardinality(1..Workers) = Workers
    /\ IsFiniteSet(Lanes \X (1..Workers))
    /\ Cardinality(Lanes \X (1..Workers)) = Cardinality(Lanes) * Workers
<1>1. IsFiniteSet(Lanes) /\ Cardinality(Lanes) \in Nat
  BY LanesAssumption, FS_CardinalityType
<1>2. 1 \in Int /\ Workers \in Int /\ Workers >= 1
  BY SizesAssumption
<1>3. IsFiniteSet(1..Workers) /\ Cardinality(1..Workers) = Workers
  BY <1>2, FS_Interval
<1>4. /\ IsFiniteSet(Lanes \X (1..Workers))
      /\ Cardinality(Lanes \X (1..Workers)) = Cardinality(Lanes) * Cardinality(1..Workers)
  BY <1>1, <1>3, FS_Product
<1> QED BY <1>1, <1>3, <1>4

(* The number of elements of two disjoint sets together. *)
LEMMA DisjointUnion ==
  ASSUME NEW S, IsFiniteSet(S), NEW T, IsFiniteSet(T), S \cap T = {}
  PROVE  /\ Cardinality(S \cup T) = Cardinality(S) + Cardinality(T)
         /\ Cardinality(S) \in Nat /\ Cardinality(T) \in Nat
<1>1. Cardinality(S) \in Nat /\ Cardinality(T) \in Nat /\ Cardinality(S \cap T) = 0
  BY FS_CardinalityType, FS_EmptySet
<1>2. Cardinality(S \cup T) = Cardinality(S) + Cardinality(T) - Cardinality(S \cap T)
  BY FS_Union
<1> QED BY <1>1, <1>2

(* A lane's share of the waiting workers is its own. *)
LEMMA ShareOfLane ==
  ASSUME NEW w \in [Lanes -> 0..Workers], NEW l \in Lanes, NEW n \in 0..Workers
  PROVE  /\ Cardinality(WaitersOf([w EXCEPT ![l] = n]))
              = Cardinality(WaitersOf([w EXCEPT ![l] = 0])) + n
         /\ Cardinality(WaitersOf([w EXCEPT ![l] = 0])) \in Nat
         /\ [w EXCEPT ![l] = n] \in [Lanes -> 0..Workers]
<1> DEFINE A == WaitersOf([w EXCEPT ![l] = 0])
           B == {l} \X (1..n)
           C == WaitersOf([w EXCEPT ![l] = n])
<1>a. Workers \in Nat /\ n \in Nat /\ n <= Workers
  BY SizesAssumption
<1>1. A \in SUBSET (Lanes \X (1..Workers))
  BY DEF WaitersOf
<1>2. C = A \cup B
  <2>1. ASSUME NEW x \in C PROVE x \in A \cup B
    BY <1>a, <2>1 DEF WaitersOf
  <2>2. ASSUME NEW x \in A PROVE x \in C
    BY <1>a, <2>2 DEF WaitersOf
  <2>3. ASSUME NEW x \in B PROVE x \in C
    BY <1>a, <2>3 DEF WaitersOf
  <2> QED BY <2>1, <2>2, <2>3
<1>3. A \cap B = {}
  BY <1>a DEF WaitersOf
<1>4. IsFiniteSet(A)
  <2> HIDE DEF A
  <2> QED BY <1>1, PlacesFinite, FS_Subset
<1>5. IsFiniteSet(B) /\ Cardinality(B) = n
  <2>1. IsFiniteSet({l}) /\ Cardinality({l}) = 1
    BY FS_Singleton
  <2>2. IsFiniteSet(1..n) /\ Cardinality(1..n) = n
    <3>1. 1 \in Int /\ n \in Int
      BY <1>a
    <3>2. IsFiniteSet(1..n) /\ Cardinality(1..n) = IF 1 > n THEN 0 ELSE n - 1 + 1
      BY <3>1, FS_Interval
    <3> QED BY <1>a, <3>2
  <2>3. IsFiniteSet({l} \X (1..n)) /\ Cardinality({l} \X (1..n)) = Cardinality({l}) * Cardinality(1..n)
    BY <2>1, <2>2, FS_Product
  <2>4. 1 * n = n
    BY <1>a
  <2> QED BY <2>1, <2>2, <2>3, <2>4
<1>6. Cardinality(A \cup B) = Cardinality(A) + Cardinality(B) /\ Cardinality(A) \in Nat
  <2> HIDE DEF A, B
  <2> QED BY <1>3, <1>4, <1>5, DisjointUnion
<1>7. [w EXCEPT ![l] = n] \in [Lanes -> 0..Workers]
  OBVIOUS
<1> QED BY <1>2, <1>5, <1>6, <1>7

(* The share of a lane that is left as it is. *)
LEMMA ShareNow ==
  ASSUME NEW w \in [Lanes -> 0..Workers], NEW l \in Lanes
  PROVE  /\ Cardinality(WaitersOf(w)) = Cardinality(WaitersOf([w EXCEPT ![l] = 0])) + w[l]
         /\ Cardinality(WaitersOf(w)) \in Nat
<1>1. [w EXCEPT ![l] = w[l]] = w /\ w[l] \in 0..Workers /\ w[l] \in Nat
  BY SizesAssumption
<1>2. PICK n \in 0..Workers : n = w[l]
  BY <1>1
<1>3. Cardinality(WaitersOf([w EXCEPT ![l] = n]))
        = Cardinality(WaitersOf([w EXCEPT ![l] = 0])) + n
      /\ Cardinality(WaitersOf([w EXCEPT ![l] = 0])) \in Nat
  BY ShareOfLane
<1>4. [w EXCEPT ![l] = n] = w
  BY <1>2
<1>5. PICK c \in Nat : c = Cardinality(WaitersOf([w EXCEPT ![l] = 0]))
  BY <1>3
<1>6. Cardinality(WaitersOf(w)) = c + n
  BY <1>3, <1>4, <1>5, Zenon
<1> QED BY <1>1, <1>2, <1>5, <1>6

(* All workers of all lanes wait at the start. *)
LEMMA AllWaiters ==
  WaitersOf([l \in Lanes |-> Workers]) = Lanes \X (1..Workers)
BY SizesAssumption DEF WaitersOf

(* A lane's place within a stagger is within it. *)
LEMMA OffsetWithin ==
  ASSUME NEW s \in Nat, NEW l \in Lanes
  PROVE  spread_duration(s, l) \in 0..s
<1>1. PICK n \in Nat : n = Cardinality(Lanes)
  BY PlacesFinite
<1>2. l \in 0..(n - 1)
  BY <1>1, LanesAssumption
<1>3. CASE n <= 1 \/ l = 0
  BY <1>1, <1>3 DEF spread_duration
<1>4. CASE ~(n <= 1 \/ l = 0)
  <2>1. n \in Nat \ {0} /\ l \in Nat /\ l <= n
    BY <1>2, <1>4
  <2>2. s * l \in Nat /\ s * l <= s * n
    BY <2>1
  <2>3. PICK p \in Nat : p = s * l
    BY <2>2
  <2>4. p \div n \in Nat /\ n * (p \div n) <= p
    BY <2>1
  <2>5. p \div n <= s
    BY <2>1, <2>2, <2>3, <2>4
  <2> QED BY <1>1, <1>4, <2>3, <2>4, <2>5 DEF spread_duration
<1> QED BY <1>3, <1>4


-----------------------------------------------------------------------------
(* The queue of lanes as a value. *)

IsQueue(q) ==
    /\ DOMAIN q = {"waiting", "queued", "order", "total"}
    /\ q.waiting \in [Lanes -> 0..Workers]
    /\ q.queued \in [Lanes -> BOOLEAN]
    /\ q.order \in Seq(Lanes)
    /\ q.total \in Nat

Ordered(q) ==
    /\ IsQueue(q)
    /\ IsInjective(q.order)
    /\ \A l \in Lanes : q.queued[l] <=> l \in Range(q.order)

Counted(q) == q.total = Cardinality(WaitersOf(q.waiting))

FrontFull(q) == q.order # <<>> => q.waiting[Head(q.order)] > 0

Lined(q, r, l) ==
    /\ Ordered(r) /\ r.waiting = q.waiting /\ r.total = q.total
    /\ q.waiting[l] > 0 => r.queued[l]
    /\ \A m \in Lanes : q.queued[m] => r.queued[m]
    /\ FrontFull(q) => FrontFull(r)

(* A lane that waits is put at the end of the queue, once. *)
LEMMA QueueLaneSound ==
  ASSUME NEW q, Ordered(q), NEW l \in Lanes, NEW r, r = QueueLane(q, l)
  PROVE  Lined(q, r, l)
<1> USE DEF Lined
<1>a. /\ IsQueue(q) /\ IsInjective(q.order)
      /\ \A m \in Lanes : q.queued[m] <=> m \in Range(q.order)
  BY DEF Ordered
<1>b. /\ q.waiting \in [Lanes -> 0..Workers] /\ q.queued \in [Lanes -> BOOLEAN]
      /\ q.order \in Seq(Lanes) /\ q.total \in Nat
  BY <1>a DEF IsQueue
<1>1. CASE ~(q.waiting[l] > 0 /\ ~q.queued[l])
  <2>1. r = q
    BY <1>1 DEF QueueLane
  <2> QED BY <1>1, <2>1
<1>2. CASE q.waiting[l] > 0 /\ ~q.queued[l]
  <2> DEFINE m == [q.queued EXCEPT ![l] = TRUE]
             o == Append(q.order, l)
  <2>1. r = [q EXCEPT !.order = Append(@, l), !.queued[l] = TRUE]
    BY <1>2 DEF QueueLane
  <2>3. IsQueue(r) /\ r.waiting = q.waiting /\ r.queued = m /\ r.order = o /\ r.total = q.total
    BY <1>a, <2>1 DEF IsQueue
  <2>4. /\ Len(o) = Len(q.order) + 1 /\ Len(q.order) \in Nat
        /\ DOMAIN o = 1..(Len(q.order) + 1) /\ DOMAIN q.order = 1..Len(q.order)
        /\ \A i \in 1..Len(q.order) : o[i] = q.order[i]
        /\ o[Len(q.order) + 1] = l
    BY <1>b
  <2>5. \A i \in 1..Len(q.order) : q.order[i] # l
    BY <1>2, <1>a, <2>4 DEF Range
  <2> HIDE DEF o
  <2>6. IsInjective(o)
    BY <1>a, <2>4, <2>5 DEF IsInjective
  <2>7. ASSUME NEW k PROVE k \in Range(o) <=> k \in Range(q.order) \/ k = l
    BY <2>4 DEF Range
  <2>8. ASSUME NEW k \in Lanes PROVE m[k] <=> q.queued[k] \/ k = l
    BY <1>b, Zenon
  <2>9. \A k \in Lanes : r.queued[k] <=> k \in Range(r.order)
    <3> HIDE DEF m
    <3> QED BY <1>a, <2>3, <2>7, <2>8, Zenon
  <2>10. Ordered(r)
    BY <2>3, <2>6, <2>9 DEF Ordered
  <2>11. r.queued[l] /\ \A k \in Lanes : q.queued[k] => r.queued[k]
    <3> HIDE DEF m
    <3> QED BY <2>3, <2>8
  <2>12. q.order # <<>> => o # <<>> /\ Head(o) = Head(q.order)
    BY <1>b DEF o
  <2>13. q.order = <<>> => o # <<>> /\ Head(o) = l
    BY <1>b DEF o
  <2>14. FrontFull(q) => FrontFull(r)
    BY <1>2, <2>3, <2>12, <2>13 DEF FrontFull
  <2> QED BY <2>3, <2>10, <2>11, <2>12, <2>14
<1> QED BY <1>1, <1>2


(* A set of natural numbers has a least element. *)
LEMMA LeastOfNat ==
  ASSUME NEW S, S \subseteq Nat, S # {}
  PROVE  \E m \in S : \A n \in S : m <= n
<1> DEFINE Below == {p \in Nat \X Nat : p[1] < p[2]}
<1>1. IsWellFoundedOn(Below, Nat)
  BY NatLessThanWellFounded, Zenon DEF OpToRel
<1> HIDE DEF Below
<1>2. PICK x \in S : \A y \in S : ~(<<y, x>> \in Below)
  BY <1>1, WFMin
<1>3. \A y \in S : ~(y < x)
  BY <1>2 DEF Below
<1> QED BY <1>3

(* Before the place found no lane waits, and at it one does. *)
LEMMA FirstFullFound ==
  ASSUME NEW q, IsQueue(q), NEW k, k = FirstFull(q)
  PROVE  /\ k \in 1..(Len(q.order) + 1)
         /\ \A i \in 1..(k - 1) : ~(q.waiting[q.order[i]] > 0)
         /\ k <= Len(q.order) => q.waiting[q.order[k]] > 0
<1> DEFINE full == {i \in 1..Len(q.order) : q.waiting[q.order[i]] > 0}
<1>1. Len(q.order) \in Nat
  BY DEF IsQueue
<1>2. CASE full = {}
  BY <1>1, <1>2 DEF FirstFull
<1>3. CASE full # {}
  <2>1. full \subseteq Nat
    BY <1>1
  <2>2. \E m \in full : \A n \in full : m <= n
    <3> HIDE DEF full
    <3> QED BY <1>3, <2>1, LeastOfNat
  <2>3. k = CHOOSE i \in full : \A j \in full : i <= j
    BY <1>3 DEF FirstFull
  <2>4. k \in full /\ \A j \in full : k <= j
    <3> HIDE DEF full
    <3> QED BY <2>2, <2>3
  <2> QED BY <1>1, <2>4
<1> QED BY <1>2, <1>3

(* Empty lanes at the front are dropped and nobody else is: a lane that waits *)
(* keeps its mark, and what is then at the front waits.                       *)
LEMMA DiscardSound ==
  ASSUME NEW q, Ordered(q), NEW r, r = DiscardEmptyFront(q)
  PROVE  /\ Ordered(r) /\ FrontFull(r) /\ r.waiting = q.waiting /\ r.total = q.total
         /\ \A m \in Lanes : q.queued[m] /\ q.waiting[m] > 0 => r.queued[m]
<1>a. /\ IsQueue(q) /\ IsInjective(q.order)
      /\ \A m \in Lanes : q.queued[m] <=> m \in Range(q.order)
  BY DEF Ordered
<1>b. /\ q.waiting \in [Lanes -> 0..Workers] /\ q.queued \in [Lanes -> BOOLEAN]
      /\ q.order \in Seq(Lanes) /\ q.total \in Nat
  BY <1>a DEF IsQueue
<1>1. PICK k : k = FirstFull(q)
  OBVIOUS
<1>2. /\ k \in 1..(Len(q.order) + 1)
      /\ \A i \in 1..(k - 1) : ~(q.waiting[q.order[i]] > 0)
      /\ k <= Len(q.order) => q.waiting[q.order[k]] > 0
  BY <1>a, <1>1, FirstFullFound
<1>3. PICK n \in Nat : n = Len(q.order)
  BY <1>b
<1> DEFINE o == SubSeq(q.order, k, n)
           m == [l \in Lanes |-> q.queued[l] /\ \A i \in 1..(k - 1) : q.order[i] # l]
<1>4. r = [q EXCEPT !.order = o, !.queued = m]
  BY <1>1, <1>3 DEF DiscardEmptyFront
<1>5. o \in Seq(Lanes) /\ Len(o) = n + 1 - k /\ \A i \in 1..(n + 1 - k) : o[i] = q.order[k + i - 1]
  BY <1>b, <1>2, <1>3
<1>6. m \in [Lanes -> BOOLEAN]
  OBVIOUS
<1>7. \A l \in Lanes : m[l] <=> q.queued[l] /\ \A i \in 1..(k - 1) : q.order[i] # l
  OBVIOUS
<1> HIDE DEF o, m
<1>8. IsQueue(r) /\ r.waiting = q.waiting /\ r.queued = m /\ r.order = o /\ r.total = q.total
  BY <1>a, <1>4, <1>5, <1>6 DEF IsQueue
<1>9. DOMAIN o = 1..(n + 1 - k) /\ DOMAIN q.order = 1..n
  BY <1>b, <1>3, <1>5
<1>10. IsInjective(o)
  <2> SUFFICES ASSUME NEW i \in 1..(n + 1 - k), NEW j \in 1..(n + 1 - k), o[i] = o[j]
               PROVE  i = j
    BY <1>9 DEF IsInjective
  <2>1. q.order[k + i - 1] = q.order[k + j - 1] /\ k + i - 1 \in 1..n /\ k + j - 1 \in 1..n
    BY <1>2, <1>3, <1>5
  <2>2. k + i - 1 = k + j - 1
    BY <1>a, <1>9, <2>1 DEF IsInjective
  <2> QED BY <1>2, <1>3, <2>2
<1>11. ASSUME NEW l \in Lanes
       PROVE  l \in Range(o) <=> l \in Range(q.order) /\ \A i \in 1..(k - 1) : q.order[i] # l
  <2>1. ASSUME l \in Range(o)
        PROVE  l \in Range(q.order) /\ \A i \in 1..(k - 1) : q.order[i] # l
    <3>1. PICK i \in 1..(n + 1 - k) : o[i] = l
      BY <1>9, <2>1 DEF Range
    <3>2. q.order[k + i - 1] = l /\ k + i - 1 \in 1..n /\ k + i - 1 \in Nat
      BY <1>2, <1>3, <1>5, <3>1
    <3>3. \A h \in 1..(k - 1) : h \in 1..n /\ h # k + i - 1
      BY <1>2, <1>3, <3>1
    <3> QED BY <1>a, <1>9, <3>2, <3>3 DEF Range, IsInjective
  <2>2. ASSUME l \in Range(q.order), \A i \in 1..(k - 1) : q.order[i] # l
        PROVE  l \in Range(o)
    <3>1. PICK h \in 1..n : q.order[h] = l
      BY <1>9, <2>2 DEF Range
    <3>2. ~(h \in 1..(k - 1))
      BY <2>2, <3>1
    <3>3. h - k + 1 \in 1..(n + 1 - k) /\ k + (h - k + 1) - 1 = h
      BY <1>2, <1>3, <3>1, <3>2
    <3>4. o[h - k + 1] = q.order[h]
      BY <1>5, <3>3
    <3> QED BY <1>9, <3>1, <3>3, <3>4 DEF Range
  <2> QED BY <2>1, <2>2
<1>12. \A l \in Lanes : r.queued[l] <=> l \in Range(r.order)
  BY <1>a, <1>7, <1>8, <1>11, Zenon
<1>13. Ordered(r)
  BY <1>8, <1>10, <1>12 DEF Ordered
<1>14. FrontFull(r)
  <2> SUFFICES ASSUME o # <<>> PROVE q.waiting[Head(o)] > 0
    BY <1>8 DEF FrontFull
  <2>1. k <= n /\ Head(o) = o[1] /\ 1 \in 1..(n + 1 - k)
    BY <1>2, <1>3, <1>5
  <2>2. o[1] = q.order[k]
    BY <1>2, <1>3, <1>5, <2>1
  <2> QED BY <1>2, <1>3, <2>1, <2>2
<1>15. ASSUME NEW l \in Lanes, q.queued[l], q.waiting[l] > 0
       PROVE  r.queued[l]
  <2>1. \A i \in 1..(k - 1) : q.order[i] # l
    BY <1>2, <1>15
  <2> QED BY <1>7, <1>8, <1>15, <2>1, Zenon
<1> QED BY <1>8, <1>13, <1>14, <1>15


(* What an operation for lane l may do to the queue: it sets the number of    *)
(* workers the lane waits with, marks the lane if that is not zero, and drops *)
(* no other lane that waits.                                                  *)
Sound(q) == Ordered(q) /\ Counted(q) /\ FrontFull(q)

Changed(q, r, l, n) ==
    /\ Sound(r)
    /\ r.waiting = [q.waiting EXCEPT ![l] = n]
    /\ n > 0 => r.queued[l]
    /\ \A m \in Lanes \ {l} : q.queued[m] /\ q.waiting[m] > 0 => r.queued[m]

(* A count that the lane's share enters and leaves stays exact. *)
LEMMA CountChanged ==
  ASSUME NEW q, IsQueue(q), Counted(q), NEW l \in Lanes, NEW n \in 0..Workers
  PROVE  /\ q.total >= q.waiting[l]
         /\ q.total - q.waiting[l] + n = Cardinality(WaitersOf([q.waiting EXCEPT ![l] = n]))
         /\ q.total - q.waiting[l] + n \in Nat
         /\ q.waiting[l] \in 0..Workers /\ q.waiting[l] \in Nat
<1>1. PICK w \in [Lanes -> 0..Workers] : w = q.waiting
  BY DEF IsQueue
<1>2. PICK c \in Nat : c = Cardinality(WaitersOf([w EXCEPT ![l] = 0]))
  <2>1. 0 \in 0..Workers
    BY SizesAssumption
  <2> QED BY <2>1, ShareOfLane
<1>3. q.total = c + w[l]
  BY <1>1, <1>2, ShareNow DEF Counted
<1>4. Cardinality(WaitersOf([w EXCEPT ![l] = n])) = c + n
  BY <1>2, ShareOfLane
<1>5. w[l] \in 0..Workers /\ w[l] \in Nat /\ n \in Nat
  BY SizesAssumption
<1>6. q.total - w[l] + n = c + n
  BY <1>3, <1>5
<1> QED BY <1>1, <1>3, <1>4, <1>5, <1>6

SetShare(q, l, n) == [q EXCEPT !.total = q.total - q.waiting[l] + n, !.waiting[l] = n]

Shared(q, s, l, n) ==
    /\ Ordered(s) /\ Counted(s)
    /\ s.waiting = [q.waiting EXCEPT ![l] = n]
    /\ s.queued = q.queued /\ s.order = q.order

(* A queue with a new share for one lane is still in order. *)
LEMMA ShareSet ==
  ASSUME NEW q, Ordered(q), Counted(q), NEW l \in Lanes, NEW n \in 0..Workers,
         NEW s, s = SetShare(q, l, n)
  PROVE  Shared(q, s, l, n)
<1> DEFINE t == q.total - q.waiting[l] + n
<1>1. IsQueue(q)
  BY DEF Ordered
<1>2. t \in Nat /\ t = Cardinality(WaitersOf([q.waiting EXCEPT ![l] = n]))
  BY <1>1, CountChanged
<1>3. /\ IsQueue(s) /\ s.waiting = [q.waiting EXCEPT ![l] = n]
      /\ s.queued = q.queued /\ s.order = q.order /\ s.total = t
  <2> HIDE DEF t
  <2>1. s = [q EXCEPT !.total = t, !.waiting[l] = n]
    BY DEF SetShare, t
  <2> QED BY <1>1, <1>2, <2>1 DEF IsQueue
<1> HIDE DEF t
<1>4. Counted(s)
  BY <1>2, <1>3, Zenon DEF Counted
<1>5. Ordered(s)
  BY <1>3, Zenon DEF Ordered
<1> QED BY <1>3, <1>4, <1>5 DEF Shared

(* QueueLane and DiscardEmptyFront after the share is set. *)
LEMMA DiscardChanged ==
  ASSUME NEW q, NEW s, Ordered(s), Counted(s), NEW l \in Lanes, NEW n,
         s.waiting = [q.waiting EXCEPT ![l] = n], IsQueue(q),
         n > 0 => s.queued[l],
         \A m \in Lanes \ {l} : q.queued[m] /\ q.waiting[m] > 0 => s.queued[m],
         NEW r, r = DiscardEmptyFront(s)
  PROVE  Changed(q, r, l, n)
<1>1. /\ Ordered(r) /\ FrontFull(r) /\ r.waiting = s.waiting /\ r.total = s.total
      /\ \A m \in Lanes : s.queued[m] /\ s.waiting[m] > 0 => r.queued[m]
  BY DiscardSound
<1>2. Counted(r)
  BY <1>1 DEF Counted
<1>3. s.waiting[l] = n /\ \A m \in Lanes \ {l} : s.waiting[m] = q.waiting[m]
  BY DEF IsQueue
<1>4. n > 0 => r.queued[l]
  BY <1>1, <1>3
<1>5. \A m \in Lanes \ {l} : q.queued[m] /\ q.waiting[m] > 0 => r.queued[m]
  BY <1>1, <1>3
<1> QED BY <1>1, <1>2, <1>4, <1>5 DEF Changed, Sound

(* set_waiting *)
LEMMA SetWaitingSound ==
  ASSUME NEW q, Sound(q), NEW l \in Lanes, NEW n \in 0..Workers, NEW r, r = SetWaiting(q, l, n)
  PROVE  Changed(q, r, l, n)
<1>1. Ordered(q) /\ Counted(q) /\ IsQueue(q)
  BY DEF Sound, Ordered
<1>2. q.total >= q.waiting[l] /\ q.total - q.waiting[l] + n \in Nat
  BY <1>1, CountChanged
<1>3. PICK t : t = q.total - q.waiting[l] + n
  OBVIOUS
<1>4. Minus(q.total, q.waiting[l]) + n = t
  BY <1>2, <1>3 DEF Minus
<1>5. PICK s : s = SetShare(q, l, n)
  OBVIOUS
<1>6. PICK u : u = QueueLane(s, l)
  OBVIOUS
<1>7. r = DiscardEmptyFront(u)
  BY <1>3, <1>4, <1>5, <1>6 DEF SetWaiting, SetShare
<1>8. /\ Ordered(s) /\ Counted(s) /\ s.waiting = [q.waiting EXCEPT ![l] = n]
      /\ s.queued = q.queued
  <2>1. Shared(q, s, l, n)
    BY <1>1, <1>5, ShareSet
  <2> QED BY <2>1 DEF Shared
<1>9. /\ Ordered(u) /\ u.waiting = s.waiting /\ u.total = s.total
      /\ s.waiting[l] > 0 => u.queued[l]
      /\ \A m \in Lanes : s.queued[m] => u.queued[m]
  <2>1. Lined(s, u, l)
    BY <1>6, <1>8, QueueLaneSound
  <2> QED BY <2>1 DEF Lined
<1>10. Counted(u)
  BY <1>8, <1>9 DEF Counted
<1>11. s.waiting[l] = n
  BY <1>1, <1>8 DEF IsQueue
<1>12. n > 0 => u.queued[l]
  BY <1>9, <1>11
<1>13. \A m \in Lanes \ {l} : q.queued[m] /\ q.waiting[m] > 0 => u.queued[m]
  BY <1>8, <1>9
<1>14. u.waiting = [q.waiting EXCEPT ![l] = n]
  BY <1>8, <1>9
<1> QED BY <1>1, <1>7, <1>9, <1>10, <1>12, <1>13, <1>14, DiscardChanged

(* clear_lane *)
LEMMA ClearLaneSound ==
  ASSUME NEW q, Sound(q), NEW l \in Lanes, NEW r, r = ClearLane(q, l)
  PROVE  Changed(q, r, l, 0)
<1>1. Ordered(q) /\ Counted(q) /\ IsQueue(q) /\ 0 \in 0..Workers
  BY SizesAssumption DEF Sound, Ordered
<1>2. q.total >= q.waiting[l] /\ q.total - q.waiting[l] + 0 \in Nat
      /\ q.waiting[l] \in Nat /\ q.total \in Nat
  BY <1>1, CountChanged DEF IsQueue
<1>3. PICK t : t = q.total - q.waiting[l] + 0
  OBVIOUS
<1>4. Minus(q.total, q.waiting[l]) = t
  BY <1>2, <1>3 DEF Minus
<1>5. PICK s : s = SetShare(q, l, 0)
  OBVIOUS
<1>6. r = DiscardEmptyFront(s)
  BY <1>3, <1>4, <1>5 DEF ClearLane, SetShare
<1>7. /\ Ordered(s) /\ Counted(s) /\ s.waiting = [q.waiting EXCEPT ![l] = 0]
      /\ s.queued = q.queued
  <2>1. Shared(q, s, l, 0)
    BY <1>1, <1>5, ShareSet
  <2> QED BY <2>1 DEF Shared
<1>8. ~(0 > 0)
  OBVIOUS
<1> QED BY <1>1, <1>6, <1>7, <1>8, DiscardChanged

(* restore_unused of one grant: the worker waits again. *)
LEMMA RestoreSound ==
  ASSUME NEW q, Sound(q), NEW l \in Lanes, NEW n \in {0, 1}, q.waiting[l] + n <= Workers,
         q.waiting[l] > 0 => q.queued[l], NEW r, r = RestoreUnused(q, l, n)
  PROVE  Changed(q, r, l, q.waiting[l] + n)
<1>1. Ordered(q) /\ Counted(q) /\ IsQueue(q) /\ FrontFull(q)
  BY DEF Sound, Ordered
<1>2. PICK w \in Nat : w = q.waiting[l]
  BY <1>1, SizesAssumption DEF IsQueue
<1>3. CASE n = 0
  <2>1. r = q /\ q.waiting[l] + n = q.waiting[l]
    BY <1>2, <1>3 DEF RestoreUnused
  <2>2. q.waiting = [q.waiting EXCEPT ![l] = q.waiting[l]]
    BY <1>1 DEF IsQueue
  <2> QED BY <2>1, <2>2 DEF Changed
<1>4. CASE n = 1
  <2>1. w + 1 \in 0..Workers
    BY <1>2, <1>4, SizesAssumption
  <2>2. PICK k \in 0..Workers : k = w + 1
    BY <2>1
  <2>3. q.total \in Nat
    BY <1>1 DEF IsQueue
  <2>4. PICK t : t = q.total - q.waiting[l] + k
    OBVIOUS
  <2>5. q.total + 1 = t /\ q.waiting[l] + 1 = k
    BY <1>2, <2>2, <2>3, <2>4
  <2>6. PICK s : s = SetShare(q, l, k)
    OBVIOUS
  <2>7. s = [q EXCEPT !.total = t, !.waiting[l] = k]
    BY <2>4, <2>6 DEF SetShare
  <2>8. r = QueueLane(s, l)
    <3>1. n # 0
      BY <1>4
    <3>2. r = QueueLane([q EXCEPT !.waiting[l] = @ + 1, !.total = @ + 1], l)
      BY <1>4, <3>1 DEF RestoreUnused
    <3>3. [q EXCEPT !.waiting[l] = @ + 1, !.total = @ + 1] = s
      BY <1>1, <2>5, <2>7 DEF IsQueue
    <3> QED BY <3>2, <3>3
  <2>9. /\ Ordered(s) /\ Counted(s) /\ s.waiting = [q.waiting EXCEPT ![l] = k]
        /\ s.queued = q.queued /\ s.order = q.order
    <3>1. Shared(q, s, l, k)
      BY <1>1, <2>6, ShareSet
    <3> QED BY <3>1 DEF Shared
  <2>10. s.waiting[l] = k /\ \A m \in Lanes \ {l} : s.waiting[m] = q.waiting[m]
    BY <1>1, <2>9 DEF IsQueue
  <2>11. FrontFull(s)
    <3> SUFFICES ASSUME s.order # <<>> PROVE s.waiting[Head(s.order)] > 0
      BY DEF FrontFull
    <3>1. Head(q.order) \in Lanes /\ q.waiting[Head(q.order)] > 0
      BY <1>1, <2>9 DEF FrontFull, IsQueue
    <3>2. k > 0
      BY <1>2, <2>2
    <3> QED BY <2>9, <2>10, <3>1, <3>2
  <2>12. /\ Ordered(r) /\ r.waiting = s.waiting /\ r.total = s.total /\ FrontFull(r)
         /\ s.waiting[l] > 0 => r.queued[l]
         /\ \A m \in Lanes : s.queued[m] => r.queued[m]
    <3>1. Lined(s, r, l)
      BY <2>8, <2>9, QueueLaneSound
    <3> QED BY <2>11, <3>1 DEF Lined
  <2>13. Counted(r)
    BY <2>9, <2>12 DEF Counted
  <2>14. Changed(q, r, l, k)
    BY <2>9, <2>10, <2>12, <2>13 DEF Changed, Sound
  <2> QED BY <1>2, <1>4, <2>2, <2>14
<1> QED BY <1>3, <1>4


Departed(q, l) == [q EXCEPT !.order = Tail(@), !.queued[l] = FALSE]

Left(q, s, l) ==
    /\ Ordered(s) /\ s.waiting = q.waiting /\ s.total = q.total
    /\ \A m \in Lanes \ {l} : q.queued[m] => s.queued[m]

(* The lane at the front gives up its place. *)
LEMMA DepartedSound ==
  ASSUME NEW q, Ordered(q), NEW l \in Lanes, AtFront(q, l),
         NEW s, s = Departed(q, l)
  PROVE  Left(q, s, l)
<1>a. /\ IsQueue(q) /\ IsInjective(q.order)
      /\ \A m \in Lanes : q.queued[m] <=> m \in Range(q.order)
  BY DEF Ordered
<1>b. /\ q.waiting \in [Lanes -> 0..Workers] /\ q.queued \in [Lanes -> BOOLEAN]
      /\ q.order \in Seq(Lanes) /\ q.total \in Nat
  BY <1>a DEF IsQueue
<1> DEFINE o == Tail(q.order)
           m == [q.queued EXCEPT ![l] = FALSE]
<1>1. PICK n \in Nat : n = Len(q.order)
  BY <1>b
<1>2. /\ q.order # <<>> /\ q.order[1] = l /\ n > 0
      /\ o \in Seq(Lanes) /\ Len(o) = n - 1 /\ \A i \in 1..(n - 1) : o[i] = q.order[i + 1]
      /\ DOMAIN o = 1..(n - 1) /\ DOMAIN q.order = 1..n
  <2>1. q.order # <<>> /\ Head(q.order) = l
    BY DEF AtFront
  <2>2. n > 0
    BY <1>b, <1>1, <2>1
  <2>3. q.order[1] = l
    BY <1>b, <2>1
  <2>4. o \in Seq(Lanes) /\ Len(o) = n - 1
    BY <1>b, <1>1, <2>1, <2>2
  <2>5. \A i \in 1..(n - 1) : o[i] = q.order[i + 1]
    BY <1>b, <1>1, <2>1, <2>2
  <2> QED BY <1>b, <1>1, <2>1, <2>2, <2>3, <2>4, <2>5
<1>3. m \in [Lanes -> BOOLEAN] /\ \A k \in Lanes : m[k] <=> q.queued[k] /\ k # l
  BY <1>b, Zenon
<1> HIDE DEF o
<1>4. IsQueue(s) /\ s.waiting = q.waiting /\ s.queued = m /\ s.order = o /\ s.total = q.total
  BY <1>a, <1>2 DEF IsQueue, o, Departed
<1> HIDE DEF m
<1>5. IsInjective(o)
  <2> SUFFICES ASSUME NEW i \in 1..(n - 1), NEW j \in 1..(n - 1), o[i] = o[j] PROVE i = j
    BY <1>2 DEF IsInjective
  <2>1. i + 1 \in 1..n /\ j + 1 \in 1..n /\ q.order[i + 1] = q.order[j + 1]
    BY <1>2
  <2>2. i + 1 = j + 1
    BY <1>a, <1>2, <2>1 DEF IsInjective
  <2> QED BY <2>2
<1>6. ASSUME NEW k \in Lanes
      PROVE  k \in Range(o) <=> k \in Range(q.order) /\ k # l
  <2>1. ASSUME k \in Range(o) PROVE k \in Range(q.order) /\ k # l
    <3>1. PICK i \in 1..(n - 1) : o[i] = k
      BY <1>2, <2>1 DEF Range
    <3>2. i + 1 \in 1..n /\ 1 \in 1..n /\ i + 1 # 1 /\ q.order[i + 1] = k
      BY <1>2, <3>1
    <3> QED BY <1>a, <1>2, <3>2 DEF Range, IsInjective
  <2>2. ASSUME k \in Range(q.order), k # l PROVE k \in Range(o)
    <3>1. PICK i \in 1..n : q.order[i] = k
      BY <1>2, <2>2 DEF Range
    <3>2. i - 1 \in 1..(n - 1) /\ (i - 1) + 1 = i
      BY <1>2, <2>2, <3>1
    <3>3. o[i - 1] = q.order[i]
      BY <1>2, <3>2
    <3> QED BY <1>2, <3>1, <3>2, <3>3 DEF Range
  <2> QED BY <2>1, <2>2
<1>7. \A k \in Lanes : s.queued[k] <=> k \in Range(s.order)
  BY <1>a, <1>3, <1>4, <1>6, Zenon
<1>8. \A k \in Lanes \ {l} : q.queued[k] => s.queued[k]
  BY <1>3, <1>4, Zenon
<1>9. Ordered(s)
  BY <1>4, <1>5, <1>7 DEF Ordered
<1> QED BY <1>4, <1>8, <1>9 DEF Left

(* take_from_lane of what was granted, nothing or one worker. *)
LEMMA TakeSound ==
  ASSUME NEW q, Sound(q), NEW l \in Lanes, NEW n \in {0, 1}, n <= q.waiting[l],
         q.waiting[l] > 0 => q.queued[l], NEW r, r = TakeFromLane(q, l, n)
  PROVE  Changed(q, r, l, q.waiting[l] - n)
<1>1. Ordered(q) /\ Counted(q) /\ IsQueue(q)
  BY DEF Sound, Ordered
<1>2. PICK w \in 0..Workers : w = q.waiting[l]
  BY <1>1 DEF IsQueue
<1>3. PICK k \in 0..Workers : k = w - n
  BY <1>2, SizesAssumption
<1>4. q.total \in Nat /\ w \in Nat
  BY <1>1, SizesAssumption DEF IsQueue
<1>5. PICK s : s = SetShare(q, l, k)
  OBVIOUS
<1>6. (IF q.waiting[l] <= n THEN q.waiting[l] ELSE n) = n
  BY <1>2, <1>4
<1>7. [q EXCEPT !.waiting[l] = @ - n, !.total = @ - n] = s
  <2>1. q.total - q.waiting[l] + k = q.total - n /\ q.waiting[l] - n = k
    BY <1>2, <1>3, <1>4
  <2>2. s = [q EXCEPT !.total = q.total - n, !.waiting[l] = k]
    BY <1>5, <2>1 DEF SetShare
  <2> QED BY <1>1, <2>1, <2>2 DEF IsQueue
<1>8. /\ Ordered(s) /\ Counted(s) /\ s.waiting = [q.waiting EXCEPT ![l] = k]
      /\ s.queued = q.queued /\ s.order = q.order
  <2>1. Shared(q, s, l, k)
    BY <1>1, <1>5, ShareSet
  <2> QED BY <2>1 DEF Shared
<1>9. s.waiting[l] = k /\ \A m \in Lanes \ {l} : s.waiting[m] = q.waiting[m]
  BY <1>1, <1>8 DEF IsQueue
<1>10. PICK u : u = IF AtFront(s, l) THEN QueueLane(Departed(s, l), l) ELSE s
  OBVIOUS
<1>11. r = DiscardEmptyFront(u)
  <2> DEFINE taken == IF q.waiting[l] <= n THEN q.waiting[l] ELSE n
             x == [q EXCEPT !.waiting[l] = @ - taken, !.total = @ - taken]
  <2>1. r = DiscardEmptyFront(IF AtFront(x, l) THEN QueueLane(Departed(x, l), l) ELSE x)
    BY Zenon DEF TakeFromLane, Departed
  <2>2. x = s
    <3>1. taken = n
      BY <1>6
    <3> HIDE DEF taken
    <3> QED BY <1>7, <3>1
  <2> HIDE DEF x
  <2> QED BY <1>10, <2>1, <2>2
<1>12. /\ Ordered(u) /\ Counted(u) /\ u.waiting = s.waiting
       /\ k > 0 => u.queued[l]
       /\ \A m \in Lanes \ {l} : q.queued[m] => u.queued[m]
  <2>1. CASE ~AtFront(s, l)
    <3>1. u = s
      BY <1>10, <2>1
    <3>2. k > 0 => q.waiting[l] > 0
      BY <1>2, <1>3, <1>4
    <3> QED BY <1>8, <3>1, <3>2
  <2>2. CASE AtFront(s, l)
    <3>1. PICK v : v = Departed(s, l)
      OBVIOUS
    <3>2. u = QueueLane(v, l)
      BY <1>10, <2>2, <3>1
    <3>3. Left(s, v, l)
      BY <1>8, <2>2, <3>1, DepartedSound
    <3>4. /\ Ordered(v) /\ v.waiting = s.waiting /\ v.total = s.total
          /\ \A m \in Lanes \ {l} : s.queued[m] => v.queued[m]
      BY <3>3 DEF Left
    <3>5. Lined(v, u, l)
      BY <3>2, <3>4, QueueLaneSound
    <3>6. /\ Ordered(u) /\ u.waiting = v.waiting /\ u.total = v.total
          /\ v.waiting[l] > 0 => u.queued[l]
          /\ \A m \in Lanes : v.queued[m] => u.queued[m]
      BY <3>5 DEF Lined
    <3>7. Counted(u)
      BY <1>8, <3>4, <3>6 DEF Counted
    <3> QED BY <1>8, <1>9, <3>4, <3>6, <3>7
  <2> QED BY <2>1, <2>2
<1>13. u.waiting = [q.waiting EXCEPT ![l] = k]
  BY <1>8, <1>12
<1>14. \A m \in Lanes \ {l} : q.queued[m] /\ q.waiting[m] > 0 => u.queued[m]
  BY <1>12
<1>15. Changed(q, r, l, k)
  BY <1>1, <1>11, <1>12, <1>13, <1>14, DiscardChanged
<1> QED BY <1>2, <1>3, <1>15

(* Two operations for the same lane. *)
LEMMA ChangedTwice ==
  ASSUME NEW q, IsQueue(q), NEW r, NEW s, NEW l \in Lanes, NEW a, NEW b,
         Changed(q, r, l, a), Changed(r, s, l, b)
  PROVE  Changed(q, s, l, b)
<1>1. r.waiting = [q.waiting EXCEPT ![l] = a] /\ s.waiting = [r.waiting EXCEPT ![l] = b]
  BY DEF Changed
<1>2. q.waiting \in [Lanes -> 0..Workers]
  BY DEF IsQueue
<1>3. s.waiting = [q.waiting EXCEPT ![l] = b]
  BY <1>1, <1>2
<1>4. \A m \in Lanes \ {l} : r.waiting[m] = q.waiting[m]
  BY <1>1, <1>2
<1>5. \A m \in Lanes \ {l} : q.queued[m] /\ q.waiting[m] > 0 => s.queued[m]
  BY <1>4 DEF Changed
<1> QED BY <1>3, <1>5 DEF Changed


-----------------------------------------------------------------------------
(* The queue of the schedule. *)

QueueTypeOK ==
    /\ waiting \in [Lanes -> 0..Workers]
    /\ queued \in [Lanes -> BOOLEAN]
    /\ order \in Seq(Lanes)
    /\ total \in 0..(Workers * Cardinality(Lanes))

QueueSound ==
    /\ QueueTypeOK
    /\ total = Cardinality(Waiters)
    /\ IsInjective(order)
    /\ \A l \in Lanes : queued[l] <=> l \in Range(order)
    /\ order # <<>> => waiting[Head(order)] > 0

(* The variables of the queue and its value. *)
LEMMA QueueNow ==
  ASSUME QueueSound
  PROVE  /\ Sound(Queue) /\ IsQueue(Queue)
         /\ Queue.waiting = waiting /\ Queue.queued = queued
<1>1. PICK n \in Nat : n = Workers * Cardinality(Lanes)
  BY PlacesFinite, SizesAssumption
<1>2. waiting \in [Lanes -> 0..Workers] /\ queued \in [Lanes -> BOOLEAN]
      /\ order \in Seq(Lanes) /\ total \in Nat
  BY <1>1 DEF QueueSound, QueueTypeOK
<1>3. /\ Queue.waiting = waiting /\ Queue.queued = queued /\ Queue.order = order
      /\ Queue.total = total /\ DOMAIN Queue = {"waiting", "queued", "order", "total"}
  BY DEF Queue
<1>4. IsQueue(Queue)
  BY <1>2, <1>3 DEF IsQueue
<1>5. Ordered(Queue)
  BY <1>3, <1>4, Zenon DEF Ordered, QueueSound
<1>6. Counted(Queue)
  BY <1>3, Zenon DEF Counted, QueueSound, Waiters, WaitersOf
<1>7. FrontFull(Queue)
  BY <1>3, Zenon DEF FrontFull, QueueSound
<1> QED BY <1>3, <1>4, <1>5, <1>6, <1>7 DEF Sound

(* A queue that is stored. *)
LEMMA QueueStored ==
  ASSUME NEW r, Sound(r), SetQueue(r)
  PROVE  QueueSound' /\ waiting' = r.waiting /\ queued' = r.queued
<1>1. waiting' = r.waiting /\ queued' = r.queued /\ order' = r.order /\ total' = r.total
  BY DEF SetQueue
<1>2. IsQueue(r) /\ IsInjective(r.order) /\ (\A l \in Lanes : r.queued[l] <=> l \in Range(r.order))
      /\ Counted(r) /\ FrontFull(r)
  BY DEF Sound, Ordered
<1>3. WaitersOf(r.waiting) \in SUBSET (Lanes \X (1..Workers))
  BY DEF WaitersOf
<1>4. Cardinality(WaitersOf(r.waiting)) <= Cardinality(Lanes \X (1..Workers))
  BY <1>3, PlacesFinite, FS_Subset
<1>5. PICK n \in Nat : n = Workers * Cardinality(Lanes) /\ n = Cardinality(Lanes) * Workers
  BY PlacesFinite, SizesAssumption
<1>6. r.total \in 0..n
  BY <1>2, <1>4, <1>5, PlacesFinite DEF IsQueue, Counted
<1>7. QueueTypeOK'
  BY <1>1, <1>2, <1>5, <1>6 DEF QueueTypeOK, IsQueue
<1>8. total' = Cardinality(Waiters')
  BY <1>1, <1>2, Zenon DEF Counted, Waiters, WaitersOf
<1>9. order' # <<>> => waiting'[Head(order')] > 0
  BY <1>1, <1>2 DEF FrontFull
<1>10. IsInjective(order') /\ \A l \in Lanes : queued'[l] <=> l \in Range(order')
  BY <1>1, <1>2
<1> QED BY <1>1, <1>7, <1>8, <1>9, <1>10 DEF QueueSound

(* An operation of lane l that leaves it waiting with n workers. *)
Relined(l, n) ==
    /\ QueueSound'
    /\ waiting' = [waiting EXCEPT ![l] = n]
    /\ n > 0 => queued'[l]
    /\ \A m \in Lanes \ {l} : queued[m] /\ waiting[m] > 0 => queued'[m]

(* The operations change the variables as they change the value. *)
LEMMA ChangedStored ==
  ASSUME QueueSound, NEW r, NEW l \in Lanes, NEW n, Changed(Queue, r, l, n), SetQueue(r)
  PROVE  Relined(l, n)
<1>1. Queue.waiting = waiting /\ Queue.queued = queued
  BY QueueNow
<1>2. QueueSound' /\ waiting' = r.waiting /\ queued' = r.queued
  BY QueueStored DEF Changed
<1> QED BY <1>1, <1>2 DEF Changed, Relined

(* How many workers of a lane are idle. *)
LEMMA IdleCounted ==
  ASSUME NEW l
  PROVE  /\ IsFiniteSet(IdleSlots(l)) /\ Cardinality(IdleSlots(l)) \in 0..Workers
         /\ Cardinality(IdleSlots(l)) = 0 <=> IdleSlots(l) = {}
<1>1. IdleSlots(l) \in SUBSET (1..Workers)
  BY DEF IdleSlots
<1>2. IsFiniteSet(IdleSlots(l)) /\ Cardinality(IdleSlots(l)) <= Workers
  <2>1. PICK S : S = 1..Workers
    OBVIOUS
  <2>2. IsFiniteSet(S) /\ Cardinality(S) = Workers
    BY <2>1, PlacesFinite
  <2>3. PICK T \in SUBSET S : T = IdleSlots(l)
    BY <1>1, <2>1
  <2>4. IsFiniteSet(T) /\ Cardinality(T) <= Cardinality(S)
    BY <2>2, FS_Subset
  <2> QED BY <2>2, <2>3, <2>4
<1>3. Cardinality(IdleSlots(l)) \in Nat
  BY <1>2, FS_CardinalityType
<1>4. Cardinality(IdleSlots(l)) = 0 <=> IdleSlots(l) = {}
  BY <1>2, FS_EmptySet
<1> QED BY <1>2, <1>3, <1>4, SizesAssumption

(* What a request does: it grants nothing or one episode, that one as the     *)
(* first of the run or because there is an estimate.                          *)
Requested(l, limit, first) ==
    /\ Relined(l, Cardinality(IdleSlots(l)) - limit)
    /\ first => limit = 1 /\ ~bootstrapped
    /\ limit = 1 => first \/ known'
    /\ bootstrapped' = (bootstrapped \/ first)
    /\ grant' = [grant EXCEPT ![l] = [limit |-> limit, bootstrap |-> first]]
    /\ reserved' = reserved + limit
    /\ phase' = [phase EXCEPT ![l] = IF limit > 0 THEN "granted" ELSE "work"]

(* request, with the gate open and an idle worker. *)
LEMMA RequestEffect ==
  ASSUME QueueSound, NEW l \in Lanes, Request(l)
  PROVE  \E limit \in {0, 1}, first \in BOOLEAN : Requested(l, limit, first)
<1>1. PICK n \in 0..Workers : n = Cardinality(IdleSlots(l))
  BY IdleCounted
<1>2. n > 0
  BY <1>1 DEF Request
<1>3. PICK q : q = SetWaiting(Queue, l, n)
  OBVIOUS
<1>4. PICK first \in BOOLEAN : first = Bootstrap(q, l)
  BY DEF Bootstrap, AtFront
<1>5. PICK limit \in {0, 1} : limit = IF first \/ Paced(q, l) THEN 1 ELSE 0
  OBVIOUS
<1>6. /\ SetQueue(TakeFromLane(q, l, limit))
      /\ bootstrapped' = (bootstrapped \/ first)
      /\ grant' = [grant EXCEPT ![l] = [limit |-> limit, bootstrap |-> first]]
      /\ reserved' = reserved + limit
      /\ phase' = [phase EXCEPT ![l] = IF limit > 0 THEN "granted" ELSE "work"]
  BY <1>1, <1>3, <1>4, <1>5 DEF Request, Goto
<1>7. Sound(Queue) /\ IsQueue(Queue)
  BY QueueNow
<1>8. Changed(Queue, q, l, n)
  BY <1>3, <1>7, SetWaitingSound
<1>9. Sound(q) /\ q.waiting[l] = n /\ q.queued[l]
  BY <1>2, <1>7, <1>8 DEF Changed, IsQueue
<1>10. PICK r : r = TakeFromLane(q, l, limit)
  OBVIOUS
<1>11. limit <= q.waiting[l]
  BY <1>2, <1>5, <1>9, SizesAssumption
<1>12. Changed(q, r, l, q.waiting[l] - limit)
  BY <1>9, <1>10, <1>11, TakeSound
<1>13. PICK k : k = n - limit
  OBVIOUS
<1>14. Changed(q, r, l, k)
  BY <1>9, <1>12, <1>13
<1>15. Changed(Queue, r, l, k)
  BY <1>7, <1>8, <1>14, ChangedTwice
<1>16. Relined(l, k)
  BY <1>6, <1>10, <1>15, ChangedStored
<1>17. first => limit = 1 /\ ~bootstrapped
  BY <1>4, <1>5 DEF Bootstrap
<1>18. limit = 1 => first \/ known'
  BY <1>5 DEF Paced
<1> QED BY <1>1, <1>6, <1>13, <1>16, <1>17, <1>18 DEF Requested

(* clear_lane *)
LEMMA LeaveEffect ==
  ASSUME QueueSound, NEW l \in Lanes, pacing.smoothing, LeaveQueue(l)
  PROVE  Relined(l, 0) /\ flag' = [flag EXCEPT ![l] = FALSE]
<1>1. Sound(Queue)
  BY QueueNow
<1>2. PICK r : r = ClearLane(Queue, l)
  OBVIOUS
<1>3. SetQueue(r) /\ flag' = [flag EXCEPT ![l] = FALSE]
  BY <1>2 DEF LeaveQueue
<1>4. Changed(Queue, r, l, 0)
  BY <1>1, <1>2, ClearLaneSound
<1> QED BY <1>3, <1>4, ChangedStored

(* finish_admission of a grant of the schedule, of which n episodes began. *)
LEMMA FinishEffect ==
  ASSUME QueueSound, NEW l \in Lanes, NEW n \in {0, 1}, NEW ends \in BOOLEAN,
         pacing.smoothing, grant[l].limit = 1, waiting[l] + 1 <= Workers,
         waiting[l] > 0 => queued[l], FinishAdmission(l, n, ends)
  PROVE  \E k \in 0..Workers : Relined(l, k) /\ flag' = [flag EXCEPT ![l] = k > 0]
<1>1. Sound(Queue) /\ IsQueue(Queue) /\ Queue.waiting = waiting /\ Queue.queued = queued
  BY QueueNow
<1>2. PICK u \in {0, 1} : u = grant[l].limit - n
  OBVIOUS
<1>3. PICK r : r = RestoreUnused(Queue, l, u)
  OBVIOUS
<1>4. SetQueue(IF ends THEN ClearLane(r, l) ELSE r) /\ flag' = [flag EXCEPT ![l] = waiting'[l] > 0]
  BY <1>2, <1>3 DEF FinishAdmission, StoreFlag
<1>5. PICK w \in Nat : w = waiting[l] /\ w + 1 <= Workers
  BY SizesAssumption DEF QueueSound, QueueTypeOK
<1>6. Queue.waiting[l] + u <= Workers /\ (Queue.waiting[l] > 0 => Queue.queued[l])
  BY <1>1, <1>5, SizesAssumption
<1>7. Changed(Queue, r, l, Queue.waiting[l] + u)
  BY <1>1, <1>3, <1>6, RestoreSound
<1>8. PICK k \in 0..Workers : k = w + u
  BY <1>5, SizesAssumption
<1>9. Changed(Queue, r, l, k)
  BY <1>1, <1>5, <1>7, <1>8
<1>10. waiting \in [Lanes -> 0..Workers]
  BY DEF QueueSound, QueueTypeOK
<1>11. CASE ~ends
  <2>1. SetQueue(r)
    BY <1>4, <1>11
  <2>2. Relined(l, k)
    BY <1>9, <2>1, ChangedStored
  <2>3. waiting'[l] = k
    BY <1>10, <2>2 DEF Relined
  <2> QED BY <1>4, <2>2, <2>3
<1>12. CASE ends
  <2>1. PICK s : s = ClearLane(r, l)
    OBVIOUS
  <2>2. SetQueue(s)
    BY <1>4, <1>12, <2>1
  <2>3. Changed(r, s, l, 0)
    BY <1>9, <2>1, ClearLaneSound DEF Changed
  <2>4. Changed(Queue, s, l, 0)
    BY <1>1, <1>9, <2>3, ChangedTwice
  <2>5. Relined(l, 0)
    BY <2>2, <2>4, ChangedStored
  <2>6. waiting'[l] = 0 /\ 0 \in 0..Workers
    BY <1>10, <2>5, SizesAssumption DEF Relined
  <2> QED BY <1>4, <2>5, <2>6
<1> QED BY <1>11, <1>12

(* request of a lane without an idle worker that has its flag set. *)
LEMMA FullEffect ==
  ASSUME QueueSound, NEW l \in Lanes, flag[l], RequestFull(l)
  PROVE  Relined(l, 0) /\ flag' = [flag EXCEPT ![l] = FALSE]
<1>1. Sound(Queue) /\ 0 \in 0..Workers
  BY QueueNow, SizesAssumption
<1>2. PICK r : r = SetWaiting(Queue, l, 0)
  OBVIOUS
<1>3. SetQueue(r) /\ flag' = [flag EXCEPT ![l] = waiting'[l] > 0]
  BY <1>2 DEF RequestFull, StoreFlag
<1>4. Changed(Queue, r, l, 0)
  BY <1>1, <1>2, SetWaitingSound
<1>5. Relined(l, 0)
  BY <1>3, <1>4, ChangedStored
<1>6. waiting'[l] = 0
  BY <1>5 DEF Relined, QueueSound, QueueTypeOK
<1>7. (waiting'[l] > 0) = FALSE
  BY <1>6
<1> QED BY <1>3, <1>5, <1>7

-----------------------------------------------------------------------------
(* What every step preserves. *)

RestTypeOK ==
    /\ phase \in [Lanes -> {"top", "granted", "asleep", "work", "done", "failed"}]
    /\ slots \in [Lanes -> [1..Workers -> {"idle", "fresh", "used"}]]
    /\ begun \in 0..Roots
    /\ exhausted \in [Lanes -> BOOLEAN]
    /\ grant \in [Lanes -> [limit : 0..Workers, bootstrap : BOOLEAN]]
    /\ closings \in 0..MaxClosings
    /\ flag \in [Lanes -> BOOLEAN]
    /\ reserved \in Nat
    /\ busy \in {"none", "short", "long"}
    /\ batch \in 0..2
    /\ faults \in 0..MaxFaults
    /\ pacing \in Pacings
    /\ next \in [Lanes -> (-pacing.stagger)..pacing.stagger]

SwitchTypeOK == {bootstrapped, allowShort, known, due, work, gate, closed} \subseteq BOOLEAN

(* The invariant in the parts in which it is proved. *)
LEMMA PartsOfInvariant ==
  ScheduleInOrder <=>
    /\ RestTypeOK /\ SwitchTypeOK /\ QueueSound /\ (\A l \in Lanes : flag[l] => queued[l])
    /\ OneBeforeEstimate /\ ReservationsBalance
    /\ GrantsInOrder /\ FlagsInOrder /\ BootstrapInOrder
BY Zenon DEF ScheduleInOrder, ScheduleConsistent, TypeOK, QueueConsistent, QueueSound,
   QueueTypeOK, RestTypeOK, SwitchTypeOK

(* The pacings: smoothing has no stagger, and a stagger is a number. *)
LEMMA PacingTyped ==
  ASSUME pacing \in Pacings
  PROVE  /\ pacing.smoothing \in BOOLEAN /\ pacing.stagger \in Nat
         /\ pacing.smoothing => pacing.stagger = 0
<1>1. CASE pacing \in {[smoothing |-> TRUE, stagger |-> 0]}
  <2>1. pacing = [smoothing |-> TRUE, stagger |-> 0]
    BY <1>1
  <2>2. pacing.smoothing = TRUE /\ pacing.stagger = 0
    BY <2>1, Zenon
  <2>3. pacing.stagger \in Nat
    BY <2>2
  <2> QED BY <2>2, <2>3, Zenon
<1>2. CASE pacing \in {[smoothing |-> FALSE, stagger |-> s] : s \in Staggers}
  <2>1. PICK s \in Staggers : pacing = [smoothing |-> FALSE, stagger |-> s]
    BY <1>2
  <2>2. pacing.smoothing = FALSE /\ pacing.stagger = s
    BY <2>1, Zenon
  <2> QED BY <2>2, LanesAssumption
<1> QED BY <1>1, <1>2 DEF Pacings

(* Preservation of the switches: what is assigned to one is a condition. *)
LEMMA SwitchStep ==
  ASSUME SwitchTypeOK, RestTypeOK, QueueSound, [Next]_vars
  PROVE  SwitchTypeOK'
<1> USE DEF SwitchTypeOK, paceVars, gateVars, pressureVars
<1>a. ObserveCapacity => {known', work', allowShort'} \subseteq BOOLEAN
  BY DEF ObserveCapacity
<1>1. CASE UNCHANGED vars
  BY <1>1 DEF vars
<1>2. ASSUME NEW l \in Lanes, Request(l)
      PROVE  SwitchTypeOK'
  <2>1. PICK limit \in {0, 1}, first \in BOOLEAN : Requested(l, limit, first)
    BY <1>2, RequestEffect
  <2>2. bootstrapped' \in BOOLEAN
    BY <2>1 DEF Requested
  <2>3. due' \in BOOLEAN
    BY <1>2 DEF Request
  <2> QED BY <1>2, <1>a, <2>2, <2>3 DEF Request
<1>3. ASSUME NEW l \in Lanes, RequestFull(l)
      PROVE  SwitchTypeOK'
  BY <1>3, <1>a DEF RequestFull
<1>4. ASSUME NEW l \in Lanes,
             \/ AskPacer(l) \/ Wake(l) \/ GateClosed(l) \/ NoRequest(l) \/ LaneFails(l)
             \/ EndRound(l)
      PROVE  SwitchTypeOK'
  BY <1>4 DEF AskPacer, Wake, GateClosed, NoRequest, LaneFails, EndRound
<1>5. ASSUME NEW l \in Lanes, Admit(l) \/ AdmitFails(l)
      PROVE  SwitchTypeOK'
  <2>1. bootstrapped' \in BOOLEAN
    BY <1>5 DEF Admit, AdmitFails, FinishAdmission, BootstrapAfter
  <2> QED BY <1>5, <2>1 DEF Admit, AdmitFails
<1>6. ASSUME NEW l \in Lanes, NEW w \in 1..Workers, Evaluate(l, w) \/ Complete(l, w)
      PROVE  SwitchTypeOK'
  BY <1>6 DEF Evaluate, Complete
<1>7. CASE Publish
  BY <1>7 DEF Publish
<1>8. CASE Tick \/ CloseGate \/ OpenGate
  BY <1>8 DEF Tick, CloseGate, OpenGate
<1> QED
  BY <1>1, <1>2, <1>3, <1>4, <1>5, <1>6, <1>7, <1>8 DEF Next, LaneStep, Stopped

(* finish_admission as the lanes call it, with the schedule. *)
LEMMA ReportEffect ==
  ASSUME RestTypeOK, QueueSound, GrantsInOrder, \A m \in Lanes : flag[m] => queued[m],
         NEW l \in Lanes, phase[l] = "granted", pacing.smoothing,
         NEW n \in 0..grant[l].limit, NEW ends \in BOOLEAN, FinishAdmission(l, n, ends)
  PROVE  \E k \in 0..Workers : Relined(l, k) /\ flag' = [flag EXCEPT ![l] = k > 0]
<1>1. /\ grant[l].limit = 1 /\ waiting[l] + 1 = Cardinality(IdleSlots(l))
      /\ flag[l] <=> waiting[l] > 0
  BY DEF GrantsInOrder
<1>2. waiting[l] + 1 <= Workers
  BY <1>1, IdleCounted, SizesAssumption
<1>3. waiting[l] > 0 => queued[l]
  BY <1>1
<1>4. n \in {0, 1}
  BY <1>1
<1> QED BY <1>1, <1>2, <1>3, <1>4, FinishEffect

(* What finish_admission does to the lane that admitted. *)
LEMMA FinishTyped ==
  ASSUME RestTypeOK, NEW l \in Lanes, NEW n, NEW ends, FinishAdmission(l, n, ends),
         n \in 0..Workers, n <= grant[l].limit
  PROVE  /\ grant' \in [Lanes -> [limit : 0..Workers, bootstrap : BOOLEAN]]
         /\ reserved' \in Nat
         /\ pacing' = pacing => next' \in [Lanes -> (-pacing.stagger)..pacing.stagger]
<1>1. grant \in [Lanes -> [limit : 0..Workers, bootstrap : BOOLEAN]] /\ grant[l].limit \in 0..Workers
      /\ flag \in [Lanes -> BOOLEAN] /\ reserved \in Nat
      /\ next \in [Lanes -> (-pacing.stagger)..pacing.stagger]
      /\ pacing.stagger \in Nat
  BY PacingTyped DEF RestTypeOK
<1>2. PICK G : G = [limit : 0..Workers, bootstrap : BOOLEAN]
  OBVIOUS
<1>3. NoGrant \in G
  BY <1>2, SizesAssumption DEF NoGrant
<1>4. grant' \in [Lanes -> G]
  BY <1>1, <1>2, <1>3 DEF FinishAdmission
<1>5. reserved' \in Nat
  BY <1>1, SizesAssumption DEF FinishAdmission, Minus
<1>6. next' \in [Lanes -> (-pacing.stagger)..pacing.stagger]
  BY <1>1 DEF FinishAdmission, Recorded
<1> QED BY <1>2, <1>4, <1>5, <1>6

(* Preservation of the types of the other variables. *)
LEMMA RestStep ==
  ASSUME RestTypeOK, QueueSound, GrantsInOrder, \A m \in Lanes : flag[m] => queued[m],
         [Next]_vars
  PROVE  RestTypeOK'
<1>a. pacing.stagger \in Nat /\ pacing.smoothing \in BOOLEAN
  BY PacingTyped DEF RestTypeOK
<1>b. \A l \in Lanes : ResumeOffset(l) \in 0..pacing.stagger
  BY <1>a, OffsetWithin DEF ResumeOffset
<1>c. Workers \in Nat \ {0} /\ Roots \in Nat /\ MaxClosings \in Nat /\ MaxFaults \in Nat
  BY SizesAssumption
<1>d. ASSUME NEW l \in Lanes, phase[l] = "granted", NEW n \in 0..grant[l].limit,
             NEW ends \in BOOLEAN, FinishAdmission(l, n, ends)
      PROVE  flag' \in [Lanes -> BOOLEAN]
  <2>1. flag \in [Lanes -> BOOLEAN]
    BY DEF RestTypeOK
  <2>2. CASE ~pacing.smoothing
    BY <1>d, <2>1, <2>2 DEF FinishAdmission
  <2>3. CASE pacing.smoothing
    <3>1. PICK k \in 0..Workers : flag' = [flag EXCEPT ![l] = k > 0]
      BY <1>d, <2>3, ReportEffect
    <3> QED BY <1>c, <2>1, <3>1
  <2> QED BY <2>2, <2>3
<1> USE DEF RestTypeOK, laneVars, gateVars, pressureVars, pacerVars
<1>1. CASE UNCHANGED vars
  BY <1>1 DEF vars
<1>2. ASSUME NEW l \in Lanes, Request(l)
      PROVE  RestTypeOK'
  <2>1. PICK limit \in {0, 1}, first \in BOOLEAN : Requested(l, limit, first)
    BY <1>2, RequestEffect
  <2>2. PICK G : G = [limit : 0..Workers, bootstrap : BOOLEAN]
    OBVIOUS
  <2>3. PICK r : r = [limit |-> limit, bootstrap |-> first]
    OBVIOUS
  <2>4. r \in G
    BY <1>c, <2>2, <2>3
  <2>5. grant' \in [Lanes -> G]
    BY <2>1, <2>2, <2>3, <2>4 DEF Requested
  <2>6. reserved' \in Nat
    BY <2>1 DEF Requested
  <2>7. phase' \in [Lanes -> {"top", "granted", "asleep", "work", "done", "failed"}]
    BY <2>1 DEF Requested
  <2>8. flag' \in [Lanes -> BOOLEAN]
    BY <1>2 DEF Request, StoreFlag
  <2>9. busy' \in {"none", "short", "long"}
    BY <1>2 DEF Request, ObserveCapacity
  <2> QED BY <1>2, <2>2, <2>5, <2>6, <2>7, <2>8, <2>9 DEF Request
<1>3. ASSUME NEW l \in Lanes, RequestFull(l)
      PROVE  RestTypeOK'
  <2>1. phase' \in [Lanes -> {"top", "granted", "asleep", "work", "done", "failed"}]
    BY <1>3 DEF RequestFull, Goto
  <2>2. flag' \in [Lanes -> BOOLEAN]
    BY <1>3, FullEffect DEF RequestFull
  <2>3. busy' \in {"none", "short", "long"}
    BY <1>3 DEF RequestFull, ObserveCapacity
  <2> QED BY <1>3, <2>1, <2>2, <2>3 DEF RequestFull
<1>4. ASSUME NEW l \in Lanes, AskPacer(l)
      PROVE  RestTypeOK'
  <2>1. phase' \in [Lanes -> {"top", "granted", "asleep", "work", "done", "failed"}]
    BY <1>4 DEF AskPacer, Goto
  <2>2. next' \in [Lanes -> (-pacing.stagger)..pacing.stagger]
    <3>1. Resumed(l) \in (-pacing.stagger)..pacing.stagger
      BY <1>a, <1>b DEF Resumed
    <3> QED BY <1>4, <3>1 DEF AskPacer
  <2>3. grant' \in [Lanes -> [limit : 0..Workers, bootstrap : BOOLEAN]]
    <3>1. PICK G : G = [limit : 0..Workers, bootstrap : BOOLEAN]
      OBVIOUS
    <3>2. PacerLimit(l) \in 0..Workers
      BY <1>c, IdleCounted DEF PacerLimit
    <3>3. PICK r : r = [NoGrant EXCEPT !.limit = PacerLimit(l)]
      OBVIOUS
    <3>4. r = [limit |-> PacerLimit(l), bootstrap |-> FALSE]
      BY <3>3 DEF NoGrant
    <3>5. r \in G
      BY <3>1, <3>2, <3>4
    <3>6. grant \in [Lanes -> G] /\ (grant' = grant \/ grant' = [grant EXCEPT ![l] = r])
      BY <1>4, <3>1, <3>3 DEF AskPacer
    <3> QED BY <3>1, <3>5, <3>6
  <2> QED BY <1>4, <2>1, <2>2, <2>3 DEF AskPacer
<1>5. ASSUME NEW l \in Lanes, Wake(l) \/ NoRequest(l) \/ LaneFails(l)
      PROVE  RestTypeOK'
  BY <1>5 DEF Wake, NoRequest, LaneFails, Goto
<1>6. ASSUME NEW l \in Lanes, GateClosed(l) \/ EndRound(l)
      PROVE  RestTypeOK'
  <2>1. phase' \in [Lanes -> {"top", "granted", "asleep", "work", "done", "failed"}]
    BY <1>6 DEF GateClosed, EndRound, Goto
  <2>2. flag' \in [Lanes -> BOOLEAN]
    BY <1>6 DEF GateClosed, EndRound, LeaveQueue
  <2> QED BY <1>6, <2>1, <2>2 DEF GateClosed, EndRound
<1>7. ASSUME NEW l \in Lanes, Admit(l)
      PROVE  RestTypeOK'
  <2>1. PICK n \in 0..grant[l].limit, first \in SUBSET IdleSlots(l) :
           /\ begun + n <= Roots
           /\ slots' = [slots EXCEPT ![l] = [w \in 1..Workers |->
                                               IF w \in first THEN "fresh" ELSE @[w]]]
           /\ begun' = begun + n
           /\ exhausted' = [exhausted EXCEPT ![l] = n < grant[l].limit]
           /\ FinishAdmission(l, n, n < grant[l].limit)
    BY <1>7 DEF Admit
  <2>2. grant[l].limit \in 0..Workers
    OBVIOUS
  <2>3. n \in 0..Workers /\ n <= grant[l].limit
    BY <1>c, <2>2
  <2>4. /\ grant' \in [Lanes -> [limit : 0..Workers, bootstrap : BOOLEAN]]
        /\ reserved' \in Nat
        /\ pacing' = pacing => next' \in [Lanes -> (-pacing.stagger)..pacing.stagger]
    BY <2>1, <2>3, FinishTyped
  <2>f. flag' \in [Lanes -> BOOLEAN]
    <3>1. PICK ends : ends = (n < grant[l].limit)
      OBVIOUS
    <3>2. ends \in BOOLEAN
      BY <2>2, <2>3, <3>1
    <3>3. FinishAdmission(l, n, ends) /\ phase[l] = "granted"
      BY <1>7, <2>1, <3>1 DEF Admit
    <3> QED BY <1>d, <3>2, <3>3
  <2>5. slots' \in [Lanes -> [1..Workers -> {"idle", "fresh", "used"}]]
    BY <2>1
  <2>6. begun' \in 0..Roots
    BY <1>c, <2>1, <2>3
  <2>7. exhausted' \in [Lanes -> BOOLEAN]
    BY <2>1
  <2>8. phase' \in [Lanes -> {"top", "granted", "asleep", "work", "done", "failed"}]
    BY <1>7 DEF Admit, Goto
  <2> QED BY <1>7, <2>4, <2>f, <2>5, <2>6, <2>7, <2>8 DEF Admit
<1>8. ASSUME NEW l \in Lanes, AdmitFails(l)
      PROVE  RestTypeOK'
  <2>1. FinishAdmission(l, 0, FALSE)
    BY <1>8 DEF AdmitFails
  <2>2. 0 \in 0..Workers /\ 0 <= grant[l].limit
    BY <1>c
  <2>3. /\ grant' \in [Lanes -> [limit : 0..Workers, bootstrap : BOOLEAN]]
        /\ reserved' \in Nat
        /\ pacing' = pacing => next' \in [Lanes -> (-pacing.stagger)..pacing.stagger]
    BY <2>1, <2>2, FinishTyped
  <2>f. flag' \in [Lanes -> BOOLEAN]
    <3>1. 0 \in 0..grant[l].limit /\ FALSE \in BOOLEAN /\ phase[l] = "granted"
      BY <1>8, <1>c DEF AdmitFails
    <3> QED BY <1>d, <2>1, <3>1
  <2>4. phase' \in [Lanes -> {"top", "granted", "asleep", "work", "done", "failed"}]
    BY <1>8 DEF AdmitFails, Goto
  <2>5. faults' \in 0..MaxFaults
    BY <1>8, <1>c DEF AdmitFails
  <2> QED BY <1>8, <2>3, <2>f, <2>4, <2>5 DEF AdmitFails
<1>9. ASSUME NEW l \in Lanes, NEW w \in 1..Workers, Evaluate(l, w) \/ Complete(l, w)
      PROVE  RestTypeOK'
  <2>1. slots' \in [Lanes -> [1..Workers -> {"idle", "fresh", "used"}]]
    <3>1. \A v \in {"idle", "used"} :
            [slots EXCEPT ![l][w] = v] \in [Lanes -> [1..Workers -> {"idle", "fresh", "used"}]]
      OBVIOUS
    <3> QED BY <1>9, <3>1 DEF Evaluate, Complete
  <2>2. reserved' \in Nat
    BY <1>9 DEF Evaluate, Complete, Minus
  <2>3. batch' \in 0..2
    BY <1>9 DEF Evaluate, Complete, PublishOrder
  <2> QED BY <1>9, <2>1, <2>2, <2>3 DEF Evaluate, Complete
<1>10. CASE Publish
  BY <1>10 DEF Publish
<1>11. CASE Tick
  BY <1>11, <1>a DEF Tick
<1>12. CASE CloseGate \/ OpenGate
  BY <1>12, <1>c DEF CloseGate, OpenGate
<1> QED
  BY <1>1, <1>2, <1>3, <1>4, <1>5, <1>6, <1>7, <1>8, <1>9, <1>10, <1>11, <1>12
  DEF Next, LaneStep, Stopped

-----------------------------------------------------------------------------
(* The queue, the flags and the grants. *)

FlagQueued == \A l \in Lanes : flag[l] => queued[l]

GrantInOrder(l) ==
    /\ phase[l] # "granted" => grant[l] = NoGrant
    /\ pacing.smoothing /\ phase[l] = "granted" =>
         /\ grant[l].limit = 1
         /\ waiting[l] + 1 = Cardinality(IdleSlots(l))
         /\ flag[l] <=> waiting[l] > 0

(* A lane that moves in the queue stores its flag, and the others keep theirs. *)
LEMMA RelinedFlags ==
  ASSUME RestTypeOK, QueueSound, FlagQueued, FlagsInOrder, pacing.smoothing, pacing' = pacing,
         NEW l \in Lanes, NEW n \in 0..Workers, Relined(l, n), flag' = [flag EXCEPT ![l] = n > 0]
  PROVE  QueueSound' /\ FlagQueued' /\ FlagsInOrder'
<1>1. waiting \in [Lanes -> 0..Workers] /\ flag \in [Lanes -> BOOLEAN]
  BY DEF QueueSound, QueueTypeOK, RestTypeOK
<1>2. PICK b : b = (n > 0) /\ b \in BOOLEAN
  <2>1. n \in Nat
    BY SizesAssumption
  <2>2. (n > 0) \in BOOLEAN
    BY <2>1
  <2> QED BY <2>2, Zenon
<1>3. flag'[l] = b /\ waiting'[l] = n /\ (b => queued'[l])
  BY <1>1, <1>2 DEF Relined
<1>4. \A m \in Lanes \ {l} : flag'[m] = flag[m] /\ waiting'[m] = waiting[m]
  BY <1>1 DEF Relined
<1>5. \A m \in Lanes \ {l} : flag[m] => queued[m] /\ waiting[m] > 0
  BY DEF FlagQueued, FlagsInOrder
<1>6. \A m \in Lanes \ {l} : queued[m] /\ waiting[m] > 0 => queued'[m]
  BY DEF Relined
<1>7. \A m \in Lanes : flag'[m] => queued'[m]
  BY <1>3, <1>4, <1>5, <1>6
<1>8. \A m \in Lanes : flag'[m] => waiting'[m] > 0
  BY <1>2, <1>3, <1>4, <1>5
<1> QED BY <1>7, <1>8 DEF Relined, FlagQueued, FlagsInOrder

(* The others keep what they were granted. *)
LEMMA GrantKept ==
  ASSUME NEW m, GrantInOrder(m), pacing' = pacing, slots'[m] = slots[m], grant'[m] = grant[m],
         phase'[m] = phase[m], waiting'[m] = waiting[m], flag'[m] = flag[m]
  PROVE  GrantInOrder(m)'
<1>1. IdleSlots(m)' = IdleSlots(m)
  BY DEF IdleSlots
<1> QED BY <1>1 DEF GrantInOrder

(* A lane that holds no grant and is not admitting. *)
LEMMA GrantNone ==
  ASSUME NEW m, phase'[m] # "granted", grant'[m] = NoGrant
  PROVE  GrantInOrder(m)'
BY DEF GrantInOrder

(* A step of one lane. *)
LEMMA GrantStep ==
  ASSUME GrantsInOrder, NEW l \in Lanes, GrantInOrder(l)', pacing' = pacing,
         \A m \in Lanes \ {l} :
            /\ slots'[m] = slots[m] /\ grant'[m] = grant[m] /\ phase'[m] = phase[m]
            /\ waiting'[m] = waiting[m] /\ flag'[m] = flag[m]
  PROVE  GrantsInOrder'
<1>1. \A m \in Lanes : GrantInOrder(m)
  BY DEF GrantsInOrder, GrantInOrder
<1>2. ASSUME NEW m \in Lanes PROVE GrantInOrder(m)'
  BY <1>1, GrantKept
<1> QED BY <1>2 DEF GrantsInOrder, GrantInOrder

Effects ==
    QueueSound' /\ FlagQueued' /\ FlagsInOrder' /\ GrantsInOrder'
Known ==
    RestTypeOK /\ QueueSound /\ FlagQueued /\ FlagsInOrder /\ GrantsInOrder

(* The queue does not change. *)
LEMMA QueueKept ==
  ASSUME Known, UNCHANGED <<queueVars, flag, pacing>>
  PROVE  QueueSound' /\ FlagQueued' /\ FlagsInOrder'
<1>1. waiting' = waiting /\ queued' = queued /\ order' = order /\ total' = total
      /\ flag' = flag /\ pacing' = pacing
  BY DEF queueVars
<1>2. Waiters' = Waiters
  BY <1>1 DEF Waiters
<1> QED
  BY <1>1, <1>2 DEF Known, QueueSound, QueueTypeOK, FlagQueued, FlagsInOrder

(* request *)
LEMMA RequestOrder ==
  ASSUME Known, NEW l \in Lanes, Request(l)
  PROVE  Effects
<1>a. /\ slots \in [Lanes -> [1..Workers -> {"idle", "fresh", "used"}]]
      /\ phase \in [Lanes -> {"top", "granted", "asleep", "work", "done", "failed"}]
      /\ grant \in [Lanes -> [limit : 0..Workers, bootstrap : BOOLEAN]]
      /\ flag \in [Lanes -> BOOLEAN] /\ waiting \in [Lanes -> 0..Workers]
  BY DEF Known, RestTypeOK, QueueSound, QueueTypeOK
<1>1. PICK limit \in {0, 1}, first \in BOOLEAN : Requested(l, limit, first)
  BY RequestEffect DEF Known
<1>2. PICK idle \in 1..Workers : idle = Cardinality(IdleSlots(l))
  BY IdleCounted, SizesAssumption DEF Request
<1>3. PICK n \in 0..Workers : n = idle - limit
  BY <1>2, SizesAssumption
<1>4. Relined(l, n)
  BY <1>1, <1>2, <1>3 DEF Requested
<1>5. pacing' = pacing /\ slots' = slots /\ pacing.smoothing
  BY DEF Request, pacerVars
<1>6. waiting' = [waiting EXCEPT ![l] = n]
  BY <1>4 DEF Relined
<1>7. flag' = [flag EXCEPT ![l] = n > 0]
  BY <1>a, <1>6 DEF Request, StoreFlag
<1>8. QueueSound' /\ FlagQueued' /\ FlagsInOrder'
  BY <1>4, <1>5, <1>7, RelinedFlags DEF Known
<1>9. PICK g : g = [limit |-> limit, bootstrap |-> first]
  OBVIOUS
<1>10. grant' = [grant EXCEPT ![l] = g] /\ g.limit = limit
  BY <1>1, <1>9 DEF Requested
<1>11. phase' = [phase EXCEPT ![l] = IF limit > 0 THEN "granted" ELSE "work"]
  BY <1>1 DEF Requested
<1>12. grant'[l] = g /\ waiting'[l] = n /\ flag'[l] = (n > 0)
       /\ phase'[l] = IF limit > 0 THEN "granted" ELSE "work"
  BY <1>a, <1>6, <1>7, <1>10, <1>11
<1>13. GrantInOrder(l)'
  <2>1. CASE limit = 0
    <3>1. first = FALSE
      BY <1>1, <2>1 DEF Requested
    <3>2. grant'[l] = NoGrant
      BY <1>9, <1>12, <2>1, <3>1 DEF NoGrant
    <3> QED BY <1>12, <2>1, <3>2, GrantNone
  <2>2. CASE limit = 1
    <3>1. phase'[l] = "granted"
      BY <1>12, <2>2
    <3>2. grant'[l].limit = 1
      BY <1>10, <1>12, <2>2
    <3>3. IdleSlots(l)' = IdleSlots(l)
      BY <1>5 DEF IdleSlots
    <3>4. waiting'[l] + 1 = Cardinality(IdleSlots(l))'
      BY <1>2, <1>3, <1>12, <2>2, <3>3
    <3>5. flag'[l] <=> waiting'[l] > 0
      BY <1>12
    <3> QED BY <3>1, <3>2, <3>4, <3>5 DEF GrantInOrder
  <2> QED BY <2>1, <2>2
<1>14. \A m \in Lanes \ {l} :
            /\ slots'[m] = slots[m] /\ grant'[m] = grant[m] /\ phase'[m] = phase[m]
            /\ waiting'[m] = waiting[m] /\ flag'[m] = flag[m]
  BY <1>a, <1>5, <1>6, <1>7, <1>10, <1>11
<1> QED BY <1>5, <1>8, <1>13, <1>14, GrantStep DEF Known, Effects

(* A lane leaves the queue, or does not wait, and admits nothing. *)
LEMMA RelinedOrder ==
  ASSUME Known, NEW l \in Lanes, NEW n \in 0..Workers, Relined(l, n), pacing.smoothing,
         flag' = [flag EXCEPT ![l] = n > 0], pacing' = pacing,
         NEW p, p # "granted", phase' = [phase EXCEPT ![l] = p],
         \A m \in Lanes \ {l} : slots'[m] = slots[m] /\ grant'[m] = grant[m],
         grant'[l] = NoGrant
  PROVE  Effects
<1>a. /\ phase \in [Lanes -> {"top", "granted", "asleep", "work", "done", "failed"}]
      /\ flag \in [Lanes -> BOOLEAN] /\ waiting \in [Lanes -> 0..Workers]
  BY DEF Known, RestTypeOK, QueueSound, QueueTypeOK
<1>1. QueueSound' /\ FlagQueued' /\ FlagsInOrder'
  BY RelinedFlags DEF Known
<1>2. GrantInOrder(l)'
  BY <1>a, GrantNone
<1>3. waiting' = [waiting EXCEPT ![l] = n]
  BY DEF Relined
<1>4. \A m \in Lanes \ {l} :
            /\ slots'[m] = slots[m] /\ grant'[m] = grant[m] /\ phase'[m] = phase[m]
            /\ waiting'[m] = waiting[m] /\ flag'[m] = flag[m]
  BY <1>a, <1>3
<1> QED BY <1>1, <1>2, <1>4, GrantStep DEF Known, Effects

(* The queue does not change, nor does what another lane holds. *)
LEMMA KeptOrder ==
  ASSUME Known, NEW l \in Lanes, UNCHANGED <<queueVars, flag, pacing>>, GrantInOrder(l)',
         \A m \in Lanes \ {l} :
            slots'[m] = slots[m] /\ grant'[m] = grant[m] /\ phase'[m] = phase[m]
  PROVE  Effects
<1>1. QueueSound' /\ FlagQueued' /\ FlagsInOrder'
  BY QueueKept
<1>2. waiting' = waiting /\ flag' = flag /\ pacing' = pacing
  BY DEF queueVars
<1>3. \A m \in Lanes \ {l} :
            /\ slots'[m] = slots[m] /\ grant'[m] = grant[m] /\ phase'[m] = phase[m]
            /\ waiting'[m] = waiting[m] /\ flag'[m] = flag[m]
  BY <1>2
<1> QED BY <1>1, <1>2, <1>3, GrantStep DEF Known, Effects

(* finish_admission *)
LEMMA FinishOrder ==
  ASSUME Known, NEW l \in Lanes, phase[l] = "granted", NEW n \in 0..grant[l].limit,
         NEW ends \in BOOLEAN, FinishAdmission(l, n, ends), pacing' = pacing,
         NEW p, p # "granted", phase' = [phase EXCEPT ![l] = p],
         \A m \in Lanes \ {l} : slots'[m] = slots[m]
  PROVE  Effects
<1>a. /\ phase \in [Lanes -> {"top", "granted", "asleep", "work", "done", "failed"}]
      /\ grant \in [Lanes -> [limit : 0..Workers, bootstrap : BOOLEAN]]
  BY DEF Known, RestTypeOK
<1>1. grant' = [grant EXCEPT ![l] = NoGrant]
  BY DEF FinishAdmission
<1>2. grant'[l] = NoGrant /\ \A m \in Lanes \ {l} : grant'[m] = grant[m]
  BY <1>a, <1>1
<1>3. CASE pacing.smoothing
  <2>1. PICK k \in 0..Workers : Relined(l, k) /\ flag' = [flag EXCEPT ![l] = k > 0]
    BY <1>3, ReportEffect DEF Known, FlagQueued
  <2> QED BY <1>2, <1>3, <2>1, RelinedOrder
<1>4. CASE ~pacing.smoothing
  <2>1. UNCHANGED <<queueVars, flag, pacing>>
    BY <1>4 DEF FinishAdmission
  <2>2. phase'[l] # "granted" /\ \A m \in Lanes \ {l} : phase'[m] = phase[m]
    BY <1>a
  <2>3. GrantInOrder(l)'
    BY <1>2, <2>2, GrantNone
  <2> QED BY <1>2, <2>1, <2>2, <2>3, KeptOrder
<1> QED BY <1>3, <1>4

(* Preservation of the queue, the flags and the grants. *)
LEMMA QueueStep ==
  ASSUME Known, [Next]_vars
  PROVE  Effects
<1>a. /\ phase \in [Lanes -> {"top", "granted", "asleep", "work", "done", "failed"}]
      /\ slots \in [Lanes -> [1..Workers -> {"idle", "fresh", "used"}]]
      /\ grant \in [Lanes -> [limit : 0..Workers, bootstrap : BOOLEAN]]
      /\ flag \in [Lanes -> BOOLEAN] /\ pacing.smoothing \in BOOLEAN
      /\ 0 \in 0..Workers /\ (0 > 0) = FALSE
  BY PacingTyped, SizesAssumption DEF Known, RestTypeOK
<1>b. \A l \in Lanes : phase[l] # "granted" => grant[l] = NoGrant
  BY DEF Known, GrantsInOrder
<1>c. ASSUME NEW l \in Lanes, UNCHANGED <<queueVars, flag, pacing, slots, phase, grant>>
      PROVE  Effects
  <2>1. GrantInOrder(l)
    BY <1>c DEF Known, GrantsInOrder, GrantInOrder
  <2>2. GrantInOrder(l)'
    BY <1>c, <2>1, GrantKept DEF queueVars
  <2> QED BY <1>c, <2>2, KeptOrder
<1>d. PICK z \in Lanes : TRUE
  BY LanesAssumption
<1>1. CASE UNCHANGED vars
  BY <1>1, <1>c, <1>d DEF vars, laneVars, pacerVars
<1>2. ASSUME NEW l \in Lanes, Request(l)
      PROVE  Effects
  BY <1>2, RequestOrder
<1>3. ASSUME NEW l \in Lanes, RequestFull(l)
      PROVE  Effects
  <2>1. pacing' = pacing /\ slots' = slots /\ grant' = grant /\ phase[l] = "top"
        /\ pacing.smoothing /\ phase' = [phase EXCEPT ![l] = "work"]
    BY <1>3 DEF RequestFull, pacerVars, Goto
  <2>2. grant'[l] = NoGrant
    BY <1>b, <2>1
  <2>3. CASE flag[l]
    <3>1. Relined(l, 0) /\ flag' = [flag EXCEPT ![l] = 0 > 0]
      BY <1>3, <1>a, <2>3, FullEffect DEF Known
    <3> QED BY <1>a, <2>1, <2>2, <3>1, RelinedOrder
  <2>4. CASE ~flag[l]
    <3>1. UNCHANGED <<queueVars, flag, pacing>>
      BY <1>3, <2>1, <2>4 DEF RequestFull
    <3>2. phase'[l] # "granted" /\ \A m \in Lanes \ {l} : phase'[m] = phase[m]
      BY <1>a, <2>1
    <3>3. GrantInOrder(l)'
      BY <2>2, <3>2, GrantNone
    <3> QED BY <2>1, <3>1, <3>2, <3>3, KeptOrder
  <2> QED BY <2>3, <2>4
<1>4. ASSUME NEW l \in Lanes, AskPacer(l)
      PROVE  Effects
  <2>1. UNCHANGED <<queueVars, flag, pacing>> /\ slots' = slots /\ phase[l] = "top"
        /\ ~pacing.smoothing
    BY <1>4 DEF AskPacer
  <2>2. \A m \in Lanes \ {l} : grant'[m] = grant[m] /\ phase'[m] = phase[m]
    BY <1>a, <1>4 DEF AskPacer, Goto
  <2>3. phase'[l] # "granted" => grant'[l] = NoGrant
    <3>1. phase'[l] # "granted" => grant' = grant
      BY <1>a, <1>4 DEF AskPacer, Goto
    <3> QED BY <1>b, <2>1, <3>1
  <2>4. GrantInOrder(l)'
    BY <2>1, <2>3 DEF GrantInOrder
  <2> QED BY <2>1, <2>2, <2>4, KeptOrder
<1>5. ASSUME NEW l \in Lanes, Wake(l) \/ NoRequest(l) \/ LaneFails(l)
      PROVE  Effects
  <2>1. UNCHANGED <<queueVars, flag, pacing>> /\ slots' = slots /\ grant' = grant
        /\ phase[l] # "granted"
    BY <1>5 DEF Wake, NoRequest, LaneFails, pacerVars
  <2>2. PICK p \in {"work", "failed"} : phase' = [phase EXCEPT ![l] = p]
    BY <1>5 DEF Wake, NoRequest, LaneFails, Goto
  <2>3. phase'[l] # "granted" /\ \A m \in Lanes \ {l} : phase'[m] = phase[m]
    BY <1>a, <2>2
  <2>4. GrantInOrder(l)'
    BY <1>b, <2>1, <2>3, GrantNone
  <2> QED BY <2>1, <2>3, <2>4, KeptOrder
<1>6. ASSUME NEW l \in Lanes, GateClosed(l) \/ EndRound(l)
      PROVE  Effects
  <2>1. pacing' = pacing /\ slots' = slots /\ grant' = grant /\ phase[l] # "granted"
    BY <1>6 DEF GateClosed, EndRound, pacerVars
  <2>2. PICK p \in {"work", "done", "top"} : phase' = [phase EXCEPT ![l] = p]
    BY <1>6 DEF GateClosed, EndRound, Goto
  <2>3. phase'[l] # "granted" /\ \A m \in Lanes \ {l} : phase'[m] = phase[m]
    BY <1>a, <2>2
  <2>4. grant'[l] = NoGrant /\ GrantInOrder(l)'
    BY <1>b, <2>1, <2>3, GrantNone
  <2>5. CASE UNCHANGED <<queueVars, flag>>
    BY <2>1, <2>3, <2>4, <2>5, KeptOrder
  <2>6. CASE LeaveQueue(l) /\ pacing.smoothing
    <3>1. Relined(l, 0) /\ flag' = [flag EXCEPT ![l] = 0 > 0]
      BY <1>a, <2>6, LeaveEffect DEF Known
    <3> QED BY <1>a, <2>1, <2>2, <2>4, <2>6, <3>1, RelinedOrder
  <2>7. LeaveQueue(l) \/ UNCHANGED <<queueVars, flag>>
    BY <1>6 DEF GateClosed, EndRound
  <2> QED BY <2>5, <2>6, <2>7 DEF LeaveQueue
<1>7. ASSUME NEW l \in Lanes, Admit(l)
      PROVE  Effects
  <2>1. PICK n \in 0..grant[l].limit, first \in SUBSET IdleSlots(l) :
           /\ slots' = [slots EXCEPT ![l] = [w \in 1..Workers |->
                                               IF w \in first THEN "fresh" ELSE @[w]]]
           /\ FinishAdmission(l, n, n < grant[l].limit)
    BY <1>7 DEF Admit
  <2>2. PICK ends : ends = (n < grant[l].limit)
    OBVIOUS
  <2>3. ends \in BOOLEAN /\ FinishAdmission(l, n, ends)
    BY <1>a, <2>1, <2>2
  <2>4. phase[l] = "granted" /\ phase' = [phase EXCEPT ![l] = "work"] /\ pacing' = pacing
    BY <1>7 DEF Admit, Goto
  <2>5. \A m \in Lanes \ {l} : slots'[m] = slots[m]
    BY <1>a, <2>1
  <2> QED BY <2>3, <2>4, <2>5, FinishOrder
<1>8. ASSUME NEW l \in Lanes, AdmitFails(l)
      PROVE  Effects
  <2>1. /\ phase[l] = "granted" /\ phase' = [phase EXCEPT ![l] = "failed"] /\ pacing' = pacing
        /\ slots' = slots /\ FinishAdmission(l, 0, FALSE)
    BY <1>8 DEF AdmitFails, Goto
  <2>2. 0 \in 0..grant[l].limit
    BY <1>a
  <2> QED BY <2>1, <2>2, FinishOrder
<1>9. ASSUME NEW l \in Lanes, NEW w \in 1..Workers, Evaluate(l, w) \/ Complete(l, w)
      PROVE  Effects
  <2>1. UNCHANGED <<queueVars, flag, pacing>> /\ grant' = grant /\ phase' = phase
        /\ phase[l] = "work"
    BY <1>9 DEF Evaluate, Complete, pacerVars
  <2>2. \A m \in Lanes \ {l} : slots'[m] = slots[m]
    BY <1>9, <1>a DEF Evaluate, Complete
  <2>3. GrantInOrder(l)'
    BY <1>b, <2>1, GrantNone
  <2> QED BY <2>1, <2>2, <2>3, KeptOrder
<1>10. CASE Publish \/ Tick \/ CloseGate \/ OpenGate
  BY <1>10, <1>c, <1>d DEF Publish, Tick, CloseGate, OpenGate, laneVars, pacerVars
<1> QED
  BY <1>1, <1>2, <1>3, <1>4, <1>5, <1>6, <1>7, <1>8, <1>9, <1>10 DEF Next, LaneStep, Stopped

-----------------------------------------------------------------------------
(* The first episode. *)

(* The flags of the program do not change. *)
LEMMA PacingKept ==
  ASSUME [Next]_vars
  PROVE  pacing' = pacing
<1>1. CASE UNCHANGED vars
  BY <1>1 DEF vars, pacerVars
<1>2. ASSUME NEW l \in Lanes, LaneStep(l)
      PROVE  pacing' = pacing
  BY <1>2 DEF LaneStep, Request, RequestFull, AskPacer, Wake, GateClosed, NoRequest, Admit,
     AdmitFails, LaneFails, EndRound, pacerVars
<1>3. ASSUME NEW l \in Lanes, NEW w \in 1..Workers, Evaluate(l, w) \/ Complete(l, w)
      PROVE  pacing' = pacing
  BY <1>3 DEF Evaluate, Complete, pacerVars
<1>4. CASE Publish \/ Tick \/ CloseGate \/ OpenGate
  BY <1>4 DEF Publish, Tick, CloseGate, OpenGate, pacerVars
<1> QED BY <1>1, <1>2, <1>3, <1>4 DEF Next, Stopped

(* The grants that are held are finitely many. *)
LEMMA GrantedFinite ==
  IsFiniteSet(Granted) /\ Cardinality(Granted) \in Nat
<1>1. Granted \in SUBSET Lanes
  BY DEF Granted
<1> HIDE DEF Granted
<1>2. IsFiniteSet(Granted)
  BY <1>1, PlacesFinite, FS_Subset
<1> QED BY <1>2, FS_CardinalityType

(* One grant less. *)
LEMMA GrantedLess ==
  ASSUME NEW l \in Granted
  PROVE  /\ Cardinality(Granted \ {l}) = Cardinality(Granted) - 1
         /\ Cardinality(Granted \ {l}) \in Nat
<1>1. IsFiniteSet(Granted) /\ Cardinality(Granted) \in Nat
  BY GrantedFinite
<1>2. IsFiniteSet(Granted \ {l}) /\ Cardinality(Granted \ {l}) = Cardinality(Granted) - 1
  BY <1>1, FS_RemoveElement
<1> QED BY <1>2, FS_CardinalityType

(* If there is one grant at most, a lane that holds one is the only one. *)
LEMMA GrantedOne ==
  ASSUME Cardinality(Granted) <= 1, NEW l \in Granted
  PROVE  Granted = {l}
<1>1. IsFiniteSet(Granted) /\ Cardinality(Granted) \in Nat
  BY GrantedFinite
<1>2. IsFiniteSet(Granted \ {l}) /\ Cardinality(Granted \ {l}) = Cardinality(Granted) - 1
  BY <1>1, FS_RemoveElement
<1>3. Cardinality(Granted \ {l}) \in Nat
  BY <1>2, FS_CardinalityType
<1>4. Cardinality(Granted \ {l}) = 0
  BY <1>1, <1>2, <1>3
<1>5. Granted \ {l} = {}
  BY <1>2, <1>4, FS_EmptySet
<1> QED BY <1>5

(* With the schedule, a grant is one of a lane that is admitting, for one episode. *)
LEMMA GrantedNow ==
  ASSUME RestTypeOK, GrantsInOrder, pacing.smoothing
  PROVE  \A l \in Lanes :
            /\ l \in Granted <=> phase[l] = "granted"
            /\ l \in Granted => grant[l].limit = 1
            /\ grant[l].bootstrap => l \in Granted
<1>1. ASSUME NEW l \in Lanes
      PROVE  /\ phase[l] = "granted" => grant[l].limit = 1
             /\ phase[l] # "granted" => grant[l].limit = 0 /\ grant[l].bootstrap = FALSE
  BY DEF GrantsInOrder, NoGrant
<1>2. ASSUME NEW l \in Lanes
      PROVE  grant[l].limit > 0 <=> phase[l] = "granted"
  <2>1. CASE phase[l] = "granted"
    <3>1. grant[l].limit = 1
      BY <1>1, <2>1
    <3> QED BY <2>1, <3>1
  <2>2. CASE phase[l] # "granted"
    <3>1. grant[l].limit = 0
      BY <1>1, <2>2
    <3> QED BY <2>2, <3>1
  <2> QED BY <2>1, <2>2
<1>3. \A l \in Lanes : l \in Granted <=> phase[l] = "granted"
  BY <1>2 DEF Granted
<1> QED BY <1>1, <1>3

Begin == OneBeforeEstimate /\ BootstrapInOrder

(* Steps that only touch the rest, or once the first episode has begun. *)
LEMMA BeginKept ==
  ASSUME Begin, pacing' = pacing, begun' = begun, grant' = grant, bootstrapped' = bootstrapped,
         known' = known, \/ begun # 0
                         \/ UNCHANGED <<work, batch, slots>>
  PROVE  Begin'
<1>1. Granted' = Granted
  BY DEF Granted
<1>2. OneBeforeEstimate'
  BY <1>1 DEF Begin, OneBeforeEstimate
<1>3. (UNCHANGED <<work, batch, slots>>) => \A l \in Lanes : IdleSlots(l)' = IdleSlots(l)
  BY DEF IdleSlots
<1>4. BootstrapInOrder'
  BY <1>1, <1>3 DEF Begin, BootstrapInOrder
<1> QED BY <1>2, <1>4 DEF Begin

(* observe_eval_capacity finds nothing before the first episode. *)
LEMMA ObserveBegin ==
  ASSUME SwitchTypeOK, Begin, ObserveCapacity, pacing.smoothing, begun = 0
  PROVE  ~known' /\ ~work'
BY DEF Begin, BootstrapInOrder, ObserveCapacity, Sample

(* request *)
LEMMA RequestBegin ==
  ASSUME RestTypeOK, SwitchTypeOK, QueueSound, GrantsInOrder, Begin, NEW l \in Lanes, Request(l)
  PROVE  Begin'
<1>a. /\ grant \in [Lanes -> [limit : 0..Workers, bootstrap : BOOLEAN]] /\ begun \in Nat
      /\ pacing.smoothing /\ pacing' = pacing /\ begun' = begun /\ slots' = slots
      /\ batch' = batch /\ phase[l] = "top"
  BY SizesAssumption DEF RestTypeOK, Request, pacerVars
<1>1. PICK limit \in {0, 1}, first \in BOOLEAN : Requested(l, limit, first)
  BY RequestEffect
<1>2. PICK g : g = [limit |-> limit, bootstrap |-> first]
  OBVIOUS
<1>3. /\ grant' = [grant EXCEPT ![l] = g] /\ g.limit = limit /\ g.bootstrap = first
      /\ (first => limit = 1 /\ ~bootstrapped)
      /\ (limit = 1 => first \/ known')
      /\ bootstrapped' = (bootstrapped \/ first)
  BY <1>1, <1>2 DEF Requested
<1>4. l \notin Granted
  BY <1>a, GrantedNow
<1>5. Granted' = IF limit = 1 THEN Granted \cup {l} ELSE Granted
  <2>1. grant'[l] = g /\ \A m \in Lanes \ {l} : grant'[m] = grant[m]
    BY <1>a, <1>3
  <2>2. \A m \in Lanes \ {l} : m \in Granted' <=> m \in Granted
    BY <2>1 DEF Granted
  <2>3. l \in Granted' <=> limit = 1
    BY <1>3, <2>1 DEF Granted
  <2> QED BY <1>4, <2>2, <2>3 DEF Granted
<1>6. \A m \in Lanes : IdleSlots(m)' = IdleSlots(m)
  BY <1>a DEF IdleSlots
<1>7. begun = 0 => ~known' /\ ~work'
  BY <1>a, ObserveBegin DEF Request
<1>8. known => known'
  BY DEF Request, ObserveCapacity
<1>9. /\ begun = 0 => batch = 0 /\ \A m \in Lanes : IdleSlots(m) = 1..Workers
      /\ ~bootstrapped => begun = 0 /\ Granted = {}
      /\ \A m \in Lanes : grant[m].bootstrap => begun = 0
  BY <1>a DEF Begin, BootstrapInOrder
<1>10. OneBeforeEstimate'
  <2>1. SUFFICES ASSUME ~known' PROVE begun + Cardinality(Granted)' <= 1
    BY <1>a DEF OneBeforeEstimate
  <2>2. CASE limit = 0
    <3>1. begun + Cardinality(Granted) <= 1
      BY <1>a, <1>8, <2>1 DEF Begin, OneBeforeEstimate
    <3> QED BY <1>5, <2>2, <3>1
  <2>3. CASE limit = 1
    <3>1. begun = 0 /\ Granted' = {l}
      BY <1>3, <1>5, <1>9, <2>1, <2>3
    <3>2. Cardinality({l}) = 1
      BY FS_Singleton
    <3> QED BY <3>1, <3>2
  <2> QED BY <2>2, <2>3
<1>11. ~bootstrapped' => begun = 0 /\ Granted' = {}
  <2>1. SUFFICES ASSUME ~bootstrapped' PROVE begun = 0 /\ Granted' = {}
    OBVIOUS
  <2>2. ~bootstrapped /\ ~first
    BY <1>3, <2>1
  <2>3. begun = 0 /\ Granted = {} /\ ~known'
    BY <1>7, <1>9, <2>2
  <2> QED BY <1>3, <1>5, <2>2, <2>3
<1>12. \A m \in Lanes : grant'[m].bootstrap => begun = 0
  <2>1. grant'[l] = g /\ \A m \in Lanes \ {l} : grant'[m] = grant[m]
    BY <1>a, <1>3
  <2>2. grant'[l].bootstrap => begun = 0
    BY <1>3, <1>9, <2>1
  <2> QED BY <1>9, <2>1, <2>2
<1>13. BootstrapInOrder'
  BY <1>a, <1>6, <1>7, <1>9, <1>11, <1>12 DEF BootstrapInOrder
<1> QED BY <1>10, <1>13 DEF Begin

(* The lane gives its grant back: the others keep theirs. *)
LEMMA GrantGivenBack ==
  ASSUME RestTypeOK, NEW l \in Lanes, grant' = [grant EXCEPT ![l] = NoGrant]
  PROVE  /\ Granted' = Granted \ {l}
         /\ grant'[l].bootstrap = FALSE
         /\ \A m \in Lanes \ {l} : grant'[m] = grant[m]
<1>1. grant'[l] = NoGrant /\ \A m \in Lanes \ {l} : grant'[m] = grant[m]
  BY DEF RestTypeOK
<1>2. ~(NoGrant.limit > 0) /\ NoGrant.bootstrap = FALSE
  BY DEF NoGrant
<1>3. l \notin Granted' /\ \A m \in Lanes \ {l} : m \in Granted' <=> m \in Granted
  BY <1>1, <1>2 DEF Granted
<1>4. Granted' \subseteq Lanes /\ Granted \subseteq Lanes
  BY DEF Granted
<1> QED BY <1>1, <1>2, <1>3, <1>4

(* finish_admission: the first episode begins, or its grant can be given again. *)
LEMMA FinishBegin ==
  ASSUME RestTypeOK, SwitchTypeOK, GrantsInOrder, Begin, NEW l \in Lanes, phase[l] = "granted",
         pacing.smoothing, pacing' = pacing, NEW n \in 0..grant[l].limit, NEW ends \in BOOLEAN,
         FinishAdmission(l, n, ends), begun' = begun + n, known' = known, work' = work,
         batch' = batch, n = 0 => slots' = slots
  PROVE  Begin'
<1>1. l \in Granted /\ grant[l].limit = 1
  BY GrantedNow
<1>2. n \in {0, 1} /\ begun \in Nat
  BY <1>1, SizesAssumption DEF RestTypeOK
<1>3. /\ Granted' = Granted \ {l} /\ grant'[l].bootstrap = FALSE
      /\ \A m \in Lanes \ {l} : grant'[m] = grant[m]
  BY GrantGivenBack DEF FinishAdmission
<1>4. bootstrapped' = BootstrapAfter(l, 1 - n)
  BY <1>1 DEF FinishAdmission
<1>5. /\ begun = 0 =>
           /\ ~known /\ ~work /\ batch = 0
           /\ \A m \in Lanes : IdleSlots(m) = 1..Workers
      /\ ~bootstrapped => begun = 0 /\ Granted = {}
      /\ \A m \in Lanes : grant[m].bootstrap => begun = 0
  BY DEF Begin, BootstrapInOrder
<1>6. ~known => begun + Cardinality(Granted) <= 1
  BY DEF Begin, OneBeforeEstimate
<1>7. Cardinality(Granted)' = Cardinality(Granted) - 1 /\ Cardinality(Granted) \in Nat
  BY <1>1, <1>3, GrantedLess, GrantedFinite
<1>8. OneBeforeEstimate'
  BY <1>2, <1>6, <1>7 DEF OneBeforeEstimate
<1>9. begun = 0 => Granted = {l}
  <2>1. begun = 0 => Cardinality(Granted) <= 1
    BY <1>5, <1>6, <1>7
  <2> QED BY <1>1, <2>1, GrantedOne
<1>10. begun' = 0 => n = 0 /\ begun = 0
  BY <1>2
<1>11. begun' = 0 =>
           /\ ~known' /\ ~work' /\ batch' = 0
           /\ \A m \in Lanes : IdleSlots(m)' = 1..Workers
  <2>1. n = 0 => \A m \in Lanes : IdleSlots(m)' = IdleSlots(m)
    BY DEF IdleSlots
  <2> QED BY <1>5, <1>10, <2>1
<1>12. ~bootstrapped' => begun' = 0 /\ Granted' = {}
  <2>1. SUFFICES ASSUME ~bootstrapped' PROVE begun' = 0 /\ Granted' = {}
    OBVIOUS
  <2>2. bootstrapped
    BY <1>1, <1>5
  <2>3. 1 - n > 0 /\ grant[l].bootstrap
    BY <1>4, <2>1, <2>2 DEF BootstrapAfter
  <2>4. n = 0 /\ begun = 0
    BY <1>2, <1>5, <2>3
  <2> QED BY <1>2, <1>3, <1>9, <2>4
<1>13. \A m \in Lanes : grant'[m].bootstrap => begun' = 0
  <2>1. SUFFICES ASSUME NEW m \in Lanes, grant'[m].bootstrap PROVE FALSE
    OBVIOUS
  <2>2. m # l /\ grant[m].bootstrap
    BY <1>3, <2>1
  <2>3. Granted = {l}
    BY <1>5, <1>9, <2>2
  <2>4. m \in Granted
    BY <2>2, GrantedNow
  <2> QED BY <2>2, <2>3, <2>4
<1>14. BootstrapInOrder'
  BY <1>11, <1>12, <1>13 DEF BootstrapInOrder
<1> QED BY <1>8, <1>14 DEF Begin

(* Preservation of what is said of the first episode. *)
LEMMA BeginStep ==
  ASSUME Known, SwitchTypeOK, Begin, [Next]_vars
  PROVE  Begin'
<1>a. RestTypeOK /\ QueueSound /\ GrantsInOrder /\ pacing' = pacing
  BY PacingKept DEF Known
<1>b. pacing.smoothing \in BOOLEAN
  BY <1>a, PacingTyped DEF RestTypeOK
<1>c. CASE ~pacing.smoothing
  BY <1>a, <1>c DEF Begin, OneBeforeEstimate, BootstrapInOrder
<1>d. ASSUME pacing.smoothing
      PROVE  Begin'
  <2>a. begun = 0 => ~work /\ batch = 0 /\ \A l \in Lanes : IdleSlots(l) = 1..Workers
    BY <1>d DEF Begin, BootstrapInOrder
  <2> USE DEF laneVars, pressureVars, pacerVars, paceVars
  <2>1. CASE UNCHANGED vars
    BY <1>a, <2>1, BeginKept DEF vars
  <2>2. ASSUME NEW l \in Lanes, Request(l)
        PROVE  Begin'
    BY <1>a, <2>2, RequestBegin
  <2>3. ASSUME NEW l \in Lanes, RequestFull(l)
        PROVE  Begin'
    <3>1. /\ begun' = begun /\ slots' = slots /\ batch' = batch /\ grant' = grant
          /\ bootstrapped' = bootstrapped
      BY <2>3 DEF RequestFull
    <3>2. CASE UNCHANGED <<known, work>>
      BY <1>a, <3>1, <3>2, BeginKept
    <3>3. CASE ObserveCapacity
      <4>1. begun = 0 => ~known' /\ ~work'
        BY <1>d, <3>3, ObserveBegin
      <4>2. known => known'
        BY <3>3 DEF ObserveCapacity
      <4>3. Granted' = Granted /\ \A m \in Lanes : IdleSlots(m)' = IdleSlots(m)
        BY <3>1 DEF Granted, IdleSlots
      <4>4. OneBeforeEstimate'
        BY <1>a, <3>1, <4>2, <4>3 DEF Begin, OneBeforeEstimate
      <4>5. BootstrapInOrder'
        BY <1>a, <3>1, <4>1, <4>3 DEF Begin, BootstrapInOrder
      <4> QED BY <4>4, <4>5 DEF Begin
    <3> QED BY <2>3, <3>2, <3>3 DEF RequestFull
  <2>4. ASSUME NEW l \in Lanes,
               \/ AskPacer(l) \/ Wake(l) \/ GateClosed(l) \/ NoRequest(l) \/ LaneFails(l)
               \/ EndRound(l)
        PROVE  Begin'
    <3>1. UNCHANGED <<begun, slots, batch, grant, bootstrapped, known, work>>
      BY <1>d, <2>4 DEF AskPacer, Wake, GateClosed, NoRequest, LaneFails, EndRound
    <3> QED BY <1>a, <3>1, BeginKept
  <2>5. ASSUME NEW l \in Lanes, Admit(l)
        PROVE  Begin'
    <3>1. PICK n \in 0..grant[l].limit, first \in SUBSET IdleSlots(l) :
             /\ Cardinality(first) = n
             /\ slots' = [slots EXCEPT ![l] = [w \in 1..Workers |->
                                                 IF w \in first THEN "fresh" ELSE @[w]]]
             /\ begun' = begun + n
             /\ FinishAdmission(l, n, n < grant[l].limit)
      BY <2>5 DEF Admit
    <3>2. phase[l] = "granted" /\ known' = known /\ work' = work /\ batch' = batch
      BY <2>5 DEF Admit
    <3>3. PICK ends : ends = (n < grant[l].limit)
      OBVIOUS
    <3>4. ends \in BOOLEAN /\ FinishAdmission(l, n, ends)
      BY <1>a, <3>1, <3>3 DEF RestTypeOK
    <3>5. n = 0 => slots' = slots
      <4>1. IsFiniteSet(IdleSlots(l)) /\ first \in SUBSET IdleSlots(l)
        BY IdleCounted
      <4>2. IsFiniteSet(first)
        BY <4>1, FS_Subset
      <4>3. n = 0 => first = {}
        BY <3>1, <4>2, FS_EmptySet
      <4>4. slots \in [Lanes -> [1..Workers -> {"idle", "fresh", "used"}]]
        BY <1>a DEF RestTypeOK
      <4> QED BY <3>1, <4>3, <4>4
    <3> QED BY <1>a, <1>d, <3>1, <3>2, <3>4, <3>5, FinishBegin
  <2>6. ASSUME NEW l \in Lanes, AdmitFails(l)
        PROVE  Begin'
    <3>1. /\ phase[l] = "granted" /\ known' = known /\ work' = work /\ batch' = batch
          /\ FinishAdmission(l, 0, FALSE) /\ slots' = slots /\ begun' = begun
      BY <2>6 DEF AdmitFails
    <3>2. 0 \in 0..grant[l].limit /\ begun' = begun + 0
      BY <1>a, <3>1, SizesAssumption DEF RestTypeOK
    <3> QED BY <1>a, <1>d, <3>1, <3>2, FinishBegin
  <2>7. ASSUME NEW l \in Lanes, NEW w \in 1..Workers, Evaluate(l, w) \/ Complete(l, w)
        PROVE  Begin'
    <3>1. slots[l][w] # "idle" /\ UNCHANGED <<begun, grant, bootstrapped, known>>
      BY <2>7 DEF Evaluate, Complete
    <3>2. begun # 0
      BY <2>a, <3>1 DEF IdleSlots
    <3> QED BY <1>a, <3>1, <3>2, BeginKept
  <2>8. CASE Publish
    <3>1. batch > 0 /\ UNCHANGED <<begun, grant, bootstrapped, known>>
      BY <2>8 DEF Publish
    <3>2. begun # 0
      BY <2>a, <3>1
    <3> QED BY <1>a, <3>1, <3>2, BeginKept
  <2>9. CASE Tick \/ CloseGate \/ OpenGate
    <3>1. UNCHANGED <<begun, slots, batch, grant, bootstrapped, known, work>>
      BY <2>9 DEF Tick, CloseGate, OpenGate
    <3> QED BY <1>a, <3>1, BeginKept
  <2> QED
    BY <2>1, <2>2, <2>3, <2>4, <2>5, <2>6, <2>7, <2>8, <2>9 DEF Next, LaneStep, Stopped
<1> QED BY <1>b, <1>c, <1>d

-----------------------------------------------------------------------------
(* The reservations. *)

Balanced(r, g, f) == r >= g + f /\ (~Barren => r = g + f)

(* What the balance says with the schedule, and without it. *)
LEMMA BalanceNow ==
  /\ pacing.smoothing =>
       (ReservationsBalance <=> Balanced(reserved, Cardinality(Granted), Cardinality(Fresh)))
  /\ ~pacing.smoothing => (ReservationsBalance <=> reserved = 0)
BY DEF ReservationsBalance, Balanced

(* The episodes that have not evaluated are finitely many. *)
LEMMA FreshFinite ==
  IsFiniteSet(Fresh) /\ Cardinality(Fresh) \in Nat
<1>1. Fresh \in SUBSET (Lanes \X (1..Workers))
  BY DEF Fresh
<1> HIDE DEF Fresh
<1>2. IsFiniteSet(Fresh)
  BY <1>1, PlacesFinite, FS_Subset
<1> QED BY <1>2, FS_CardinalityType

(* The episodes of a lane that begin. *)
LEMMA FreshMore ==
  ASSUME slots \in [Lanes -> [1..Workers -> {"idle", "fresh", "used"}]], NEW l \in Lanes,
         NEW first \in SUBSET IdleSlots(l),
         slots' = [slots EXCEPT ![l] = [w \in 1..Workers |->
                                          IF w \in first THEN "fresh" ELSE @[w]]]
  PROVE  Cardinality(Fresh') = Cardinality(Fresh) + Cardinality(first)
<1>1. slots'[l] = [w \in 1..Workers |-> IF w \in first THEN "fresh" ELSE slots[l][w]]
      /\ \A m \in Lanes \ {l} : slots'[m] = slots[m]
  OBVIOUS
<1>2. first \subseteq 1..Workers /\ \A w \in first : slots[l][w] = "idle"
  BY DEF IdleSlots
<1>3. Fresh' = Fresh \cup ({l} \X first)
  <2>1. ASSUME NEW x \in Fresh' PROVE x \in Fresh \cup ({l} \X first)
    <3>1. PICK m \in Lanes, w \in 1..Workers : x = <<m, w>> /\ slots'[m][w] = "fresh"
      BY DEF Fresh
    <3> QED BY <1>1, <3>1 DEF Fresh
  <2>2. ASSUME NEW x \in Fresh PROVE x \in Fresh'
    <3>1. PICK m \in Lanes, w \in 1..Workers : x = <<m, w>> /\ slots[m][w] = "fresh"
      BY DEF Fresh
    <3>2. slots'[m][w] = "fresh"
      BY <1>1, <3>1
    <3> QED BY <3>1, <3>2 DEF Fresh
  <2>3. ASSUME NEW x \in {l} \X first PROVE x \in Fresh'
    <3>1. PICK w \in first : x = <<l, w>>
      OBVIOUS
    <3>2. w \in 1..Workers /\ slots'[l][w] = "fresh"
      BY <1>1, <1>2
    <3> QED BY <3>1, <3>2 DEF Fresh
  <2> QED BY <2>1, <2>2, <2>3
<1>4. Fresh \cap ({l} \X first) = {}
  <2>1. SUFFICES ASSUME NEW x \in Fresh, x \in {l} \X first PROVE FALSE
    OBVIOUS
  <2>2. PICK w \in first : x = <<l, w>>
    BY <2>1
  <2>3. slots[l][w] = "fresh"
    BY <2>1, <2>2 DEF Fresh
  <2> QED BY <1>2, <2>3
<1>5. IsFiniteSet(IdleSlots(l))
  BY IdleCounted
<1>6. IsFiniteSet(first)
  BY <1>5, FS_Subset
<1>7. IsFiniteSet({l}) /\ Cardinality({l}) = 1
  BY FS_Singleton
<1>8. IsFiniteSet({l} \X first) /\ Cardinality({l} \X first) = 1 * Cardinality(first)
  BY <1>6, <1>7, FS_Product
<1>9. IsFiniteSet(Fresh)
  BY FreshFinite
<1>10. Cardinality(Fresh') = Cardinality(Fresh) + Cardinality({l} \X first)
  BY <1>3, <1>4, <1>8, <1>9, DisjointUnion
<1>11. Cardinality(first) \in Nat
  BY <1>6, FS_CardinalityType
<1> QED BY <1>8, <1>10, <1>11

(* An episode that evaluates, or ends, is no longer one that has not. *)
LEMMA FreshLess ==
  ASSUME slots \in [Lanes -> [1..Workers -> {"idle", "fresh", "used"}]],
         NEW l \in Lanes, NEW w \in 1..Workers, NEW v \in {"idle", "used"},
         slots' = [slots EXCEPT ![l][w] = v]
  PROVE  /\ slots[l][w] # "fresh" => Cardinality(Fresh') = Cardinality(Fresh)
         /\ slots[l][w] = "fresh" =>
              Cardinality(Fresh') = Cardinality(Fresh) - 1 /\ Cardinality(Fresh) >= 1
<1>1. slots'[l][w] = v /\ \A m \in Lanes, u \in 1..Workers :
                             m # l \/ u # w => slots'[m][u] = slots[m][u]
  OBVIOUS
<1>2. Fresh' = Fresh \ {<<l, w>>}
  <2>1. ASSUME NEW m \in Lanes, NEW u \in 1..Workers
        PROVE  slots'[m][u] = "fresh" <=> slots[m][u] = "fresh" /\ <<m, u>> # <<l, w>>
    BY <1>1
  <2>2. ASSUME NEW x \in Lanes \X (1..Workers)
        PROVE  x \in Fresh' <=> x \in Fresh /\ x # <<l, w>>
    BY <2>1 DEF Fresh
  <2>3. Fresh' \subseteq Lanes \X (1..Workers) /\ Fresh \subseteq Lanes \X (1..Workers)
    BY DEF Fresh
  <2> QED BY <2>2, <2>3
<1>3. slots[l][w] = "fresh" <=> <<l, w>> \in Fresh
  BY DEF Fresh
<1>4. IsFiniteSet(Fresh) /\ Cardinality(Fresh) \in Nat
  BY FreshFinite
<1>5. CASE slots[l][w] # "fresh"
  <2>1. Fresh' = Fresh
    BY <1>2, <1>3, <1>5
  <2> QED BY <1>5, <2>1
<1>6. CASE slots[l][w] = "fresh"
  <2>1. PICK x : x = <<l, w>> /\ x \in Fresh
    BY <1>3, <1>6
  <2>2. IsFiniteSet(Fresh \ {x}) /\ Cardinality(Fresh \ {x}) = Cardinality(Fresh) - 1
    BY <1>4, <2>1, FS_RemoveElement
  <2>3. Cardinality(Fresh \ {x}) \in Nat
    BY <2>2, FS_CardinalityType
  <2>4. Cardinality(Fresh') = Cardinality(Fresh) - 1 /\ Cardinality(Fresh) >= 1
    BY <1>2, <1>4, <2>1, <2>2, <2>3
  <2> QED BY <1>6, <2>4
<1> QED BY <1>5, <1>6

(* Nothing that is counted changes. *)
LEMMA BalanceKept ==
  ASSUME ReservationsBalance, UNCHANGED <<pacing, reserved, grant, slots>>
  PROVE  ReservationsBalance'
<1>1. Granted' = Granted /\ Fresh' = Fresh
  BY DEF Granted, Fresh
<1> QED BY <1>1 DEF ReservationsBalance

(* finish_admission returns the reservations of the episodes that did not begin. *)
LEMMA FinishBalance ==
  ASSUME Known, NEW l \in Lanes, phase[l] = "granted", pacing' = pacing, ReservationsBalance,
         NEW n \in 0..grant[l].limit, NEW ends, FinishAdmission(l, n, ends),
         Cardinality(Fresh') = Cardinality(Fresh) + n
  PROVE  ReservationsBalance'
<1>1. CASE ~pacing.smoothing
  BY <1>1 DEF FinishAdmission, ReservationsBalance
<1>2. CASE pacing.smoothing
  <2>1. l \in Granted /\ grant[l].limit = 1 /\ reserved \in Nat
    BY <1>2, GrantedNow DEF Known, RestTypeOK
  <2>2. PICK g \in Nat : g = Cardinality(Granted)
    BY GrantedFinite
  <2>3. PICK f \in Nat : f = Cardinality(Fresh)
    BY FreshFinite
  <2>4. Granted' = Granted \ {l}
    BY GrantGivenBack DEF FinishAdmission, Known
  <2>5. Cardinality(Granted') = g - 1 /\ g >= 1
    BY <2>1, <2>2, <2>4, GrantedLess
  <2>6. Balanced(reserved, g, f)
    BY <1>2, <2>2, <2>3, BalanceNow
  <2>7. n \in {0, 1} /\ reserved' = Minus(reserved, 1 - n)
    BY <1>2, <2>1 DEF FinishAdmission
  <2>8. Balanced(reserved', g - 1, f + n)
    BY <2>1, <2>5, <2>6, <2>7 DEF Balanced, Minus
  <2> QED BY <1>2, <2>3, <2>5, <2>8 DEF ReservationsBalance, Balanced
<1>3. pacing.smoothing \in BOOLEAN
  BY PacingTyped DEF Known, RestTypeOK
<1> QED BY <1>1, <1>2, <1>3

(* request reserves the episode that it grants. *)
LEMMA RequestBalance ==
  ASSUME Known, NEW l \in Lanes, Request(l), ReservationsBalance
  PROVE  ReservationsBalance'
<1>a. /\ grant \in [Lanes -> [limit : 0..Workers, bootstrap : BOOLEAN]] /\ reserved \in Nat
      /\ pacing.smoothing /\ pacing' = pacing /\ slots' = slots /\ phase[l] = "top"
  BY DEF Known, RestTypeOK, Request, pacerVars
<1>1. PICK limit \in {0, 1}, first \in BOOLEAN : Requested(l, limit, first)
  BY RequestEffect DEF Known
<1>2. PICK h : h = [limit |-> limit, bootstrap |-> first]
  OBVIOUS
<1>3. grant' = [grant EXCEPT ![l] = h] /\ h.limit = limit /\ reserved' = reserved + limit
  BY <1>1, <1>2 DEF Requested
<1>4. l \notin Granted
  BY <1>a, GrantedNow DEF Known
<1>5. Granted' = IF limit = 1 THEN Granted \cup {l} ELSE Granted
  <2>1. grant'[l] = h /\ \A m \in Lanes \ {l} : grant'[m] = grant[m]
    BY <1>a, <1>3
  <2>2. \A m \in Lanes \ {l} : m \in Granted' <=> m \in Granted
    BY <2>1 DEF Granted
  <2>3. l \in Granted' <=> limit = 1
    BY <1>3, <2>1 DEF Granted
  <2> QED BY <1>4, <2>2, <2>3 DEF Granted
<1>6. PICK g \in Nat : g = Cardinality(Granted)
  BY GrantedFinite
<1>7. PICK f \in Nat : f = Cardinality(Fresh)
  BY FreshFinite
<1>8. Cardinality(Granted \cup {l}) = g + 1
  BY <1>4, <1>6, GrantedFinite, FS_AddElement
<1>9. Cardinality(Granted') = g + limit
  BY <1>5, <1>6, <1>8
<1>10. Fresh' = Fresh
  BY <1>a DEF Fresh
<1>11. Balanced(reserved, g, f)
  BY <1>a, <1>6, <1>7, BalanceNow
<1>12. Balanced(reserved', g + limit, f)
  BY <1>a, <1>3, <1>11 DEF Balanced
<1> QED BY <1>a, <1>7, <1>9, <1>10, <1>12 DEF ReservationsBalance, Balanced

(* Preservation of the balance of reservations. *)
LEMMA BalanceStep ==
  ASSUME Known, ReservationsBalance, [Next]_vars
  PROVE  ReservationsBalance'
<1>a. /\ RestTypeOK /\ pacing' = pacing /\ pacing.smoothing \in BOOLEAN /\ reserved \in Nat
      /\ slots \in [Lanes -> [1..Workers -> {"idle", "fresh", "used"}]]
  BY PacingKept, PacingTyped DEF Known, RestTypeOK
<1> USE DEF laneVars, pressureVars, pacerVars
<1>1. CASE UNCHANGED vars
  BY <1>1, BalanceKept DEF vars
<1>2. ASSUME NEW l \in Lanes, Request(l)
      PROVE  ReservationsBalance'
  BY <1>2, RequestBalance
<1>3. ASSUME NEW l \in Lanes,
             \/ RequestFull(l) \/ Wake(l) \/ GateClosed(l) \/ NoRequest(l) \/ LaneFails(l)
             \/ EndRound(l)
      PROVE  ReservationsBalance'
  <2>1. UNCHANGED <<pacing, reserved, grant, slots>>
    BY <1>3 DEF RequestFull, Wake, GateClosed, NoRequest, LaneFails, EndRound
  <2> QED BY <2>1, BalanceKept
<1>4. ASSUME NEW l \in Lanes, AskPacer(l)
      PROVE  ReservationsBalance'
  <2>1. ~pacing.smoothing /\ reserved' = reserved
    BY <1>4 DEF AskPacer
  <2> QED BY <1>a, <2>1 DEF ReservationsBalance
<1>5. ASSUME NEW l \in Lanes, Admit(l)
      PROVE  ReservationsBalance'
  <2>1. PICK n \in 0..grant[l].limit, first \in SUBSET IdleSlots(l) :
           /\ Cardinality(first) = n
           /\ slots' = [slots EXCEPT ![l] = [w \in 1..Workers |->
                                               IF w \in first THEN "fresh" ELSE @[w]]]
           /\ FinishAdmission(l, n, n < grant[l].limit)
    BY <1>5 DEF Admit
  <2>2. phase[l] = "granted"
    BY <1>5 DEF Admit
  <2>3. Cardinality(Fresh') = Cardinality(Fresh) + n
    BY <1>a, <2>1, FreshMore
  <2>4. PICK ends : ends = (n < grant[l].limit)
    OBVIOUS
  <2>5. FinishAdmission(l, n, ends)
    BY <2>1, <2>4
  <2> QED BY <1>a, <2>2, <2>3, <2>5, FinishBalance
<1>6. ASSUME NEW l \in Lanes, AdmitFails(l)
      PROVE  ReservationsBalance'
  <2>1. phase[l] = "granted" /\ FinishAdmission(l, 0, FALSE) /\ slots' = slots
    BY <1>6 DEF AdmitFails
  <2>2. Fresh' = Fresh
    BY <2>1 DEF Fresh
  <2>3. Cardinality(Fresh') = Cardinality(Fresh) + 0
    BY <2>2, FreshFinite
  <2>4. 0 \in 0..grant[l].limit
    BY <1>a DEF RestTypeOK
  <2> QED BY <1>a, <2>1, <2>3, <2>4, FinishBalance
<1>7. ASSUME NEW l \in Lanes, NEW w \in 1..Workers, Evaluate(l, w) \/ Complete(l, w)
      PROVE  ReservationsBalance'
  <2>1. CASE ~pacing.smoothing
    <3>1. reserved' = reserved
      BY <1>7, <2>1 DEF Evaluate, Complete, CarriesReservation
    <3> QED BY <1>a, <2>1, <3>1 DEF ReservationsBalance
  <2>2. CASE pacing.smoothing
    <3>1. PICK v \in {"idle", "used"} : slots' = [slots EXCEPT ![l][w] = v]
      BY <1>7 DEF Evaluate, Complete
    <3>2. Granted' = Granted
      BY <1>7 DEF Evaluate, Complete, Granted
    <3>3. PICK g \in Nat : g = Cardinality(Granted)
      BY GrantedFinite
    <3>4. PICK f \in Nat : f = Cardinality(Fresh)
      BY FreshFinite
    <3>5. PICK k \in Nat : k = Cardinality(Fresh')
      <4>1. Fresh' \in SUBSET (Lanes \X (1..Workers))
        BY DEF Fresh
      <4>2. IsFiniteSet(Fresh')
        BY <4>1, PlacesFinite, FS_Subset
      <4> QED BY <4>2, FS_CardinalityType
    <3>6. /\ slots[l][w] # "fresh" => k = f
          /\ slots[l][w] = "fresh" => k = f - 1
      BY <1>a, <3>1, <3>4, <3>5, FreshLess
    <3>7. Balanced(reserved, g, f)
      BY <2>2, <3>3, <3>4, BalanceNow
    <3>8. \/ slots[l][w] # "fresh" /\ reserved' = reserved
          \/ slots[l][w] = "fresh" /\ reserved' = Minus(reserved, 1)
          \/ Barren /\ slots[l][w] = "fresh" /\ reserved' = reserved
      BY <1>7, <2>2 DEF Evaluate, Complete, CarriesReservation
    <3>9. Balanced(reserved', g, k)
      BY <1>a, <3>6, <3>7, <3>8 DEF Balanced, Minus
    <3> QED BY <1>a, <2>2, <3>2, <3>3, <3>5, <3>9 DEF ReservationsBalance, Balanced
  <2> QED BY <1>a, <2>1, <2>2
<1>8. CASE Publish \/ Tick \/ CloseGate \/ OpenGate
  <2>1. UNCHANGED <<pacing, reserved, grant, slots>>
    BY <1>8 DEF Publish, Tick, CloseGate, OpenGate
  <2> QED BY <2>1, BalanceKept
<1> QED
  BY <1>1, <1>2, <1>3, <1>4, <1>5, <1>6, <1>7, <1>8 DEF Next, LaneStep, Stopped

-----------------------------------------------------------------------------
(* The theorems *)

(* At the start every worker waits, no lane is in the order, and nothing is granted. *)
LEMMA InitInOrder ==
  ASSUME Init
  PROVE  ScheduleInOrder
<1>a. Workers \in Nat \ {0} /\ Roots \in Nat /\ MaxClosings \in Nat /\ MaxFaults \in Nat
  BY SizesAssumption
<1>b. pacing \in Pacings /\ pacing.stagger \in Nat
  BY PacingTyped DEF Init
<1>1. RestTypeOK
  <2>1. /\ phase \in [Lanes -> {"top", "granted", "asleep", "work", "done", "failed"}]
        /\ slots \in [Lanes -> [1..Workers -> {"idle", "fresh", "used"}]]
        /\ exhausted \in [Lanes -> BOOLEAN] /\ flag \in [Lanes -> BOOLEAN]
    BY DEF Init
  <2>2. grant \in [Lanes -> [limit : 0..Workers, bootstrap : BOOLEAN]]
    <3>1. PICK G : G = [limit : 0..Workers, bootstrap : BOOLEAN]
      OBVIOUS
    <3>2. NoGrant \in G
      BY <1>a, <3>1 DEF NoGrant
    <3>3. grant = [l \in Lanes |-> NoGrant]
      BY DEF Init
    <3> QED BY <3>1, <3>2, <3>3
  <2>3. next \in [Lanes -> (-pacing.stagger)..pacing.stagger]
    <3>1. \A l \in Lanes : ResumeOffset(l) \in 0..pacing.stagger
      BY <1>b, OffsetWithin DEF ResumeOffset
    <3>2. \A l \in Lanes : ResumeOffset(l) \in (-pacing.stagger)..pacing.stagger
      BY <1>b, <3>1
    <3>3. next = [l \in Lanes |-> ResumeOffset(l)]
      BY DEF Init
    <3> QED BY <3>2, <3>3
  <2>4. begun \in 0..Roots /\ closings \in 0..MaxClosings /\ faults \in 0..MaxFaults
        /\ reserved \in Nat /\ busy \in {"none", "short", "long"} /\ batch \in 0..2
    BY <1>a DEF Init
  <2> QED BY <1>b, <2>1, <2>2, <2>3, <2>4 DEF RestTypeOK
<1>2. SwitchTypeOK
  BY DEF Init, SwitchTypeOK
<1>3. QueueSound
  <2>1. waiting = [l \in Lanes |-> Workers] /\ queued = [l \in Lanes |-> FALSE] /\ order = <<>>
        /\ total = Workers * Cardinality(Lanes)
    BY DEF Init
  <2>2. PICK c \in Nat : c = Cardinality(Lanes)
    BY PlacesFinite
  <2>3. Waiters = Lanes \X (1..Workers)
    BY <2>1, AllWaiters DEF Waiters, WaitersOf
  <2>4. Cardinality(Waiters) = c * Workers
    BY <2>2, <2>3, PlacesFinite
  <2>5. c * Workers = Workers * c /\ Workers * c \in Nat
    BY <1>a
  <2>6. total = Cardinality(Waiters) /\ total \in 0..(Workers * Cardinality(Lanes))
    BY <2>1, <2>2, <2>4, <2>5
  <2>7. waiting \in [Lanes -> 0..Workers] /\ queued \in [Lanes -> BOOLEAN] /\ order \in Seq(Lanes)
    BY <1>a, <2>1
  <2>8. IsInjective(order) /\ \A l \in Lanes : queued[l] <=> l \in Range(order)
    BY <2>1 DEF IsInjective, Range
  <2> QED BY <2>1, <2>6, <2>7, <2>8 DEF QueueSound, QueueTypeOK
<1>4. (\A l \in Lanes : flag[l] => queued[l]) /\ FlagsInOrder
  BY DEF Init, FlagsInOrder
<1>5. \A l \in Lanes : phase[l] = "top" /\ grant[l] = NoGrant
  BY DEF Init
<1>6. GrantsInOrder
  BY <1>5 DEF GrantsInOrder
<1>7. Granted = {}
  <2>1. ~(NoGrant.limit > 0)
    BY DEF NoGrant
  <2> QED BY <1>5, <2>1 DEF Granted
<1>8. \A l \in Lanes : IdleSlots(l) = 1..Workers
  BY DEF Init, IdleSlots
<1>9. BootstrapInOrder
  <2>1. begun = 0 /\ ~known /\ ~work /\ batch = 0
    BY DEF Init
  <2> QED BY <1>7, <1>8, <2>1 DEF BootstrapInOrder
<1>10. Cardinality(Granted) = 0
  BY <1>7, FS_EmptySet
<1>11. OneBeforeEstimate
  BY <1>10 DEF OneBeforeEstimate, Init
<1>12. ReservationsBalance
  <2>1. Fresh = {}
    BY DEF Fresh, Init
  <2>2. Cardinality(Fresh) = 0
    BY <2>1, FS_EmptySet
  <2>3. reserved = 0
    BY DEF Init
  <2> QED BY <1>10, <2>2, <2>3 DEF ReservationsBalance
<1> QED BY <1>1, <1>2, <1>3, <1>4, <1>6, <1>9, <1>11, <1>12, PartsOfInvariant

(* Whatever the lanes, the batcher, the gate and the clock do, in whatever order, *)
(* the schedule stays in order.                                                  *)
THEOREM ScheduleInvariant == Spec => []ScheduleInOrder
<1>1. Init => ScheduleInOrder
  BY InitInOrder
<1>2. ScheduleInOrder /\ [Next]_vars => ScheduleInOrder'
  <2>1. SUFFICES ASSUME ScheduleInOrder, [Next]_vars PROVE ScheduleInOrder'
    OBVIOUS
  <2>2. /\ RestTypeOK /\ SwitchTypeOK /\ QueueSound /\ (\A l \in Lanes : flag[l] => queued[l])
        /\ OneBeforeEstimate /\ ReservationsBalance
        /\ GrantsInOrder /\ FlagsInOrder /\ BootstrapInOrder
    BY <2>1, PartsOfInvariant
  <2>3. Known /\ Begin
    BY <2>2 DEF Known, Begin, FlagQueued
  <2>4. RestTypeOK'
    BY <2>1, <2>2, RestStep
  <2>5. SwitchTypeOK'
    BY <2>1, <2>2, SwitchStep
  <2>6. Effects
    BY <2>1, <2>3, QueueStep
  <2>7. Begin'
    BY <2>1, <2>2, <2>3, BeginStep
  <2>8. ReservationsBalance'
    BY <2>1, <2>2, <2>3, BalanceStep
  <2>9. (RestTypeOK /\ SwitchTypeOK /\ QueueSound /\ (\A l \in Lanes : flag[l] => queued[l])
         /\ OneBeforeEstimate /\ ReservationsBalance
         /\ GrantsInOrder /\ FlagsInOrder /\ BootstrapInOrder)'
    BY <2>4, <2>5, <2>6, <2>7, <2>8 DEF Effects, Begin, FlagQueued
  <2>10. (ScheduleInOrder <=>
           /\ RestTypeOK /\ SwitchTypeOK /\ QueueSound /\ (\A l \in Lanes : flag[l] => queued[l])
           /\ OneBeforeEstimate /\ ReservationsBalance
           /\ GrantsInOrder /\ FlagsInOrder /\ BootstrapInOrder)'
    BY PartsOfInvariant, PTL
  <2> QED BY <2>9, <2>10
<1> QED BY <1>1, <1>2, PTL DEF Spec

(* The shared schedule of admission.rs is consistent: its total and its order     *)
(* agree with the lanes' counts, no empty lane blocks the front, one episode at   *)
(* most is admitted before there is an estimate, and reservations match grants    *)
(* and episodes that have not evaluated.                                          *)
THEOREM ScheduleSound == Spec => []ScheduleConsistent
<1>1. ScheduleInOrder => ScheduleConsistent
  BY DEF ScheduleInOrder
<1> QED BY <1>1, ScheduleInvariant, PTL
=============================================================================
