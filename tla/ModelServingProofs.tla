------------------------- MODULE ModelServingProofs -------------------------
(***************************************************************************)
(* Proofs about ModelServing: client and evaluator agree on the models for *)
(* all numbers of episodes, evaluations and resident models, and however   *)
(* deep the pipeline is.  Nothing fails, the model an episode leased stays *)
(* loaded until its last reply, and the memory stays bounded.              *)
(***************************************************************************)
EXTENDS ModelServing, FiniteSetTheorems, TLAPS

-----------------------------------------------------------------------------
(* Sequences.                                                              *)

(* A sequence holds what it has at its places. *)
LEMMA SeqHolds ==
  ASSUME NEW S, NEW s \in Seq(S)
  PROVE  /\ Len(s) \in Nat /\ DOMAIN s = 1..Len(s)
         /\ \A i \in 1..Len(s) : s[i] \in S /\ s[i] \in Range(s)
         /\ \A x \in Range(s) : x \in S /\ \E i \in 1..Len(s) : x = s[i]
         /\ s # <<>> <=> Len(s) > 0
BY DEF Range

(* What is appended comes last. *)
LEMMA Appended ==
  ASSUME NEW S, NEW s \in Seq(S), NEW x \in S, NEW t, t = Append(s, x)
  PROVE  /\ t \in Seq(S) /\ Len(t) = Len(s) + 1
         /\ \A i \in 1..Len(s) : t[i] = s[i]
         /\ t[Len(s) + 1] = x
OBVIOUS

(* A sequence is defined on the places up to its length. *)
LEMMA SeqDomain ==
  ASSUME NEW S, NEW s \in Seq(S)
  PROVE  DOMAIN s = 1..Len(s)
OBVIOUS

(* Appending adds one element, and keeps a sequence without repetition one. *)
LEMMA AppendedHolds ==
  ASSUME NEW S, NEW s \in Seq(S), NEW x \in S, NEW t, t = Append(s, x)
  PROVE  /\ \A y : y \in Range(t) <=> y \in Range(s) \/ y = x
         /\ IsInjective(s) /\ x \notin Range(s) => IsInjective(t)
<1>1. Len(s) \in Nat /\ DOMAIN s = 1..Len(s)
  BY SeqHolds
<1>2. t \in Seq(S) /\ Len(t) = Len(s) + 1
  BY Appended
<1>0. t[Len(s) + 1] = x /\ \A i \in 1..Len(s) : t[i] = s[i]
  BY Appended
<1>3. DOMAIN t = 1..(Len(s) + 1)
  <2>1. DOMAIN t = 1..Len(t)
    BY ONLY <1>2, SeqDomain, Zenon
  <2> QED BY ONLY <1>2, <2>1, Zenon
<1>4. PICK n \in Nat : n = Len(s)
  BY <1>1
<1>5. DOMAIN s = 1..n /\ DOMAIN t = 1..(n + 1) /\ t[n + 1] = x /\ \A i \in 1..n : t[i] = s[i]
  BY <1>1, <1>0, <1>3, <1>4
<1>6. 1..(n + 1) = 1..n \cup {n + 1}
  OBVIOUS
<1>7. ASSUME NEW y PROVE y \in Range(t) <=> y \in Range(s) \/ y = x
  <2>1. ASSUME y \in Range(t) PROVE y \in Range(s) \/ y = x
    <3>1. PICK i \in 1..(n + 1) : y = t[i]
      BY <1>5, <2>1 DEF Range
    <3> QED BY <1>5, <1>6, <3>1 DEF Range
  <2>2. ASSUME y \in Range(s) PROVE y \in Range(t)
    <3>1. PICK i \in 1..n : y = s[i]
      BY <1>5, <2>2 DEF Range
    <3> QED BY <1>5, <1>6, <3>1 DEF Range
  <2>3. x \in Range(t)
    BY <1>5, <1>6 DEF Range
  <2> QED BY <2>1, <2>2, <2>3
<1>8. ASSUME IsInjective(s), x \notin Range(s) PROVE IsInjective(t)
  <2>1. \A i \in 1..n : t[i] # x
    BY <1>5, <1>8 DEF Range
  <2>2. \A i, k \in 1..n : t[i] = t[k] => i = k
    BY <1>5, <1>8 DEF IsInjective
  <2>3. \A i, k \in 1..(n + 1) : t[i] = t[k] => i = k
    BY <1>5, <1>6, <2>1, <2>2
  <2> QED BY <1>5, <2>3 DEF IsInjective
<1> QED BY <1>7, <1>8

Join(s, r) == s \o r

(* Two sequences joined are a sequence. *)
LEMMA JoinedTyped ==
  ASSUME NEW S, NEW s \in Seq(S), NEW r \in Seq(S), NEW t, t = Join(s, r)
  PROVE  t \in Seq(S) /\ Len(t) = Len(s) + Len(r)
BY DEF Join

(* Two sequences joined have the places of the one, then of the other. *)
LEMMA Joined ==
  ASSUME NEW S, NEW s \in Seq(S), NEW r \in Seq(S), NEW t, t = Join(s, r)
  PROVE  /\ \A i \in 1..Len(s) : t[i] = s[i]
         /\ \A k \in 1..Len(r) : t[Len(s) + k] = r[k]
BY DEF Join

(* Without its head a sequence has the other elements, one place earlier. *)
LEMMA Shifted ==
  ASSUME NEW S, NEW s \in Seq(S), s # <<>>, NEW t, t = Tail(s)
  PROVE  /\ t \in Seq(S) /\ Len(t) = Len(s) - 1 /\ Len(s) > 0
         /\ \A i \in 1..Len(t) : t[i] = s[i + 1] /\ i + 1 \in 1..Len(s)
         /\ Head(s) = s[1] /\ Head(s) \in S
OBVIOUS

(* Taking the head removes one element, once if there is no repetition. *)
LEMMA ShiftedHolds ==
  ASSUME NEW S, NEW s \in Seq(S), s # <<>>, NEW t, t = Tail(s)
  PROVE  /\ \A y : y \in Range(s) <=> y \in Range(t) \/ y = Head(s)
         /\ IsInjective(s) => IsInjective(t) /\ Head(s) \notin Range(t)
<1>1. PICK n \in Nat : n = Len(t)
  BY Shifted, SeqHolds
<1>2. /\ Len(s) = n + 1 /\ Head(s) = s[1] /\ \A i \in 1..n : t[i] = s[i + 1]
      /\ DOMAIN s = 1..(n + 1) /\ DOMAIN t = 1..n
  <2>1. t \in Seq(S) /\ Len(t) = Len(s) - 1 /\ Head(s) = s[1] /\ \A i \in 1..Len(t) : t[i] = s[i + 1]
    BY Shifted
  <2>2. Len(s) \in Nat /\ DOMAIN s = 1..Len(s) /\ DOMAIN t = 1..Len(t)
    BY <2>1, SeqHolds
  <2> QED BY <1>1, <2>1, <2>2
<1>3. \A i \in 1..n : i + 1 \in 1..(n + 1) /\ i + 1 # 1
  OBVIOUS
<1>4. \A i \in 1..(n + 1) : i = 1 \/ (i - 1 \in 1..n /\ i = (i - 1) + 1)
  OBVIOUS
<1>5. ASSUME NEW y PROVE y \in Range(s) <=> y \in Range(t) \/ y = Head(s)
  <2>1. ASSUME y \in Range(s) PROVE y \in Range(t) \/ y = Head(s)
    <3>1. PICK i \in 1..(n + 1) : y = s[i]
      BY <1>2, <2>1 DEF Range
    <3>2. CASE i = 1
      BY <1>2, <3>1, <3>2
    <3>3. CASE i # 1
      <4>1. PICK k \in 1..n : i = k + 1
        BY <1>4, <3>3
      <4> QED BY <1>2, <3>1, <4>1 DEF Range
    <3> QED BY <3>2, <3>3
  <2>2. ASSUME y \in Range(t) PROVE y \in Range(s)
    <3>1. PICK i \in 1..n : y = t[i]
      BY <1>2, <2>2 DEF Range
    <3> QED BY <1>2, <1>3, <3>1 DEF Range
  <2>3. 1 \in 1..(n + 1)
    OBVIOUS
  <2> QED BY <1>2, <2>1, <2>2, <2>3 DEF Range
<1>6. ASSUME IsInjective(s) PROVE IsInjective(t) /\ Head(s) \notin Range(t)
  <2>1. \A i, k \in 1..(n + 1) : s[i] = s[k] => i = k
    BY <1>2, <1>6 DEF IsInjective
  <2>2. ASSUME NEW i \in 1..n, NEW k \in 1..n, t[i] = t[k] PROVE i = k
    <3>1. i + 1 = k + 1
      BY <1>2, <1>3, <2>1, <2>2
    <3> QED BY <3>1
  <2>3. 1 \in 1..(n + 1)
    OBVIOUS
  <2>4. \A i \in 1..n : t[i] # Head(s)
    BY <1>2, <1>3, <2>1, <2>3
  <2> QED BY <1>2, <2>2, <2>4 DEF IsInjective, Range
<1> QED BY <1>5, <1>6

-----------------------------------------------------------------------------
(* Ranks.                                                                  *)

(* The rank of a place is the number of places up to it: it is between one *)
(* and their number, and grows with the place.                             *)
LEMMA RankGrows ==
  ASSUME NEW S \in SUBSET Nat, IsFiniteSet(S), NEW w \in S
  PROVE  /\ Rank(S, w) \in Nat /\ Cardinality(S) \in Nat
         /\ 1 <= Rank(S, w) /\ Rank(S, w) <= Cardinality(S)
         /\ \A u \in S : u < w => Rank(S, u) < Rank(S, w)
<1> DEFINE U(x) == {v \in S : v <= x}
<1>0. \A v \in S : v \in Nat
  OBVIOUS
<1>1. \A x : U(x) \in SUBSET S
  OBVIOUS
<1>2. w \in U(w)
  BY <1>0
<1>3. ASSUME NEW u \in S, u < w PROVE U(u) \in SUBSET (U(w) \ {w})
  <2>1. \A v \in S : v <= u => v <= w /\ v # w
    BY <1>0, <1>3
  <2> QED BY <2>1
<1>4. \A x : Rank(S, x) = Cardinality(U(x))
  BY DEF Rank
<1> HIDE DEF U
<1>5. Cardinality(S) \in Nat /\ IsFiniteSet(U(w)) /\ Cardinality(U(w)) <= Cardinality(S)
  BY <1>1, FS_Subset, FS_CardinalityType
<1>6. /\ IsFiniteSet(U(w) \ {w}) /\ Cardinality(U(w) \ {w}) = Cardinality(U(w)) - 1
      /\ Cardinality(U(w)) \in Nat /\ Cardinality(U(w) \ {w}) \in Nat
  <2>1. IsFiniteSet(U(w) \ {w}) /\ Cardinality(U(w) \ {w}) = Cardinality(U(w)) - 1
    BY <1>2, <1>5, FS_RemoveElement
  <2> QED BY <1>5, <2>1, FS_CardinalityType
<1>7. ASSUME NEW u \in S, u < w PROVE Cardinality(U(u)) < Cardinality(U(w))
  <2>1. IsFiniteSet(U(u)) /\ Cardinality(U(u)) <= Cardinality(U(w) \ {w})
    BY <1>3, <1>6, <1>7, FS_Subset
  <2>2. Cardinality(U(u)) \in Nat
    BY <2>1, FS_CardinalityType
  <2> QED BY <1>6, <2>1, <2>2
<1> QED BY <1>4, <1>5, <1>6, <1>7

(* Two places have different ranks. *)
LEMMA RankApart ==
  ASSUME NEW S \in SUBSET Nat, IsFiniteSet(S), NEW v \in S, NEW w \in S,
         Rank(S, v) = Rank(S, w)
  PROVE  v = w
<1>1. v \in Nat /\ w \in Nat
  OBVIOUS
<1>2. Rank(S, v) \in Nat /\ Rank(S, w) \in Nat
  BY RankGrows
<1>3. v < w => Rank(S, v) < Rank(S, w)
  BY RankGrows
<1>4. w < v => Rank(S, w) < Rank(S, v)
  BY RankGrows
<1> QED BY <1>1, <1>2, <1>3, <1>4

(* The places of a finite set have all ranks from 1 to their number. *)
LEMMA RanksAll ==
  ASSUME NEW S \in SUBSET Nat, IsFiniteSet(S), NEW n \in 1..Cardinality(S)
  PROVE  \E w \in S : Rank(S, w) = n
<1>1. PICK N \in Nat : N = Cardinality(S)
  BY FS_CardinalityType
<1>2. PICK f : f = [w \in S |-> Rank(S, w)]
  OBVIOUS
<1>3. \A w \in S : Rank(S, w) \in 1..N
  BY <1>1, RankGrows
<1>4. f \in [S -> 1..N]
  BY <1>2, <1>3
<1>5. ASSUME NEW v \in S, NEW w \in S, f[v] = f[w] PROVE v = w
  BY <1>2, <1>5, RankApart
<1>6. f \in Injection(S, 1..N)
  BY <1>4, <1>5 DEF Injection, IsInjective
<1>7. IsFiniteSet(1..N) /\ Cardinality(1..N) = N
  BY FS_Interval
<1>8. f \in Surjection(S, 1..N)
  BY <1>1, <1>6, <1>7, FS_Injection
<1> QED BY <1>1, <1>2, <1>8 DEF Surjection

(* Pick takes exactly the elements at the given places, each once. *)
LEMMA Picked ==
  ASSUME NEW T, NEW s \in Seq(T), NEW P \in SUBSET (1..Len(s)), NEW t, t = Pick(s, P)
  PROVE  /\ t \in Seq(T) /\ Len(t) = Cardinality(P) /\ Cardinality(P) \in Nat
         /\ \A y : y \in Range(t) <=> \E i \in P : y = s[i]
         /\ IsInjective(s) => IsInjective(t)
<1>1. Len(s) \in Nat /\ DOMAIN s = 1..Len(s) /\ \A i \in 1..Len(s) : s[i] \in T
  BY SeqHolds
<1>2. IsFiniteSet(P) /\ P \in SUBSET Nat
  <2>1. IsFiniteSet(1..Len(s)) /\ 1..Len(s) \in SUBSET Nat
    BY <1>1, FS_Interval
  <2> QED BY <2>1, FS_Subset
<1>3. PICK N \in Nat : N = Cardinality(P)
  BY <1>2, FS_CardinalityType
<1>4. PICK at : at = [n \in 1..N |-> CHOOSE i \in P : Rank(P, i) = n]
  OBVIOUS
<1>5. \A n \in 1..N : at[n] \in P /\ Rank(P, at[n]) = n
  <2> SUFFICES ASSUME NEW n \in 1..N PROVE at[n] \in P /\ Rank(P, at[n]) = n
    OBVIOUS
  <2>1. \E i \in P : Rank(P, i) = n
    BY <1>2, <1>3, RanksAll
  <2> QED BY <1>4, <2>1
<1>6. t = [n \in 1..N |-> s[at[n]]]
  BY <1>3, <1>4 DEF Pick
<1>7. \A n \in 1..N : s[at[n]] \in T
  BY <1>1, <1>5
<1>8. t \in Seq(T) /\ Len(t) = N /\ DOMAIN t = 1..N
  BY <1>6, <1>7
<1>9. \A i \in P : Rank(P, i) \in 1..N /\ at[Rank(P, i)] = i
  <2> SUFFICES ASSUME NEW i \in P PROVE Rank(P, i) \in 1..N /\ at[Rank(P, i)] = i
    OBVIOUS
  <2>1. Rank(P, i) \in 1..N
    BY <1>2, <1>3, RankGrows
  <2>2. PICK v \in P : v = at[Rank(P, i)] /\ Rank(P, v) = Rank(P, i)
    BY <1>5, <2>1
  <2>3. v = i
    BY <1>2, <2>2, RankApart
  <2> QED BY <2>1, <2>2, <2>3
<1>10. ASSUME NEW y PROVE y \in Range(t) <=> \E i \in P : y = s[i]
  <2>1. ASSUME y \in Range(t) PROVE \E i \in P : y = s[i]
    <3>1. PICK n \in 1..N : y = t[n]
      BY <1>8, <2>1 DEF Range
    <3> QED BY <1>5, <1>6, <3>1
  <2>2. ASSUME NEW i \in P, y = s[i] PROVE y \in Range(t)
    <3>1. t[Rank(P, i)] = y /\ Rank(P, i) \in DOMAIN t
      BY <1>6, <1>8, <1>9, <2>2
    <3> QED BY <3>1 DEF Range
  <2> QED BY <2>1, <2>2
<1>11. ASSUME IsInjective(s) PROVE IsInjective(t)
  <2>1. ASSUME NEW n \in 1..N, NEW m \in 1..N, t[n] = t[m] PROVE n = m
    <3>1. at[n] = at[m]
      <4>1. s[at[n]] = s[at[m]]
        BY <1>6, <2>1
      <4>2. at[n] \in DOMAIN s /\ at[m] \in DOMAIN s
        BY <1>1, <1>5
      <4>3. \A i, k \in DOMAIN s : s[i] = s[k] => i = k
        BY <1>11, Zenon DEF IsInjective
      <4> QED BY ONLY <4>1, <4>2, <4>3
    <3> QED BY <1>5, <3>1
  <2>2. \A n, m \in DOMAIN t : t[n] = t[m] => n = m
    <3> SUFFICES ASSUME NEW n \in DOMAIN t, NEW m \in DOMAIN t, t[n] = t[m] PROVE n = m
      OBVIOUS
    <3>1. n \in 1..N /\ m \in 1..N
      BY <1>8
    <3> QED BY <2>1, <3>1
  <2> QED BY ONLY <2>2 DEF IsInjective
<1> QED BY <1>3, <1>8, <1>10, <1>11

(* The places of rank up to n are n at most, and all when they are so few. *)
LEMMA FewRanks ==
  ASSUME NEW S \in SUBSET Nat, IsFiniteSet(S), NEW n \in Nat,
         NEW C, C = {i \in S : Rank(S, i) <= n}
  PROVE  IsFiniteSet(C) /\ Cardinality(C) <= n
<1>1. C \in SUBSET S /\ \A i \in C : Rank(S, i) <= n
  OBVIOUS
<1>2. PICK f : f = [w \in C |-> Rank(S, w)]
  OBVIOUS
<1>3. \A w \in C : Rank(S, w) \in 1..n
  BY <1>1, RankGrows
<1>4. f \in [C -> 1..n]
  BY <1>2, <1>3
<1>5. ASSUME NEW v \in C, NEW w \in C, f[v] = f[w] PROVE v = w
  BY <1>1, <1>2, <1>5, RankApart
<1>6. f \in Injection(C, 1..n)
  BY <1>4, <1>5 DEF Injection, IsInjective
<1>7. IsFiniteSet(1..n) /\ Cardinality(1..n) = n
  BY FS_Interval
<1>8. IsFiniteSet(C) /\ Cardinality(C) <= Cardinality(1..n)
  BY <1>6, <1>7, FS_Injection
<1> QED BY <1>7, <1>8

(* Moving every place down by one changes no number. *)
LEMMA MovedDown ==
  ASSUME NEW S \in SUBSET (Nat \ {0}), IsFiniteSet(S), NEW D, D = {i \in Nat : i + 1 \in S}
  PROVE  IsFiniteSet(D) /\ Cardinality(D) = Cardinality(S)
<1>1. PICK f : f = [i \in S |-> i - 1]
  OBVIOUS
<1>2. \A i \in S : i \in Nat /\ i - 1 \in Nat /\ (i - 1) + 1 = i
  OBVIOUS
<1>3. \A i \in S : i - 1 \in D
  BY <1>2
<1>4. f \in [S -> D]
  BY <1>1, <1>3
<1>5. \A i, k \in S : f[i] = f[k] => i = k
  BY <1>1, <1>2
<1>6. \A d \in D : d + 1 \in S /\ f[d + 1] = d
  BY <1>1
<1>7. f \in Bijection(S, D)
  BY <1>4, <1>5, <1>6 DEF Bijection, Injection, Surjection, IsInjective
<1>8. ExistsBijection(S, D)
  BY <1>7 DEF ExistsBijection
<1> QED BY <1>8, FS_Bijection

(* ... and with it the ranks move down. *)
LEMMA RankMovedDown ==
  ASSUME NEW S \in SUBSET (Nat \ {0}), IsFiniteSet(S), NEW D, D = {i \in Nat : i + 1 \in S},
         NEW i \in Nat
  PROVE  Rank(D, i) = Rank(S, i + 1)
<1>1. PICK B : B = {k \in S : k <= i + 1}
  OBVIOUS
<1>2. B \in SUBSET S /\ B \in SUBSET (Nat \ {0})
  BY <1>1
<1>3. IsFiniteSet(B)
  BY <1>2, FS_Subset
<1>4. PICK C : C = {k \in Nat : k + 1 \in B}
  OBVIOUS
<1>5. Cardinality(C) = Cardinality(B)
  BY <1>2, <1>3, <1>4, MovedDown
<1>6. C = {k \in D : k <= i}
  <2>1. \A k \in Nat : k + 1 <= i + 1 <=> k <= i
    OBVIOUS
  <2> QED BY <1>1, <1>4, <2>1
<1> QED BY <1>1, <1>5, <1>6 DEF Rank

-----------------------------------------------------------------------------
(* The EVAL frames of the stream.                                          *)

EvalsOf(s) == {i \in DOMAIN s : s[i].type = "EVAL"}

(* The places of the EVAL frames are places of the stream. *)
LEMMA EvalsFinite ==
  ASSUME NEW S, NEW s \in Seq(S)
  PROVE  /\ EvalsOf(s) \in SUBSET (1..Len(s)) /\ EvalsOf(s) \in SUBSET (Nat \ {0})
         /\ EvalsOf(s) \in SUBSET Nat /\ IsFiniteSet(EvalsOf(s))
         /\ Cardinality(EvalsOf(s)) \in Nat
<1>1. PICK n \in Nat : n = Len(s) /\ DOMAIN s = 1..n
  BY SeqHolds
<1>2. PICK E : E = EvalsOf(s)
  OBVIOUS
<1>3. E \in SUBSET (1..n)
  BY <1>1, <1>2 DEF EvalsOf
<1>4. IsFiniteSet(1..n) /\ 1..n \in SUBSET (Nat \ {0}) /\ 1..n \in SUBSET Nat
  BY FS_Interval
<1>5. IsFiniteSet(E) /\ Cardinality(E) \in Nat
  BY <1>3, <1>4, FS_Subset, FS_CardinalityType
<1> QED BY <1>1, <1>2, <1>3, <1>4, <1>5

(* Other frames that are appended leave the EVAL frames where they are. *)
LEMMA EvalsKept ==
  ASSUME NEW S, NEW s \in Seq(S), NEW r \in Seq(S), NEW t, t = Join(s, r),
         EvalsOf(r) = {}
  PROVE  /\ t \in Seq(S) /\ EvalsOf(t) = EvalsOf(s)
         /\ \A i \in 1..Len(s) : t[i] = s[i]
<1>1. PICK n \in Nat : n = Len(s) /\ DOMAIN s = 1..n
  BY SeqHolds
<1>2. PICK m \in Nat : m = Len(r) /\ DOMAIN r = 1..m
  BY SeqHolds
<1>3. t \in Seq(S) /\ Len(t) = n + m
  BY <1>1, <1>2, JoinedTyped
<1>4. DOMAIN t = 1..(n + m)
  BY <1>3, SeqHolds
<1>5. \A i \in 1..n : t[i] = s[i]
  <2>1. \A i \in 1..Len(s) : t[i] = s[i]
    BY Joined
  <2> QED BY <1>1, <2>1
<1>6. ASSUME NEW i \in 1..(n + m), i \notin 1..n PROVE t[i].type # "EVAL"
  <2>1. PICK k \in 1..m : i = n + k
    <3>1. i - n \in 1..m /\ i = n + (i - n)
      BY <1>6
    <3> QED BY <3>1
  <2>2. t[i] = r[k]
    <3>1. \A j \in 1..Len(r) : t[Len(s) + j] = r[j]
      BY Joined
    <3> QED BY <1>1, <1>2, <2>1, <3>1
  <2> QED BY <1>2, <2>1, <2>2 DEF EvalsOf
<1>7. \A i \in 1..n : i \in 1..(n + m)
  OBVIOUS
<1>8. EvalsOf(t) = EvalsOf(s)
  BY <1>1, <1>4, <1>5, <1>6, <1>7 DEF EvalsOf
<1> QED BY <1>1, <1>3, <1>5, <1>8

AddsEval(E, m, q, F) ==
  /\ F = E \cup {m + 1} /\ Rank(F, m + 1) = q + 1
  /\ \A i \in E : i \in 1..m /\ Rank(F, i) = Rank(E, i)

(* An EVAL frame that is appended is the last one. *)
LEMMA EvalAdded ==
  ASSUME NEW S, NEW s \in Seq(S), NEW f \in S, f.type = "EVAL", NEW t, t = Append(s, f)
  PROVE  /\ AddsEval(EvalsOf(s), Len(s), Cardinality(EvalsOf(s)), EvalsOf(t))
         /\ Cardinality(EvalsOf(t)) = Cardinality(EvalsOf(s)) + 1
<1>1. PICK n \in Nat : n = Len(s) /\ DOMAIN s = 1..n
  BY SeqHolds
<1>2. t \in Seq(S) /\ Len(t) = n + 1 /\ t[n + 1] = f /\ \A i \in 1..n : t[i] = s[i]
  BY <1>1, Appended
<1>3. DOMAIN t = 1..(n + 1)
  BY <1>2, SeqHolds
<1>4. 1..(n + 1) = 1..n \cup {n + 1}
  OBVIOUS
<1>5. EvalsOf(t) = EvalsOf(s) \cup {n + 1}
  BY <1>1, <1>2, <1>3, <1>4 DEF EvalsOf
<1>6. PICK E : E = EvalsOf(s)
  OBVIOUS
<1>7. PICK F : F = EvalsOf(t)
  OBVIOUS
<1>8. F = E \cup {n + 1} /\ E \in SUBSET (1..n) /\ IsFiniteSet(E)
  BY <1>1, <1>5, <1>6, <1>7, EvalsFinite
<1>9. n + 1 \notin E /\ \A i \in E : i \in 1..n
  BY <1>8
<1>10. Cardinality(F) = Cardinality(E) + 1
  BY <1>8, <1>9, FS_AddElement
<1>11. ASSUME NEW i \in E PROVE Rank(F, i) = Rank(E, i)
  <2>1. ~(n + 1 <= i)
    BY <1>9, <1>11
  <2>2. {k \in F : k <= i} = {k \in E : k <= i}
    BY <1>8, <2>1
  <2> QED BY <2>2 DEF Rank
<1>12. Rank(F, n + 1) = Cardinality(F)
  <2>1. \A k \in F : k <= n + 1
    BY <1>8, <1>9
  <2>2. {k \in F : k <= n + 1} = F
    BY <2>1
  <2> QED BY <2>2 DEF Rank
<1>13. AddsEval(E, n, Cardinality(E), F)
  BY <1>8, <1>9, <1>10, <1>11, <1>12 DEF AddsEval
<1> QED BY <1>1, <1>6, <1>7, <1>10, <1>13

(* A head that is no EVAL frame leaves: the EVAL frames keep their ranks. *)
LEMMA EvalsPassed ==
  ASSUME NEW S, NEW s \in Seq(S), s # <<>>, s[1].type # "EVAL", NEW t, t = Tail(s)
  PROVE  /\ Cardinality(EvalsOf(t)) = Cardinality(EvalsOf(s))
         /\ \A i \in EvalsOf(t) : /\ i + 1 \in EvalsOf(s) /\ i \in 1..Len(t)
                                  /\ Rank(EvalsOf(t), i) = Rank(EvalsOf(s), i + 1)
<1>1. PICK n \in Nat : n = Len(t) /\ DOMAIN t = 1..n
  BY Shifted, SeqHolds
<1>2. Len(s) = n + 1 /\ \A i \in 1..n : t[i] = s[i + 1]
  <2>1. Len(t) = Len(s) - 1 /\ \A i \in 1..Len(t) : t[i] = s[i + 1]
    BY Shifted
  <2>2. Len(s) \in Nat
    BY SeqHolds
  <2> QED BY <1>1, <2>1, <2>2
<1>3. DOMAIN s = 1..(n + 1)
  BY <1>2, SeqHolds
<1>4. PICK E : E = EvalsOf(s)
  OBVIOUS
<1>5. PICK F : F = EvalsOf(t)
  OBVIOUS
<1>6. E \in SUBSET (Nat \ {0}) /\ IsFiniteSet(E)
  BY <1>4, EvalsFinite
<1>7. F = {i \in Nat : i + 1 \in E}
  <2>1. 1 \notin E
    BY <1>4 DEF EvalsOf
  <2>2. \A i \in Nat : i + 1 \in 1..(n + 1) /\ i + 1 # 1 <=> i \in 1..n
    OBVIOUS
  <2>3. \A i \in Nat : i + 1 \in E <=> i + 1 \in 1..(n + 1) /\ i + 1 # 1 /\ s[i + 1].type = "EVAL"
    BY <1>3, <1>4, <2>1 DEF EvalsOf
  <2>4. \A i \in Nat : i + 1 \in E <=> i \in 1..n /\ t[i].type = "EVAL"
    BY <1>2, <2>2, <2>3
  <2>5. 1..n \subseteq Nat
    OBVIOUS
  <2> QED BY <1>1, <1>5, <2>4, <2>5 DEF EvalsOf
<1>8. Cardinality(F) = Cardinality(E)
  BY <1>6, <1>7, MovedDown
<1>9. \A i \in F : i + 1 \in E /\ Rank(F, i) = Rank(E, i + 1)
  BY <1>6, <1>7, RankMovedDown
<1>10. \A i \in F : i \in 1..n
  BY <1>1, <1>5 DEF EvalsOf
<1> QED BY <1>1, <1>4, <1>5, <1>8, <1>9, <1>10

(* An EVAL frame leaves: it had the first rank, and the others move up. *)
LEMMA EvalServed ==
  ASSUME NEW S, NEW s \in Seq(S), s # <<>>, s[1].type = "EVAL", NEW t, t = Tail(s)
  PROVE  /\ 1 \in EvalsOf(s) /\ Rank(EvalsOf(s), 1) = 1
         /\ Cardinality(EvalsOf(t)) = Cardinality(EvalsOf(s)) - 1
         /\ \A i \in EvalsOf(t) : /\ i + 1 \in EvalsOf(s) /\ i \in 1..Len(t)
                                  /\ Rank(EvalsOf(t), i) = Rank(EvalsOf(s), i + 1) - 1
<1>1. PICK n \in Nat : n = Len(t) /\ DOMAIN t = 1..n
  BY Shifted, SeqHolds
<1>2. Len(s) = n + 1 /\ \A i \in 1..n : t[i] = s[i + 1]
  <2>1. Len(t) = Len(s) - 1 /\ \A i \in 1..Len(t) : t[i] = s[i + 1]
    BY Shifted
  <2>2. Len(s) \in Nat
    BY SeqHolds
  <2> QED BY <1>1, <2>1, <2>2
<1>3. DOMAIN s = 1..(n + 1)
  BY <1>2, SeqHolds
<1>4. PICK E : E = EvalsOf(s)
  OBVIOUS
<1>5. PICK F : F = EvalsOf(t)
  OBVIOUS
<1>6. E \in SUBSET (Nat \ {0}) /\ IsFiniteSet(E) /\ 1 \in E
  <2>1. 1 \in 1..(n + 1)
    OBVIOUS
  <2> QED BY <1>3, <1>4, <2>1, EvalsFinite DEF EvalsOf
<1>7. PICK G : G = E \ {1}
  OBVIOUS
<1>8. G \in SUBSET (Nat \ {0}) /\ IsFiniteSet(G) /\ Cardinality(G) = Cardinality(E) - 1
  BY <1>6, <1>7, FS_RemoveElement
<1>9. F = {i \in Nat : i + 1 \in G}
  <2>1. \A i \in Nat : i + 1 \in 1..(n + 1) /\ i + 1 # 1 <=> i \in 1..n
    OBVIOUS
  <2>2. \A i \in Nat : i + 1 \in G <=> i + 1 \in 1..(n + 1) /\ i + 1 # 1 /\ s[i + 1].type = "EVAL"
    BY <1>3, <1>4, <1>7 DEF EvalsOf
  <2>3. \A i \in Nat : i + 1 \in G <=> i \in 1..n /\ t[i].type = "EVAL"
    BY <1>2, <2>1, <2>2
  <2>4. 1..n \subseteq Nat
    OBVIOUS
  <2> QED BY <1>1, <1>5, <2>3, <2>4 DEF EvalsOf
<1>10. Cardinality(F) = Cardinality(G)
  BY <1>8, <1>9, MovedDown
<1>11. ASSUME NEW i \in F
       PROVE  i \in 1..n /\ i + 1 \in E /\ Rank(F, i) = Rank(E, i + 1) - 1
  <2>1. i \in 1..n
    BY <1>1, <1>5 DEF EvalsOf
  <2>2. i + 1 \in E /\ Rank(F, i) = Rank(G, i + 1)
    BY <1>7, <1>8, <1>9, RankMovedDown
  <2>3. PICK B : B = {k \in E : k <= i + 1}
    OBVIOUS
  <2>4. B \in SUBSET E /\ 1 \in B
    BY <1>6, <2>1, <2>3
  <2>5. IsFiniteSet(B)
    BY <1>6, <2>4, FS_Subset
  <2>6. Cardinality(B \ {1}) = Cardinality(B) - 1
    BY <2>4, <2>5, FS_RemoveElement
  <2>7. B \ {1} = {k \in G : k <= i + 1}
    BY <1>7, <2>3
  <2> QED BY <2>1, <2>2, <2>3, <2>6, <2>7 DEF Rank
<1>12. Rank(E, 1) = 1
  <2>1. \A k \in E : k <= 1 <=> k = 1
    BY <1>6
  <2>2. {k \in E : k <= 1} = {1}
    BY <1>6, <2>1
  <2> QED BY <2>2, FS_Singleton DEF Rank
<1> QED BY <1>1, <1>4, <1>5, <1>6, <1>8, <1>10, <1>11, <1>12

-----------------------------------------------------------------------------
(* The parts of the invariant.                                             *)

Batches == [jobs : Seq(Jobs), model : Generations]
Frames == [type : {"EVAL", "MODEL_RELEASE"}, model : Generations]
Replies == [version : Versions, active : Generations]

LanesTyped ==
  /\ lease \in [Episodes -> Generations \cup {None}]
  /\ outstanding \in [Episodes -> SUBSET Token]
  /\ running \in BOOLEAN
RegistryTyped ==
  /\ current \in Generations /\ Registered \subseteq Generations
  /\ users \in [Registered -> 0..Cardinality(Episodes)]
  /\ releasable \in Seq(Generations) /\ IsInjective(releasable)
JobsTyped ==
  /\ pc \in {"top", "fill", "release", "submit", "ended"} /\ reported \in Generations
  /\ intake \in Seq(Jobs) /\ batch \in Seq(Jobs) /\ deferred \in Seq(Jobs)
  /\ Len(intake) <= IntakeCapacity /\ Len(batch) <= MaxBatch
  /\ Len(deferred) <= IntakeCapacity
StreamsTyped ==
  /\ inFlight \in Seq(Batches) /\ toServer \in Seq(Frames)
  /\ toClient \in Seq(Replies) /\ launched \in Seq(Versions)
  /\ Len(inFlight) <= Depth /\ Len(toClient) <= Depth /\ Len(launched) <= Depth
ServerTyped ==
  /\ DOMAIN resident \subseteq Versions /\ resident \in [DOMAIN resident -> Versions]
  /\ active \in Generations /\ nextGeneration \in 2..(MaxVersion + 1)
LoaderTyped ==
  /\ pending \in 0..MaxVersion /\ adopting \in 0..MaxVersion
  /\ loader \in [at : {"idle", "resolved", "loading"}, version : 0..MaxVersion]
  /\ rejected \subseteq Versions /\ published \in Versions
LeasesHeld ==
  \A e \in Episodes : lease[e] # None => lease[e] \in Registered /\ lease[e] \in Resident
JobsLeased ==
  /\ \A j \in Queued : j.model = lease[j.episode]
  /\ \A e \in Episodes, t \in Token :
       t \in outstanding[e] <=> \E j \in Queued : j.episode = e /\ j.token = t

(* The types of the variables are those of the parts. *)
LEMMA TypeParts ==
  TypeOK <=> /\ LanesTyped /\ RegistryTyped /\ JobsTyped
             /\ StreamsTyped /\ ServerTyped /\ LoaderTyped
BY DEF TypeOK, LanesTyped, RegistryTyped, JobsTyped, StreamsTyped, ServerTyped, LoaderTyped,
       Batches, Frames, Replies

(* The invariant is the conjunction of its parts. *)
LEMMA InvariantParts ==
  ServingInOrder <=>
    /\ LanesTyped /\ RegistryTyped /\ JobsTyped /\ StreamsTyped /\ ServerTyped /\ LoaderTyped
    /\ NoFault /\ LeasesHeld /\ JobsLeased /\ ResidentBounded
    /\ RegistryInOrder /\ JobsInOrder /\ StreamsInOrder /\ GenerationsInOrder /\ LoaderInOrder
<1>1. LeasePinsModel <=> LeasesHeld /\ JobsLeased
  BY DEF LeasePinsModel, LeasesHeld, JobsLeased
<1> QED BY <1>1, TypeParts DEF ServingInOrder, ModelsPinned

-----------------------------------------------------------------------------
(* Generations and the episodes that hold them.                            *)

(* A generation is its two numbers. *)
LEMMA GenerationParts ==
  /\ None \notin Generations
  /\ \A g \in Generations : g.id \in Versions /\ g.version \in Versions /\ g = Generation(g.id, g.version)
  /\ \A i \in Versions, v \in Versions : Generation(i, v) \in Generations
  /\ \A i, v : Generation(i, v).id = i /\ Generation(i, v).version = v
<1>1. MaxVersion \in Nat
  BY ServingAssumption
<1>2. 0 \notin Versions
  BY <1>1 DEF Versions
<1>3. \A i, v : Generation(i, v).id = i /\ Generation(i, v).version = v
  BY DEF Generation
<1>4. None.id = 0
  BY <1>3 DEF None
<1>5. \A g \in Generations : g.id \in Versions /\ g.version \in Versions /\ g = Generation(g.id, g.version)
  BY DEF Generations, Generation
<1>6. \A i \in Versions, v \in Versions : Generation(i, v) \in Generations
  BY DEF Generations, Generation
<1>7. None \notin Generations
  BY <1>2, <1>4, <1>5
<1> QED BY <1>3, <1>5, <1>6, <1>7

HeldBy(r) == {Generation(r[v], v) : v \in DOMAIN r}

(* What the evaluator holds is determined by its version. *)
LEMMA HeldOnce ==
  ASSUME NEW r
  PROVE  /\ \A g \in HeldBy(r) : /\ g.version \in DOMAIN r /\ g.id = r[g.version]
                                 /\ g = Generation(r[g.version], g.version)
         /\ \A v \in DOMAIN r : Generation(r[v], v) \in HeldBy(r)
         /\ \A g, h \in HeldBy(r) : g.version = h.version => g = h
<1>1. ASSUME NEW g \in HeldBy(r)
      PROVE  g.version \in DOMAIN r /\ g.id = r[g.version] /\ g = Generation(r[g.version], g.version)
  <2>1. PICK v \in DOMAIN r : g = Generation(r[v], v)
    BY DEF HeldBy
  <2>2. g.version = v /\ g.id = r[v]
    BY <2>1, GenerationParts
  <2> QED BY <2>1, <2>2
<1>2. \A v \in DOMAIN r : Generation(r[v], v) \in HeldBy(r)
  BY DEF HeldBy
<1>3. \A g, h \in HeldBy(r) : g.version = h.version => g = h
  BY <1>1
<1> QED BY <1>1, <1>2, <1>3

Holders(f, h) == {x \in Episodes : f[x] = h}

(* As many episodes hold a generation as there are holders. *)
LEMMA HoldersCounted ==
  ASSUME NEW f, NEW h
  PROVE  /\ IsFiniteSet(Holders(f, h)) /\ Cardinality(Holders(f, h)) \in Nat
         /\ Cardinality(Holders(f, h)) \in 0..Cardinality(Episodes)
         /\ Cardinality(Holders(f, h)) = 0 <=> \A x \in Episodes : f[x] # h
<1>1. PICK H : H = Holders(f, h)
  OBVIOUS
<1>2. H \in SUBSET Episodes /\ \A x \in Episodes : x \in H <=> f[x] = h
  BY <1>1 DEF Holders
<1>3. IsFiniteSet(Episodes) /\ Cardinality(Episodes) \in Nat
  BY ServingAssumption, FS_CardinalityType
<1>4. IsFiniteSet(H) /\ Cardinality(H) <= Cardinality(Episodes)
  BY <1>2, <1>3, FS_Subset
<1>5. Cardinality(H) \in Nat /\ (Cardinality(H) = 0 <=> H = {})
  BY <1>4, FS_CardinalityType, FS_EmptySet
<1> QED BY <1>1, <1>2, <1>3, <1>4, <1>5

Changed(f, k, e, g) == k[e] = g /\ \A x \in Episodes : x # e => k[x] = f[x]

(* An episode that takes a generation is one more holder of it. *)
LEMMA HolderAdded ==
  ASSUME NEW f, NEW e \in Episodes, NEW g, f[e] # g, NEW k, Changed(f, k, e, g)
  PROVE  /\ Cardinality(Holders(k, g)) = Cardinality(Holders(f, g)) + 1
         /\ Cardinality(Holders(k, f[e])) = Cardinality(Holders(f, f[e])) - 1
         /\ \A h : h # g /\ h # f[e] => Holders(k, h) = Holders(f, h)
<1>1. k[e] = g /\ \A x \in Episodes : x # e => k[x] = f[x]
  BY DEF Changed
<1>2. Holders(k, g) = Holders(f, g) \cup {e} /\ e \notin Holders(f, g)
  BY <1>1 DEF Holders
<1>3. Holders(k, f[e]) = Holders(f, f[e]) \ {e} /\ e \in Holders(f, f[e])
  BY <1>1 DEF Holders
<1>4. \A h : h # g /\ h # f[e] => Holders(k, h) = Holders(f, h)
  BY <1>1 DEF Holders
<1>5. Cardinality(Holders(k, g)) = Cardinality(Holders(f, g)) + 1
  BY <1>2, HoldersCounted, FS_AddElement
<1>6. Cardinality(Holders(k, f[e])) = Cardinality(Holders(f, f[e])) - 1
  BY <1>3, HoldersCounted, FS_RemoveElement
<1> QED BY <1>4, <1>5, <1>6

(* Two resident generations are ordered by their versions as by their ids,   *)
(* and there are no more of them than resident versions.                     *)
LEMMA ResidentOrder ==
  ASSUME ServerTyped, GenerationsInOrder
  PROVE  /\ \A g \in Resident : /\ g \in Generations /\ g.version \in DOMAIN resident
                                /\ g.id = resident[g.version]
         /\ \A g, h \in Resident : g.version = h.version => g = h
         /\ \A g, h \in Resident : g.id = h.id => g = h
         /\ \A g, h \in Resident : g.version < h.version => g.id < h.id
<1>0. Resident = HeldBy(resident)
  BY DEF Resident, HeldBy
<1>1. \A g \in Resident : g.version \in DOMAIN resident /\ g.id = resident[g.version] /\ g = Generation(resident[g.version], g.version)
  BY <1>0, HeldOnce
<1>2. \A v \in DOMAIN resident : v \in Versions /\ resident[v] \in Versions
  BY DEF ServerTyped
<1>3. \A g \in Resident : g \in Generations
  BY <1>1, <1>2, GenerationParts
<1>4. \A v \in Versions : v \in Int
  BY ServingAssumption DEF Versions
<1>5. \A g, h \in Resident : g.version = h.version => g = h
  BY <1>0, HeldOnce
<1>6. \A g, h \in Resident : g.version < h.version => g.id < h.id
  BY <1>1 DEF GenerationsInOrder
<1>7. ASSUME NEW g \in Resident, NEW h \in Resident, g.id = h.id PROVE g = h
  <2>1. g.version \in Int /\ h.version \in Int /\ g.id \in Int /\ h.id \in Int
    BY <1>1, <1>2, <1>4
  <2>2. ~(g.version < h.version) /\ ~(h.version < g.version)
    BY <1>6, <1>7, <2>1
  <2> QED BY <1>5, <2>1, <2>2
<1> QED BY <1>1, <1>3, <1>5, <1>6, <1>7

-----------------------------------------------------------------------------
(* The jobs that wait.                                                     *)

(* A job waits in one of four places. *)
LEMMA QueuedWhere ==
  \A j : j \in Queued <=>
    \/ j \in Range(intake) \/ j \in Range(batch) \/ j \in Range(deferred)
    \/ \E k \in DOMAIN inFlight : j \in Range(inFlight[k].jobs)
BY DEF Queued

(* What waits is a job. *)
LEMMA QueuedTyped ==
  ASSUME JobsTyped, StreamsTyped, NEW j \in Queued
  PROVE  j \in Jobs /\ j.episode \in Episodes /\ j.token \in Token /\ j.model \in Generations
<1>1. CASE j \in Range(intake)
  <2>1. intake \in Seq(Jobs)
    BY DEF JobsTyped
  <2>2. j \in Jobs
    BY <1>1, <2>1, SeqHolds
  <2> QED BY <2>2 DEF Jobs
<1>2. CASE j \in Range(batch)
  <2>1. batch \in Seq(Jobs)
    BY DEF JobsTyped
  <2>2. j \in Jobs
    BY <1>2, <2>1, SeqHolds
  <2> QED BY <2>2 DEF Jobs
<1>3. CASE j \in Range(deferred)
  <2>1. deferred \in Seq(Jobs)
    BY DEF JobsTyped
  <2>2. j \in Jobs
    BY <1>3, <2>1, SeqHolds
  <2> QED BY <2>2 DEF Jobs
<1>4. CASE \E k \in DOMAIN inFlight : j \in Range(inFlight[k].jobs)
  <2>1. PICK k \in DOMAIN inFlight : j \in Range(inFlight[k].jobs)
    BY <1>4
  <2>2. inFlight[k] \in Batches
    BY SeqHolds DEF StreamsTyped
  <2>3. inFlight[k].jobs \in Seq(Jobs)
    BY <2>2 DEF Batches
  <2>4. j \in Jobs
    BY <2>1, <2>3, SeqHolds
  <2> QED BY <2>4 DEF Jobs
<1> QED BY <1>1, <1>2, <1>3, <1>4, QueuedWhere

(* An episode whose lease changes has no job that waits. *)
LEMMA LeaseChanged ==
  ASSUME LanesTyped, JobsLeased, NEW e \in Episodes, NEW g,
         \A j \in Queued : j.episode # e /\ j.episode \in Episodes,
         lease' = [lease EXCEPT ![e] = g],
         UNCHANGED <<outstanding, intake, batch, deferred, inFlight>>
  PROVE  JobsLeased'
<1>1. Queued' = Queued /\ outstanding' = outstanding
  BY DEF Queued
<1>2. \A x \in Episodes : x # e => lease'[x] = lease[x]
  BY DEF LanesTyped
<1> QED BY <1>1, <1>2 DEF JobsLeased

(* No job is lost or changed: its episode waits for it as before. *)
LEMMA JobsMoved ==
  ASSUME JobsLeased, UNCHANGED <<lease, outstanding>>, Queued' = Queued
  PROVE  JobsLeased'
BY DEF JobsLeased

-----------------------------------------------------------------------------
(* The registry.                                                           *)

(* The registry counts holders. *)
LEMMA RegistryCounts ==
  RegistryInOrder <=>
    /\ current \in Registered /\ reported = current
    /\ \A g \in Registered : users[g] = Cardinality(Holders(lease, g))
    /\ \A g \in Range(releasable) : g \in Registered /\ g # current /\ users[g] = 0
BY DEF RegistryInOrder, Holders

(* ... and so it does after a step. *)
LEMMA RegistryCountsNext ==
  RegistryInOrder' <=>
    /\ current' \in Registered' /\ reported' = current'
    /\ \A g \in Registered' : users'[g] = Cardinality(Holders(lease', g))
    /\ \A g \in Range(releasable') : g \in Registered' /\ g # current' /\ users'[g] = 0
BY DEF RegistryInOrder, Holders

(* An admitted episode holds the current generation, which is registered. *)
LEMMA AdmitInOrder ==
  ASSUME ServingInOrder, NEW e \in Episodes, Admit(e)
  PROVE  /\ LanesTyped' /\ RegistryTyped' /\ NoFault'
         /\ LeasesHeld' /\ JobsLeased' /\ RegistryInOrder'
<1>1. /\ LanesTyped /\ RegistryTyped /\ JobsTyped /\ StreamsTyped /\ LeasesHeld /\ JobsLeased
      /\ RegistryInOrder /\ GenerationsInOrder /\ NoFault
  BY InvariantParts
<1>2. /\ current \in Registered /\ reported = current
      /\ \A g \in Registered : users[g] = Cardinality(Holders(lease, g))
      /\ \A g \in Range(releasable) : g \in Registered /\ g # current /\ users[g] = 0
  BY <1>1, RegistryCounts
<1>3. /\ users' = [users EXCEPT ![current] = @ + 1]
      /\ lease' = [lease EXCEPT ![e] = current]
      /\ UNCHANGED <<fault, outstanding, running, intake, current, releasable, reported, resident,
                     batch, deferred, inFlight>>
      /\ lease[e] = None
  BY <1>2 DEF Admit, AcquireCurrent, batcherVars, serverVars
<1>4. /\ lease \in [Episodes -> Generations \cup {None}] /\ current \in Generations
      /\ current # None /\ DOMAIN lease = Episodes
  BY <1>1, GenerationParts DEF LanesTyped, RegistryTyped
<1>5. LanesTyped'
  BY <1>1, <1>3, <1>4 DEF LanesTyped
<1>6. NoFault'
  BY <1>1, <1>3 DEF NoFault
<1>7. Registered' = Registered /\ Resident' = Resident
  BY <1>1, <1>3 DEF Registered, Resident, RegistryTyped
<1>8. ASSUME NEW g \in Registered
      PROVE  users'[g] = Cardinality(Holders(lease', g)) /\ (g # current => users'[g] = users[g])
  <2>1. g # None
    BY <1>1, GenerationParts DEF RegistryTyped
  <2>2. CASE g = current
    <3>1. users'[g] = users[g] + 1
      BY <1>1, <1>3, <2>2 DEF RegistryTyped, Registered
    <3>2. Cardinality(Holders(lease', g)) = Cardinality(Holders(lease, g)) + 1
      <4>1. lease[e] # g /\ lease' = [lease EXCEPT ![e] = g]
        BY <1>3, <1>4, <2>2
      <4>2. PICK k : k = lease'
        OBVIOUS
      <4>3. Changed(lease, k, e, g)
        BY <1>4, <4>1, <4>2 DEF Changed
      <4>4. Cardinality(Holders(k, g)) = Cardinality(Holders(lease, g)) + 1
        BY <1>4, <4>1, <4>3, HolderAdded
      <4> QED BY <4>2, <4>4
    <3> QED BY <1>2, <2>2, <3>1, <3>2
  <2>3. CASE g # current
    <3>1. users'[g] = users[g]
      BY <1>1, <1>3, <2>3 DEF RegistryTyped, Registered
    <3>2. Holders(lease', g) = Holders(lease, g)
      <4>1. lease[e] # current /\ g # lease[e]
        BY <1>3, <1>4, <2>1
      <4>2. PICK k : k = lease'
        OBVIOUS
      <4>3. Changed(lease, k, e, current)
        BY <1>3, <1>4, <4>2 DEF Changed
      <4>4. Holders(k, g) = Holders(lease, g)
        BY <1>4, <2>3, <4>1, <4>3, HolderAdded
      <4> QED BY <4>2, <4>4
    <3> QED BY <1>2, <3>1, <3>2
  <2> QED BY <2>2, <2>3
<1>9. RegistryInOrder'
  <2>1. \A g \in Range(releasable) : g \in Registered /\ g # current /\ users'[g] = 0
    BY <1>2, <1>8
  <2> QED BY <1>2, <1>3, <1>7, <1>8, <2>1, RegistryCountsNext
<1>10. RegistryTyped'
  <2>1. \A g \in Registered : users'[g] \in 0..Cardinality(Episodes)
    BY <1>8, HoldersCounted
  <2>2. users' \in [Registered -> 0..Cardinality(Episodes)]
    <3>1. DOMAIN users' = Registered /\ users' = [g \in Registered |-> users'[g]]
      BY <1>1, <1>3 DEF RegistryTyped, Registered
    <3> QED BY <2>1, <3>1
  <2> QED BY <1>1, <1>3, <1>7, <2>2 DEF RegistryTyped
<1>11. LeasesHeld'
  <2>1. current \in Registered /\ current \in Resident
    BY <1>1, <1>2 DEF GenerationsInOrder
  <2>2. \A x \in Episodes : lease'[x] = IF x = e THEN current ELSE lease[x]
    BY <1>3, <1>4
  <2> QED BY <1>1, <1>7, <2>1, <2>2 DEF LeasesHeld
<1>12. JobsLeased'
  <2>1. \A j \in Queued : j.episode \in Episodes /\ j.model \in Generations /\ j.model = lease[j.episode]
    BY <1>1, QueuedTyped DEF JobsLeased
  <2>2. \A j \in Queued : j.episode # e /\ j.episode \in Episodes
    BY <1>3, <2>1, GenerationParts
  <2> QED BY <1>1, <1>3, <2>2, LeaseChanged
<1> QED BY <1>5, <1>6, <1>9, <1>10, <1>11, <1>12

(* A generation is queued for release once. *)
LEMMA ReleaseQueued ==
  ASSUME RegistryTyped, NEW g \in Generations, QueueRelease(g)
  PROVE  /\ releasable' \in Seq(Generations) /\ IsInjective(releasable')
         /\ \A h \in Range(releasable') : h \in Range(releasable) \/ h = g
<1>1. releasable \in Seq(Generations) /\ IsInjective(releasable)
  BY DEF RegistryTyped
<1>2. CASE g \in Range(releasable)
  BY <1>1, <1>2 DEF QueueRelease
<1>3. CASE g \notin Range(releasable)
  <2>1. PICK t : t = Append(releasable, g)
    OBVIOUS
  <2>2. t \in Seq(Generations) /\ IsInjective(t) /\ \A y : y \in Range(t) <=> y \in Range(releasable) \/ y = g
    BY <1>1, <1>3, <2>1, Appended, AppendedHolds
  <2>3. releasable' = t
    BY <1>3, <2>1 DEF QueueRelease
  <2> QED BY <2>2, <2>3
<1> QED BY <1>2, <1>3

(* An episode that completes gives its generation back; the last user of a   *)
(* superseded generation queues its release.                                 *)
LEMMA CompleteInOrder ==
  ASSUME ServingInOrder, NEW e \in Episodes, CompleteEpisode(e)
  PROVE  /\ LanesTyped' /\ RegistryTyped' /\ NoFault'
         /\ LeasesHeld' /\ JobsLeased' /\ RegistryInOrder'
<1>1. /\ LanesTyped /\ RegistryTyped /\ JobsTyped /\ StreamsTyped /\ LeasesHeld /\ JobsLeased
      /\ RegistryInOrder /\ GenerationsInOrder /\ NoFault
  BY InvariantParts
<1>2. /\ current \in Registered /\ reported = current
      /\ \A g \in Registered : users[g] = Cardinality(Holders(lease, g))
      /\ \A g \in Range(releasable) : g \in Registered /\ g # current /\ users[g] = 0
  BY <1>1, RegistryCounts
<1>3. PICK g : g = lease[e]
  OBVIOUS
<1>4. /\ g # None /\ g = lease[e] /\ outstanding[e] = {}
      /\ users' = [h \in Registered |-> IF h = g THEN users[h] - 1 ELSE users[h]]
      /\ IF g \in Registered /\ users[g] = 1 /\ current # g
         THEN QueueRelease(g) ELSE UNCHANGED releasable
      /\ lease' = [lease EXCEPT ![e] = None]
      /\ UNCHANGED <<fault, outstanding, running, intake, current, reported, resident,
                     batch, deferred, inFlight>>
  BY <1>3 DEF CompleteEpisode, DropLease, batcherVars, serverVars
<1>5. g \in Registered /\ g \in Resident /\ g \in Generations
  BY <1>1, <1>4 DEF LeasesHeld, RegistryTyped
<1>6. lease \in [Episodes -> Generations \cup {None}] /\ DOMAIN lease = Episodes /\ lease[e] # None
  BY <1>1, <1>4 DEF LanesTyped
<1>7. LanesTyped'
  BY <1>1, <1>4, <1>6 DEF LanesTyped
<1>8. NoFault'
  BY <1>1, <1>4 DEF NoFault
<1>9. Registered' = Registered /\ Resident' = Resident
  BY <1>4 DEF Registered, Resident
<1>10. ASSUME NEW h \in Registered
       PROVE  /\ users'[h] = Cardinality(Holders(lease', h))
              /\ (h # g => users'[h] = users[h]) /\ (h = g => users'[h] = users[h] - 1)
  <2>1. h # None
    BY <1>1, GenerationParts DEF RegistryTyped
  <2>2. CASE h = g
    <3>1. users'[h] = users[h] - 1
      BY <1>4, <2>2
    <3>2. Cardinality(Holders(lease', h)) = Cardinality(Holders(lease, h)) - 1
      <4>1. PICK k : k = lease'
        OBVIOUS
      <4>2. Changed(lease, k, e, None)
        BY <1>4, <1>6, <4>1 DEF Changed
      <4>3. Cardinality(Holders(k, lease[e])) = Cardinality(Holders(lease, lease[e])) - 1
        BY <1>6, <4>2, HolderAdded
      <4> QED BY <1>4, <2>2, <4>1, <4>3
    <3> QED BY <1>2, <2>2, <3>1, <3>2
  <2>3. CASE h # g
    <3>1. users'[h] = users[h]
      BY <1>4, <2>3
    <3>2. Holders(lease', h) = Holders(lease, h)
      <4>1. PICK k : k = lease'
        OBVIOUS
      <4>2. Changed(lease, k, e, None)
        BY <1>4, <1>6, <4>1 DEF Changed
      <4>3. h # lease[e]
        BY <1>4, <2>3
      <4>4. Holders(k, h) = Holders(lease, h)
        BY <1>6, <2>1, <4>2, <4>3, HolderAdded
      <4> QED BY <4>1, <4>4
    <3> QED BY <1>2, <2>3, <3>1, <3>2
  <2> QED BY <2>2, <2>3
<1>11. users[g] > 0 /\ users[g] \in Nat
  <2>1. Cardinality(Holders(lease, g)) \in Nat /\ Cardinality(Holders(lease, g)) # 0
    BY <1>4, HoldersCounted
  <2> QED BY <1>2, <1>5, <2>1
<1>12. /\ releasable' \in Seq(Generations) /\ IsInjective(releasable')
       /\ \A h \in Range(releasable') : h \in Range(releasable) \/ (h = g /\ users[g] = 1 /\ current # g)
  <2>1. CASE users[g] = 1 /\ current # g
    BY <1>1, <1>4, <1>5, <2>1, ReleaseQueued
  <2>2. CASE ~(users[g] = 1 /\ current # g)
    BY <1>1, <1>4, <2>2 DEF RegistryTyped
  <2> QED BY <2>1, <2>2
<1>13. RegistryInOrder'
  <2>1. ASSUME NEW h \in Range(releasable') PROVE h \in Registered /\ h # current /\ users'[h] = 0
    <3>1. CASE h \in Range(releasable)
      BY <1>2, <1>10, <1>11, <3>1
    <3>2. CASE h = g /\ users[g] = 1 /\ current # g
      BY <1>5, <1>10, <3>2
    <3> QED BY <1>12, <3>1, <3>2
  <2> QED BY <1>2, <1>4, <1>9, <1>10, <2>1, RegistryCountsNext
<1>14. RegistryTyped'
  <2>1. \A h \in Registered : users'[h] \in 0..Cardinality(Episodes)
    BY <1>10, HoldersCounted
  <2>2. users' \in [Registered -> 0..Cardinality(Episodes)]
    <3>1. DOMAIN users' = Registered /\ users' = [h \in Registered |-> users'[h]]
      BY <1>4
    <3> QED BY <2>1, <3>1
  <2> QED BY <1>1, <1>4, <1>9, <1>12, <2>2 DEF RegistryTyped
<1>15. LeasesHeld'
  <2>1. \A x \in Episodes : lease'[x] = IF x = e THEN None ELSE lease[x]
    BY <1>4, <1>6
  <2> QED BY <1>1, <1>9, <2>1 DEF LeasesHeld
<1>16. JobsLeased'
  <2>1. \A j \in Queued : j.episode \in Episodes /\ j.token \in Token
    BY <1>1, QueuedTyped
  <2>2. ASSUME NEW j \in Queued PROVE j.episode # e
    <3>1. j.token \in outstanding[j.episode]
      BY <1>1, <2>1 DEF JobsLeased
    <3> QED BY <1>4, <3>1
  <2> QED BY <1>1, <1>4, <2>1, <2>2, LeaseChanged
<1> QED BY <1>7, <1>8, <1>13, <1>14, <1>15, <1>16

-----------------------------------------------------------------------------
(* Releases.                                                               *)

ReleasesOf(s) == {i \in DOMAIN s : s[i].type = "MODEL_RELEASE"}
Superseded(s, held, known, c) ==
  \A i \in ReleasesOf(s) :
    /\ s[i].model \in held \ known
    /\ s[i].model.version < c.version
    /\ \A k \in ReleasesOf(s) : s[k].model = s[i].model => k = i
Announced(s, held, c) ==
  \A i \in DOMAIN s :
    /\ s[i].active \in held /\ c.version <= s[i].active.version
    /\ \A k \in DOMAIN s : i < k => s[i].active.version <= s[k].active.version
KnownHeld == \A g \in Registered : g \in Resident /\ g.version <= current.version
ServerOrder ==
  /\ \A v, w \in DOMAIN resident : v < w => resident[v] < resident[w]
  /\ active \in Resident /\ active.id = nextGeneration - 1 /\ active.id <= active.version
  /\ \A v \in DOMAIN resident : v <= active.version

(* The order of the generations, part by part. *)
LEMMA GenerationsParts ==
  GenerationsInOrder <=>
    /\ ServerOrder /\ KnownHeld /\ Superseded(toServer, Resident, Registered, current)
    /\ Announced(toClient, Resident, current)
BY DEF GenerationsInOrder, ServerOrder, KnownHeld, Superseded, Announced, ReleasesOf, ReleasePlaces

(* ... and after a step. *)
LEMMA GenerationsPartsNext ==
  GenerationsInOrder' <=>
    /\ ServerOrder' /\ KnownHeld' /\ Superseded(toServer', Resident', Registered', current')
    /\ Announced(toClient', Resident', current')
BY DEF GenerationsInOrder, ServerOrder, KnownHeld, Superseded, Announced, ReleasesOf, ReleasePlaces

(* The versions of the generations are numbers. *)
LEMMA VersionsInt ==
  /\ \A v \in Versions : v \in Nat /\ v > 0 /\ v <= MaxVersion
  /\ \A g \in Generations : g.version \in Nat /\ g.version > 0 /\ g.id \in Nat
  /\ MaxVersion \in Nat
<1>1. \A v \in Versions : v \in Nat /\ v > 0 /\ v <= MaxVersion
  BY ServingAssumption DEF Versions
<1> QED BY <1>1, GenerationParts, ServingAssumption

(* What is registered, not current and resident is older than the current. *)
LEMMA OlderThanCurrent ==
  ASSUME RegistryTyped, ServerTyped, GenerationsInOrder, current \in Registered,
         NEW g \in Registered, g # current
  PROVE  g.version < current.version /\ g \in Resident
<1>1. g \in Resident /\ current \in Resident /\ g.version <= current.version
  BY DEF GenerationsInOrder
<1>2. g.version # current.version
  BY <1>1, ResidentOrder
<1>3. g.version \in Nat /\ current.version \in Nat
  BY VersionsInt DEF RegistryTyped
<1> QED BY <1>1, <1>2, <1>3

(* The stream with the frames of the generations to release. *)
LEMMA FramesAppended ==
  ASSUME RegistryTyped, StreamsTyped, NEW mid, mid = Join(toServer, ReleaseFrames)
  PROVE  /\ mid \in Seq(Frames) /\ EvalsOf(mid) = EvalsOf(toServer)
         /\ Len(mid) = Len(toServer) + Len(releasable)
         /\ \A i \in 1..Len(toServer) : mid[i] = toServer[i]
         /\ \A i \in 1..Len(releasable) : mid[Len(toServer) + i] = ReleaseFrame(releasable[i])
<1>1. releasable \in Seq(Generations) /\ toServer \in Seq(Frames)
  BY DEF RegistryTyped, StreamsTyped
<1>2. PICK n \in Nat : n = Len(releasable) /\ DOMAIN releasable = 1..n
  BY <1>1, SeqHolds
<1>3. PICK m \in Nat : m = Len(toServer)
  BY <1>1, SeqHolds
<1>4. PICK r : r = ReleaseFrames
  OBVIOUS
<1>5. r = [i \in 1..n |-> ReleaseFrame(releasable[i])]
  BY <1>2, <1>4 DEF ReleaseFrames
<1>6. \A i \in 1..n : ReleaseFrame(releasable[i]) \in Frames /\ ReleaseFrame(releasable[i]).type # "EVAL"
  <2>1. \A i \in 1..n : releasable[i] \in Generations
    BY <1>1, <1>2, SeqHolds
  <2>2. \A g \in Generations : ReleaseFrame(g) \in Frames /\ ReleaseFrame(g).type # "EVAL"
    BY DEF ReleaseFrame, Frames
  <2> QED BY <2>1, <2>2
<1>7. r \in Seq(Frames) /\ Len(r) = n
  BY <1>5, <1>6
<1>8. EvalsOf(r) = {} /\ mid = Join(toServer, r)
  <2>1. EvalsOf(r) = {}
    BY <1>5, <1>6 DEF EvalsOf
  <2>2. mid = Join(toServer, r)
    BY <1>4
  <2> QED BY <2>1, <2>2
<1>9. mid \in Seq(Frames) /\ EvalsOf(mid) = EvalsOf(toServer) /\ \A i \in 1..Len(toServer) : mid[i] = toServer[i]
  BY <1>1, <1>7, <1>8, EvalsKept
<1>10. Len(mid) = m + n /\ \A i \in 1..n : mid[m + i] = r[i]
  <2>0. toServer \in Seq(Frames) /\ r \in Seq(Frames) /\ mid = Join(toServer, r)
    BY <1>1, <1>7, <1>8
  <2>1. mid \in Seq(Frames) /\ Len(mid) = Len(toServer) + Len(r)
    BY <2>0, JoinedTyped
  <2>2. \A i \in 1..Len(r) : mid[Len(toServer) + i] = r[i]
    BY <2>0, Joined
  <2> QED BY <1>3, <1>7, <2>1, <2>2
<1> QED BY <1>2, <1>3, <1>5, <1>9, <1>10

(* Every release in the stream is of a superseded generation that the        *)
(* registry gave up, also after those that are released now.                 *)
LEMMA ReleasesStale ==
  ASSUME ServingInOrder, NEW mid, mid = Join(toServer, ReleaseFrames)
  PROVE  Superseded(mid, Resident, Registered \ Range(releasable), current)
<1>1. RegistryTyped /\ StreamsTyped /\ ServerTyped /\ RegistryInOrder /\ GenerationsInOrder
  BY InvariantParts
<1>0. toServer \in Seq(Frames) /\ releasable \in Seq(Generations)
  BY <1>1 DEF StreamsTyped, RegistryTyped
<1>2. PICK m \in Nat : m = Len(toServer) /\ DOMAIN toServer = 1..m
  BY <1>0, SeqHolds
<1>3. PICK n \in Nat : n = Len(releasable) /\ DOMAIN releasable = 1..n
  BY <1>0, SeqHolds
<1>4. /\ mid \in Seq(Frames) /\ Len(mid) = m + n
      /\ \A i \in 1..m : mid[i] = toServer[i]
      /\ \A i \in 1..n : mid[m + i] = ReleaseFrame(releasable[i])
  BY <1>1, <1>2, <1>3, FramesAppended
<1>5. DOMAIN mid = 1..(m + n)
  BY <1>4, SeqHolds
<1>6. \A i \in 1..(m + n) : i \in 1..m \/ (i \notin 1..m /\ i - m \in 1..n /\ i = m + (i - m))
  OBVIOUS
<1>7. ASSUME NEW i \in ReleasesOf(mid), i \in 1..m
      PROVE  /\ i \in ReleasesOf(toServer) /\ mid[i].model = toServer[i].model
             /\ mid[i].model \in Resident /\ mid[i].model \notin Registered
             /\ mid[i].model.version < current.version
  <2>1. i \in ReleasesOf(toServer) /\ mid[i] = toServer[i]
    BY <1>2, <1>4, <1>7 DEF ReleasesOf
  <2> QED BY <1>1, <2>1, GenerationsParts DEF Superseded
<1>8. ASSUME NEW i \in ReleasesOf(mid), i \notin 1..m
      PROVE  /\ i - m \in 1..n /\ mid[i].model = releasable[i - m]
             /\ mid[i].model \in Range(releasable) /\ mid[i].model \in Registered
             /\ mid[i].model \in Resident /\ mid[i].model.version < current.version
  <2>1. i \in 1..(m + n)
    BY <1>5 DEF ReleasesOf
  <2>2. i - m \in 1..n /\ mid[i] = ReleaseFrame(releasable[i - m])
    BY <1>4, <1>6, <1>8, <2>1
  <2>3. mid[i].model = releasable[i - m] /\ releasable[i - m] \in Range(releasable)
    BY <1>3, <2>2 DEF ReleaseFrame, Range
  <2>4. mid[i].model \in Registered /\ mid[i].model # current /\ current \in Registered
    BY <1>1, <2>3, RegistryCounts
  <2>5. mid[i].model \in Resident /\ mid[i].model.version < current.version
    BY <1>1, <2>4, OlderThanCurrent
  <2> QED BY <2>2, <2>3, <2>4, <2>5
<1>9. ASSUME NEW i \in ReleasesOf(mid), NEW k \in ReleasesOf(mid), mid[k].model = mid[i].model
      PROVE  k = i
  <2>1. CASE i \in 1..m /\ k \in 1..m
    <3>1. i \in ReleasesOf(toServer) /\ k \in ReleasesOf(toServer) /\ toServer[k].model = toServer[i].model
      BY <1>7, <1>9, <2>1
    <3> QED BY <1>1, <3>1, GenerationsParts DEF Superseded
  <2>2. CASE i \notin 1..m /\ k \notin 1..m
    <3>1. i - m \in 1..n /\ k - m \in 1..n /\ releasable[k - m] = releasable[i - m]
      BY <1>8, <1>9, <2>2
    <3>2. k - m = i - m
      BY <1>1, <1>3, <3>1 DEF RegistryTyped, IsInjective
    <3>3. i \in Int /\ k \in Int
      BY <1>5 DEF ReleasesOf
    <3> QED BY <3>2, <3>3
  <2>3. CASE i \in 1..m /\ k \notin 1..m
    BY <1>7, <1>8, <1>9, <2>3
  <2>4. CASE i \notin 1..m /\ k \in 1..m
    BY <1>7, <1>8, <1>9, <2>4
  <2> QED BY <2>1, <2>2, <2>3, <2>4
<1>10. \A i \in ReleasesOf(mid) : /\ mid[i].model \in Resident \ (Registered \ Range(releasable))
                                  /\ mid[i].model.version < current.version
  BY <1>7, <1>8
<1> QED BY <1>9, <1>10 DEF Superseded

(* Releasing forgets generations that nobody holds. *)
LEMMA TakeInOrder ==
  ASSUME ServingInOrder, TakeReleasable, UNCHANGED <<lease, resident, reported>>
  PROVE  /\ RegistryTyped' /\ RegistryInOrder' /\ NoFault' /\ LeasesHeld' /\ KnownHeld'
         /\ Resident' = Resident /\ Registered' = Registered \ Range(releasable)
         /\ current' = current
<1>1. /\ RegistryTyped /\ ServerTyped /\ NoFault /\ LeasesHeld
      /\ RegistryInOrder /\ GenerationsInOrder
  BY InvariantParts
<1>2. /\ current \in Registered /\ reported = current
      /\ \A g \in Registered : users[g] = Cardinality(Holders(lease, g))
      /\ \A g \in Range(releasable) : g \in Registered /\ g # current /\ users[g] = 0
  BY <1>1, RegistryCounts
<1>3. /\ releasable' = <<>> /\ users' = [g \in Registered \ Range(releasable) |-> users[g]]
      /\ current' = current /\ fault' = fault
  BY <1>2 DEF TakeReleasable
<1>4. Registered' = Registered \ Range(releasable) /\ Resident' = Resident
  BY <1>3 DEF Registered, Resident
<1>5. releasable' \in Seq(Generations) /\ IsInjective(releasable') /\ Range(releasable') = {}
  BY <1>3 DEF IsInjective, Range
<1>6. RegistryTyped'
  BY <1>1, <1>3, <1>4, <1>5 DEF RegistryTyped
<1>7. RegistryInOrder'
  BY <1>2, <1>3, <1>4, <1>5, RegistryCountsNext
<1>8. NoFault'
  BY <1>1, <1>3 DEF NoFault
<1>9. LeasesHeld'
  <2>1. ASSUME NEW e \in Episodes, lease[e] # None PROVE lease[e] \notin Range(releasable)
    <3>1. Cardinality(Holders(lease, lease[e])) # 0
      BY HoldersCounted
    <3> QED BY <1>2, <3>1
  <2> QED BY <1>1, <1>4, <2>1 DEF LeasesHeld
<1>10. KnownHeld'
  BY <1>1, <1>3, <1>4, GenerationsParts DEF KnownHeld
<1> QED BY <1>3, <1>4, <1>6, <1>7, <1>8, <1>9, <1>10

-----------------------------------------------------------------------------
(* Replies.                                                                *)

(* The versions that are held are finitely many. *)
LEMMA HeldFinite ==
  ASSUME ServerTyped, LoaderTyped, ResidentBounded
  PROVE  /\ IsFiniteSet(DOMAIN resident) /\ Cardinality(DOMAIN resident) \in Nat
         /\ Cardinality(DOMAIN resident) <= MaxResident
<1>1. PICK D : D = DOMAIN resident
  OBVIOUS
<1>2. PICK V : V = Versions
  OBVIOUS
<1>3. IsFiniteSet(V)
  <2>1. IsFiniteSet(1..MaxVersion)
    BY ServingAssumption, FS_Interval
  <2> QED BY <1>2, <2>1 DEF Versions
<1>4. D \in SUBSET V
  BY <1>1, <1>2 DEF ServerTyped
<1>5. IsFiniteSet(D) /\ Cardinality(D) \in Nat
  BY <1>3, <1>4, FS_Subset, FS_CardinalityType
<1>6. PICK c \in Nat : c = Cardinality(D)
  BY <1>5
<1>7. c <= Occupied /\ Occupied \in Nat
  BY <1>1, <1>6 DEF Occupied
<1>8. c <= MaxResident
  BY <1>7, ServingAssumption DEF ResidentBounded
<1> QED BY <1>1, <1>5, <1>6, <1>8

(* There is room in the registry for whatever the evaluator announces: what  *)
(* the registry has is resident there.                                       *)
LEMMA RoomToPublish ==
  ASSUME ServingInOrder, NEW g \in Resident
  PROVE  PublishError(g) = "none"
<1>1. ServerTyped /\ LoaderTyped /\ ResidentBounded /\ GenerationsInOrder /\ RegistryTyped
  BY InvariantParts
<1>2. \A h \in Registered : h \in Resident
  BY <1>1 DEF GenerationsInOrder
<1>3. \A h \in Registered : (h.id = g.id => h.version = g.version) /\ (h.version = g.version => h.id = g.id)
  BY <1>1, <1>2, ResidentOrder
<1>4. PICK D : D = DOMAIN resident
  OBVIOUS
<1>5. PICK K : K = Registered
  OBVIOUS
<1>6. ASSUME g \notin Registered PROVE ~(Cardinality(Registered) >= MaxResident)
  <2>1. PICK f : f = [h \in K \cup {g} |-> h.version]
    OBVIOUS
  <2>2. \A h \in K \cup {g} : h \in Resident
    BY <1>2, <1>5
  <2>3. \A h \in K \cup {g} : h.version \in D
    BY <1>1, <1>4, <2>2, ResidentOrder
  <2>4. \A h, k \in K \cup {g} : h.version = k.version => h = k
    BY <1>1, <2>2, ResidentOrder
  <2>5. f \in Injection(K \cup {g}, D)
    BY <2>1, <2>3, <2>4 DEF Injection, IsInjective
  <2>6. IsFiniteSet(D) /\ Cardinality(D) \in Nat /\ Cardinality(D) <= MaxResident
    BY <1>1, <1>4, HeldFinite
  <2>7. PICK T : T = K \cup {g}
    OBVIOUS
  <2>8. IsFiniteSet(T) /\ Cardinality(T) <= Cardinality(D)
    BY <2>5, <2>6, <2>7, FS_Injection
  <2>9. K = T \ {g} /\ g \in T
    BY <1>5, <1>6, <2>7
  <2>10. IsFiniteSet(K) /\ Cardinality(K) = Cardinality(T) - 1
    BY <2>8, <2>9, FS_RemoveElement
  <2>11. Cardinality(T) \in Nat /\ Cardinality(K) \in Nat
    BY <2>8, <2>10, FS_CardinalityType
  <2> QED BY <1>5, <2>6, <2>8, <2>10, <2>11, ServingAssumption
<1> QED BY <1>3, <1>6 DEF PublishError

(* An announced generation becomes the current one. *)
LEMMA PublishInOrder ==
  ASSUME ServingInOrder, NEW g \in Resident, current.version <= g.version,
         Publish(g), reported' = g, UNCHANGED <<lease, resident>>
  PROVE  /\ RegistryTyped' /\ RegistryInOrder' /\ NoFault' /\ LeasesHeld' /\ KnownHeld'
         /\ Resident' = Resident /\ Registered' = Registered \cup {g} /\ current' = g
<1>1. /\ RegistryTyped /\ ServerTyped /\ NoFault /\ LeasesHeld
      /\ RegistryInOrder /\ GenerationsInOrder
  BY InvariantParts
<1>2. /\ current \in Registered /\ reported = current
      /\ \A h \in Registered : users[h] = Cardinality(Holders(lease, h))
      /\ \A h \in Range(releasable) : h \in Registered /\ h # current /\ users[h] = 0
  BY <1>1, RegistryCounts
<1>3. Resident' = Resident
  BY DEF Resident
<1>4. KnownHeld /\ g \in Generations /\ g.version \in Nat /\ current \in Generations /\ current.version \in Nat
  BY <1>1, ResidentOrder, VersionsInt, GenerationsParts DEF RegistryTyped
<1>5. CASE g = current
  <2>1. UNCHANGED <<current, users, releasable, fault>>
    BY <1>5 DEF Publish, registryVars
  <2>2. Registered' = Registered /\ Registered = Registered \cup {g} /\ current' = g
    BY <1>2, <1>5, <2>1 DEF Registered
  <2>3. RegistryTyped'
    BY <1>1, <2>1, <2>2 DEF RegistryTyped
  <2>4. RegistryInOrder'
    BY <1>2, <1>5, <2>1, <2>2, RegistryCountsNext
  <2>5. NoFault'
    BY <1>1, <2>1 DEF NoFault
  <2>6. LeasesHeld'
    BY <1>1, <1>3, <2>2 DEF LeasesHeld
  <2>7. KnownHeld'
    BY <1>3, <1>4, <2>1, <2>2 DEF KnownHeld
  <2> QED BY <1>3, <2>2, <2>3, <2>4, <2>5, <2>6, <2>7
<1>6. CASE g # current
  <2>1. PublishError(g) = "none"
    BY RoomToPublish
  <2>2. /\ users' = [h \in Registered \cup {g} |-> IF h \in Registered THEN users[h] ELSE 0]
        /\ current' = g /\ fault' = fault
        /\ IF current \in Registered /\ users[current] = 0
           THEN QueueRelease(current) ELSE UNCHANGED releasable
    BY <1>6, <2>1 DEF Publish
  <2>3. Registered' = Registered \cup {g}
    BY <2>2 DEF Registered
  <2>4. /\ releasable' \in Seq(Generations) /\ IsInjective(releasable')
        /\ \A h \in Range(releasable') : h \in Range(releasable) \/ (h = current /\ users[current] = 0)
    <3>1. CASE users[current] = 0
      BY <1>1, <1>2, <1>4, <2>2, <3>1, ReleaseQueued
    <3>2. CASE users[current] # 0
      BY <1>1, <1>2, <2>2, <3>2 DEF RegistryTyped
    <3> QED BY <3>1, <3>2
  <2>5. ASSUME NEW h \in Registered \cup {g} PROVE users'[h] = Cardinality(Holders(lease, h))
    <3>1. CASE h \in Registered
      BY <1>2, <2>2, <3>1
    <3>2. CASE h \notin Registered
      <4>1. users'[h] = 0 /\ h = g /\ h # None
        BY <1>4, <2>2, <3>2, GenerationParts
      <4>2. \A x \in Episodes : lease[x] # h
        BY <1>1, <3>2, <4>1 DEF LeasesHeld
      <4>3. Cardinality(Holders(lease, h)) = 0
        BY <4>2, HoldersCounted
      <4> QED BY <4>1, <4>3
    <3> QED BY <3>1, <3>2
  <2>6. RegistryTyped'
    <3>1. \A h \in Registered \cup {g} : users'[h] \in 0..Cardinality(Episodes)
      BY <2>5, HoldersCounted
    <3>2. DOMAIN users' = Registered \cup {g} /\ users' = [h \in Registered \cup {g} |-> users'[h]]
      BY <2>2
    <3>3. users' \in [Registered \cup {g} -> 0..Cardinality(Episodes)]
      BY <3>1, <3>2
    <3> QED BY <1>1, <1>4, <2>2, <2>3, <2>4, <3>3 DEF RegistryTyped
  <2>7. RegistryInOrder'
    <3>1. ASSUME NEW h \in Range(releasable') PROVE h \in Registered /\ h # g /\ users'[h] = 0
      <4>1. CASE h \in Range(releasable)
        <5>1. h \in Registered /\ h # current /\ users[h] = 0
          BY <1>2, <4>1
        <5>2. h.version < current.version /\ h.version \in Nat
          BY <1>1, <1>2, <5>1, OlderThanCurrent, VersionsInt DEF RegistryTyped
        <5>3. h # g
          BY <1>4, <5>2
        <5> QED BY <2>2, <5>1, <5>3
      <4>2. CASE h = current /\ users[current] = 0
        BY <1>2, <1>6, <2>2, <4>2
      <4> QED BY <2>4, <4>1, <4>2
    <3>2. lease' = lease
      OBVIOUS
    <3> QED BY <2>2, <2>3, <2>5, <3>1, <3>2, RegistryCountsNext
  <2>8. NoFault'
    BY <1>1, <2>2 DEF NoFault
  <2>9. LeasesHeld'
    BY <1>1, <1>3, <2>3 DEF LeasesHeld
  <2>10. KnownHeld'
    <3>1. \A h \in Registered : h \in Resident /\ h.version <= current.version /\ h.version \in Nat
      BY <1>1, <1>4, VersionsInt DEF KnownHeld, RegistryTyped
    <3>2. \A h \in Registered \cup {g} : h \in Resident /\ h.version <= g.version
      BY <1>4, <3>1
    <3> QED BY <1>3, <2>2, <2>3, <3>2 DEF KnownHeld
  <2> QED BY <1>3, <2>2, <2>3, <2>6, <2>7, <2>8, <2>9, <2>10
<1> QED BY <1>5, <1>6

-----------------------------------------------------------------------------
(* The streams.                                                            *)

Adds(s, n, x, t) == t[n + 1] = x /\ \A i \in 1..n : t[i] = s[i]
Rests(s, n, t) == \A i \in 1..(n - 1) : t[i] = s[i + 1]
Ranked(E, q) == \A i \in E : Rank(E, i) \in Nat /\ 1 <= Rank(E, i) /\ Rank(E, i) <= q
RestsEval(E, m, d, F) ==
  \A i \in F : i + 1 \in E /\ i \in 1..(m - 1) /\ Rank(F, i) = Rank(E, i + 1) - d
Lined(fl, n, tc, c, la, l, ts, E, q) ==
  /\ n = c + l + q
  /\ \A i \in 1..c : tc[i].version = fl[i].model.version
  /\ \A i \in 1..l : la[i] = fl[c + i].model.version
  /\ \A i \in E : ts[i].model = fl[c + l + Rank(E, i)].model

(* The first reply answers the oldest batch in flight. *)
LEMMA LinedDrain ==
  ASSUME NEW n \in Nat, NEW c \in Nat, NEW l \in Nat, NEW q \in Nat, c > 0,
         NEW fl, NEW tc, NEW la, NEW ts, NEW E, Lined(fl, n, tc, c, la, l, ts, E, q),
         Ranked(E, q), NEW fm, NEW td, Rests(fl, n, fm), Rests(tc, c, td)
  PROVE  /\ tc[1].version = fl[1].model.version
         /\ Lined(fm, n - 1, td, c - 1, la, l, ts, E, q)
<1>1. n = c + l + q
  BY DEF Lined
<1>2. \A i \in 1..c : tc[i].version = fl[i].model.version
  BY DEF Lined
<1>3. \A i \in 1..(c - 1) : td[i].version = fm[i].model.version
  <2> SUFFICES ASSUME NEW i \in 1..(c - 1) PROVE td[i].version = fm[i].model.version
    OBVIOUS
  <2>1. i \in 1..(n - 1) /\ i + 1 \in 1..c
    BY <1>1
  <2>2. fm[i] = fl[i + 1] /\ td[i] = tc[i + 1]
    BY <2>1 DEF Rests
  <2> QED BY <1>2, <2>1, <2>2
<1>4. \A i \in 1..l : la[i] = fm[(c - 1) + i].model.version
  <2> SUFFICES ASSUME NEW i \in 1..l PROVE la[i] = fm[(c - 1) + i].model.version
    OBVIOUS
  <2>1. (c - 1) + i \in 1..(n - 1) /\ ((c - 1) + i) + 1 = c + i
    BY <1>1
  <2>2. fm[(c - 1) + i] = fl[c + i]
    BY <2>1 DEF Rests
  <2> QED BY <2>2 DEF Lined
<1>5. \A i \in E : ts[i].model = fm[(c - 1) + l + Rank(E, i)].model
  <2> SUFFICES ASSUME NEW i \in E PROVE ts[i].model = fm[(c - 1) + l + Rank(E, i)].model
    OBVIOUS
  <2>1. PICK r \in Nat : r = Rank(E, i) /\ 1 <= r /\ r <= q
    BY DEF Ranked
  <2>2. (c - 1) + l + r \in 1..(n - 1) /\ ((c - 1) + l + r) + 1 = c + l + r
    BY <1>1, <2>1
  <2>3. fm[(c - 1) + l + r] = fl[c + l + r]
    BY <2>2 DEF Rests
  <2> QED BY <2>1, <2>3 DEF Lined
<1>6. 1 \in 1..c /\ n - 1 = (c - 1) + l + q
  BY <1>1
<1> QED BY <1>2, <1>3, <1>4, <1>5, <1>6 DEF Lined

(* A batch that is submitted is the last in flight, and in the stream. *)
LEMMA LinedSubmit ==
  ASSUME NEW n \in Nat, NEW c \in Nat, NEW l \in Nat, NEW q \in Nat, NEW m \in Nat,
         NEW fl, NEW tc, NEW la, NEW ts, NEW E, Lined(fl, n, tc, c, la, l, ts, E, q),
         Ranked(E, q), NEW fm, NEW tm, NEW b, NEW f, NEW F, f.model = b.model,
         Adds(fl, n, b, fm), Adds(ts, m, f, tm), AddsEval(E, m, q, F)
  PROVE  Lined(fm, n + 1, tc, c, la, l, tm, F, q + 1)
<1>1. n = c + l + q
  BY DEF Lined
<1>2. fm[n + 1] = b /\ \A i \in 1..n : fm[i] = fl[i]
  BY DEF Adds
<1>3. \A i \in 1..c : tc[i].version = fm[i].model.version
  <2> SUFFICES ASSUME NEW i \in 1..c PROVE tc[i].version = fm[i].model.version
    OBVIOUS
  <2>1. i \in 1..n
    BY <1>1
  <2> QED BY <1>2, <2>1 DEF Lined
<1>4. \A i \in 1..l : la[i] = fm[c + i].model.version
  <2> SUFFICES ASSUME NEW i \in 1..l PROVE la[i] = fm[c + i].model.version
    OBVIOUS
  <2>1. c + i \in 1..n
    BY <1>1
  <2> QED BY <1>2, <2>1 DEF Lined
<1>5. \A i \in F : tm[i].model = fm[c + l + Rank(F, i)].model
  <2> SUFFICES ASSUME NEW i \in F PROVE tm[i].model = fm[c + l + Rank(F, i)].model
    OBVIOUS
  <2>1. CASE i \in E
    <3>1. PICK r \in Nat : r = Rank(E, i) /\ 1 <= r /\ r <= q
      BY <2>1 DEF Ranked
    <3>2. r = Rank(F, i) /\ i \in 1..m
      BY <2>1, <3>1 DEF AddsEval
    <3>3. c + l + r \in 1..n
      BY <1>1, <3>1
    <3>4. ts[i].model = fl[c + l + r].model
      BY <2>1, <3>1 DEF Lined
    <3>5. tm[i] = ts[i]
      BY <3>2 DEF Adds
    <3>6. fm[c + l + r] = fl[c + l + r]
      BY <1>2, <3>3
    <3> QED BY <3>2, <3>4, <3>5, <3>6
  <2>2. CASE i = m + 1
    <3>1. Rank(F, i) = q + 1
      BY <2>2 DEF AddsEval
    <3>2. c + l + Rank(F, i) = n + 1
      BY <1>1, <3>1
    <3>3. tm[i] = f
      BY <2>2 DEF Adds
    <3> QED BY <1>2, <3>2, <3>3
  <2> QED BY <2>1, <2>2 DEF AddsEval
<1>6. n + 1 = c + l + (q + 1)
  BY <1>1
<1> QED BY <1>3, <1>4, <1>5, <1>6 DEF Lined

(* The oldest launched batch is answered first. *)
LEMMA LinedFlush ==
  ASSUME NEW n \in Nat, NEW c \in Nat, NEW l \in Nat, NEW q \in Nat, l > 0,
         NEW fl, NEW tc, NEW la, NEW ts, NEW E, Lined(fl, n, tc, c, la, l, ts, E, q),
         NEW r, r.version = la[1], NEW td, NEW lb, Adds(tc, c, r, td), Rests(la, l, lb)
  PROVE  Lined(fl, n, td, c + 1, lb, l - 1, ts, E, q)
<1>1. n = c + l + q
  BY DEF Lined
<1>2. \A i \in 1..l : la[i] = fl[c + i].model.version
  BY DEF Lined
<1>3. \A i \in 1..(c + 1) : td[i].version = fl[i].model.version
  <2> SUFFICES ASSUME NEW i \in 1..(c + 1) PROVE td[i].version = fl[i].model.version
    OBVIOUS
  <2>1. CASE i \in 1..c
    <3>1. td[i] = tc[i]
      BY <2>1 DEF Adds
    <3> QED BY <2>1, <3>1 DEF Lined
  <2>2. CASE i = c + 1
    <3>1. td[i] = r
      BY <2>2 DEF Adds
    <3>2. 1 \in 1..l
      OBVIOUS
    <3> QED BY <1>2, <2>2, <3>1, <3>2
  <2> QED BY <2>1, <2>2
<1>4. \A i \in 1..(l - 1) : lb[i] = fl[(c + 1) + i].model.version
  <2> SUFFICES ASSUME NEW i \in 1..(l - 1) PROVE lb[i] = fl[(c + 1) + i].model.version
    OBVIOUS
  <2>1. i + 1 \in 1..l /\ c + (i + 1) = (c + 1) + i
    OBVIOUS
  <2>2. lb[i] = la[i + 1]
    BY DEF Rests
  <2> QED BY <1>2, <2>1, <2>2
<1>5. (c + 1) + (l - 1) = c + l /\ n = (c + 1) + (l - 1) + q
  BY <1>1
<1>6. \A i \in E : ts[i].model = fl[(c + 1) + (l - 1) + Rank(E, i)].model
  BY <1>5 DEF Lined
<1> QED BY <1>3, <1>4, <1>5, <1>6 DEF Lined

(* The first EVAL frame is for the batch after those that were launched. *)
LEMMA LinedServe ==
  ASSUME NEW n \in Nat, NEW c \in Nat, NEW l \in Nat, NEW q \in Nat, NEW m \in Nat,
         NEW fl, NEW tc, NEW la, NEW ts, NEW E, Lined(fl, n, tc, c, la, l, ts, E, q),
         Ranked(E, q), 1 \in E, Rank(E, 1) = 1, NEW lb, NEW tm, NEW F, NEW v,
         v = ts[1].model.version, Adds(la, l, v, lb), Rests(ts, m, tm), RestsEval(E, m, 1, F)
  PROVE  /\ \E k \in 1..n : ts[1].model = fl[k].model
         /\ Lined(fl, n, tc, c, lb, l + 1, tm, F, q - 1)
<1>1. n = c + l + q /\ q >= 1
  BY DEF Lined, Ranked
<1>2. ts[1].model = fl[c + l + 1].model
  BY DEF Lined
<1>3. c + l + 1 \in 1..n /\ n = c + (l + 1) + (q - 1)
  BY <1>1
<1>4. \A i \in 1..(l + 1) : lb[i] = fl[c + i].model.version
  <2> SUFFICES ASSUME NEW i \in 1..(l + 1) PROVE lb[i] = fl[c + i].model.version
    OBVIOUS
  <2>1. CASE i \in 1..l
    <3>1. lb[i] = la[i]
      BY <2>1 DEF Adds
    <3> QED BY <2>1, <3>1 DEF Lined
  <2>2. CASE i = l + 1
    <3>1. lb[i] = v /\ c + i = c + l + 1
      BY <2>2 DEF Adds
    <3> QED BY <1>2, <3>1
  <2> QED BY <2>1, <2>2
<1>5. \A i \in F : tm[i].model = fl[c + (l + 1) + Rank(F, i)].model
  <2> SUFFICES ASSUME NEW i \in F PROVE tm[i].model = fl[c + (l + 1) + Rank(F, i)].model
    OBVIOUS
  <2>1. i + 1 \in E /\ i \in 1..(m - 1) /\ Rank(F, i) = Rank(E, i + 1) - 1
    BY DEF RestsEval
  <2>2. PICK r \in Nat : r = Rank(E, i + 1)
    BY <2>1 DEF Ranked
  <2>3. tm[i] = ts[i + 1]
    BY <2>1 DEF Rests
  <2>4. c + (l + 1) + Rank(F, i) = c + l + r
    BY <2>1, <2>2
  <2>5. ts[i + 1].model = fl[c + l + r].model
    BY <2>1, <2>2 DEF Lined
  <2> QED BY <2>3, <2>4, <2>5
<1>6. \A i \in 1..c : tc[i].version = fl[i].model.version
  BY DEF Lined
<1> QED BY <1>2, <1>3, <1>4, <1>5, <1>6 DEF Lined

(* A release that is served is no batch's. *)
LEMMA LinedRelease ==
  ASSUME NEW n \in Nat, NEW c \in Nat, NEW l \in Nat, NEW q \in Nat, NEW m \in Nat,
         NEW fl, NEW tc, NEW la, NEW ts, NEW E, Lined(fl, n, tc, c, la, l, ts, E, q),
         Ranked(E, q), NEW tm, NEW F, Rests(ts, m, tm), RestsEval(E, m, 0, F)
  PROVE  Lined(fl, n, tc, c, la, l, tm, F, q)
<1>1. \A i \in F : tm[i].model = fl[c + l + Rank(F, i)].model
  <2> SUFFICES ASSUME NEW i \in F PROVE tm[i].model = fl[c + l + Rank(F, i)].model
    OBVIOUS
  <2>1. i + 1 \in E /\ i \in 1..(m - 1) /\ Rank(F, i) = Rank(E, i + 1) - 0
    BY DEF RestsEval
  <2>2. PICK r \in Nat : r = Rank(E, i + 1)
    BY <2>1 DEF Ranked
  <2>3. tm[i] = ts[i + 1]
    BY <2>1 DEF Rests
  <2>4. Rank(F, i) = r
    BY <2>1, <2>2
  <2>5. ts[i + 1].model = fl[c + l + r].model
    BY <2>1, <2>2 DEF Lined
  <2> QED BY <2>3, <2>4, <2>5
<1> QED BY <1>1 DEF Lined

(* Appending, and taking the head, in these terms. *)
LEMMA AppendAdds ==
  ASSUME NEW S, NEW s \in Seq(S), NEW x \in S, NEW t, t = Append(s, x)
  PROVE  t \in Seq(S) /\ Len(t) = Len(s) + 1 /\ Adds(s, Len(s), x, t)
BY Appended DEF Adds

(* The rest of a sequence. *)
LEMMA TailRests ==
  ASSUME NEW S, NEW s \in Seq(S), s # <<>>, NEW t, t = Tail(s)
  PROVE  /\ t \in Seq(S) /\ Len(t) = Len(s) - 1 /\ Len(s) > 0 /\ Rests(s, Len(s), t)
         /\ Head(s) = s[1] /\ Head(s) \in S
BY Shifted DEF Rests

(* The EVAL frames are ranked up to their number. *)
LEMMA EvalsRanked ==
  ASSUME NEW S, NEW s \in Seq(S)
  PROVE  Ranked(EvalsOf(s), Cardinality(EvalsOf(s))) /\ Cardinality(EvalsOf(s)) \in Nat
<1>1. PICK E : E = EvalsOf(s)
  OBVIOUS
<1>2. E \in SUBSET Nat /\ IsFiniteSet(E) /\ Cardinality(E) \in Nat
  BY <1>1, EvalsFinite
<1>3. Ranked(E, Cardinality(E))
  BY <1>2, RankGrows DEF Ranked
<1> QED BY <1>1, <1>2, <1>3

(* The head is no EVAL frame. *)
LEMMA EvalTailOther ==
  ASSUME NEW S, NEW s \in Seq(S), s # <<>>, s[1].type # "EVAL", NEW t, t = Tail(s)
  PROVE  /\ RestsEval(EvalsOf(s), Len(s), 0, EvalsOf(t))
         /\ Cardinality(EvalsOf(t)) = Cardinality(EvalsOf(s))
<1>1. PICK E : E = EvalsOf(s)
  OBVIOUS
<1>2. PICK F : F = EvalsOf(t)
  OBVIOUS
<1>3. /\ Cardinality(F) = Cardinality(E)
      /\ \A i \in F : i + 1 \in E /\ i \in 1..Len(t) /\ Rank(F, i) = Rank(E, i + 1)
  BY <1>1, <1>2, EvalsPassed
<1>4. Len(t) = Len(s) - 1
  BY Shifted
<1>5. \A i \in E : Rank(E, i) \in Nat
  BY <1>1, EvalsFinite, RankGrows
<1>6. \A i \in F : Rank(F, i) = Rank(E, i + 1) - 0
  BY <1>3, <1>5
<1>7. RestsEval(E, Len(s), 0, F)
  BY <1>3, <1>4, <1>6 DEF RestsEval
<1> QED BY <1>1, <1>2, <1>3, <1>7

(* The head is an EVAL frame. *)
LEMMA EvalTail ==
  ASSUME NEW S, NEW s \in Seq(S), s # <<>>, s[1].type = "EVAL", NEW t, t = Tail(s)
  PROVE  /\ RestsEval(EvalsOf(s), Len(s), 1, EvalsOf(t))
         /\ 1 \in EvalsOf(s) /\ Rank(EvalsOf(s), 1) = 1
         /\ Cardinality(EvalsOf(t)) = Cardinality(EvalsOf(s)) - 1
<1>1. PICK E : E = EvalsOf(s)
  OBVIOUS
<1>2. PICK F : F = EvalsOf(t)
  OBVIOUS
<1>3. /\ Cardinality(F) = Cardinality(E) - 1 /\ 1 \in E /\ Rank(E, 1) = 1
      /\ \A i \in F : i + 1 \in E /\ i \in 1..Len(t) /\ Rank(F, i) = Rank(E, i + 1) - 1
  BY <1>1, <1>2, EvalServed
<1>4. Len(t) = Len(s) - 1
  BY Shifted
<1>5. RestsEval(E, Len(s), 1, F)
  BY <1>3, <1>4 DEF RestsEval
<1> QED BY <1>1, <1>2, <1>3, <1>5

StreamLine ==
  Lined(inFlight, Len(inFlight), toClient, Len(toClient), launched, Len(launched),
        toServer, EvalsOf(toServer), Cardinality(EvalsOf(toServer)))

(* The order of the streams, of their values. *)
LEMMA StreamParts ==
  ASSUME StreamsTyped
  PROVE  StreamsInOrder <=> StreamLine /\ (adopting # 0 => 1 \in EvalsOf(toServer))
<1>1. toClient \in Seq(Replies) /\ launched \in Seq(Versions)
  BY DEF StreamsTyped
<1>2. DOMAIN toClient = 1..Len(toClient) /\ DOMAIN launched = 1..Len(launched)
  BY <1>1, SeqHolds
<1>3. EvalPlaces = EvalsOf(toServer)
  BY DEF EvalPlaces, EvalsOf
<1> QED BY <1>2, <1>3 DEF StreamsInOrder, StreamLine, Lined

(* ... and after a step. *)
LEMMA StreamPartsNext ==
  ASSUME StreamsTyped'
  PROVE  StreamsInOrder' <=> StreamLine' /\ (adopting' # 0 => 1 \in EvalsOf(toServer'))
<1>1. toClient' \in Seq(Replies) /\ launched' \in Seq(Versions)
  BY DEF StreamsTyped
<1>2. DOMAIN toClient' = 1..Len(toClient') /\ DOMAIN launched' = 1..Len(launched')
  BY <1>1, SeqHolds
<1>3. EvalPlaces' = EvalsOf(toServer')
  BY DEF EvalPlaces, EvalsOf
<1> QED BY <1>2, <1>3 DEF StreamsInOrder, StreamLine, Lined

(* The lengths are numbers, and together those in flight. *)
LEMMA StreamLengths ==
  ASSUME ServingInOrder
  PROVE  /\ Len(inFlight) \in Nat /\ Len(toClient) \in Nat /\ Len(launched) \in Nat
         /\ Len(toServer) \in Nat /\ Cardinality(EvalsOf(toServer)) \in Nat
         /\ Len(inFlight) = Len(toClient) + Len(launched) + Cardinality(EvalsOf(toServer))
         /\ Len(inFlight) <= Depth /\ Depth \in Nat
         /\ StreamLine /\ Ranked(EvalsOf(toServer), Cardinality(EvalsOf(toServer)))
<1>1. StreamsTyped /\ StreamsInOrder
  BY InvariantParts
<1>2. /\ inFlight \in Seq(Batches) /\ toServer \in Seq(Frames)
      /\ toClient \in Seq(Replies) /\ launched \in Seq(Versions) /\ Len(inFlight) <= Depth
  BY <1>1 DEF StreamsTyped
<1>3. Len(inFlight) \in Nat /\ Len(toClient) \in Nat /\ Len(launched) \in Nat /\ Len(toServer) \in Nat
  BY <1>2, SeqHolds
<1>4. /\ Cardinality(EvalsOf(toServer)) \in Nat
      /\ Ranked(EvalsOf(toServer), Cardinality(EvalsOf(toServer)))
  BY <1>2, EvalsRanked
<1>5. StreamLine
  BY <1>1, StreamParts
<1>6. Len(inFlight) = Len(toClient) + Len(launched) + Cardinality(EvalsOf(toServer))
  BY <1>5 DEF StreamLine, Lined
<1> QED BY <1>2, <1>3, <1>4, <1>5, <1>6, ServingAssumption

(* A reply is drained: it answers the oldest batch in flight. *)
LEMMA DrainStreams ==
  ASSUME ServingInOrder, inFlight # <<>>, toClient # <<>>,
         inFlight' = Tail(inFlight), toClient' = Tail(toClient),
         UNCHANGED <<toServer, launched, adopting>>
  PROVE  /\ Head(toClient).version = Head(inFlight).model.version
         /\ StreamsTyped' /\ StreamsInOrder'
<1>1. StreamsTyped /\ StreamsInOrder
  BY InvariantParts
<1>2. inFlight \in Seq(Batches) /\ toClient \in Seq(Replies)
  BY <1>1 DEF StreamsTyped
<1>3. PICK fm : fm = inFlight'
  OBVIOUS
<1>4. PICK td : td = toClient'
  OBVIOUS
<1>5. /\ fm \in Seq(Batches) /\ Len(fm) = Len(inFlight) - 1 /\ Rests(inFlight, Len(inFlight), fm)
      /\ Head(inFlight) = inFlight[1]
  BY <1>2, <1>3, TailRests
<1>6. /\ td \in Seq(Replies) /\ Len(td) = Len(toClient) - 1 /\ Rests(toClient, Len(toClient), td)
      /\ Len(toClient) > 0 /\ Head(toClient) = toClient[1]
  BY <1>2, <1>4, TailRests
<1>7. /\ toClient[1].version = inFlight[1].model.version
      /\ Lined(fm, Len(inFlight) - 1, td, Len(toClient) - 1, launched, Len(launched),
               toServer, EvalsOf(toServer), Cardinality(EvalsOf(toServer)))
  BY <1>5, <1>6, StreamLengths, LinedDrain DEF StreamLine
<1>8. StreamsTyped'
  <2>1. Len(fm) <= Depth /\ Len(td) <= Depth
    BY <1>1, <1>5, <1>6, StreamLengths DEF StreamsTyped
  <2> QED BY <1>1, <1>3, <1>4, <1>5, <1>6, <2>1 DEF StreamsTyped
<1>9. StreamLine'
  BY <1>3, <1>4, <1>5, <1>6, <1>7 DEF StreamLine
<1>10. StreamsInOrder'
  BY <1>1, <1>8, <1>9, StreamParts, StreamPartsNext
<1> QED BY <1>5, <1>6, <1>7, <1>8, <1>10

(* Release frames join the stream. *)
LEMMA TakeStreams ==
  ASSUME ServingInOrder, toServer' = Join(toServer, ReleaseFrames),
         UNCHANGED <<inFlight, toClient, launched, adopting>>
  PROVE  StreamsTyped' /\ StreamsInOrder'
<1>1. StreamsTyped /\ StreamsInOrder /\ RegistryTyped
  BY InvariantParts
<1>2. PICK mid : mid = Join(toServer, ReleaseFrames)
  OBVIOUS
<1>3. PICK E : E = EvalsOf(toServer)
  OBVIOUS
<1>4. /\ mid \in Seq(Frames) /\ EvalsOf(mid) = E
      /\ \A i \in 1..Len(toServer) : mid[i] = toServer[i]
  BY <1>1, <1>2, <1>3, FramesAppended
<1>5. \A i \in E : mid[i] = toServer[i]
  <2>1. toServer \in Seq(Frames)
    BY <1>1 DEF StreamsTyped
  <2>2. \A i \in E : i \in 1..Len(toServer)
    BY <1>3, <2>1, EvalsFinite
  <2> QED BY <1>4, <2>2
<1>6. toServer' = mid
  BY <1>2
<1>7. StreamsTyped'
  BY <1>1, <1>4, <1>6 DEF StreamsTyped
<1>8. StreamLine'
  BY <1>3, <1>4, <1>5, <1>6, StreamLengths DEF StreamLine, Lined
<1> QED BY <1>1, <1>3, <1>4, <1>6, <1>7, <1>8, StreamParts, StreamPartsNext

(* A batch is sent after the release frames. *)
LEMMA SubmitStreams ==
  ASSUME ServingInOrder, NEW b \in Batches, NEW mid, mid = Join(toServer, ReleaseFrames),
         toServer' = Append(mid, EvalFrame(b.model)), inFlight' = Append(inFlight, b),
         Len(inFlight) < Depth, UNCHANGED <<toClient, launched, adopting>>
  PROVE  StreamsTyped' /\ StreamsInOrder'
<1>1. StreamsTyped /\ StreamsInOrder /\ RegistryTyped
  BY InvariantParts
<1>2. PICK E : E = EvalsOf(toServer)
  OBVIOUS
<1>3. /\ mid \in Seq(Frames) /\ EvalsOf(mid) = E
      /\ \A i \in 1..Len(toServer) : mid[i] = toServer[i]
  BY <1>1, <1>2, FramesAppended
<1>4. \A i \in E : mid[i] = toServer[i]
  <2>1. toServer \in Seq(Frames)
    BY <1>1 DEF StreamsTyped
  <2>2. \A i \in E : i \in 1..Len(toServer)
    BY <1>2, <2>1, EvalsFinite
  <2> QED BY <1>3, <2>2
<1>5. PICK f : f = EvalFrame(b.model)
  OBVIOUS
<1>6. f \in Frames /\ f.type = "EVAL" /\ f.model = b.model
  <2>1. b.model \in Generations
    BY DEF Batches
  <2> QED BY <1>5, <2>1 DEF EvalFrame, Frames
<1>7. PICK tm : tm = toServer'
  OBVIOUS
<1>8. PICK fm : fm = inFlight'
  OBVIOUS
<1>9. tm \in Seq(Frames) /\ Adds(mid, Len(mid), f, tm)
  <2>1. tm = Append(mid, f)
    BY <1>5, <1>7, Zenon
  <2>2. mid \in Seq(Frames) /\ f \in Frames
    BY <1>3, <1>6
  <2> QED BY ONLY <2>1, <2>2, AppendAdds
<1>10. /\ AddsEval(E, Len(mid), Cardinality(E), EvalsOf(tm))
       /\ Cardinality(EvalsOf(tm)) = Cardinality(E) + 1
  BY <1>3, <1>5, <1>6, <1>7, EvalAdded
<1>11. fm \in Seq(Batches) /\ Len(fm) = Len(inFlight) + 1 /\ Adds(inFlight, Len(inFlight), b, fm)
  <2>1. inFlight \in Seq(Batches)
    BY <1>1 DEF StreamsTyped
  <2> QED BY <1>8, <2>1, AppendAdds
<1>12. Lined(inFlight, Len(inFlight), toClient, Len(toClient), launched, Len(launched),
             mid, E, Cardinality(E))
  BY <1>2, <1>4, StreamLengths DEF StreamLine, Lined
<1>13. Len(mid) \in Nat
  BY <1>3, SeqHolds
<1>14. Lined(fm, Len(inFlight) + 1, toClient, Len(toClient), launched, Len(launched),
             tm, EvalsOf(tm), Cardinality(E) + 1)
  <2>1. /\ Len(inFlight) \in Nat /\ Len(toClient) \in Nat /\ Len(launched) \in Nat
        /\ Cardinality(E) \in Nat /\ Ranked(E, Cardinality(E))
    BY <1>2, StreamLengths
  <2> QED BY <1>6, <1>9, <1>10, <1>11, <1>12, <1>13, <2>1, LinedSubmit
<1>15. StreamsTyped'
  <2>1. Len(fm) <= Depth
    BY <1>11, StreamLengths
  <2> QED BY <1>1, <1>7, <1>8, <1>9, <1>11, <2>1 DEF StreamsTyped
<1>16. StreamLine'
  BY <1>7, <1>8, <1>10, <1>11, <1>14 DEF StreamLine
<1>17. adopting' # 0 => 1 \in EvalsOf(tm)
  BY <1>1, <1>2, <1>10, StreamParts DEF AddsEval
<1> QED BY <1>7, <1>15, <1>16, <1>17, StreamPartsNext

(* The evaluator answers its oldest batch. *)
LEMMA FlushStreams ==
  ASSUME ServingInOrder, launched # <<>>, NEW r \in Replies, r.version = Head(launched),
         toClient' = Append(toClient, r), launched' = Tail(launched),
         UNCHANGED <<inFlight, toServer, adopting>>
  PROVE  StreamsTyped' /\ StreamsInOrder'
<1>1. StreamsTyped /\ StreamsInOrder
  BY InvariantParts
<1>2. launched \in Seq(Versions) /\ toClient \in Seq(Replies)
  BY <1>1 DEF StreamsTyped
<1>3. PICK td : td = toClient'
  OBVIOUS
<1>4. PICK lb : lb = launched'
  OBVIOUS
<1>5. td \in Seq(Replies) /\ Len(td) = Len(toClient) + 1 /\ Adds(toClient, Len(toClient), r, td)
  BY <1>2, <1>3, AppendAdds
<1>6. /\ lb \in Seq(Versions) /\ Len(lb) = Len(launched) - 1 /\ Len(launched) > 0
      /\ Rests(launched, Len(launched), lb) /\ r.version = launched[1]
  BY <1>2, <1>4, TailRests
<1>7. Lined(inFlight, Len(inFlight), td, Len(toClient) + 1, lb, Len(launched) - 1,
            toServer, EvalsOf(toServer), Cardinality(EvalsOf(toServer)))
  BY <1>5, <1>6, StreamLengths, LinedFlush DEF StreamLine
<1>8. StreamsTyped'
  <2>1. Len(td) <= Depth /\ Len(lb) <= Depth
    BY <1>5, <1>6, StreamLengths
  <2> QED BY <1>1, <1>3, <1>4, <1>5, <1>6, <2>1 DEF StreamsTyped
<1>9. StreamLine'
  BY <1>3, <1>4, <1>5, <1>6, <1>7 DEF StreamLine
<1> QED BY <1>1, <1>8, <1>9, StreamParts, StreamPartsNext

(* An EVAL frame is staged and launched: it is for a batch in flight. *)
LEMMA ServeStreams ==
  ASSUME ServingInOrder, toServer # <<>>, Head(toServer).type = "EVAL",
         toServer' = Tail(toServer), launched' = Append(launched, Head(toServer).model.version),
         adopting' = 0, UNCHANGED <<inFlight, toClient>>
  PROVE  StreamsTyped' /\ StreamsInOrder'
<1>1. StreamsTyped /\ StreamsInOrder
  BY InvariantParts
<1>2. launched \in Seq(Versions) /\ toServer \in Seq(Frames)
  BY <1>1 DEF StreamsTyped
<1>3. PICK tm : tm = toServer'
  OBVIOUS
<1>4. PICK lb : lb = launched'
  OBVIOUS
<1>5. PICK v : v = Head(toServer).model.version
  OBVIOUS
<1>6. PICK E : E = EvalsOf(toServer)
  OBVIOUS
<1>7. PICK F : F = EvalsOf(tm)
  OBVIOUS
<1>8. tm \in Seq(Frames) /\ Rests(toServer, Len(toServer), tm) /\ Head(toServer) = toServer[1] /\ Head(toServer) \in Frames
  BY <1>2, <1>3, TailRests
<1>9. v \in Versions /\ v = toServer[1].model.version
  <2>1. Head(toServer).model \in Generations
    BY <1>8 DEF Frames
  <2> QED BY <1>5, <1>8, <2>1, GenerationParts
<1>10. lb \in Seq(Versions) /\ Len(lb) = Len(launched) + 1 /\ Adds(launched, Len(launched), v, lb)
  <2>1. lb = Append(launched, v)
    BY <1>4, <1>5
  <2>2. launched \in Seq(Versions) /\ v \in Versions
    BY <1>2, <1>9
  <2>3. lb \in Seq(Versions) /\ Len(lb) = Len(launched) + 1
    BY <2>1, <2>2, AppendAdds
  <2>4. Adds(launched, Len(launched), v, lb)
    BY <2>1, <2>2, AppendAdds
  <2> QED BY <2>3, <2>4
<1>11. /\ RestsEval(E, Len(toServer), 1, F) /\ 1 \in E /\ Rank(E, 1) = 1
       /\ Cardinality(F) = Cardinality(E) - 1
  <2>1. toServer[1].type = "EVAL"
    BY <1>8
  <2> QED BY <1>2, <1>3, <1>6, <1>7, <2>1, EvalTail
<1>12. Lined(inFlight, Len(inFlight), toClient, Len(toClient), lb, Len(launched) + 1,
             tm, F, Cardinality(E) - 1)
  <2>1. /\ Lined(inFlight, Len(inFlight), toClient, Len(toClient), launched, Len(launched),
                 toServer, E, Cardinality(E))
        /\ Len(inFlight) \in Nat /\ Len(toClient) \in Nat /\ Len(launched) \in Nat
        /\ Len(toServer) \in Nat /\ Cardinality(E) \in Nat /\ Ranked(E, Cardinality(E))
    BY <1>6, StreamLengths DEF StreamLine
  <2> QED BY <1>8, <1>9, <1>10, <1>11, <2>1, LinedServe
<1>13. StreamsTyped'
  <2>1. Cardinality(F) \in Nat
    BY <1>7, <1>8, EvalsFinite
  <2>2. Len(lb) <= Depth
    BY <1>6, <1>10, <1>11, <2>1, StreamLengths
  <2> QED BY <1>1, <1>3, <1>4, <1>8, <1>10, <2>2 DEF StreamsTyped
<1>14. StreamLine'
  BY <1>3, <1>4, <1>7, <1>10, <1>11, <1>12 DEF StreamLine
<1> QED BY <1>13, <1>14, StreamPartsNext

(* The head of the stream is for a batch in flight if it is an EVAL frame. *)
LEMMA ServedIsInFlight ==
  ASSUME ServingInOrder, toServer # <<>>, Head(toServer).type = "EVAL"
  PROVE  \E k \in DOMAIN inFlight : Head(toServer).model = inFlight[k].model
<1>1. StreamsTyped /\ StreamsInOrder
  BY InvariantParts
<1>2. toServer \in Seq(Frames) /\ inFlight \in Seq(Batches)
  BY <1>1 DEF StreamsTyped
<1>3. PICK E : E = EvalsOf(toServer)
  OBVIOUS
<1>4. Head(toServer) = toServer[1]
  BY <1>2, TailRests
<1>5. 1 \in E /\ Rank(E, 1) = 1
  BY <1>2, <1>3, <1>4, EvalTail
<1>6. PICK n \in Nat, c \in Nat, l \in Nat, q \in Nat :
        /\ n = Len(inFlight) /\ c = Len(toClient) /\ l = Len(launched) /\ q = Cardinality(E)
        /\ n = c + l + q /\ Ranked(E, q)
  BY <1>3, StreamLengths
<1>7. toServer[1].model = inFlight[c + l + 1].model
  <2>1. Lined(inFlight, n, toClient, c, launched, l, toServer, E, q)
    BY <1>3, <1>6, StreamLengths DEF StreamLine
  <2> QED BY <1>5, <2>1 DEF Lined
<1>8. c + l + 1 \in 1..n
  <2>1. 1 <= q
    BY <1>5, <1>6 DEF Ranked
  <2> QED BY <1>6, <2>1
<1>9. c + l + 1 \in DOMAIN inFlight
  <2>1. DOMAIN inFlight = 1..Len(inFlight)
    BY <1>2, SeqHolds
  <2> QED BY <1>6, <1>8, <2>1
<1> QED BY <1>4, <1>7, <1>9

(* A release frame is read. *)
LEMMA ReleaseStreams ==
  ASSUME ServingInOrder, toServer # <<>>, Head(toServer).type # "EVAL", adopting = 0,
         toServer' = Tail(toServer), UNCHANGED <<inFlight, toClient, launched, adopting>>
  PROVE  StreamsTyped' /\ StreamsInOrder'
<1>1. StreamsTyped /\ StreamsInOrder
  BY InvariantParts
<1>2. toServer \in Seq(Frames)
  BY <1>1 DEF StreamsTyped
<1>3. PICK tm : tm = toServer'
  OBVIOUS
<1>4. PICK E : E = EvalsOf(toServer)
  OBVIOUS
<1>5. PICK F : F = EvalsOf(tm)
  OBVIOUS
<1>6. tm \in Seq(Frames) /\ Rests(toServer, Len(toServer), tm) /\ Head(toServer) = toServer[1]
  BY <1>2, <1>3, TailRests
<1>7. RestsEval(E, Len(toServer), 0, F) /\ Cardinality(F) = Cardinality(E)
  BY <1>2, <1>3, <1>4, <1>5, <1>6, EvalTailOther
<1>8. Lined(inFlight, Len(inFlight), toClient, Len(toClient), launched, Len(launched),
            tm, F, Cardinality(E))
  BY <1>4, <1>6, <1>7, StreamLengths, LinedRelease DEF StreamLine
<1>9. StreamsTyped'
  BY <1>1, <1>3, <1>6 DEF StreamsTyped
<1>10. StreamLine'
  BY <1>3, <1>5, <1>7, <1>8 DEF StreamLine
<1> QED BY <1>9, <1>10, StreamPartsNext

-----------------------------------------------------------------------------
(* What is announced, and what is asked to be released.                    *)

(* The first announcement is of the current generation or a later one. *)
LEMMA AnnouncedTail ==
  ASSUME NEW s \in Seq(Replies), s # <<>>, NEW held, NEW c, Announced(s, held, c),
         NEW t, t = Tail(s)
  PROVE  /\ Head(s).active \in held /\ c.version <= Head(s).active.version
         /\ Announced(t, held, Head(s).active)
<1>1. PICK n \in Nat : n = Len(s) /\ DOMAIN s = 1..n
  BY SeqHolds
<1>2. t \in Seq(Replies) /\ Len(t) = n - 1 /\ n > 0 /\ Head(s) = s[1]
  BY <1>1, TailRests
<1>3. Rests(s, n, t)
  BY <1>1, TailRests
<1>4. DOMAIN t = 1..(n - 1)
  BY <1>2, SeqHolds
<1>5. \A i \in 1..(n - 1) : t[i] = s[i + 1]
  BY <1>3 DEF Rests
<1>6. \A i \in 1..(n - 1) : i + 1 \in 1..n /\ 1 < i + 1
  OBVIOUS
<1>7. \A i, k \in 1..(n - 1) : i < k => i + 1 < k + 1
  OBVIOUS
<1>8. 1 \in 1..n
  BY <1>2
<1>9. \A i \in 1..n : /\ s[i].active \in held /\ c.version <= s[i].active.version
                      /\ \A k \in 1..n : i < k => s[i].active.version <= s[k].active.version
  BY <1>1 DEF Announced
<1>10. \A i \in 1..(n - 1) :
         /\ t[i].active \in held /\ s[1].active.version <= t[i].active.version
         /\ \A k \in 1..(n - 1) : i < k => t[i].active.version <= t[k].active.version
  BY <1>5, <1>6, <1>7, <1>8, <1>9
<1>11. Announced(t, held, s[1].active)
  BY <1>4, <1>10 DEF Announced
<1> QED BY <1>2, <1>8, <1>9, <1>11

(* The active generation is announced after all others. *)
LEMMA AnnouncedAppend ==
  ASSUME NEW s \in Seq(Replies), NEW held, NEW c, Announced(s, held, c), NEW r \in Replies,
         r.active \in held, c.version <= r.active.version,
         \A i \in DOMAIN s : s[i].active.version <= r.active.version,
         NEW t, t = Append(s, r)
  PROVE  Announced(t, held, c)
<1>1. PICK n \in Nat : n = Len(s) /\ DOMAIN s = 1..n
  BY SeqHolds
<1>2. t \in Seq(Replies) /\ Len(t) = n + 1 /\ Adds(s, n, r, t)
  BY <1>1, AppendAdds
<1>3. DOMAIN t = 1..(n + 1)
  BY <1>2, SeqHolds
<1>4. t[n + 1] = r /\ \A i \in 1..n : t[i] = s[i]
  BY <1>2 DEF Adds
<1>5. \A i \in 1..(n + 1) : i \in 1..n \/ i = n + 1
  OBVIOUS
<1>6. \A i \in 1..n : ~(n + 1 < i)
  OBVIOUS
<1>7. ~(n + 1 < n + 1)
  OBVIOUS
<1>8. \A i \in 1..n : /\ s[i].active \in held /\ c.version <= s[i].active.version
                      /\ \A k \in 1..n : i < k => s[i].active.version <= s[k].active.version
  BY <1>1 DEF Announced
<1>9. \A i \in 1..n : s[i].active.version <= r.active.version
  BY <1>1
<1>10. \A i \in 1..(n + 1) :
         /\ t[i].active \in held /\ c.version <= t[i].active.version
         /\ \A k \in 1..(n + 1) : i < k => t[i].active.version <= t[k].active.version
  BY <1>4, <1>5, <1>6, <1>7, <1>8, <1>9
<1> QED BY <1>3, <1>10 DEF Announced

(* Once the head is read, the releases that follow are of others. *)
LEMMA SupersededTail ==
  ASSUME NEW s \in Seq(Frames), s # <<>>, NEW held, NEW known, NEW c,
         Superseded(s, held, known, c), NEW t, t = Tail(s)
  PROVE  /\ Superseded(t, held, known, c)
         /\ Head(s).type = "MODEL_RELEASE" =>
              /\ Head(s).model \in held \ known /\ Head(s).model.version < c.version
              /\ \A i \in ReleasesOf(t) : t[i].model # Head(s).model
<1>1. PICK n \in Nat : n = Len(s) /\ DOMAIN s = 1..n
  BY SeqHolds
<1>2. t \in Seq(Frames) /\ Len(t) = n - 1 /\ n > 0 /\ Head(s) = s[1]
  BY <1>1, TailRests
<1>3. Rests(s, n, t)
  BY <1>1, TailRests
<1>4. DOMAIN t = 1..(n - 1)
  BY <1>2, SeqHolds
<1>5. \A i \in 1..(n - 1) : t[i] = s[i + 1]
  BY <1>3 DEF Rests
<1>6. \A i \in 1..(n - 1) : i + 1 \in 1..n /\ i + 1 # 1
  OBVIOUS
<1>7. \A i, k \in 1..(n - 1) : i + 1 = k + 1 => i = k
  OBVIOUS
<1>8. 1 \in 1..n
  BY <1>2
<1>9. \A i \in ReleasesOf(t) : i \in 1..(n - 1) /\ i + 1 \in ReleasesOf(s) /\ i + 1 # 1 /\ t[i] = s[i + 1]
  BY <1>1, <1>4, <1>5, <1>6 DEF ReleasesOf
<1>10. Superseded(t, held, known, c)
  <2>1. \A i \in ReleasesOf(s) :
          /\ s[i].model \in held \ known /\ s[i].model.version < c.version
          /\ \A k \in ReleasesOf(s) : s[k].model = s[i].model => k = i
    BY DEF Superseded
  <2>2. ASSUME NEW i \in ReleasesOf(t)
        PROVE  /\ t[i].model \in held \ known /\ t[i].model.version < c.version
               /\ \A k \in ReleasesOf(t) : t[k].model = t[i].model => k = i
    <3>1. t[i] = s[i + 1] /\ i + 1 \in ReleasesOf(s) /\ i \in 1..(n - 1)
      BY <1>9
    <3>2. ASSUME NEW k \in ReleasesOf(t), t[k].model = t[i].model PROVE k = i
      <4>1. t[k] = s[k + 1] /\ k + 1 \in ReleasesOf(s) /\ k \in 1..(n - 1)
        BY <1>9
      <4>2. k + 1 = i + 1
        BY <2>1, <3>1, <3>2, <4>1
      <4> QED BY <1>7, <3>1, <4>1, <4>2
    <3> QED BY <2>1, <3>1, <3>2
  <2> QED BY <2>2 DEF Superseded
<1>11. ASSUME s[1].type = "MODEL_RELEASE"
       PROVE  /\ s[1].model \in held \ known /\ s[1].model.version < c.version
              /\ \A i \in ReleasesOf(t) : t[i].model # s[1].model
  <2>1. 1 \in ReleasesOf(s)
    BY <1>1, <1>8, <1>11 DEF ReleasesOf
  <2> QED BY <1>9, <2>1 DEF Superseded
<1> QED BY <1>2, <1>10, <1>11

(* A request does not disturb the releases. *)
LEMMA SupersededAppend ==
  ASSUME NEW s \in Seq(Frames), NEW held, NEW known, NEW c, Superseded(s, held, known, c),
         NEW f \in Frames, f.type = "EVAL", NEW t, t = Append(s, f)
  PROVE  Superseded(t, held, known, c)
<1>1. PICK n \in Nat : n = Len(s) /\ DOMAIN s = 1..n
  BY SeqHolds
<1>2. t \in Seq(Frames) /\ Len(t) = n + 1 /\ Adds(s, n, f, t)
  BY <1>1, AppendAdds
<1>3. DOMAIN t = 1..(n + 1)
  BY <1>2, SeqHolds
<1>4. t[n + 1] = f /\ \A i \in 1..n : t[i] = s[i]
  BY <1>2 DEF Adds
<1>5. \A i \in 1..(n + 1) : i \in 1..n \/ i = n + 1
  OBVIOUS
<1>6. ASSUME NEW i \in ReleasesOf(t) PROVE i \in ReleasesOf(s) /\ t[i] = s[i]
  <2>1. i \in 1..(n + 1) /\ t[i].type = "MODEL_RELEASE"
    BY <1>3 DEF ReleasesOf
  <2>2. i # n + 1
    BY <1>4, <2>1
  <2>3. i \in 1..n /\ t[i] = s[i]
    BY <1>4, <1>5, <2>1, <2>2
  <2> QED BY <1>1, <2>1, <2>3 DEF ReleasesOf
<1>7. \A i \in ReleasesOf(s) :
        /\ s[i].model \in held \ known /\ s[i].model.version < c.version
        /\ \A k \in ReleasesOf(s) : s[k].model = s[i].model => k = i
  BY DEF Superseded
<1>8. \A i \in ReleasesOf(t) :
        /\ t[i].model \in held \ known /\ t[i].model.version < c.version
        /\ \A k \in ReleasesOf(t) : t[k].model = t[i].model => k = i
  <2> QED BY <1>6, <1>7, Zenon
<1> QED BY <1>8 DEF Superseded

(* Releases are stale for a later generation too. *)
LEMMA SupersededLater ==
  ASSUME NEW s \in Seq(Frames), NEW held, NEW known, NEW c \in Generations, NEW g \in Generations,
         Superseded(s, held, known, c), c.version <= g.version
  PROVE  Superseded(s, held, known \cup {g}, g)
<1>1. c.version \in Nat /\ g.version \in Nat
  BY VersionsInt
<1>2. \A i \in ReleasesOf(s) : s[i].model \in Generations /\ s[i].model.version \in Nat
  <2>1. \A i \in ReleasesOf(s) : s[i] \in Frames
    <3>1. DOMAIN s = 1..Len(s) /\ \A i \in 1..Len(s) : s[i] \in Frames
      BY SeqHolds
    <3> QED BY <3>1 DEF ReleasesOf
  <2>2. \A i \in ReleasesOf(s) : s[i].model \in Generations
    BY <2>1 DEF Frames
  <2> QED BY <2>2, VersionsInt
<1>3. \A i \in ReleasesOf(s) : s[i].model.version < g.version /\ s[i].model # g
  BY <1>1, <1>2 DEF Superseded
<1> QED BY <1>3 DEF Superseded

-----------------------------------------------------------------------------
(* The places of the jobs.                                                 *)

Apart(I, B, D, fl) ==
  /\ I \cap (B \cup D) = {} /\ B \cap D = {}
  /\ \A k \in DOMAIN fl :
       /\ Range(fl[k].jobs) \cap (I \cup B \cup D) = {}
       /\ \A n \in DOMAIN fl : n # k => Range(fl[k].jobs) \cap Range(fl[n].jobs) = {}
ForOneModel(fl) ==
  \A k \in DOMAIN fl : fl[k].jobs # <<>> /\ \A j \in Range(fl[k].jobs) : j.model = fl[k].model
OneModel(b) == \A i \in DOMAIN b : b[i].model = b[1].model
BatchFits(p, b, n) ==
  (p = "top" => b = <<>>) /\ (p \in {"fill", "release"} \/ b # <<>> => n < Depth)

(* The order of the jobs, part by part. *)
LEMMA JobsParts ==
  JobsInOrder <=>
    /\ IsInjective(intake) /\ IsInjective(deferred)
    /\ Apart(Range(intake), Range(batch), Range(deferred), inFlight)
    /\ ForOneModel(inFlight) /\ OneModel(batch) /\ BatchFits(pc, batch, Len(inFlight))
<1>1. JobsInOrder => /\ IsInjective(intake) /\ IsInjective(deferred)
                     /\ Apart(Range(intake), Range(batch), Range(deferred), inFlight)
                     /\ ForOneModel(inFlight) /\ OneModel(batch) /\ BatchFits(pc, batch, Len(inFlight))
  BY DEF JobsInOrder, Apart, ForOneModel, OneModel, BatchFits
<1> QED BY <1>1 DEF JobsInOrder, Apart, ForOneModel, OneModel, BatchFits

(* ... and after a step. *)
LEMMA JobsPartsNext ==
  JobsInOrder' <=>
    /\ IsInjective(intake') /\ IsInjective(deferred')
    /\ Apart(Range(intake'), Range(batch'), Range(deferred'), inFlight')
    /\ ForOneModel(inFlight') /\ OneModel(batch') /\ BatchFits(pc', batch', Len(inFlight'))
<1>1. JobsInOrder' => /\ IsInjective(intake') /\ IsInjective(deferred')
                      /\ Apart(Range(intake'), Range(batch'), Range(deferred'), inFlight')
                      /\ ForOneModel(inFlight') /\ OneModel(batch') /\ BatchFits(pc', batch', Len(inFlight'))
  BY DEF JobsInOrder, Apart, ForOneModel, OneModel, BatchFits
<1> QED BY <1>1 DEF JobsInOrder, Apart, ForOneModel, OneModel, BatchFits

(* A job that waits nowhere yet may join the intake. *)
LEMMA ApartMore ==
  ASSUME NEW I, NEW B, NEW D, NEW fl, Apart(I, B, D, fl), NEW j, j \notin B, j \notin D,
         \A k \in DOMAIN fl : j \notin Range(fl[k].jobs), NEW I2, I2 = I \cup {j}
  PROVE  Apart(I2, B, D, fl)
BY DEF Apart

(* A job goes from the intake into the batch, or is deferred. *)
LEMMA ApartReceive ==
  ASSUME NEW I, NEW B, NEW D, NEW fl, Apart(I, B, D, fl), NEW j \in I, NEW I2,
         I = I2 \cup {j}, j \notin I2
  PROVE  Apart(I2, B \cup {j}, D, fl) /\ Apart(I2, B, D \cup {j}, fl)
BY DEF Apart

(* The deferred jobs are split. *)
LEMMA ApartSplit ==
  ASSUME NEW I, NEW D, NEW fl, Apart(I, {}, D, fl), NEW B2, NEW D2, D = B2 \cup D2, B2 \cap D2 = {}
  PROVE  Apart(I, B2, D2, fl)
BY DEF Apart

Leaves(H, fl, fm) ==
  /\ \A k \in DOMAIN fm : Range(fm[k].jobs) \cap H = {}
  /\ \A j : (\E k \in DOMAIN fl : j \in Range(fl[k].jobs)) <=>
              j \in H \/ \E k \in DOMAIN fm : j \in Range(fm[k].jobs)

(* The oldest batch leaves. *)
LEMMA ApartTail ==
  ASSUME NEW I, NEW B, NEW D, NEW fl \in Seq(Batches), fl # <<>>, Apart(I, B, D, fl), ForOneModel(fl),
         NEW fm, fm = Tail(fl)
  PROVE  /\ Apart(I, B, D, fm) /\ ForOneModel(fm)
         /\ Range(Head(fl).jobs) \cap (I \cup B \cup D) = {}
         /\ Leaves(Range(Head(fl).jobs), fl, fm)
<1>1. PICK n \in Nat : n = Len(fl) /\ DOMAIN fl = 1..n
  BY SeqHolds
<1>2. fm \in Seq(Batches) /\ Len(fm) = n - 1 /\ n > 0 /\ Head(fl) = fl[1]
  BY <1>1, TailRests
<1>3. Rests(fl, n, fm)
  BY <1>1, TailRests
<1>4. DOMAIN fm = 1..(n - 1)
  BY <1>2, SeqHolds
<1>5. \A i \in 1..(n - 1) : fm[i] = fl[i + 1]
  BY <1>3 DEF Rests
<1>6. \A i \in 1..(n - 1) : i + 1 \in 1..n /\ i + 1 # 1
  OBVIOUS
<1>7. \A i, k \in 1..(n - 1) : i + 1 = k + 1 => i = k
  OBVIOUS
<1>8. 1 \in 1..n
  BY <1>2
<1>9. \A i \in 1..n : i = 1 \/ \E k \in 1..(n - 1) : i = k + 1
  <2> SUFFICES ASSUME NEW i \in 1..n, i # 1 PROVE \E k \in 1..(n - 1) : i = k + 1
    OBVIOUS
  <2>1. i - 1 \in 1..(n - 1) /\ i = (i - 1) + 1
    OBVIOUS
  <2> QED BY <2>1
<1>10. Apart(I, B, D, fm)
  <2>1. ASSUME NEW k \in 1..(n - 1), NEW m \in 1..(n - 1), m # k
        PROVE  Range(fm[k].jobs) \cap Range(fm[m].jobs) = {}
    <3>1. k + 1 \in 1..n /\ m + 1 \in 1..n /\ m + 1 # k + 1 /\ fm[k] = fl[k + 1] /\ fm[m] = fl[m + 1]
      BY <1>5, <1>6, <1>7, <2>1
    <3> QED BY <1>1, <3>1 DEF Apart
  <2>2. ASSUME NEW k \in 1..(n - 1) PROVE Range(fm[k].jobs) \cap (I \cup B \cup D) = {}
    <3>1. k + 1 \in 1..n /\ fm[k] = fl[k + 1]
      BY <1>5, <1>6
    <3> QED BY <1>1, <3>1 DEF Apart
  <2>3. I \cap (B \cup D) = {} /\ B \cap D = {}
    BY DEF Apart
  <2> QED BY <1>4, <2>1, <2>2, <2>3 DEF Apart
<1>11. ForOneModel(fm)
  <2>1. ASSUME NEW k \in 1..(n - 1)
        PROVE  fm[k].jobs # <<>> /\ \A j \in Range(fm[k].jobs) : j.model = fm[k].model
    <3>1. k + 1 \in 1..n /\ fm[k] = fl[k + 1]
      BY <1>5, <1>6
    <3> QED BY <1>1, <3>1 DEF ForOneModel
  <2> QED BY <1>4, <2>1 DEF ForOneModel
<1>12. ASSUME NEW k \in 1..(n - 1) PROVE Range(fm[k].jobs) \cap Range(fl[1].jobs) = {}
  <2>1. k + 1 \in 1..n /\ k + 1 # 1 /\ fm[k] = fl[k + 1]
    BY <1>5, <1>6
  <2> QED BY <1>1, <1>8, <2>1 DEF Apart
<1>13. Range(fl[1].jobs) \cap (I \cup B \cup D) = {}
  BY <1>1, <1>8 DEF Apart
<1>14. ASSUME NEW j
       PROVE  (\E k \in 1..n : j \in Range(fl[k].jobs)) <=>
                 \/ j \in Range(fl[1].jobs)
                 \/ \E k \in 1..(n - 1) : j \in Range(fm[k].jobs)
  <2>1. ASSUME NEW k \in 1..n, j \in Range(fl[k].jobs), k # 1
        PROVE  \E i \in 1..(n - 1) : j \in Range(fm[i].jobs)
    <3>1. PICK i \in 1..(n - 1) : k = i + 1
      BY <1>9, <2>1
    <3> QED BY <1>5, <2>1, <3>1
  <2>2. ASSUME NEW k \in 1..(n - 1), j \in Range(fm[k].jobs) PROVE \E i \in 1..n : j \in Range(fl[i].jobs)
    <3>1. fm[k] = fl[k + 1] /\ k + 1 \in 1..n
      BY <1>5, <1>6
    <3> QED BY <2>2, <3>1
  <2> QED BY <1>8, <2>1, <2>2
<1>15. Leaves(Range(fl[1].jobs), fl, fm)
  BY <1>1, <1>4, <1>12, <1>14 DEF Leaves
<1> QED BY <1>2, <1>10, <1>11, <1>13, <1>15

(* The batch is in flight. *)
LEMMA ApartSubmit ==
  ASSUME NEW I, NEW B, NEW D, NEW fl \in Seq(Batches), Apart(I, B, D, fl), ForOneModel(fl),
         NEW b \in Batches, B = Range(b.jobs), b.jobs # <<>>, \A j \in B : j.model = b.model,
         NEW fm, fm = Append(fl, b)
  PROVE  /\ Apart(I, {}, D, fm) /\ ForOneModel(fm)
         /\ \A j : (\E k \in DOMAIN fm : j \in Range(fm[k].jobs)) <=>
                     j \in B \/ \E k \in DOMAIN fl : j \in Range(fl[k].jobs)
<1>1. PICK n \in Nat : n = Len(fl) /\ DOMAIN fl = 1..n
  BY SeqHolds
<1>2. fm \in Seq(Batches) /\ Len(fm) = n + 1 /\ Adds(fl, n, b, fm)
  BY <1>1, AppendAdds
<1>3. DOMAIN fm = 1..(n + 1)
  BY <1>2, SeqHolds
<1>4. fm[n + 1] = b /\ \A i \in 1..n : fm[i] = fl[i]
  BY <1>2 DEF Adds
<1>5. 1..(n + 1) = 1..n \cup {n + 1}
  OBVIOUS
<1>6. \A k \in 1..n : Range(fl[k].jobs) \cap (I \cup B \cup D) = {}
  BY <1>1 DEF Apart
<1>7. \A k, m \in 1..n : m # k => Range(fl[k].jobs) \cap Range(fl[m].jobs) = {}
  BY <1>1 DEF Apart
<1>8. I \cap (B \cup D) = {} /\ B \cap D = {}
  BY DEF Apart
<1>9. ASSUME NEW k \in 1..n \cup {n + 1}, NEW m \in 1..n \cup {n + 1}, m # k
      PROVE  Range(fm[k].jobs) \cap Range(fm[m].jobs) = {}
  <2>1. CASE k \in 1..n /\ m \in 1..n
    BY <1>4, <1>7, <1>9, <2>1
  <2>2. CASE k \in 1..n /\ m = n + 1
    BY <1>4, <1>6, <2>2
  <2>3. CASE k = n + 1 /\ m \in 1..n
    BY <1>4, <1>6, <2>3
  <2> QED BY <1>9, <2>1, <2>2, <2>3
<1>10. ASSUME NEW k \in 1..n \cup {n + 1} PROVE Range(fm[k].jobs) \cap (I \cup {} \cup D) = {}
  <2>1. CASE k \in 1..n
    BY <1>4, <1>6, <2>1
  <2>2. CASE k = n + 1
    BY <1>4, <1>8, <2>2
  <2> QED BY <2>1, <2>2
<1>11. Apart(I, {}, D, fm)
  BY <1>3, <1>5, <1>8, <1>9, <1>10 DEF Apart
<1>12. ASSUME NEW k \in 1..n \cup {n + 1}
       PROVE  fm[k].jobs # <<>> /\ \A j \in Range(fm[k].jobs) : j.model = fm[k].model
  <2>1. CASE k \in 1..n
    BY <1>1, <1>4, <2>1 DEF ForOneModel
  <2>2. CASE k = n + 1
    BY <1>4, <2>2
  <2> QED BY <2>1, <2>2
<1>13. ForOneModel(fm)
  BY <1>3, <1>5, <1>12 DEF ForOneModel
<1>14. ASSUME NEW j
       PROVE  (\E k \in 1..n \cup {n + 1} : j \in Range(fm[k].jobs)) <=>
                j \in B \/ \E k \in 1..n : j \in Range(fl[k].jobs)
  BY <1>4
<1> QED BY <1>1, <1>3, <1>5, <1>11, <1>13, <1>14

-----------------------------------------------------------------------------
(* The steps that move jobs.                                               *)

(* Jobs that are for the leases of their episodes are told apart by episode  *)
(* and token, so that only so many can wait.                                 *)
LEMMA FewJobs ==
  ASSUME NEW s \in Seq(Jobs), IsInjective(s), NEW f, \A j \in Range(s) : j.model = f[j.episode]
  PROVE  Len(s) <= IntakeCapacity /\ IntakeCapacity \in Nat
<1>1. PICK n \in Nat : n = Len(s) /\ DOMAIN s = 1..n
  BY SeqHolds
<1>2. \A i \in 1..n : s[i] \in Jobs /\ s[i] \in Range(s)
  BY <1>1, SeqHolds
<1>3. \A j \in Jobs : j.episode \in Episodes /\ j.token \in Token
  BY DEF Jobs
<1>4. \A j, k \in Jobs : j.episode = k.episode /\ j.token = k.token /\ j.model = k.model => j = k
  BY DEF Jobs
<1>5. PICK E : E = Episodes
  OBVIOUS
<1>6. PICK T : T = Token
  OBVIOUS
<1>7. IsFiniteSet(E) /\ IsFiniteSet(T) /\ Cardinality(T) = MaxEvals /\ Cardinality(E) \in Nat /\ MaxEvals \in Nat
  <2>1. MaxEvals \in Nat /\ MaxEvals > 0
    BY ServingAssumption
  <2>2. IsFiniteSet(1..MaxEvals) /\ Cardinality(1..MaxEvals) = MaxEvals
    BY <2>1, FS_Interval
  <2>3. IsFiniteSet(E) /\ Cardinality(E) \in Nat
    BY <1>5, ServingAssumption, FS_CardinalityType
  <2> QED BY <1>6, <2>1, <2>2, <2>3 DEF Token
<1>8. IsFiniteSet(E \X T) /\ Cardinality(E \X T) = Cardinality(E) * Cardinality(T)
  BY <1>7, FS_Product
<1>9. PICK P : P = E \X T
  OBVIOUS
<1>10. PICK g : g = [i \in 1..n |-> <<s[i].episode, s[i].token>>]
  OBVIOUS
<1>11. \A i \in 1..n : s[i].episode \in E /\ s[i].token \in T
  BY <1>2, <1>3, <1>5, <1>6
<1>12. g \in [1..n -> P]
  BY <1>9, <1>10, <1>11
<1>13. ASSUME NEW i \in 1..n, NEW k \in 1..n, g[i] = g[k] PROVE i = k
  <2>1. s[i].episode = s[k].episode /\ s[i].token = s[k].token
    BY <1>10, <1>13
  <2>2. s[i].model = s[k].model
    BY <1>2, <2>1
  <2>3. s[i] = s[k]
    BY <1>2, <1>4, <2>1, <2>2
  <2> QED BY <1>1, <2>3 DEF IsInjective
<1>14. g \in Injection(1..n, P)
  BY <1>12, <1>13 DEF Injection, IsInjective
<1>15. Cardinality(1..n) <= Cardinality(P)
  BY <1>8, <1>9, <1>14, FS_Injection
<1>16. Cardinality(1..n) = n
  BY FS_Interval
<1>17. IntakeCapacity = Cardinality(P)
  BY <1>5, <1>7, <1>8, <1>9 DEF IntakeCapacity
<1>18. IntakeCapacity \in Nat
  BY <1>8, <1>9, <1>17, FS_CardinalityType
<1> QED BY <1>1, <1>15, <1>16, <1>17, <1>18

(* An evaluation is sent, with a token that no other of its episode has. *)
LEMMA SendInOrder ==
  ASSUME ServingInOrder, NEW e \in Episodes, SendEval(e)
  PROVE  LanesTyped' /\ JobsTyped' /\ JobsLeased' /\ JobsInOrder'
<1>1. LanesTyped /\ JobsTyped /\ StreamsTyped /\ JobsLeased /\ JobsInOrder
  BY InvariantParts
<1>2. PICK t \in Token \ outstanding[e] :
        /\ intake' = Append(intake, Job(e, t, lease[e]))
        /\ outstanding' = [outstanding EXCEPT ![e] = @ \cup {t}]
  BY DEF SendEval
<1>3. /\ lease[e] # None /\ Len(intake) < IntakeCapacity
      /\ UNCHANGED <<lease, running, pc, batch, deferred, inFlight, reported>>
  BY DEF SendEval, batcherVars
<1>4. PICK j : j = Job(e, t, lease[e])
  OBVIOUS
<1>5. lease[e] \in Generations
  BY <1>1, <1>3 DEF LanesTyped
<1>6. j \in Jobs /\ j.episode = e /\ j.token = t /\ j.model = lease[e]
  BY <1>2, <1>4, <1>5 DEF Job, Jobs
<1>7. outstanding \in [Episodes -> SUBSET Token]
  BY <1>1 DEF LanesTyped
<1>8. \A x \in Episodes, u \in Token : u \in outstanding'[x] <=> u \in outstanding[x] \/ (x = e /\ u = t)
  BY <1>2, <1>7
<1>9. LanesTyped'
  <2>1. outstanding' \in [Episodes -> SUBSET Token]
    BY <1>2, <1>7
  <2> QED BY <1>1, <1>3, <2>1 DEF LanesTyped
<1>10. j \notin Queued
  BY <1>1, <1>2, <1>6 DEF JobsLeased
<1>11. intake \in Seq(Jobs) /\ IsInjective(intake)
  BY <1>1, JobsParts DEF JobsTyped
<1>12. PICK q : q = intake'
  OBVIOUS
<1>13. q = Append(intake, j)
  BY <1>2, <1>4, <1>12
<1>14. q \in Seq(Jobs) /\ Len(q) = Len(intake) + 1
  BY <1>6, <1>11, <1>13, Appended
<1>15. IsInjective(q) /\ \A y : y \in Range(q) <=> y \in Range(intake) \/ y = j
  <2>1. j \notin Range(intake)
    BY <1>10, QueuedWhere
  <2> QED BY <1>6, <1>11, <1>13, <2>1, AppendedHolds
<1>16. JobsTyped'
  <2>1. Len(q) <= IntakeCapacity
    <3>1. Len(intake) \in Nat
      BY <1>11, SeqHolds
    <3>2. Cardinality(Episodes) \in Nat /\ MaxEvals \in Nat
      BY ServingAssumption, FS_CardinalityType
    <3>3. IntakeCapacity \in Nat
      BY <3>2 DEF IntakeCapacity
    <3> QED BY <1>3, <1>14, <3>1, <3>3
  <2> QED BY <1>1, <1>3, <1>12, <1>14, <2>1 DEF JobsTyped
<1>17. \A y : y \in Queued' <=> y \in Queued \/ y = j
  <2>1. \A y : y \in Queued' <=>
          \/ y \in Range(q) \/ y \in Range(batch) \/ y \in Range(deferred)
          \/ \E k \in DOMAIN inFlight : y \in Range(inFlight[k].jobs)
    BY <1>3, <1>12 DEF Queued
  <2> QED BY <1>15, <2>1, QueuedWhere
<1>18. JobsLeased'
  <2>1. \A y \in Queued' : y.model = lease'[y.episode]
    BY <1>1, <1>3, <1>6, <1>17 DEF JobsLeased
  <2>2. ASSUME NEW x \in Episodes, NEW u \in Token
        PROVE  u \in outstanding'[x] <=> \E y \in Queued' : y.episode = x /\ y.token = u
    <3>1. u \in outstanding[x] <=> \E y \in Queued : y.episode = x /\ y.token = u
      BY <1>1 DEF JobsLeased
    <3> QED BY <1>6, <1>8, <1>17, <3>1
  <2> QED BY <2>1, <2>2 DEF JobsLeased
<1>19. JobsInOrder'
  <2>1. Range(q) = Range(intake) \cup {j}
    BY <1>15
  <2>2. Apart(Range(q), Range(batch), Range(deferred), inFlight)
    BY <1>1, <1>10, <2>1, JobsParts, QueuedWhere, ApartMore
  <2> QED BY <1>1, <1>3, <1>12, <1>15, <2>2, JobsParts, JobsPartsNext
<1> QED BY <1>9, <1>16, <1>18, <1>19

(* A batch is begun with deferred jobs of one model, as many as fit; the     *)
(* others stay deferred, and none is lost.                                   *)
LEMMA DeferredSplit ==
  ASSUME JobsTyped, IsInjective(deferred), deferred # <<>>
  PROVE  /\ Taken \in Seq(Jobs) /\ Len(Taken) <= MaxBatch /\ OneModel(Taken)
         /\ Kept \in Seq(Jobs) /\ Len(Kept) <= Len(deferred) /\ IsInjective(Kept)
         /\ Range(deferred) = Range(Taken) \cup Range(Kept) /\ Range(Taken) \cap Range(Kept) = {}
<1>1. deferred \in Seq(Jobs)
  BY DEF JobsTyped
<1>2. PICK n \in Nat : n = Len(deferred) /\ DOMAIN deferred = 1..n /\ n > 0
  BY <1>1, SeqHolds
<1>3. PICK M : M = Matching
  OBVIOUS
<1>4. PICK C : C = Chosen
  OBVIOUS
<1>5. M \in SUBSET (1..n) /\ \A i \in M : deferred[i].model = deferred[1].model
  BY <1>2, <1>3 DEF Matching
<1>6. IsFiniteSet(1..n) /\ Cardinality(1..n) = n /\ 1..n \in SUBSET Nat
  BY FS_Interval
<1>7. M \in SUBSET Nat /\ IsFiniteSet(M)
  BY <1>5, <1>6, FS_Subset
<1>8. MaxBatch \in Nat
  BY ServingAssumption
<1>9. C = {i \in M : Rank(M, i) <= MaxBatch}
  BY <1>3, <1>4 DEF Chosen
<1>10. IsFiniteSet(C) /\ Cardinality(C) <= MaxBatch /\ C \in SUBSET (1..n)
  BY <1>5, <1>7, <1>8, <1>9, FewRanks
<1>11. PICK K : K = 1..n \ C
  OBVIOUS
<1>12. K \in SUBSET (1..n) /\ Cardinality(K) <= n
  <2>1. K \in SUBSET (1..n)
    BY <1>11
  <2> QED BY <1>6, <2>1, FS_Subset
<1>13. Taken = Pick(deferred, C) /\ Kept = Pick(deferred, K)
  BY <1>2, <1>4, <1>11 DEF Taken, Kept
<1>14. PICK a : a = Taken
  OBVIOUS
<1>15. PICK b : b = Kept
  OBVIOUS
<1>16. a \in Seq(Jobs) /\ Len(a) = Cardinality(C) /\ \A y : y \in Range(a) <=> \E i \in C : y = deferred[i]
  BY <1>1, <1>2, <1>10, <1>13, <1>14, Picked
<1>17. /\ b \in Seq(Jobs) /\ Len(b) = Cardinality(K) /\ IsInjective(b)
       /\ \A y : y \in Range(b) <=> \E i \in K : y = deferred[i]
  BY <1>1, <1>2, <1>12, <1>13, <1>15, Picked
<1>18. \A y : y \in Range(deferred) <=> \E i \in 1..n : y = deferred[i]
  BY <1>2 DEF Range
<1>19. Range(deferred) = Range(a) \cup Range(b)
  BY <1>10, <1>11, <1>16, <1>17, <1>18
<1>20. Range(a) \cap Range(b) = {}
  <2> SUFFICES ASSUME NEW y \in Range(a), y \in Range(b) PROVE FALSE
    OBVIOUS
  <2>1. PICK i \in C : y = deferred[i]
    BY <1>16
  <2>2. PICK k \in K : y = deferred[k]
    BY <1>17
  <2>3. i = k
    BY <1>2, <1>10, <1>12, <2>1, <2>2 DEF IsInjective
  <2> QED BY <1>11, <2>3
<1>21. OneModel(a)
  <2>1. \A y \in Range(a) : y.model = deferred[1].model
    BY <1>5, <1>9, <1>16
  <2>2. \A i \in DOMAIN a : a[i].model = deferred[1].model
    BY <2>1 DEF Range
  <2>3. DOMAIN a = 1..Len(a) /\ Len(a) \in Nat
    BY <1>16, SeqHolds
  <2>4. \A i \in 1..Len(a) : 1 \in 1..Len(a)
    BY <2>3
  <2> QED BY <2>2, <2>3, <2>4 DEF OneModel
<1> QED BY <1>2, <1>10, <1>12, <1>14, <1>15, <1>16, <1>17, <1>19, <1>20, <1>21

(* The head of the loop moves jobs from those deferred into the batch only. *)
LEMMA TopJobs ==
  ASSUME ServingInOrder, BatcherTop
  PROVE  JobsTyped' /\ JobsLeased' /\ JobsInOrder'
<1>1. JobsTyped /\ JobsLeased /\ JobsInOrder
  BY InvariantParts
<1>2. /\ pc = "top" /\ batch = <<>>
      /\ UNCHANGED <<lease, outstanding, intake, inFlight, reported>>
  BY <1>1, JobsParts DEF BatcherTop, laneVars, BatchFits
<1>3. Range(batch) = {}
  BY <1>2 DEF Range
<1>4. \A x, y, z : Range(x) \cup Range(y) = Range(z) =>
                     \A j : j \in Range(z) <=> j \in Range(x) \/ j \in Range(y)
  OBVIOUS
<1>5. CASE IntakeClosed /\ inFlight = <<>> /\ deferred = <<>>
  <2>1. UNCHANGED <<batch, deferred>> /\ pc' = "ended"
    BY <1>5 DEF BatcherTop
  <2>2. JobsTyped'
    BY <1>1, <1>2, <2>1 DEF JobsTyped
  <2>3. Queued' = Queued
    BY <1>2, <2>1 DEF Queued
  <2>4. BatchFits(pc', batch', Len(inFlight'))
    BY <1>2, <2>1 DEF BatchFits
  <2>5. JobsInOrder'
    BY <1>1, <1>2, <2>1, <2>4, JobsParts, JobsPartsNext
  <2> QED BY <1>1, <1>2, <2>2, <2>3, <2>5, JobsMoved
<1>6. CASE ~(IntakeClosed /\ inFlight = <<>> /\ deferred = <<>>) /\ ~(Len(inFlight) < Depth)
  <2>1. batch' = <<>> /\ deferred' = deferred /\ pc' = "submit"
    BY <1>6 DEF BatcherTop
  <2>2. JobsTyped'
    BY <1>1, <1>2, <2>1 DEF JobsTyped
  <2>3. Queued' = Queued
    BY <1>2, <2>1 DEF Queued
  <2>4. BatchFits(pc', batch', Len(inFlight'))
    BY <1>2, <2>1 DEF BatchFits
  <2>5. JobsInOrder'
    BY <1>1, <1>2, <2>1, <2>4, JobsParts, JobsPartsNext
  <2> QED BY <1>1, <1>2, <2>2, <2>3, <2>5, JobsMoved
<1>7. CASE /\ ~(IntakeClosed /\ inFlight = <<>> /\ deferred = <<>>) /\ Len(inFlight) < Depth
           /\ deferred = <<>>
  <2>1. batch' = <<>> /\ deferred' = deferred /\ pc' = "fill"
    BY <1>7 DEF BatcherTop
  <2>2. JobsTyped'
    BY <1>1, <1>2, <2>1 DEF JobsTyped
  <2>3. Queued' = Queued
    BY <1>2, <2>1 DEF Queued
  <2>4. BatchFits(pc', batch', Len(inFlight'))
    BY <1>2, <1>7, <2>1 DEF BatchFits
  <2>5. JobsInOrder'
    BY <1>1, <1>2, <2>1, <2>4, JobsParts, JobsPartsNext
  <2> QED BY <1>1, <1>2, <2>2, <2>3, <2>5, JobsMoved
<1>8. CASE /\ ~(IntakeClosed /\ inFlight = <<>> /\ deferred = <<>>) /\ Len(inFlight) < Depth
           /\ deferred # <<>>
  <2>1. batch' = Taken /\ deferred' = Kept /\ pc' = "fill"
    BY <1>8 DEF BatcherTop
  <2>2. /\ batch' \in Seq(Jobs) /\ Len(batch') <= MaxBatch /\ OneModel(batch')
        /\ deferred' \in Seq(Jobs) /\ Len(deferred') <= Len(deferred) /\ IsInjective(deferred')
        /\ Range(deferred) = Range(batch') \cup Range(deferred')
        /\ Range(batch') \cap Range(deferred') = {}
    BY <1>1, <1>8, <2>1, DeferredSplit, JobsParts
  <2>3. Len(deferred') <= IntakeCapacity
    <3>1. PICK a \in Nat : a = Len(deferred')
      BY <2>2, SeqHolds
    <3>2. PICK b \in Nat : b = Len(deferred)
      <4>1. deferred \in Seq(Jobs)
        BY <1>1 DEF JobsTyped
      <4> QED BY <4>1, SeqHolds
    <3>3. Cardinality(Episodes) \in Nat /\ MaxEvals \in Nat
      BY ServingAssumption, FS_CardinalityType
    <3>4. PICK m \in Nat : m = IntakeCapacity
      BY <3>3 DEF IntakeCapacity
    <3>5. a <= b /\ b <= m
      BY <1>1, <2>2, <3>1, <3>2, <3>4 DEF JobsTyped
    <3> QED BY <3>1, <3>4, <3>5
  <2>4. JobsTyped'
    BY <1>1, <1>2, <2>1, <2>2, <2>3 DEF JobsTyped
  <2>5. Queued' = Queued
    <3>1. \A j : j \in Queued' <=>
            \/ j \in Range(intake) \/ j \in Range(batch') \/ j \in Range(deferred')
            \/ \E k \in DOMAIN inFlight : j \in Range(inFlight[k].jobs)
      BY <1>2 DEF Queued
    <3>2. \A j : j \in Queued' <=> j \in Queued
      BY <1>3, <2>2, <3>1, QueuedWhere
    <3> QED BY <3>2 DEF Queued
  <2>6. Apart(Range(intake), Range(batch'), Range(deferred'), inFlight)
    <3>1. Apart(Range(intake), {}, Range(deferred), inFlight)
      BY <1>1, <1>3, JobsParts
    <3> QED BY <2>2, <3>1, ApartSplit
  <2>7. BatchFits(pc', batch', Len(inFlight'))
    BY <1>2, <1>8, <2>1 DEF BatchFits
  <2>8. JobsInOrder'
    BY <1>1, <1>2, <2>2, <2>6, <2>7, JobsParts, JobsPartsNext
  <2> QED BY <1>1, <1>2, <2>4, <2>5, <2>8, JobsMoved
<1> QED BY <1>5, <1>6, <1>7, <1>8

(* A job that arrives joins a batch for its model, or is deferred. *)
LEMMA ReceiveJobs ==
  ASSUME ServingInOrder, FillReceive
  PROVE  JobsTyped' /\ JobsLeased' /\ JobsInOrder'
<1>1. JobsTyped /\ JobsLeased /\ JobsInOrder
  BY InvariantParts
<1>2. /\ pc = "fill" /\ Len(batch) < MaxBatch /\ intake # <<>> /\ intake' = Tail(intake)
      /\ UNCHANGED <<lease, outstanding, inFlight, reported>>
  BY DEF FillReceive, laneVars
<1>3. PICK q : q = intake'
  OBVIOUS
<1>4. PICK h : h = Head(intake)
  OBVIOUS
<1>5. intake \in Seq(Jobs) /\ IsInjective(intake) /\ batch \in Seq(Jobs) /\ deferred \in Seq(Jobs) /\ IsInjective(deferred)
  BY <1>1, JobsParts DEF JobsTyped
<1>6. q \in Seq(Jobs) /\ Len(q) = Len(intake) - 1 /\ h \in Jobs
  BY <1>2, <1>3, <1>4, <1>5, TailRests
<1>7. IsInjective(q) /\ h \notin Range(q)
  BY <1>2, <1>3, <1>4, <1>5, ShiftedHolds
<1>8. \A y : y \in Range(intake) <=> y \in Range(q) \/ y = h
  BY <1>2, <1>3, <1>4, <1>5, ShiftedHolds
<1>9. Range(intake) = Range(q) \cup {h} /\ h \in Range(intake)
  BY <1>8
<1>10. /\ Apart(Range(q), Range(batch) \cup {h}, Range(deferred), inFlight)
       /\ Apart(Range(q), Range(batch), Range(deferred) \cup {h}, inFlight)
  BY <1>1, <1>7, <1>9, ApartReceive, JobsParts
<1>11. PICK c \in Nat : c = IntakeCapacity
  <2>1. Cardinality(Episodes) \in Nat /\ MaxEvals \in Nat
    BY ServingAssumption, FS_CardinalityType
  <2> QED BY <2>1 DEF IntakeCapacity
<1>12. Len(q) <= IntakeCapacity
  <2>1. PICK n \in Nat : n = Len(intake)
    BY <1>5, SeqHolds
  <2>2. n <= c
    BY <1>1, <1>11, <2>1 DEF JobsTyped
  <2>3. Len(q) = n - 1
    BY <1>6, <2>1
  <2> QED BY <1>11, <2>2, <2>3
<1>13. Len(inFlight) < Depth
  BY <1>1, <1>2, JobsParts DEF BatchFits
<1>14. CASE batch = <<>> \/ h.model = batch[1].model
  <2>1. batch' = Append(batch, h) /\ UNCHANGED <<pc, deferred>>
    BY <1>4, <1>14 DEF FillReceive
  <2>2. PICK b : b = batch'
    OBVIOUS
  <2>3. b \in Seq(Jobs) /\ Len(b) = Len(batch) + 1 /\ Adds(batch, Len(batch), h, b)
    <3>1. b = Append(batch, h)
      BY <2>1, <2>2
    <3>2. batch \in Seq(Jobs) /\ h \in Jobs
      BY <1>5, <1>6
    <3>3. b \in Seq(Jobs) /\ Len(b) = Len(batch) + 1
      BY <3>1, <3>2, AppendAdds
    <3>4. Adds(batch, Len(batch), h, b)
      BY <3>1, <3>2, AppendAdds
    <3> QED BY <3>3, <3>4
  <2>4. \A y : y \in Range(b) <=> y \in Range(batch) \/ y = h
    BY <1>5, <1>6, <2>1, <2>2, AppendedHolds
  <2>5. Range(b) = Range(batch) \cup {h}
    BY <2>4
  <2>6. PICK m \in Nat : m = Len(batch) /\ DOMAIN batch = 1..m
    BY <1>5, SeqHolds
  <2>7. Len(b) <= MaxBatch
    BY <1>2, <2>3, <2>6, ServingAssumption
  <2>8. OneModel(b)
    <3>1. DOMAIN b = 1..(m + 1)
      BY <2>3, <2>6, SeqHolds
    <3>2. b[m + 1] = h /\ \A i \in 1..m : b[i] = batch[i]
      BY <2>3, <2>6 DEF Adds
    <3>3. \A i \in 1..m : batch[i].model = batch[1].model
      BY <1>1, <2>6, JobsParts DEF OneModel
    <3>4. CASE m = 0
      <4>1. 1..(m + 1) = {1}
        BY <3>4
      <4> QED BY <3>1, <4>1 DEF OneModel
    <3>5. CASE m > 0
      <4>1. batch # <<>>
        BY <2>6, <3>5
      <4>2. h.model = batch[1].model
        BY <1>14, <4>1
      <4>3. 1 \in 1..m /\ 1..(m + 1) = 1..m \cup {m + 1}
        BY <3>5
      <4> QED BY <3>1, <3>2, <3>3, <4>2, <4>3 DEF OneModel
    <3> QED BY <3>4, <3>5
  <2>9. JobsTyped'
    BY <1>1, <1>2, <1>3, <1>6, <1>12, <2>1, <2>2, <2>3, <2>7 DEF JobsTyped
  <2>10. Queued' = Queued
    <3>1. \A j : j \in Queued' <=>
            \/ j \in Range(q) \/ j \in Range(b) \/ j \in Range(deferred)
            \/ \E k \in DOMAIN inFlight : j \in Range(inFlight[k].jobs)
      BY <1>2, <1>3, <2>1, <2>2 DEF Queued
    <3>2. \A j : j \in Queued' <=> j \in Queued
      BY <1>8, <2>4, <3>1, QueuedWhere
    <3> QED BY <3>2 DEF Queued
  <2>11. BatchFits(pc', b, Len(inFlight'))
    BY <1>2, <1>13, <2>1 DEF BatchFits
  <2>12. JobsInOrder'
    BY <1>1, <1>2, <1>3, <1>5, <1>7, <1>10, <2>1, <2>2, <2>5, <2>8, <2>11, JobsParts, JobsPartsNext
  <2> QED BY <1>1, <1>2, <2>9, <2>10, <2>12, JobsMoved
<1>15. CASE ~(batch = <<>> \/ h.model = batch[1].model)
  <2>1. deferred' = Append(deferred, h) /\ batch' = batch /\ pc' \in {"submit", "fill"}
    BY <1>4, <1>15 DEF FillReceive
  <2>2. PICK d : d = deferred'
    OBVIOUS
  <2>3. d \in Seq(Jobs)
    BY <1>5, <1>6, <2>1, <2>2, AppendAdds
  <2>4. h \notin Range(deferred)
    BY <1>1, <1>9, JobsParts DEF Apart
  <2>5. IsInjective(d) /\ \A y : y \in Range(d) <=> y \in Range(deferred) \/ y = h
    BY <1>5, <1>6, <2>1, <2>2, <2>4, AppendedHolds
  <2>6. Range(d) = Range(deferred) \cup {h}
    BY <2>5
  <2>7. Queued' = Queued
    <3>1. \A j : j \in Queued' <=>
            \/ j \in Range(q) \/ j \in Range(batch) \/ j \in Range(d)
            \/ \E k \in DOMAIN inFlight : j \in Range(inFlight[k].jobs)
      BY <1>2, <1>3, <2>1, <2>2 DEF Queued
    <3>2. \A j : j \in Queued' <=> j \in Queued
      BY <1>8, <2>5, <3>1, QueuedWhere
    <3> QED BY <3>2 DEF Queued
  <2>8. Len(d) <= IntakeCapacity
    <3>1. \A j \in Range(d) : j.model = lease[j.episode]
      BY <1>1, <1>9, <2>5, QueuedWhere DEF JobsLeased
    <3> QED BY <2>3, <2>5, <3>1, FewJobs
  <2>9. JobsTyped'
    BY <1>1, <1>2, <1>3, <1>6, <1>12, <2>1, <2>2, <2>3, <2>8 DEF JobsTyped
  <2>10. BatchFits(pc', batch', Len(inFlight'))
    BY <1>2, <1>13, <2>1 DEF BatchFits
  <2>11. JobsInOrder'
    BY <1>1, <1>2, <1>3, <1>7, <1>10, <2>1, <2>2, <2>5, <2>6, <2>10, JobsParts, JobsPartsNext
  <2> QED BY <1>1, <1>2, <2>7, <2>9, <2>11, JobsMoved
<1> QED BY <1>14, <1>15

-----------------------------------------------------------------------------
(* What a step leaves alone.                                               *)

(* The invariant after a step is the conjunction of its parts after it. *)
LEMMA InvariantPartsNext ==
  ServingInOrder' <=>
    /\ LanesTyped' /\ RegistryTyped' /\ JobsTyped' /\ StreamsTyped' /\ ServerTyped' /\ LoaderTyped'
    /\ NoFault' /\ LeasesHeld' /\ JobsLeased' /\ ResidentBounded'
    /\ RegistryInOrder' /\ JobsInOrder' /\ StreamsInOrder' /\ GenerationsInOrder' /\ LoaderInOrder'
<1>1. LeasePinsModel' <=> LeasesHeld' /\ JobsLeased'
  BY DEF LeasePinsModel, LeasesHeld, JobsLeased
<1>2. TypeOK' <=> /\ LanesTyped' /\ RegistryTyped' /\ JobsTyped'
                  /\ StreamsTyped' /\ ServerTyped' /\ LoaderTyped'
  BY DEF TypeOK, LanesTyped, RegistryTyped, JobsTyped, StreamsTyped, ServerTyped, LoaderTyped,
         Batches, Frames, Replies
<1> QED BY <1>1, <1>2 DEF ServingInOrder, ModelsPinned

(* The lanes did nothing. *)
LEMMA LanesStay ==
  ASSUME ServingInOrder, UNCHANGED laneVars
  PROVE  LanesTyped'
BY InvariantParts DEF LanesTyped, laneVars

(* No job moved, and the batcher stays where it is. *)
LEMMA JobsStay ==
  ASSUME ServingInOrder, UNCHANGED <<laneVars, intake, batch, deferred, inFlight, reported, pc>>
  PROVE  JobsTyped' /\ JobsLeased' /\ JobsInOrder'
<1>1. JobsTyped /\ JobsLeased /\ JobsInOrder
  BY InvariantParts
<1>2. Queued' = Queued
  BY DEF Queued
<1>3. JobsLeased'
  BY <1>1, <1>2, JobsMoved DEF laneVars
<1>4. JobsTyped'
  BY <1>1 DEF JobsTyped
<1>5. JobsInOrder'
  BY <1>1, JobsParts, JobsPartsNext
<1> QED BY <1>3, <1>4, <1>5

(* The batcher goes on to another place with no job moved. *)
LEMMA BatcherMoves ==
  ASSUME ServingInOrder, UNCHANGED <<laneVars, intake, batch, deferred, inFlight, reported>>,
         pc' \in {"top", "fill", "release", "submit", "ended"},
         BatchFits(pc', batch, Len(inFlight))
  PROVE  JobsTyped' /\ JobsLeased' /\ JobsInOrder'
<1>1. JobsTyped /\ JobsLeased /\ JobsInOrder
  BY InvariantParts
<1>2. Queued' = Queued
  BY DEF Queued
<1>3. JobsLeased'
  BY <1>1, <1>2, JobsMoved DEF laneVars
<1>4. JobsTyped'
  BY <1>1 DEF JobsTyped
<1>5. JobsInOrder'
  BY <1>1, JobsParts, JobsPartsNext
<1> QED BY <1>3, <1>4, <1>5

(* The models of the evaluator stay as they are. *)
LEMMA ModelsStay ==
  ASSUME ServingInOrder, UNCHANGED <<resident, active, nextGeneration, pending, adopting, loaderVars>>
  PROVE  /\ ServerTyped' /\ LoaderTyped' /\ ResidentBounded' /\ LoaderInOrder' /\ ServerOrder'
         /\ Resident' = Resident
<1>1. ServerTyped /\ LoaderTyped /\ ResidentBounded /\ LoaderInOrder /\ ServerOrder
  BY InvariantParts, GenerationsParts
<1>2. UNCHANGED <<resident, active, nextGeneration, pending, adopting, loader, rejected, published>>
  BY DEF loaderVars
<1>3. Resident' = Resident
  BY <1>2 DEF Resident
<1>4. ServerTyped' /\ LoaderTyped'
  BY <1>1, <1>2 DEF ServerTyped, LoaderTyped
<1>5. ResidentBounded'
  BY <1>1, <1>2 DEF ResidentBounded, Occupied
<1>6. LoaderInOrder'
  BY <1>1, <1>2 DEF LoaderInOrder
<1>7. ServerOrder'
  BY <1>1, <1>2, <1>3 DEF ServerOrder
<1> QED BY <1>3, <1>4, <1>5, <1>6, <1>7

(* The evaluator did nothing. *)
LEMMA ServerStays ==
  ASSUME ServingInOrder, UNCHANGED <<serverVars, loaderVars>>
  PROVE  /\ ServerTyped' /\ LoaderTyped' /\ ResidentBounded' /\ LoaderInOrder' /\ ServerOrder'
         /\ Resident' = Resident
<1>1. UNCHANGED <<resident, active, nextGeneration, pending, adopting>>
  BY DEF serverVars
<1> QED BY <1>1, ModelsStay

(* The registry did nothing. *)
LEMMA RegistryStays ==
  ASSUME ServingInOrder, UNCHANGED <<registryVars, lease, reported>>
  PROVE  /\ RegistryTyped' /\ RegistryInOrder'
         /\ Registered' = Registered /\ current' = current
<1>1. RegistryTyped /\ RegistryInOrder
  BY InvariantParts
<1>2. UNCHANGED <<current, users, releasable>>
  BY DEF registryVars
<1>3. Registered' = Registered
  BY <1>2 DEF Registered
<1>4. RegistryTyped'
  BY <1>1, <1>2, <1>3 DEF RegistryTyped
<1>5. RegistryInOrder'
  BY <1>1, <1>2, <1>3, RegistryCounts, RegistryCountsNext
<1> QED BY <1>2, <1>3, <1>4, <1>5

(* The streams did not move. *)
LEMMA StreamsStay ==
  ASSUME ServingInOrder, UNCHANGED <<inFlight, toServer, toClient, launched, adopting>>
  PROVE  StreamsTyped' /\ StreamsInOrder'
<1>1. StreamsTyped /\ StreamsInOrder
  BY InvariantParts
<1>2. StreamsTyped'
  BY <1>1 DEF StreamsTyped
<1>3. StreamLine'
  BY <1>1, StreamParts DEF StreamLine
<1> QED BY <1>1, <1>2, <1>3, StreamParts, StreamPartsNext

(* What the client knows of is still held. *)
LEMMA KnownStay ==
  ASSUME ServingInOrder, UNCHANGED lease, Registered' = Registered, Resident' = Resident,
         current' = current
  PROVE  LeasesHeld' /\ KnownHeld'
BY InvariantParts, GenerationsParts DEF LeasesHeld, KnownHeld

-----------------------------------------------------------------------------
(* The steps of the batcher.                                               *)

(* Models are released: everything but the jobs is in order afterwards. *)
LEMMA TakeKeepsOrder ==
  ASSUME ServingInOrder, TakeReleasable, toServer' = Join(toServer, ReleaseFrames),
         UNCHANGED <<laneVars, inFlight, reported, toClient, serverVars, loaderVars>>,
         JobsTyped', JobsLeased', JobsInOrder'
  PROVE  ServingInOrder'
<1>1. UNCHANGED <<lease, resident, launched, adopting>>
  BY DEF laneVars, serverVars
<1>2. /\ RegistryTyped' /\ RegistryInOrder' /\ NoFault' /\ LeasesHeld' /\ KnownHeld'
      /\ Resident' = Resident /\ Registered' = Registered \ Range(releasable)
      /\ current' = current
  BY <1>1, TakeInOrder
<1>3. StreamsTyped' /\ StreamsInOrder'
  BY <1>1, TakeStreams
<1>4. LanesTyped'
  BY LanesStay
<1>5. ServerTyped' /\ LoaderTyped' /\ ResidentBounded' /\ LoaderInOrder' /\ ServerOrder'
  BY ServerStays
<1>6. Superseded(toServer', Resident', Registered', current')
  BY <1>2, ReleasesStale
<1>7. Announced(toClient', Resident', current')
  BY <1>2, InvariantParts, GenerationsParts
<1>8. GenerationsInOrder'
  BY <1>2, <1>5, <1>6, <1>7, GenerationsPartsNext
<1> QED BY <1>2, <1>3, <1>4, <1>5, <1>8, InvariantPartsNext

(* The head of the loop. *)
LEMMA TopStep ==
  ASSUME ServingInOrder, BatcherTop
  PROVE  ServingInOrder'
<1>1. TakeReleasable /\ toServer' = Join(toServer, ReleaseFrames)
  BY DEF BatcherTop, Join
<1>2. UNCHANGED <<laneVars, inFlight, reported, toClient, serverVars, loaderVars>>
  BY DEF BatcherTop
<1> QED BY <1>1, <1>2, TopJobs, TakeKeepsOrder

(* The end of a drain in the window. *)
LEMMA ReleasesStep ==
  ASSUME ServingInOrder, FillReleases
  PROVE  ServingInOrder'
<1>1. TakeReleasable /\ toServer' = Join(toServer, ReleaseFrames)
  BY DEF FillReleases, Join
<1>2. /\ UNCHANGED <<laneVars, intake, batch, deferred, inFlight, reported, toClient, serverVars, loaderVars>>
      /\ pc = "release" /\ pc' = "fill"
  BY DEF FillReleases
<1>3. BatchFits(pc', batch, Len(inFlight))
  BY <1>2, InvariantParts, JobsParts DEF BatchFits
<1>4. JobsTyped' /\ JobsLeased' /\ JobsInOrder'
  BY <1>2, <1>3, BatcherMoves
<1> QED BY <1>1, <1>2, <1>4, TakeKeepsOrder

(* Only jobs moved, in the batcher. *)
LEMMA JobsKeepOrder ==
  ASSUME ServingInOrder, LanesTyped', JobsTyped', JobsLeased', JobsInOrder',
         UNCHANGED <<lease, registryVars, inFlight, reported, toServer, toClient, serverVars, loaderVars, fault>>
  PROVE  ServingInOrder'
<1>1. UNCHANGED <<launched, adopting>>
  BY DEF serverVars
<1>2. ServerTyped' /\ LoaderTyped' /\ ResidentBounded' /\ LoaderInOrder' /\ ServerOrder' /\ Resident' = Resident
  BY ServerStays
<1>3. RegistryTyped' /\ RegistryInOrder' /\ Registered' = Registered /\ current' = current
  BY RegistryStays
<1>4. StreamsTyped' /\ StreamsInOrder'
  BY <1>1, StreamsStay
<1>5. LeasesHeld' /\ KnownHeld'
  BY <1>2, <1>3, KnownStay
<1>6. NoFault'
  BY InvariantParts DEF NoFault
<1>7. GenerationsInOrder'
  <2>1. Superseded(toServer, Resident, Registered, current) /\ Announced(toClient, Resident, current)
    BY InvariantParts, GenerationsParts
  <2> QED BY <1>2, <1>3, <1>5, <2>1, GenerationsPartsNext
<1> QED BY <1>2, <1>3, <1>4, <1>5, <1>6, <1>7, InvariantPartsNext

(* A job arrives. *)
LEMMA ReceiveStep ==
  ASSUME ServingInOrder, FillReceive
  PROVE  ServingInOrder'
<1>1. UNCHANGED <<laneVars, registryVars, inFlight, reported, toServer, toClient, serverVars, loaderVars, fault>>
  BY DEF FillReceive
<1>2. UNCHANGED lease
  BY <1>1 DEF laneVars
<1>3. JobsTyped' /\ JobsLeased' /\ JobsInOrder'
  BY ReceiveJobs
<1> QED BY <1>1, <1>2, <1>3, LanesStay, JobsKeepOrder

(* The window ends. *)
LEMMA EndsStep ==
  ASSUME ServingInOrder, FillEnds
  PROVE  ServingInOrder'
<1>1. /\ UNCHANGED <<laneVars, intake, registryVars, batch, deferred, inFlight, reported,
                     toServer, toClient, serverVars, loaderVars, fault>>
      /\ pc = "fill" /\ pc' = "submit"
  BY DEF FillEnds
<1>2. UNCHANGED lease
  BY <1>1 DEF laneVars
<1>3. BatchFits(pc', batch, Len(inFlight))
  BY <1>1, InvariantParts, JobsParts DEF BatchFits
<1>4. JobsTyped' /\ JobsLeased' /\ JobsInOrder'
  BY <1>1, <1>3, BatcherMoves
<1> QED BY <1>1, <1>2, <1>4, LanesStay, JobsKeepOrder

(* An evaluation is sent. *)
LEMMA SendStep ==
  ASSUME ServingInOrder, NEW e \in Episodes, SendEval(e)
  PROVE  ServingInOrder'
<1>1. UNCHANGED <<lease, registryVars, batcherVars, toServer, toClient, serverVars, loaderVars, fault>>
  BY DEF SendEval
<1>2. UNCHANGED <<inFlight, reported>>
  BY <1>1 DEF batcherVars
<1> QED BY <1>1, <1>2, SendInOrder, JobsKeepOrder

(* The lanes return. *)
LEMMA ReturnStep ==
  ASSUME ServingInOrder, LanesReturn
  PROVE  ServingInOrder'
<1>1. /\ UNCHANGED <<lease, outstanding, intake, registryVars, batcherVars, toServer, toClient,
                     serverVars, loaderVars, fault>>
      /\ running' = FALSE
  BY DEF LanesReturn
<1>2. UNCHANGED <<pc, batch, deferred, inFlight, reported>>
  BY <1>1 DEF batcherVars
<1>3. LanesTyped'
  BY <1>1, InvariantParts DEF LanesTyped
<1>4. JobsTyped /\ JobsLeased /\ JobsInOrder
  BY InvariantParts
<1>5. Queued' = Queued
  BY <1>1, <1>2 DEF Queued
<1>6. JobsLeased'
  BY <1>1, <1>4, <1>5, JobsMoved
<1>7. JobsTyped'
  BY <1>1, <1>2, <1>4 DEF JobsTyped
<1>8. JobsInOrder'
  BY <1>1, <1>2, <1>4, JobsParts, JobsPartsNext
<1> QED BY <1>1, <1>2, <1>3, <1>6, <1>7, <1>8, JobsKeepOrder

(* The lanes admit an episode, or one completes: the jobs stay. *)
LEMMA LeaseStep ==
  ASSUME ServingInOrder, NEW e \in Episodes, Admit(e) \/ CompleteEpisode(e)
  PROVE  ServingInOrder'
<1>1. /\ LanesTyped' /\ RegistryTyped' /\ NoFault'
      /\ LeasesHeld' /\ JobsLeased' /\ RegistryInOrder'
  BY AdmitInOrder, CompleteInOrder
<1>2. UNCHANGED <<outstanding, intake, current, batcherVars, toServer, toClient, serverVars, loaderVars>>
  BY DEF Admit, CompleteEpisode
<1>3. UNCHANGED <<pc, batch, deferred, inFlight, reported, launched, adopting>>
  BY <1>2 DEF batcherVars, serverVars
<1>4. JobsTyped'
  BY <1>2, <1>3, InvariantParts DEF JobsTyped
<1>5. JobsInOrder'
  BY <1>2, <1>3, InvariantParts, JobsParts, JobsPartsNext
<1>6. ServerTyped' /\ LoaderTyped' /\ ResidentBounded' /\ LoaderInOrder' /\ ServerOrder' /\ Resident' = Resident
  BY <1>2, ServerStays
<1>7. StreamsTyped' /\ StreamsInOrder'
  BY <1>2, <1>3, StreamsStay
<1>8. Registered' = Registered
  <2>1. RegistryTyped
    BY InvariantParts
  <2>2. CASE Admit(e)
    <3>1. users' = [users EXCEPT ![current] = @ + 1] \/ users' = users
      BY <2>2 DEF Admit, AcquireCurrent
    <3> QED BY <2>1, <3>1 DEF Registered, RegistryTyped
  <2>3. CASE CompleteEpisode(e)
    <3>1. users' = [h \in Registered |-> IF h = lease[e] THEN users[h] - 1 ELSE users[h]]
      BY <2>3 DEF CompleteEpisode, DropLease
    <3> QED BY <3>1 DEF Registered
  <2> QED BY <2>2, <2>3
<1>9. GenerationsInOrder'
  <2>1. /\ Superseded(toServer, Resident, Registered, current) /\ Announced(toClient, Resident, current)
        /\ KnownHeld
    BY InvariantParts, GenerationsParts
  <2>2. KnownHeld'
    BY <1>2, <1>6, <1>8, <2>1 DEF KnownHeld
  <2> QED BY <1>2, <1>6, <1>8, <2>1, <2>2, GenerationsPartsNext
<1> QED BY <1>1, <1>4, <1>5, <1>6, <1>7, <1>9, InvariantPartsNext

(* The batch is for one model; it is sent after the releases. *)
LEMMA SubmitStep ==
  ASSUME ServingInOrder, Submit
  PROVE  ServingInOrder'
<1>1. JobsTyped /\ JobsLeased /\ JobsInOrder /\ StreamsTyped
  BY InvariantParts
<1>2. /\ pc = "submit" /\ batch # <<>> /\ batch' = <<>> /\ pc' \in {"submit", "top"}
      /\ UNCHANGED <<laneVars, intake, deferred, reported, toClient, serverVars, loaderVars>>
  BY DEF Submit
<1>3. UNCHANGED <<lease, outstanding, resident, launched, adopting>>
  BY <1>2 DEF laneVars, serverVars
<1>4. /\ OneModel(batch) /\ ForOneModel(inFlight) /\ Len(inFlight) < Depth
      /\ Apart(Range(intake), Range(batch), Range(deferred), inFlight)
      /\ IsInjective(intake) /\ IsInjective(deferred)
  BY <1>1, <1>2, JobsParts DEF BatchFits
<1>5. TakeReleasable
  BY <1>4 DEF Submit, OneModel
<1>6. PICK b : b = [jobs |-> batch, model |-> batch[1].model]
  OBVIOUS
<1>7. batch \in Seq(Jobs) /\ inFlight \in Seq(Batches)
  BY <1>1 DEF JobsTyped, StreamsTyped
<1>8. \A i \in DOMAIN batch : batch[i] \in Jobs
  BY <1>7
<1>9. 1 \in DOMAIN batch
  <2>1. PICK n \in Nat : n = Len(batch) /\ DOMAIN batch = 1..n /\ n > 0
    BY <1>2, <1>7, SeqHolds
  <2> QED BY <2>1
<1>10. b \in Batches /\ b.jobs = batch /\ b.model = batch[1].model
  <2>1. batch[1].model \in Generations
    BY <1>8, <1>9 DEF Jobs
  <2> QED BY <1>6, <1>7, <2>1 DEF Batches
<1>11. inFlight' = Append(inFlight, b)
  BY <1>6 DEF Submit
<1>12. PICK mid : mid = Join(toServer, ReleaseFrames)
  OBVIOUS
<1>13. PICK f : f = EvalFrame(b.model)
  OBVIOUS
<1>14. toServer' = Append(mid, f)
  <2>1. toServer' = Append(Join(toServer, ReleaseFrames), EvalFrame(batch[1].model))
    BY DEF Submit, Join
  <2>2. f = EvalFrame(batch[1].model)
    BY <1>10, <1>13
  <2> QED BY <1>12, <2>1, <2>2
<1>15. StreamsTyped' /\ StreamsInOrder'
  BY <1>2, <1>3, <1>4, <1>10, <1>11, <1>12, <1>13, <1>14, SubmitStreams
<1>16. /\ RegistryTyped' /\ RegistryInOrder' /\ NoFault' /\ LeasesHeld' /\ KnownHeld'
       /\ Resident' = Resident /\ Registered' = Registered \ Range(releasable)
       /\ current' = current
  BY <1>2, <1>3, <1>5, TakeInOrder
<1>17. LanesTyped' /\ ServerTyped' /\ LoaderTyped' /\ ResidentBounded' /\ LoaderInOrder' /\ ServerOrder'
  BY <1>2, LanesStay, ServerStays
<1>18. GenerationsInOrder'
  <2>1. mid \in Seq(Frames)
    BY <1>1, <1>12, InvariantParts, FramesAppended
  <2>2. Superseded(mid, Resident, Registered \ Range(releasable), current)
    BY <1>12, ReleasesStale
  <2>3. f \in Frames /\ f.type = "EVAL"
    BY <1>10, <1>13 DEF EvalFrame, Frames, Batches
  <2>4. PICK t : t = toServer'
    OBVIOUS
  <2>5. t = Append(mid, f)
    BY <1>14, <2>4
  <2>6. Superseded(t, Resident, Registered \ Range(releasable), current)
    BY <2>1, <2>2, <2>3, <2>5, SupersededAppend
  <2>7. Announced(toClient', Resident', current')
    BY <1>2, <1>16, InvariantParts, GenerationsParts
  <2> QED BY <1>16, <1>17, <2>4, <2>6, <2>7, GenerationsPartsNext
<1>19. PICK fm : fm = inFlight'
  OBVIOUS
<1>20. /\ Apart(Range(intake), {}, Range(deferred), fm) /\ ForOneModel(fm)
       /\ \A j : (\E k \in DOMAIN fm : j \in Range(fm[k].jobs)) <=>
                   j \in Range(batch) \/ \E k \in DOMAIN inFlight : j \in Range(inFlight[k].jobs)
  <2>1. fm = Append(inFlight, b)
    BY <1>11, <1>19
  <2>2. \A j \in Range(batch) : j.model = b.model
    BY <1>4, <1>10 DEF OneModel, Range
  <2>3. Range(batch) = Range(b.jobs) /\ b.jobs # <<>> /\ b \in Batches /\ inFlight \in Seq(Batches)
    BY <1>2, <1>7, <1>10
  <2>4. Apart(Range(intake), Range(batch), Range(deferred), inFlight) /\ ForOneModel(inFlight)
    BY <1>4
  <2>5. Apart(Range(intake), {}, Range(deferred), fm) /\ ForOneModel(fm)
    BY <2>1, <2>2, <2>3, <2>4, ApartSubmit
  <2>6. \A j : (\E k \in DOMAIN fm : j \in Range(fm[k].jobs)) <=>
                j \in Range(batch) \/ \E k \in DOMAIN inFlight : j \in Range(inFlight[k].jobs)
    BY <2>1, <2>2, <2>3, <2>4, ApartSubmit
  <2> QED BY <2>5, <2>6
<1>21. Range(batch') = {}
  BY <1>2 DEF Range
<1>22. Queued' = Queued
  <2>1. \A j : j \in Queued' <=>
          \/ j \in Range(intake) \/ j \in Range(batch') \/ j \in Range(deferred)
          \/ \E k \in DOMAIN fm : j \in Range(fm[k].jobs)
    BY <1>2, <1>19 DEF Queued
  <2>2. \A j : j \in Queued' <=> j \in Queued
    BY <1>20, <1>21, <2>1, QueuedWhere
  <2> QED BY <2>2 DEF Queued
<1>23. JobsLeased'
  BY <1>1, <1>3, <1>22, JobsMoved
<1>24. JobsTyped'
  <2>1. <<>> \in Seq(Jobs) /\ Len(<<>>) <= MaxBatch
    BY ServingAssumption
  <2> QED BY <1>1, <1>2, <2>1 DEF JobsTyped
<1>25. JobsInOrder'
  <2>1. OneModel(batch') /\ BatchFits(pc', batch', Len(inFlight'))
    BY <1>2 DEF OneModel, BatchFits
  <2> QED BY <1>2, <1>4, <1>19, <1>20, <1>21, <2>1, JobsPartsNext
<1> QED BY <1>15, <1>16, <1>17, <1>18, <1>23, <1>24, <1>25, InvariantPartsNext

(* Jobs that wait are told apart by episode and token. *)
LEMMA QueuedApart ==
  ASSUME JobsTyped, StreamsTyped, JobsLeased, NEW i \in Queued, NEW j \in Queued,
         i.episode = j.episode, i.token = j.token
  PROVE  i = j
<1>1. i \in Jobs /\ j \in Jobs
  BY QueuedTyped
<1>2. i.model = j.model
  BY DEF JobsLeased
<1>3. \A y \in Jobs : y = [episode |-> y.episode, token |-> y.token, model |-> y.model]
  BY DEF Jobs
<1> QED BY <1>1, <1>2, <1>3

(* The jobs of the oldest batch are routed, and no other is. *)
LEMMA DrainJobs ==
  ASSUME ServingInOrder, NEW next \in {"release", "top"}, DrainOldest(next),
         BatchFits(next, batch, Len(inFlight) - 1),
         reported' \in Generations,
         outstanding' = [e \in Episodes |-> {t \in outstanding[e] :
           ~\E j \in Range(Head(inFlight).jobs) : j.episode = e /\ j.token = t}]
  PROVE  LanesTyped' /\ JobsTyped' /\ JobsLeased' /\ JobsInOrder'
<1>1. LanesTyped /\ JobsTyped /\ JobsLeased /\ JobsInOrder /\ StreamsTyped
  BY InvariantParts
<1>2. /\ inFlight # <<>> /\ inFlight' = Tail(inFlight) /\ pc' = next
      /\ UNCHANGED <<lease, running, intake, batch, deferred>>
  BY DEF DrainOldest
<1>3. PICK fm : fm = inFlight'
  OBVIOUS
<1>4. PICK H : H = Range(Head(inFlight).jobs)
  OBVIOUS
<1>5. inFlight \in Seq(Batches) /\ fm = Tail(inFlight)
  BY <1>1, <1>2, <1>3 DEF StreamsTyped
<1>6. Apart(Range(intake), Range(batch), Range(deferred), inFlight) /\ ForOneModel(inFlight)
  BY <1>1, JobsParts
<1>7. Apart(Range(intake), Range(batch), Range(deferred), fm) /\ ForOneModel(fm)
  BY <1>2, <1>5, <1>6, ApartTail
<1>8. H \cap (Range(intake) \cup Range(batch) \cup Range(deferred)) = {}
  BY <1>2, <1>4, <1>5, <1>6, ApartTail
<1>9. Leaves(H, inFlight, fm)
  <2>1. Leaves(Range(Head(inFlight).jobs), inFlight, fm)
    BY <1>2, <1>5, <1>6, ApartTail
  <2> QED BY <1>4, <2>1
<1>10. \A j : j \in Queued' <=>
         \/ j \in Range(intake) \/ j \in Range(batch) \/ j \in Range(deferred)
         \/ \E k \in DOMAIN fm : j \in Range(fm[k].jobs)
  BY <1>2, <1>3 DEF Queued
<1>11. \A j : (j \in Queued <=> j \in Queued' \/ j \in H) /\ ~(j \in Queued' /\ j \in H)
  BY <1>8, <1>9, <1>10, QueuedWhere DEF Leaves
<1>12. PICK Q : Q = Queued'
  OBVIOUS
<1>13. \A x \in Episodes, u \in Token :
         u \in outstanding'[x] <=> u \in outstanding[x] /\ ~\E j \in H : j.episode = x /\ j.token = u
  <2>1. outstanding \in [Episodes -> SUBSET Token]
    BY <1>1 DEF LanesTyped
  <2>2. outstanding' = [e \in Episodes |-> {t \in outstanding[e] : ~\E j \in H : j.episode = e /\ j.token = t}]
    BY <1>4
  <2> QED BY <2>1, <2>2
<1>14. LanesTyped'
  <2>1. outstanding \in [Episodes -> SUBSET Token]
    BY <1>1 DEF LanesTyped
  <2>2. outstanding' \in [Episodes -> SUBSET Token]
    BY <2>1
  <2> QED BY <1>1, <1>2, <2>2 DEF LanesTyped
<1>15. JobsTyped'
  BY <1>1, <1>2 DEF JobsTyped
<1>16. JobsLeased'
  <2>1. \A j \in Q : j.model = lease[j.episode]
    BY <1>1, <1>11, <1>12 DEF JobsLeased
  <2>2. ASSUME NEW x \in Episodes, NEW u \in Token
        PROVE  u \in outstanding'[x] <=> \E y \in Q : y.episode = x /\ y.token = u
    <3>1. u \in outstanding[x] <=> \E y \in Queued : y.episode = x /\ y.token = u
      BY <1>1 DEF JobsLeased
    <3>2. ASSUME NEW y \in Q, y.episode = x, y.token = u PROVE u \in outstanding'[x]
      <4>1. y \in Queued
        BY <1>11, <1>12
      <4>2. ASSUME NEW j \in H, j.episode = x, j.token = u PROVE FALSE
        <5>1. j \in Queued
          BY <1>11
        <5>2. j = y
          BY <1>1, <3>2, <4>1, <4>2, <5>1, QueuedApart
        <5> QED BY <1>11, <1>12, <5>2
      <4> QED BY <1>13, <3>1, <3>2, <4>1, <4>2
    <3>3. ASSUME u \in outstanding'[x] PROVE \E y \in Q : y.episode = x /\ y.token = u
      <4>1. PICK y \in Queued : y.episode = x /\ y.token = u
        BY <1>13, <3>1, <3>3
      <4>2. y \notin H
        BY <1>13, <3>3, <4>1
      <4> QED BY <1>11, <1>12, <4>1, <4>2
    <3> QED BY <3>2, <3>3
  <2> QED BY <1>2, <1>12, <2>1, <2>2 DEF JobsLeased
<1>17. JobsInOrder'
  <2>1. Len(fm) = Len(inFlight) - 1
    BY <1>2, <1>5, TailRests
  <2>2. BatchFits(pc', batch', Len(inFlight'))
    BY <1>2, <1>3, <2>1
  <2> QED BY <1>1, <1>2, <1>3, <1>7, <2>2, JobsParts, JobsPartsNext
<1> QED BY <1>14, <1>15, <1>16, <1>17

(* A reply is drained: it is for the oldest batch, and the generation it     *)
(* announces becomes the current one.                                        *)
LEMMA DrainStep ==
  ASSUME ServingInOrder, NEW next \in {"release", "top"}, DrainOldest(next),
         BatchFits(next, batch, Len(inFlight) - 1)
  PROVE  ServingInOrder'
<1>1. /\ inFlight # <<>> /\ toClient # <<>> /\ inFlight' = Tail(inFlight) /\ toClient' = Tail(toClient)
      /\ UNCHANGED <<lease, toServer, serverVars, loaderVars>>
      /\ reported' = Head(toClient).active
  BY DEF DrainOldest
<1>2. UNCHANGED <<resident, launched, adopting>>
  BY <1>1 DEF serverVars
<1>3. Head(toClient).version = Head(inFlight).model.version
  BY <1>1, <1>2, DrainStreams
<1>4. StreamsTyped' /\ StreamsInOrder'
  BY <1>1, <1>2, DrainStreams
<1>5. PICK g : g = Head(toClient).active
  OBVIOUS
<1>6. Publish(g) /\ outstanding' = [e \in Episodes |-> {t \in outstanding[e] :
           ~\E j \in Range(Head(inFlight).jobs) : j.episode = e /\ j.token = t}]
  BY <1>3, <1>5 DEF DrainOldest
<1>7. PICK td : td = toClient'
  OBVIOUS
<1>8. g \in Resident /\ current.version <= g.version /\ Announced(td, Resident, g)
  <2>1. toClient \in Seq(Replies) /\ Announced(toClient, Resident, current)
    BY InvariantParts, GenerationsParts DEF StreamsTyped
  <2>2. td = Tail(toClient)
    BY <1>1, <1>7
  <2> QED BY <1>1, <1>5, <2>1, <2>2, AnnouncedTail
<1>9. /\ RegistryTyped' /\ RegistryInOrder' /\ NoFault' /\ LeasesHeld' /\ KnownHeld'
      /\ Resident' = Resident /\ Registered' = Registered \cup {g} /\ current' = g
  BY <1>1, <1>2, <1>5, <1>6, <1>8, PublishInOrder
<1>10. g \in Generations /\ current \in Generations
  BY <1>8, InvariantParts, ResidentOrder DEF RegistryTyped
<1>11. LanesTyped' /\ JobsTyped' /\ JobsLeased' /\ JobsInOrder'
  BY <1>1, <1>5, <1>6, <1>10, DrainJobs
<1>12. ServerTyped' /\ LoaderTyped' /\ ResidentBounded' /\ LoaderInOrder' /\ ServerOrder'
  BY <1>1, ServerStays
<1>13. Superseded(toServer, Resident, Registered \cup {g}, g)
  <2>1. toServer \in Seq(Frames) /\ Superseded(toServer, Resident, Registered, current)
    BY InvariantParts, GenerationsParts DEF StreamsTyped
  <2> QED BY <1>8, <1>10, <2>1, SupersededLater
<1>14. GenerationsInOrder'
  BY <1>1, <1>7, <1>8, <1>9, <1>12, <1>13, GenerationsPartsNext
<1> QED BY <1>4, <1>9, <1>11, <1>12, <1>14, InvariantPartsNext

(* The pipeline is drained while the window elapses, or before the next      *)
(* round of the loop.                                                        *)
LEMMA DrainsStep ==
  ASSUME ServingInOrder, FillDrains \/ TailDrains
  PROVE  ServingInOrder'
<1>1. Len(inFlight) \in Nat /\ Depth \in Nat
  BY StreamLengths
<1>2. CASE FillDrains
  <2>1. pc = "fill" /\ DrainOldest("release")
    BY <1>2 DEF FillDrains
  <2>2. Len(inFlight) < Depth
    BY <2>1, InvariantParts, JobsParts DEF BatchFits
  <2>3. Len(inFlight) - 1 < Depth
    BY <1>1, <2>2
  <2>4. BatchFits("release", batch, Len(inFlight) - 1)
    BY <2>3 DEF BatchFits
  <2> QED BY <2>1, <2>4, DrainStep
<1>3. CASE pc = "submit" /\ batch = <<>> /\ DrainOldest("top")
  <2>1. BatchFits("top", batch, Len(inFlight) - 1)
    BY <1>3 DEF BatchFits
  <2> QED BY <1>3, <2>1, DrainStep
<1>4. CASE /\ batch = <<>> /\ pc' = "top"
           /\ UNCHANGED <<laneVars, intake, registryVars, batch, deferred, inFlight,
                          reported, toServer, toClient, serverVars, loaderVars, fault>>
  <2>1. BatchFits(pc', batch, Len(inFlight))
    BY <1>4 DEF BatchFits
  <2>2. JobsTyped' /\ JobsLeased' /\ JobsInOrder'
    BY <1>4, <2>1, BatcherMoves
  <2>3. UNCHANGED lease
    BY <1>4 DEF laneVars
  <2> QED BY <1>4, <2>2, <2>3, LanesStay, JobsKeepOrder
<1> QED BY <1>2, <1>3, <1>4 DEF TailDrains

-----------------------------------------------------------------------------
(* The steps of the serving thread.                                        *)

(* The active generation is the latest, and the current one is held. *)
LEMMA ActiveLatest ==
  ASSUME ServingInOrder
  PROVE  /\ active \in Resident /\ current \in Resident /\ current \in Registered
         /\ \A g \in Resident : g \in Generations /\ g.version <= active.version
<1>1. ServerTyped /\ GenerationsInOrder /\ RegistryInOrder
  BY InvariantParts
<1>2. current \in Registered
  BY <1>1 DEF RegistryInOrder
<1>3. current \in Resident /\ active \in Resident
  BY <1>1, <1>2 DEF GenerationsInOrder
<1>4. \A v \in DOMAIN resident : v <= active.version
  BY <1>1 DEF GenerationsInOrder
<1> QED BY <1>1, <1>2, <1>3, <1>4, ResidentOrder

(* A request is for a model that its episodes lease: it is loaded. *)
LEMMA AskedIsHeld ==
  ASSUME ServingInOrder, toServer # <<>>, Head(toServer).type = "EVAL"
  PROVE  Head(toServer).model \in Resident /\ Head(toServer).model.version \in DOMAIN resident
<1>1. /\ LanesTyped /\ StreamsTyped /\ JobsTyped /\ JobsLeased /\ LeasesHeld /\ JobsInOrder
      /\ ServerTyped /\ GenerationsInOrder
  BY InvariantParts
<1>2. PICK k \in DOMAIN inFlight : Head(toServer).model = inFlight[k].model
  BY ServedIsInFlight
<1>3. inFlight \in Seq(Batches)
  BY <1>1 DEF StreamsTyped
<1>4. inFlight[k].jobs \in Seq(Jobs) /\ inFlight[k].model \in Generations
  <2>1. inFlight[k] \in Batches
    BY <1>3, SeqHolds
  <2> QED BY <2>1 DEF Batches
<1>5. inFlight[k].jobs # <<>> /\ \A j \in Range(inFlight[k].jobs) : j.model = inFlight[k].model
  BY <1>1, JobsParts DEF ForOneModel
<1>6. PICK j : j \in Range(inFlight[k].jobs)
  <2>1. PICK n \in Nat : n = Len(inFlight[k].jobs) /\ n > 0
    BY <1>4, <1>5, SeqHolds
  <2>2. 1 \in 1..n
    BY <2>1
  <2> QED BY <1>4, <2>1, <2>2, SeqHolds
<1>7. j \in Queued
  BY <1>6, QueuedWhere
<1>8. j.episode \in Episodes /\ j.model = lease[j.episode]
  BY <1>1, <1>7, QueuedTyped DEF JobsLeased
<1>9. lease[j.episode] # None
  BY <1>4, <1>5, <1>6, <1>8, GenerationParts
<1>10. lease[j.episode] \in Resident
  BY <1>1, <1>8, <1>9 DEF LeasesHeld
<1> QED BY <1>1, <1>2, <1>5, <1>6, <1>8, <1>10, ResidentOrder

(* What is in order while more is held. *)
LEMMA AnnouncedMore ==
  ASSUME NEW s, NEW held, NEW more, NEW c, Announced(s, held, c), held \subseteq more
  PROVE  Announced(s, more, c)
BY DEF Announced

(* The same for the releases. *)
LEMMA SupersededMore ==
  ASSUME NEW s, NEW held, NEW more, NEW known, NEW c, Superseded(s, held, known, c), held \subseteq more
  PROVE  Superseded(s, more, known, c)
BY DEF Superseded

(* The client did nothing. *)
LEMMA ClientStays ==
  ASSUME ServingInOrder, UNCHANGED <<laneVars, intake, registryVars, batcherVars>>
  PROVE  /\ LanesTyped' /\ JobsTyped' /\ JobsLeased' /\ JobsInOrder'
         /\ RegistryTyped' /\ RegistryInOrder'
         /\ Registered' = Registered /\ current' = current /\ lease' = lease /\ inFlight' = inFlight
<1>1. UNCHANGED <<lease, pc, batch, deferred, inFlight, reported>>
  BY DEF laneVars, batcherVars
<1> QED BY <1>1, LanesStay, JobsStay, RegistryStays

(* The oldest result is sent back, with the active generation. *)
LEMMA FlushStep ==
  ASSUME ServingInOrder, Flush
  PROVE  ServingInOrder'
<1>1. /\ launched # <<>> /\ launched' = Tail(launched)
      /\ toClient' = Append(toClient, [version |-> Head(launched), active |-> active])
      /\ UNCHANGED <<laneVars, intake, registryVars, batcherVars, toServer, resident, active,
                     nextGeneration, pending, adopting, loaderVars, fault>>
  BY DEF Flush
<1>2. /\ LanesTyped' /\ JobsTyped' /\ JobsLeased' /\ JobsInOrder'
      /\ RegistryTyped' /\ RegistryInOrder'
      /\ Registered' = Registered /\ current' = current /\ lease' = lease /\ inFlight' = inFlight
  BY <1>1, ClientStays
<1>3. /\ ServerTyped' /\ LoaderTyped' /\ ResidentBounded' /\ LoaderInOrder' /\ ServerOrder'
      /\ Resident' = Resident
  BY <1>1, ModelsStay
<1>4. LeasesHeld' /\ KnownHeld'
  BY <1>2, <1>3, KnownStay
<1>5. NoFault'
  BY <1>1, InvariantParts DEF NoFault
<1>6. PICK r : r = [version |-> Head(launched), active |-> active]
  OBVIOUS
<1>7. launched \in Seq(Versions) /\ toClient \in Seq(Replies) /\ active \in Generations
  BY InvariantParts DEF StreamsTyped, ServerTyped
<1>8. r \in Replies /\ r.version = Head(launched) /\ r.active = active
  <2>1. Head(launched) \in Versions
    BY <1>1, <1>7, TailRests
  <2> QED BY <1>6, <1>7, <2>1 DEF Replies
<1>9. StreamsTyped' /\ StreamsInOrder'
  <2>1. toClient' = Append(toClient, r)
    BY <1>1, <1>6
  <2> QED BY <1>1, <1>2, <1>8, <2>1, FlushStreams
<1>10. PICK t : t = toClient'
  OBVIOUS
<1>11. Announced(t, Resident, current)
  <2>1. Announced(toClient, Resident, current)
    BY InvariantParts, GenerationsParts
  <2>2. r.active \in Resident /\ current.version <= r.active.version
    BY <1>8, ActiveLatest
  <2>3. \A i \in DOMAIN toClient : toClient[i].active.version <= r.active.version
    BY <1>8, <2>1, ActiveLatest DEF Announced
  <2>4. t = Append(toClient, r)
    BY <1>1, <1>6, <1>10
  <2> QED BY <1>7, <1>8, <2>1, <2>2, <2>3, <2>4, AnnouncedAppend
<1>12. GenerationsInOrder'
  <2>1. Superseded(toServer, Resident, Registered, current)
    BY InvariantParts, GenerationsParts
  <2> QED BY <1>1, <1>2, <1>3, <1>4, <1>10, <1>11, <2>1, GenerationsPartsNext
<1> QED BY <1>2, <1>3, <1>4, <1>5, <1>9, <1>12, InvariantPartsNext

(* A request is staged: the model it names is loaded. *)
LEMMA StageInOrder ==
  ASSUME ServingInOrder, toServer # <<>>, Head(toServer).type = "EVAL",
         NEW held, DOMAIN resident \subseteq held, Stage(held), adopting' = 0,
         UNCHANGED <<inFlight, toClient>>
  PROVE  /\ StreamsTyped' /\ StreamsInOrder' /\ NoFault'
         /\ Superseded(toServer', Resident, Registered, current)
<1>1. Head(toServer).model.version \in held
  BY AskedIsHeld
<1>2. /\ toServer' = Tail(toServer) /\ launched' = Append(launched, Head(toServer).model.version)
      /\ UNCHANGED fault
  BY <1>1 DEF Stage
<1>3. StreamsTyped' /\ StreamsInOrder'
  BY <1>2, ServeStreams
<1>4. NoFault'
  BY <1>2, InvariantParts DEF NoFault
<1>5. PICK t : t = toServer'
  OBVIOUS
<1>6. Superseded(t, Resident, Registered, current)
  <2>1. toServer \in Seq(Frames) /\ Superseded(toServer, Resident, Registered, current)
    BY InvariantParts, GenerationsParts DEF StreamsTyped
  <2>2. t = Tail(toServer)
    BY <1>2, <1>5
  <2> QED BY <2>1, <2>2, SupersededTail
<1> QED BY <1>3, <1>4, <1>5, <1>6

(* A request is served, or makes a swap begin that was waiting for it. *)
LEMMA EvalStep ==
  ASSUME ServingInOrder, ServeEval
  PROVE  ServingInOrder'
<1>1. /\ adopting = 0 /\ toServer # <<>> /\ Head(toServer).type = "EVAL"
      /\ UNCHANGED <<laneVars, intake, registryVars, batcherVars, toClient, resident, active,
                     nextGeneration, loaderVars>>
  BY DEF ServeEval, Reads
<1>2. /\ LanesTyped' /\ JobsTyped' /\ JobsLeased' /\ JobsInOrder'
      /\ RegistryTyped' /\ RegistryInOrder'
      /\ Registered' = Registered /\ current' = current /\ lease' = lease /\ inFlight' = inFlight
  BY <1>1, ClientStays
<1>3. /\ ServerTyped /\ LoaderTyped /\ ResidentBounded /\ LoaderInOrder /\ StreamsTyped
      /\ ServerOrder /\ Announced(toClient, Resident, current)
      /\ Superseded(toServer, Resident, Registered, current)
  BY InvariantParts, GenerationsParts
<1>4. CASE pending = 0 /\ Stage(DOMAIN resident) /\ UNCHANGED <<pending, adopting>>
  <2>1. /\ ServerTyped' /\ LoaderTyped' /\ ResidentBounded' /\ LoaderInOrder' /\ ServerOrder'
        /\ Resident' = Resident
    BY <1>1, <1>4, ModelsStay
  <2>2. LeasesHeld' /\ KnownHeld'
    BY <1>2, <2>1, KnownStay
  <2>3. /\ StreamsTyped' /\ StreamsInOrder' /\ NoFault'
        /\ Superseded(toServer', Resident, Registered, current)
    BY <1>1, <1>2, <1>4, StageInOrder
  <2>4. GenerationsInOrder'
    BY <1>1, <1>2, <1>3, <2>1, <2>2, <2>3, GenerationsPartsNext
  <2> QED BY <1>2, <2>1, <2>2, <2>3, <2>4, InvariantPartsNext
<1>5. CASE /\ pending # 0 /\ adopting' = pending /\ pending' = 0
           /\ UNCHANGED <<toServer, launched, fault>>
  <2>1. UNCHANGED <<loader, rejected, published>> /\ Resident' = Resident
    BY <1>1 DEF loaderVars, Resident
  <2>2. ServerTyped' /\ ServerOrder'
    BY <1>1, <1>3, <2>1 DEF ServerTyped, ServerOrder
  <2>3. LoaderTyped'
    BY <1>3, <1>5, <2>1, ServingAssumption DEF LoaderTyped
  <2>4. LeasesHeld' /\ KnownHeld'
    BY <1>2, <2>1, KnownStay
  <2>5. NoFault'
    BY <1>5, InvariantParts DEF NoFault
  <2>6. StreamsTyped' /\ StreamsInOrder'
    <3>1. StreamsTyped'
      BY <1>1, <1>2, <1>3, <1>5 DEF StreamsTyped
    <3>2. StreamLine'
      BY <1>1, <1>2, <1>5, StreamLengths DEF StreamLine
    <3>3. 1 \in EvalsOf(toServer)
      <4>1. toServer \in Seq(Frames)
        BY <1>3 DEF StreamsTyped
      <4>2. toServer[1].type = "EVAL"
        BY <1>1, <4>1, TailRests
      <4> QED BY <1>1, <4>1, <4>2, EvalTail
    <3> QED BY <1>5, <3>1, <3>2, <3>3, StreamPartsNext
  <2>7. ResidentBounded'
    <3>1. PICK c \in Nat : c = Cardinality(DOMAIN resident)
      BY <1>3, HeldFinite
    <3>2. PICK l \in Nat : l = IF loader.at = "loading" THEN 1 ELSE 0
      OBVIOUS
    <3>3. Occupied = c + 1 + l + 0
      BY <1>1, <1>5, <3>1, <3>2 DEF Occupied
    <3>4. Occupied' = c + 0 + l + 1
      BY <1>1, <1>5, <2>1, <3>1, <3>2 DEF Occupied
    <3>5. Occupied' = Occupied
      BY <3>3, <3>4
    <3> QED BY <1>3, <3>5 DEF ResidentBounded
  <2>8. LoaderInOrder'
    <3>1. published \in Nat /\ pending \in Nat /\ loader.version \in Nat
      BY <1>3, VersionsInt DEF LoaderTyped
    <3>2. \A v \in DOMAIN resident \cup {0, pending, loader.version} : v <= published
      BY <1>1, <1>3 DEF LoaderInOrder
    <3>3. loader.at # "idle" =>
            /\ loader.version \in Versions
            /\ \A v \in DOMAIN resident \cup {0, pending} : v <= loader.version
      BY <1>1, <1>3 DEF LoaderInOrder
    <3>4. loader.at = "loading" => loader.version \notin {active.version, 0, pending}
      BY <1>1, <1>3 DEF LoaderInOrder
    <3>5. pending > active.version
      BY <1>3, <1>5 DEF LoaderInOrder
    <3> QED BY <1>1, <1>5, <2>1, <3>2, <3>3, <3>4, <3>5 DEF LoaderInOrder
  <2>9. GenerationsInOrder'
    BY <1>1, <1>2, <1>3, <1>5, <2>1, <2>2, <2>4, GenerationsPartsNext
  <2> QED BY <1>2, <2>2, <2>3, <2>4, <2>5, <2>6, <2>7, <2>8, <2>9, InvariantPartsNext
<1> QED BY <1>4, <1>5 DEF ServeEval

(* A version that is adopted is one more that is held. *)
LEMMA HeldMore ==
  ASSUME NEW r, NEW v, v \notin DOMAIN r, NEW n, NEW q,
         q = [w \in DOMAIN r \cup {v} |-> IF w = v THEN n ELSE r[w]]
  PROVE  /\ HeldBy(q) = HeldBy(r) \cup {Generation(n, v)}
         /\ DOMAIN q = DOMAIN r \cup {v} /\ q[v] = n /\ \A w \in DOMAIN r : q[w] = r[w]
<1>1. DOMAIN q = DOMAIN r \cup {v} /\ q[v] = n /\ \A w \in DOMAIN r : q[w] = r[w]
  OBVIOUS
<1>2. \A g : g \in HeldBy(q) <=> g \in HeldBy(r) \/ g = Generation(n, v)
  BY <1>1 DEF HeldBy
<1> QED BY <1>1, <1>2

Without(q, r, g) == DOMAIN q = DOMAIN r \ {g.version} /\ \A v \in DOMAIN q : q[v] = r[v]

(* A version that is given up is held no more, and all others are. *)
LEMMA HeldLess ==
  ASSUME NEW r, NEW g \in HeldBy(r), NEW q, Without(q, r, g)
  PROVE  HeldBy(q) = HeldBy(r) \ {g}
<1>1. DOMAIN q = DOMAIN r \ {g.version} /\ \A v \in DOMAIN q : q[v] = r[v]
  BY DEF Without
<1>2. ASSUME NEW h \in HeldBy(q) PROVE h \in HeldBy(r) /\ h # g
  <2>1. PICK v \in DOMAIN q : h = Generation(q[v], v)
    BY DEF HeldBy
  <2>2. h.version = v
    BY <2>1, GenerationParts
  <2> QED BY <1>1, <2>1, <2>2 DEF HeldBy
<1>3. ASSUME NEW h \in HeldBy(r), h # g PROVE h \in HeldBy(q)
  <2>1. h.version \in DOMAIN r /\ h = Generation(r[h.version], h.version) /\ h.version # g.version
    BY <1>3, HeldOnce
  <2>2. h.version \in DOMAIN q
    BY <1>1, <2>1
  <2> QED BY <1>1, <2>1, <2>2 DEF HeldBy
<1> QED BY <1>1, <1>2, <1>3

(* The warm-up ends while a request waits for it: the version is adopted as  *)
(* the latest generation, or refused.                                        *)
LEMMA AdoptStep ==
  ASSUME ServingInOrder, Adopt
  PROVE  ServingInOrder'
<1>1. /\ adopting # 0 /\ adopting' = 0
      /\ UNCHANGED <<laneVars, intake, registryVars, batcherVars, toClient, pending, loader, published>>
  BY DEF Adopt
<1>2. /\ LanesTyped' /\ JobsTyped' /\ JobsLeased' /\ JobsInOrder'
      /\ RegistryTyped' /\ RegistryInOrder'
      /\ Registered' = Registered /\ current' = current /\ lease' = lease /\ inFlight' = inFlight
  BY <1>1, ClientStays
<1>3. /\ ServerTyped /\ LoaderTyped /\ ResidentBounded /\ LoaderInOrder /\ StreamsTyped /\ StreamsInOrder
      /\ LeasesHeld /\ KnownHeld /\ ServerOrder /\ Announced(toClient, Resident, current)
      /\ Superseded(toServer, Resident, Registered, current)
  BY InvariantParts, GenerationsParts
<1>4. toServer # <<>> /\ Head(toServer).type = "EVAL"
  <2>1. 1 \in EvalsOf(toServer)
    BY <1>1, <1>3, StreamParts
  <2>2. toServer \in Seq(Frames) /\ toServer # <<>>
    BY <1>3, <2>1 DEF StreamsTyped, EvalsOf
  <2>3. Head(toServer) = toServer[1]
    BY <2>2, TailRests
  <2> QED BY <2>1, <2>2, <2>3 DEF EvalsOf
<1>5. PICK c \in Nat : c = Cardinality(DOMAIN resident) /\ IsFiniteSet(DOMAIN resident)
  BY <1>3, HeldFinite
<1>6. PICK p \in Nat : p = IF pending # 0 THEN 1 ELSE 0
  OBVIOUS
<1>7. PICK l \in Nat : l = IF loader.at = "loading" THEN 1 ELSE 0
  OBVIOUS
<1>8. Occupied = c + p + l + 1 /\ Occupied <= MaxResident /\ MaxResident \in Nat
  BY <1>1, <1>3, <1>5, <1>6, <1>7, ServingAssumption DEF Occupied, ResidentBounded
<1>9. CASE /\ Stage(DOMAIN resident \cup {adopting})
           /\ active' = Generation(nextGeneration, adopting)
           /\ nextGeneration' = nextGeneration + 1
           /\ resident' = [v \in DOMAIN resident \cup {adopting} |->
                             IF v = adopting THEN nextGeneration ELSE resident[v]]
           /\ UNCHANGED rejected
  <2>1. adopting > active.version /\ adopting \in Nat /\ adopting <= MaxVersion /\ MaxVersion \in Nat
    BY <1>1, <1>3, VersionsInt DEF LoaderInOrder, LoaderTyped
  <2>2. /\ active.version \in Nat /\ active.id \in Nat /\ active.version \in DOMAIN resident
        /\ resident[active.version] = active.id
    BY <1>3, InvariantParts, ActiveLatest, ResidentOrder, VersionsInt
  <2>3. \A v \in DOMAIN resident : v \in Nat /\ v <= active.version /\ resident[v] \in Nat
    BY <1>3, VersionsInt DEF ServerOrder, ServerTyped
  <2>4. adopting \notin DOMAIN resident
    BY <2>1, <2>2, <2>3
  <2>5. PICK r : r = resident'
    OBVIOUS
  <2>6. PICK g : g = active'
    OBVIOUS
  <2>7. /\ DOMAIN r = DOMAIN resident \cup {adopting} /\ r[adopting] = nextGeneration
        /\ \A v \in DOMAIN resident : r[v] = resident[v]
        /\ HeldBy(r) = HeldBy(resident) \cup {Generation(nextGeneration, adopting)}
    BY <1>9, <2>4, <2>5, HeldMore
  <2>8. Resident' = Resident \cup {g}
    BY <1>9, <2>5, <2>6, <2>7 DEF Resident, HeldBy
  <2>9. nextGeneration \in Nat /\ nextGeneration >= 2 /\ active.id = nextGeneration - 1
    BY <1>3 DEF ServerTyped, ServerOrder
  <2>10. active.id <= active.version
    BY <1>3 DEF ServerOrder
  <2>11. nextGeneration <= adopting /\ nextGeneration \in Versions /\ adopting \in Versions
    <3>1. nextGeneration <= adopting
      BY <2>1, <2>2, <2>9, <2>10
    <3> QED BY <2>1, <2>9, <3>1 DEF Versions
  <2>12. g \in Generations /\ g.id = nextGeneration /\ g.version = adopting
    BY <1>9, <2>6, <2>11, GenerationParts
  <2>13. ServerTyped'
    <3>1. DOMAIN r \subseteq Versions
      BY <1>3, <2>7, <2>11 DEF ServerTyped
    <3>2. r \in [DOMAIN r -> Versions]
      <4>1. \A v \in DOMAIN r : r[v] \in Versions
        BY <1>3, <2>7, <2>11 DEF ServerTyped
      <4>2. r = [v \in DOMAIN r |-> r[v]]
        BY <1>9, <2>5
      <4> QED BY <4>1, <4>2
    <3>3. nextGeneration' \in 2..(MaxVersion + 1)
      BY <1>9, <2>1, <2>9, <2>11
    <3> QED BY <2>5, <2>6, <2>12, <3>1, <3>2, <3>3 DEF ServerTyped
  <2>14. ServerOrder'
    <3>1. ASSUME NEW v \in DOMAIN r, NEW w \in DOMAIN r, v < w PROVE r[v] < r[w]
      <4>1. CASE w \in DOMAIN resident
        <5>1. v # adopting
          BY <2>1, <2>2, <2>3, <3>1, <4>1
        <5> QED BY <1>3, <2>7, <3>1, <4>1, <5>1 DEF ServerOrder
      <4>2. CASE w = adopting /\ v \in DOMAIN resident
        <5>1. v \in Nat /\ v <= active.version /\ resident[v] \in Nat
          BY <2>3, <4>2
        <5>2. v < active.version => resident[v] < resident[active.version]
          BY <1>3, <2>2, <4>2 DEF ServerOrder
        <5>3. resident[v] <= active.id
          BY <2>2, <5>1, <5>2
        <5> QED BY <2>2, <2>7, <2>9, <4>2, <5>1, <5>3
      <4> QED BY <2>1, <2>7, <3>1, <4>1, <4>2
    <3>2. \A v \in DOMAIN r : v <= g.version
      BY <2>1, <2>2, <2>3, <2>7, <2>12
    <3>3. g \in Resident' /\ g.id = nextGeneration' - 1 /\ g.id <= g.version
      BY <1>9, <2>8, <2>9, <2>11, <2>12
    <3> QED BY <2>5, <2>6, <3>1, <3>2, <3>3 DEF ServerOrder
  <2>15. LoaderTyped'
    BY <1>1, <1>3, <1>9, ServingAssumption DEF LoaderTyped
  <2>16. LoaderInOrder'
    <3>1. \A v \in DOMAIN resident \cup {pending, adopting, loader.version} : v <= published
      BY <1>3 DEF LoaderInOrder
    <3>2. published \in Nat /\ loader.version \in Nat
      BY <1>3, VersionsInt DEF LoaderTyped
    <3>3. \A v \in DOMAIN r \cup {pending, 0, loader.version} : v <= published
      BY <2>7, <3>1, <3>2
    <3>4. loader.at # "idle" => /\ loader.version \in Versions
                                /\ \A v \in DOMAIN r \cup {pending, 0} : v <= loader.version
      BY <1>3, <2>7, <3>2 DEF LoaderInOrder
    <3>5. loader.at = "loading" => loader.version \notin {g.version, pending, 0}
      BY <1>3, <2>12, <3>4, VersionsInt DEF LoaderInOrder
    <3>6. pending # 0 => pending > g.version /\ pending > 0
      BY <1>1, <1>3, <2>1, <2>12 DEF LoaderInOrder, LoaderTyped
    <3> QED BY <1>1, <2>5, <2>6, <3>3, <3>4, <3>5, <3>6 DEF LoaderInOrder
  <2>17. ResidentBounded'
    <3>1. Cardinality(DOMAIN resident \cup {adopting}) = c + 1
      BY <1>5, <2>4, FS_AddElement
    <3>2. Occupied' = (c + 1) + p + l + 0
      BY <1>1, <1>6, <1>7, <2>5, <2>7, <3>1 DEF Occupied
    <3> QED BY <1>8, <3>2 DEF ResidentBounded
  <2>18. LeasesHeld' /\ KnownHeld'
    BY <1>2, <1>3, <2>8 DEF LeasesHeld, KnownHeld
  <2>19. /\ StreamsTyped' /\ StreamsInOrder' /\ NoFault'
         /\ Superseded(toServer', Resident, Registered, current)
    BY <1>1, <1>2, <1>4, <1>9, StageInOrder
  <2>20. GenerationsInOrder'
    <3>1. Resident \subseteq Resident'
      BY <2>8
    <3>2. Announced(toClient, Resident', current)
      BY <1>3, <3>1, AnnouncedMore
    <3>3. Superseded(toServer', Resident', Registered, current)
      BY <2>19, <3>1, SupersededMore
    <3> QED BY <1>1, <1>2, <2>14, <2>18, <3>2, <3>3, GenerationsPartsNext
  <2> QED BY <1>2, <2>13, <2>15, <2>16, <2>17, <2>18, <2>19, <2>20, InvariantPartsNext
<1>10. CASE /\ Stage(DOMAIN resident)
            /\ rejected' = rejected \cup {adopting}
            /\ UNCHANGED <<active, nextGeneration, resident>>
  <2>1. Resident' = Resident
    BY <1>10 DEF Resident
  <2>2. ServerTyped' /\ ServerOrder'
    BY <1>3, <1>10, <2>1 DEF ServerTyped, ServerOrder
  <2>3. LoaderTyped'
    <3>1. adopting \in Versions
      BY <1>1, <1>3, VersionsInt DEF LoaderTyped, Versions
    <3> QED BY <1>1, <1>3, <1>10, <3>1, ServingAssumption DEF LoaderTyped
  <2>4. LoaderInOrder'
    <3>1. published \in Nat /\ loader.version \in Nat /\ pending \in Nat
      BY <1>3, VersionsInt DEF LoaderTyped
    <3>2. \A v \in DOMAIN resident \cup {pending, 0, loader.version} : v <= published
      BY <1>3, <3>1 DEF LoaderInOrder
    <3>3. loader.at # "idle" => /\ loader.version \in Versions
                                /\ \A v \in DOMAIN resident \cup {pending, 0} : v <= loader.version
      BY <1>3, <3>1 DEF LoaderInOrder
    <3>4. loader.at = "loading" => loader.version \notin {active.version, pending, 0}
      BY <1>3, <3>3, VersionsInt DEF LoaderInOrder
    <3>5. pending # 0 => pending > active.version /\ pending > 0
      BY <1>3, <3>1 DEF LoaderInOrder
    <3> QED BY <1>1, <1>10, <3>2, <3>3, <3>4, <3>5 DEF LoaderInOrder
  <2>5. ResidentBounded'
    <3>1. Occupied' = c + p + l + 0
      BY <1>1, <1>5, <1>6, <1>7, <1>10 DEF Occupied
    <3> QED BY <1>8, <3>1 DEF ResidentBounded
  <2>6. LeasesHeld' /\ KnownHeld'
    BY <1>2, <2>1, KnownStay
  <2>7. /\ StreamsTyped' /\ StreamsInOrder' /\ NoFault'
        /\ Superseded(toServer', Resident, Registered, current)
    BY <1>1, <1>2, <1>4, <1>10, StageInOrder
  <2>8. GenerationsInOrder'
    BY <1>1, <1>2, <1>3, <2>1, <2>2, <2>6, <2>7, GenerationsPartsNext
  <2> QED BY <1>2, <2>2, <2>3, <2>4, <2>5, <2>6, <2>7, <2>8, InvariantPartsNext
<1> QED BY <1>9, <1>10 DEF Adopt

(* What is announced is not what was superseded and given up. *)
LEMMA AnnouncedLess ==
  ASSUME NEW s, NEW held, NEW c \in Generations, NEW g \in Generations, Announced(s, held, c),
         \A h \in held : h \in Generations, g.version < c.version
  PROVE  Announced(s, held \ {g}, c)
<1>1. ASSUME NEW i \in DOMAIN s PROVE s[i].active \in held \ {g}
  <2>1. s[i].active \in held /\ c.version <= s[i].active.version
    BY DEF Announced
  <2>2. s[i].active \in Generations
    BY <2>1
  <2>3. s[i].active.version \in Nat /\ c.version \in Nat /\ g.version \in Nat
    BY <2>2, VersionsInt
  <2>4. s[i].active.version # g.version
    BY <2>1, <2>3
  <2> QED BY <2>1, <2>4
<1>2. \A i \in DOMAIN s :
        /\ c.version <= s[i].active.version
        /\ \A k \in DOMAIN s : i < k => s[i].active.version <= s[k].active.version
  BY DEF Announced
<1> QED BY <1>1, <1>2 DEF Announced

(* The other releases are not disturbed. *)
LEMMA SupersededLess ==
  ASSUME NEW s, NEW held, NEW known, NEW c, NEW g, Superseded(s, held, known, c),
         \A i \in ReleasesOf(s) : s[i].model # g
  PROVE  Superseded(s, held \ {g}, known, c)
BY DEF Superseded

(* A superseded generation is given up: no episode and no request needs it.  *)
LEMMA ReleaseStep ==
  ASSUME ServingInOrder, ServeRelease
  PROVE  ServingInOrder'
<1>1. /\ adopting = 0 /\ toServer # <<>> /\ Head(toServer).type = "MODEL_RELEASE"
      /\ toServer' = Tail(toServer)
      /\ UNCHANGED <<laneVars, intake, registryVars, batcherVars, toClient, active,
                     nextGeneration, launched, pending, adopting, loaderVars>>
  BY DEF ServeRelease, Reads
<1>2. /\ LanesTyped' /\ JobsTyped' /\ JobsLeased' /\ JobsInOrder'
      /\ RegistryTyped' /\ RegistryInOrder'
      /\ Registered' = Registered /\ current' = current /\ lease' = lease /\ inFlight' = inFlight
  BY <1>1, ClientStays
<1>3. /\ ServerTyped /\ LoaderTyped /\ ResidentBounded /\ LoaderInOrder /\ StreamsTyped
      /\ LeasesHeld /\ KnownHeld /\ ServerOrder /\ Announced(toClient, Resident, current)
      /\ Superseded(toServer, Resident, Registered, current)
  BY InvariantParts, GenerationsParts
<1>4. PICK g : g = Head(toServer).model
  OBVIOUS
<1>5. PICK t : t = toServer'
  OBVIOUS
<1>6. /\ g \in Resident \ Registered /\ g.version < current.version
      /\ Superseded(t, Resident, Registered, current)
      /\ \A i \in ReleasesOf(t) : t[i].model # g
  <2>1. toServer \in Seq(Frames)
    BY <1>3 DEF StreamsTyped
  <2>2. t = Tail(toServer)
    BY <1>1, <1>5
  <2>3. Superseded(t, Resident, Registered, current)
    BY <1>1, <1>3, <2>1, <2>2, SupersededTail
  <2>4. /\ Head(toServer).model \in Resident \ Registered
        /\ Head(toServer).model.version < current.version
        /\ \A i \in ReleasesOf(t) : t[i].model # Head(toServer).model
    BY <1>1, <1>3, <2>1, <2>2, SupersededTail
  <2> QED BY <1>4, <2>3, <2>4
<1>7. g \in Generations /\ current \in Generations /\ active \in Generations
  BY <1>6, ActiveLatest
<1>8. g.version < active.version
  <2>1. g.version \in Nat /\ current.version \in Nat /\ active.version \in Nat
    BY <1>7, VersionsInt
  <2>2. current.version <= active.version
    BY ActiveLatest
  <2> QED BY <1>6, <2>1, <2>2
<1>9. g.id # active.id /\ g # active
  <2>1. active \in Resident /\ g \in Resident
    BY <1>6, ActiveLatest
  <2>2. g.id < active.id
    BY <1>8, <2>1, InvariantParts, ResidentOrder
  <2>3. g.id \in Nat /\ active.id \in Nat
    BY <1>7, VersionsInt
  <2> QED BY <2>2, <2>3
<1>10. resident' = [v \in DOMAIN resident \ {g.version} |-> resident[v]] /\ UNCHANGED fault
  BY <1>4, <1>6, <1>9 DEF ServeRelease
<1>11. PICK r : r = resident'
  OBVIOUS
<1>12. /\ HeldBy(r) = HeldBy(resident) \ {g}
       /\ DOMAIN r = DOMAIN resident \ {g.version} /\ \A v \in DOMAIN r : r[v] = resident[v]
  <2>1. g \in HeldBy(resident)
    BY <1>6 DEF Resident, HeldBy
  <2>2. r = [v \in DOMAIN resident \ {g.version} |-> resident[v]]
    BY <1>10, <1>11
  <2>3. Without(r, resident, g)
    BY <2>2 DEF Without
  <2>4. HeldBy(r) = HeldBy(resident) \ {g}
    BY <2>1, <2>3, HeldLess
  <2> QED BY <2>3, <2>4 DEF Without
<1>13. Resident' = Resident \ {g}
  BY <1>11, <1>12 DEF Resident, HeldBy
<1>14. ServerTyped'
  <2>1. DOMAIN r \subseteq Versions /\ r \in [DOMAIN r -> Versions]
    <3>1. r = [v \in DOMAIN r |-> r[v]]
      BY <1>10, <1>11
    <3>2. \A v \in DOMAIN r : r[v] \in Versions /\ v \in Versions
      BY <1>3, <1>12 DEF ServerTyped
    <3> QED BY <3>1, <3>2
  <2> QED BY <1>1, <1>3, <1>11, <2>1 DEF ServerTyped
<1>15. ServerOrder'
  BY <1>1, <1>3, <1>9, <1>11, <1>12, <1>13 DEF ServerOrder
<1>16. LoaderTyped'
  BY <1>1, <1>3 DEF LoaderTyped, loaderVars
<1>17. LoaderInOrder'
  <2>1. DOMAIN r \subseteq DOMAIN resident /\ UNCHANGED <<active, pending, adopting, loader, published>>
    BY <1>1, <1>12 DEF loaderVars
  <2> QED BY <1>3, <1>11, <2>1 DEF LoaderInOrder
<1>18. ResidentBounded'
  <2>1. PICK D : D = DOMAIN resident
    OBVIOUS
  <2>2. IsFiniteSet(D) /\ g.version \in D
    BY <1>3, <1>6, <2>1, HeldFinite, InvariantParts, ResidentOrder
  <2>3. Cardinality(D \ {g.version}) = Cardinality(D) - 1 /\ Cardinality(D) \in Nat
    BY <2>2, FS_RemoveElement, FS_CardinalityType
  <2>4. PICK p \in Nat : p = IF pending # 0 THEN 1 ELSE 0
    OBVIOUS
  <2>5. PICK l \in Nat : l = IF loader.at = "loading" THEN 1 ELSE 0
    OBVIOUS
  <2>6. PICK c \in Nat : c = Cardinality(D)
    BY <2>3
  <2>7. Occupied = c + p + l + 0
    BY <1>1, <2>1, <2>4, <2>5, <2>6 DEF Occupied
  <2>8. UNCHANGED <<pending, adopting, loader>> /\ Cardinality(DOMAIN r) = c - 1
    BY <1>1, <1>12, <2>1, <2>3, <2>6 DEF loaderVars
  <2>9. Occupied' = (c - 1) + p + l + 0
    BY <1>1, <1>11, <2>4, <2>5, <2>8 DEF Occupied
  <2> QED BY <1>3, <2>7, <2>9, ServingAssumption DEF ResidentBounded
<1>19. LeasesHeld' /\ KnownHeld'
  BY <1>2, <1>3, <1>6, <1>13 DEF LeasesHeld, KnownHeld
<1>20. StreamsTyped' /\ StreamsInOrder'
  BY <1>1, <1>2, ReleaseStreams
<1>21. NoFault'
  BY <1>10, InvariantParts DEF NoFault
<1>22. GenerationsInOrder'
  <2>1. Announced(toClient, Resident \ {g}, current)
    BY <1>3, <1>6, <1>7, ActiveLatest, AnnouncedLess
  <2>2. Superseded(t, Resident \ {g}, Registered, current)
    BY <1>6, SupersededLess
  <2> QED BY <1>1, <1>2, <1>5, <1>13, <1>15, <1>19, <2>1, <2>2, GenerationsPartsNext
<1> QED BY <1>2, <1>14, <1>16, <1>17, <1>18, <1>19, <1>20, <1>21, <1>22, InvariantPartsNext

-----------------------------------------------------------------------------
(* The steps of the loader.                                                *)

(* Only the loader and the trainer stepped: the others are as they were. *)
LEMMA LoaderKeepsOrder ==
  ASSUME ServingInOrder, LoaderTyped', LoaderInOrder', ResidentBounded',
         UNCHANGED <<laneVars, intake, registryVars, batcherVars, toServer, toClient,
                     resident, active, nextGeneration, launched, adopting, fault>>
  PROVE  ServingInOrder'
<1>1. /\ LanesTyped' /\ JobsTyped' /\ JobsLeased' /\ JobsInOrder'
      /\ RegistryTyped' /\ RegistryInOrder'
      /\ Registered' = Registered /\ current' = current /\ lease' = lease /\ inFlight' = inFlight
  BY ClientStays
<1>2. StreamsTyped' /\ StreamsInOrder'
  BY <1>1, StreamsStay
<1>3. Resident' = Resident
  BY DEF Resident
<1>4. LeasesHeld' /\ KnownHeld'
  BY <1>1, <1>3, KnownStay
<1>5. ServerTyped' /\ ServerOrder'
  BY <1>3, InvariantParts, GenerationsParts DEF ServerTyped, ServerOrder
<1>6. NoFault'
  BY InvariantParts DEF NoFault
<1>7. GenerationsInOrder'
  <2>1. Superseded(toServer, Resident, Registered, current) /\ Announced(toClient, Resident, current)
    BY InvariantParts, GenerationsParts
  <2> QED BY <1>1, <1>3, <1>4, <1>5, <2>1, GenerationsPartsNext
<1> QED BY <1>1, <1>2, <1>4, <1>5, <1>6, <1>7, InvariantPartsNext

(* The versions of the loader are numbers. *)
LEMMA LoaderVersions ==
  ASSUME ServingInOrder
  PROVE  /\ LoaderTyped /\ LoaderInOrder /\ ServerTyped
         /\ pending \in Nat /\ adopting \in Nat /\ loader.version \in Nat /\ published \in Nat
         /\ active.version \in DOMAIN resident /\ active.version \in Nat
         /\ \A v \in DOMAIN resident : v \in Nat
<1>1. LoaderTyped /\ LoaderInOrder /\ ServerTyped
  BY InvariantParts
<1>2. pending \in Nat /\ adopting \in Nat /\ loader.version \in Nat /\ published \in Nat
  BY <1>1, VersionsInt DEF LoaderTyped
<1>3. active.version \in DOMAIN resident
  BY InvariantParts, ActiveLatest, ResidentOrder
<1>4. \A v \in DOMAIN resident : v \in Nat
  BY <1>1, VersionsInt DEF ServerTyped
<1> QED BY <1>1, <1>2, <1>3, <1>4

(* The latest checkpoint is later than whatever is held. *)
LEMMA ResolveStep ==
  ASSUME ServingInOrder, ResolveLatest
  PROVE  ServingInOrder'
<1>1. /\ loader.at = "idle" /\ loader' = [at |-> "resolved", version |-> published]
      /\ UNCHANGED <<laneVars, intake, registryVars, batcherVars, toServer, toClient,
                     resident, active, nextGeneration, launched, pending, adopting,
                     rejected, published, fault>>
  BY DEF ResolveLatest, serverVars
<1>2. loader'.at = "resolved" /\ loader'.version = published
  BY <1>1
<1>3. LoaderTyped'
  <2>1. published \in 0..MaxVersion
    BY LoaderVersions, VersionsInt DEF LoaderTyped
  <2> QED BY <1>1, <2>1, LoaderVersions DEF LoaderTyped
<1>4. LoaderInOrder'
  <2>1. \A v \in DOMAIN resident \cup {pending, adopting, published} : v <= published
    BY LoaderVersions DEF LoaderInOrder
  <2>2. published \in Versions
    BY LoaderVersions DEF LoaderTyped
  <2>3. adopting # 0 => adopting > active.version
    BY LoaderVersions DEF LoaderInOrder
  <2>4. pending # 0 => pending > active.version /\ pending > adopting
    BY LoaderVersions DEF LoaderInOrder
  <2> QED BY <1>1, <1>2, <2>1, <2>2, <2>3, <2>4 DEF LoaderInOrder
<1>5. ResidentBounded'
  BY <1>1, <1>2, InvariantParts DEF ResidentBounded, Occupied
<1> QED BY <1>1, <1>3, <1>4, <1>5, LoaderKeepsOrder

(* A slot is claimed for a version nobody has, while there is room. *)
LEMMA ClaimStep ==
  ASSUME ServingInOrder, ClaimSlot
  PROVE  ServingInOrder'
<1>1. /\ loader.at = "resolved"
      /\ UNCHANGED <<laneVars, intake, registryVars, batcherVars, toServer, toClient,
                     resident, active, nextGeneration, launched, pending, adopting,
                     rejected, published, fault>>
  BY DEF ClaimSlot, serverVars
<1>2. /\ \A v \in DOMAIN resident \cup {pending, adopting, loader.version} : v <= published
      /\ adopting # 0 => adopting > active.version
      /\ pending # 0 => pending > active.version /\ pending > adopting
      /\ loader.version \in Versions
      /\ \A v \in DOMAIN resident \cup {pending, adopting} : v <= loader.version
  BY <1>1, LoaderVersions DEF LoaderInOrder
<1>3. CASE MayLoad(loader.version) /\ loader' = [loader EXCEPT !.at = "loading"]
  <2>1. loader' = [at |-> "loading", version |-> loader.version]
    BY <1>3, LoaderVersions DEF LoaderTyped
  <2>2. loader'.at = "loading" /\ loader'.version = loader.version
    BY <2>1
  <2>3. LoaderTyped'
    BY <1>1, <2>1, LoaderVersions DEF LoaderTyped
  <2>4. loader.version \notin {active.version, pending, adopting}
    BY <1>3, LoaderVersions DEF MayLoad
  <2>5. LoaderInOrder'
    BY <1>1, <1>2, <2>2, <2>4 DEF LoaderInOrder
  <2>6. ResidentBounded'
    <3>1. PICK c \in Nat : c = Cardinality(DOMAIN resident)
      BY InvariantParts, HeldFinite
    <3>2. PICK p \in Nat : p = IF pending # 0 THEN 1 ELSE 0
      OBVIOUS
    <3>3. PICK a \in Nat : a = IF adopting # 0 THEN 1 ELSE 0
      OBVIOUS
    <3>4. Occupied = c + p + 0 + a
      BY <1>1, <3>1, <3>2, <3>3 DEF Occupied
    <3>5. Occupied' = c + p + 1 + a
      BY <1>1, <2>2, <3>1, <3>2, <3>3 DEF Occupied
    <3>6. Occupied < MaxResident /\ MaxResident \in Nat
      BY <1>3, ServingAssumption DEF MayLoad
    <3> QED BY <3>4, <3>5, <3>6 DEF ResidentBounded
  <2> QED BY <1>1, <2>3, <2>5, <2>6, LoaderKeepsOrder
<1>4. CASE loader' = [at |-> "idle", version |-> 0]
  <2>1. loader'.at = "idle" /\ loader'.version = 0
    BY <1>4
  <2>2. LoaderTyped'
    BY <1>1, <1>4, LoaderVersions, ServingAssumption DEF LoaderTyped
  <2>3. LoaderInOrder'
    <3>1. 0 <= published
      BY LoaderVersions
    <3> QED BY <1>1, <1>2, <2>1, <3>1 DEF LoaderInOrder
  <2>4. ResidentBounded'
    BY <1>1, <2>1, InvariantParts DEF ResidentBounded, Occupied
  <2> QED BY <1>1, <2>2, <2>3, <2>4, LoaderKeepsOrder
<1> QED BY <1>3, <1>4 DEF ClaimSlot

(* The version is loaded, and waits, or it is refused. *)
LEMMA LoadStep ==
  ASSUME ServingInOrder, Load
  PROVE  ServingInOrder'
<1>1. /\ loader.at = "loading" /\ loader' = [at |-> "idle", version |-> 0]
      /\ UNCHANGED <<laneVars, intake, registryVars, batcherVars, toServer, toClient,
                     resident, active, nextGeneration, launched, adopting, published, fault>>
  BY DEF Load
<1>2. loader'.at = "idle" /\ loader'.version = 0
  BY <1>1
<1>3. /\ \A v \in DOMAIN resident \cup {pending, adopting, loader.version} : v <= published
      /\ adopting # 0 => adopting > active.version
      /\ pending # 0 => pending > active.version /\ pending > adopting
      /\ loader.version \in Versions
      /\ \A v \in DOMAIN resident \cup {pending, adopting} : v <= loader.version
      /\ loader.version \notin {active.version, pending, adopting}
  BY <1>1, LoaderVersions DEF LoaderInOrder
<1>4. PICK c \in Nat : c = Cardinality(DOMAIN resident)
  BY InvariantParts, HeldFinite
<1>5. PICK a \in Nat : a = IF adopting # 0 THEN 1 ELSE 0
  OBVIOUS
<1>6. PICK p \in Nat : p = (IF pending # 0 THEN 1 ELSE 0) /\ Occupied = c + p + 1 + a
  BY <1>1, <1>4, <1>5 DEF Occupied
<1>7. Occupied <= MaxResident /\ MaxResident \in Nat
  BY InvariantParts, ServingAssumption DEF ResidentBounded
<1>8. 0 <= published
  BY LoaderVersions
<1>9. CASE pending' = loader.version /\ UNCHANGED rejected
  <2>1. LoaderTyped'
    BY <1>1, <1>9, LoaderVersions, ServingAssumption DEF LoaderTyped
  <2>2. loader.version > active.version /\ loader.version > adopting
    BY <1>3, LoaderVersions
  <2>3. LoaderInOrder'
    BY <1>1, <1>2, <1>3, <1>8, <1>9, <2>2 DEF LoaderInOrder
  <2>4. Occupied' = c + (IF pending' # 0 THEN 1 ELSE 0) + 0 + a
    BY <1>1, <1>2, <1>4, <1>5 DEF Occupied
  <2>5. ResidentBounded'
    BY <1>6, <1>7, <2>4 DEF ResidentBounded
  <2> QED BY <1>1, <2>1, <2>3, <2>5, LoaderKeepsOrder
<1>10. CASE rejected' = rejected \cup {loader.version} /\ UNCHANGED pending
  <2>1. LoaderTyped'
    BY <1>1, <1>3, <1>10, LoaderVersions, ServingAssumption DEF LoaderTyped
  <2>2. LoaderInOrder'
    BY <1>1, <1>2, <1>3, <1>8, <1>10 DEF LoaderInOrder
  <2>3. Occupied' = c + p + 0 + a
    BY <1>1, <1>2, <1>4, <1>5, <1>6, <1>10 DEF Occupied
  <2>4. ResidentBounded'
    BY <1>6, <1>7, <2>3 DEF ResidentBounded
  <2> QED BY <1>1, <2>1, <2>2, <2>4, LoaderKeepsOrder
<1> QED BY <1>9, <1>10 DEF Load

(* The trainer publishes a later checkpoint. *)
LEMMA PublishesStep ==
  ASSUME ServingInOrder, TrainerPublishes
  PROVE  ServingInOrder'
<1>1. /\ published < MaxVersion /\ published' = published + 1
      /\ UNCHANGED <<laneVars, intake, registryVars, batcherVars, toServer, toClient,
                     resident, active, nextGeneration, launched, pending, adopting,
                     loader, rejected, fault>>
  BY DEF TrainerPublishes, serverVars
<1>2. LoaderTyped'
  <2>1. published \in 1..MaxVersion
    BY LoaderVersions DEF LoaderTyped, Versions
  <2>2. published + 1 \in Versions
    BY <1>1, <2>1, ServingAssumption DEF Versions
  <2> QED BY <1>1, <2>2, LoaderVersions DEF LoaderTyped
<1>3. LoaderInOrder'
  <2>1. \A v \in DOMAIN resident \cup {pending, adopting, loader.version} : v <= published + 1
    BY LoaderVersions DEF LoaderInOrder
  <2> QED BY <1>1, <2>1, LoaderVersions DEF LoaderInOrder
<1>4. ResidentBounded'
  BY <1>1, InvariantParts DEF ResidentBounded, Occupied
<1> QED BY <1>1, <1>2, <1>3, <1>4, LoaderKeepsOrder

-----------------------------------------------------------------------------
(* The invariant.                                                          *)

(* The run begins with one model, which nobody leases yet. *)
LEMMA InitInOrder ==
  ASSUME Init
  PROVE  ServingInOrder
<1>1. PICK g : g = Generation(1, 1)
  OBVIOUS
<1>2. 1 \in Versions /\ g \in Generations /\ g.id = 1 /\ g.version = 1
  BY <1>1, GenerationParts, ServingAssumption DEF Versions
<1>3. /\ lease = [e \in Episodes |-> None] /\ outstanding = [e \in Episodes |-> {}] /\ running = TRUE
      /\ intake = <<>> /\ current = g /\ users = [h \in {g} |-> 0] /\ releasable = <<>>
      /\ pc = "top" /\ batch = <<>> /\ deferred = <<>> /\ inFlight = <<>> /\ reported = g
      /\ toServer = <<>> /\ toClient = <<>> /\ resident = [v \in {1} |-> 1] /\ active = g
      /\ nextGeneration = 2 /\ launched = <<>> /\ pending = 0 /\ adopting = 0
      /\ loader = [at |-> "idle", version |-> 0] /\ rejected = {} /\ published = 1 /\ fault = "none"
  BY <1>1 DEF Init
<1>4. Registered = {g}
  BY <1>3 DEF Registered
<1>5. Resident = {g} /\ DOMAIN resident = {1} /\ resident[1] = 1
  BY <1>1, <1>3 DEF Resident
<1>6. \A S : <<>> \in Seq(S)
  OBVIOUS
<1>7. Len(<<>>) = 0 /\ Range(<<>>) = {} /\ IsInjective(<<>>) /\ DOMAIN <<>> = {}
  BY DEF Range, IsInjective
<1>8. Cardinality(Episodes) \in Nat
  BY ServingAssumption, FS_CardinalityType
<1>9. IntakeCapacity \in Nat
  BY <1>8, ServingAssumption DEF IntakeCapacity
<1>10. LanesTyped
  BY <1>3 DEF LanesTyped
<1>11. RegistryTyped
  BY <1>2, <1>3, <1>4, <1>6, <1>7, <1>8 DEF RegistryTyped
<1>12. JobsTyped
  BY <1>2, <1>3, <1>6, <1>7, <1>9, ServingAssumption DEF JobsTyped
<1>13. StreamsTyped
  BY <1>3, <1>6, <1>7, ServingAssumption DEF StreamsTyped
<1>14. ServerTyped
  BY <1>2, <1>3, <1>5, ServingAssumption DEF ServerTyped
<1>15. LoaderTyped
  BY <1>2, <1>3, ServingAssumption DEF LoaderTyped
<1>16. NoFault /\ LeasesHeld
  BY <1>3 DEF NoFault, LeasesHeld
<1>17. JobsLeased
  <2>1. Queued = {}
    BY <1>3, <1>7 DEF Queued
  <2> QED BY <1>3, <2>1 DEF JobsLeased
<1>18. ResidentBounded
  <2>1. Cardinality({1}) = 1
    BY FS_Singleton
  <2>2. Occupied = 1
    BY <1>3, <1>5, <2>1 DEF Occupied
  <2> QED BY <2>2, ServingAssumption DEF ResidentBounded
<1>19. RegistryInOrder
  <2>1. \A e \in Episodes : lease[e] # g
    BY <1>2, <1>3, GenerationParts
  <2>2. Cardinality(Holders(lease, g)) = 0
    BY <2>1, HoldersCounted
  <2> QED BY <1>3, <1>4, <1>7, <2>2, RegistryCounts
<1>20. JobsInOrder
  <2>1. Apart(Range(intake), Range(batch), Range(deferred), inFlight)
    BY <1>3, <1>7 DEF Apart
  <2>2. ForOneModel(inFlight) /\ OneModel(batch)
    BY <1>3, <1>7 DEF ForOneModel, OneModel
  <2>3. BatchFits(pc, batch, Len(inFlight))
    BY <1>3 DEF BatchFits
  <2> QED BY <1>3, <1>7, <2>1, <2>2, <2>3, JobsParts
<1>21. StreamsInOrder
  <2>1. EvalsOf(toServer) = {}
    BY <1>3, <1>7 DEF EvalsOf
  <2>2. Cardinality(EvalsOf(toServer)) = 0
    BY <2>1, FS_EmptySet
  <2>3. StreamLine
    BY <1>3, <1>7, <2>1, <2>2 DEF StreamLine, Lined
  <2> QED BY <1>3, <1>13, <2>3, StreamParts
<1>22. GenerationsInOrder
  <2>1. ServerOrder
    BY <1>2, <1>3, <1>5 DEF ServerOrder
  <2>2. KnownHeld
    BY <1>2, <1>3, <1>4, <1>5 DEF KnownHeld
  <2>3. Superseded(toServer, Resident, Registered, current) /\ Announced(toClient, Resident, current)
    BY <1>3, <1>7 DEF Superseded, Announced, ReleasesOf
  <2> QED BY <2>1, <2>2, <2>3, GenerationsParts
<1>23. LoaderInOrder
  BY <1>3, <1>5 DEF LoaderInOrder
<1> QED BY <1>10, <1>11, <1>12, <1>13, <1>14, <1>15, <1>16, <1>17, <1>18, <1>19,
           <1>20, <1>21, <1>22, <1>23, InvariantParts

(* Nothing happens. *)
LEMMA StutterStep ==
  ASSUME ServingInOrder, UNCHANGED vars
  PROVE  ServingInOrder'
<1>1. UNCHANGED <<laneVars, intake, registryVars, batcherVars, toServer, toClient,
                  serverVars, loaderVars, fault>>
  BY DEF vars
<1>2. UNCHANGED <<resident, active, nextGeneration, launched, pending, adopting>>
  BY <1>1 DEF serverVars
<1>3. LoaderTyped' /\ LoaderInOrder' /\ ResidentBounded'
  BY <1>1, ServerStays
<1> QED BY <1>1, <1>2, <1>3, LoaderKeepsOrder

(* Every step of the lanes, the batcher, the serving thread, the loader and  *)
(* the trainer keeps the invariant.                                          *)
LEMMA NextInOrder ==
  ASSUME ServingInOrder, [Next]_vars
  PROVE  ServingInOrder'
<1>1. ASSUME NEW e \in Episodes, Admit(e) \/ CompleteEpisode(e) PROVE ServingInOrder'
  BY <1>1, LeaseStep
<1>2. ASSUME NEW e \in Episodes, SendEval(e) PROVE ServingInOrder'
  BY <1>2, SendStep
<1>3. CASE LanesReturn
  BY <1>3, ReturnStep
<1>4. CASE Batcher
  BY <1>4, TopStep, ReceiveStep, EndsStep, DrainsStep, ReleasesStep, SubmitStep DEF Batcher
<1>5. CASE Server
  BY <1>5, FlushStep, EvalStep, AdoptStep, ReleaseStep DEF Server
<1>6. CASE Loader
  BY <1>6, ResolveStep, ClaimStep, LoadStep DEF Loader
<1>7. CASE TrainerPublishes
  BY <1>7, PublishesStep
<1>8. CASE UNCHANGED vars
  BY <1>8, StutterStep
<1> QED BY <1>1, <1>2, <1>3, <1>4, <1>5, <1>6, <1>7, <1>8 DEF Next

(* The registry counts the episodes that hold a generation, every batch in   *)
(* flight is somewhere in the streams, in order, and what is to be released  *)
(* is held by nobody: in whatever order lanes, batcher, evaluator and loader *)
(* run.                                                                      *)
THEOREM ServingInvariant == Spec => []ServingInOrder
<1>1. Init => ServingInOrder
  BY InitInOrder
<1>2. ServingInOrder /\ [Next]_vars => ServingInOrder'
  BY NextInOrder
<1> QED BY <1>1, <1>2, PTL DEF Spec

(* Client and evaluator agree on the models: neither fails, the model that   *)
(* an episode leased stays registered and loaded until its last reply, every *)
(* evaluation is answered by the model of its lease, and the models in       *)
(* memory never exceed max_resident_model_generations.                       *)
THEOREM ModelsStayPinned == Spec => []ModelsPinned
<1>1. ServingInOrder => ModelsPinned
  BY DEF ServingInOrder
<1> QED BY <1>1, ServingInvariant, PTL
=============================================================================
