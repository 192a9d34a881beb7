------------------------ MODULE SelfplayLanesProofs ------------------------
(***************************************************************************)
(* Proofs about SelfplayLanes, for all numbers of lanes, workers, roots,   *)
(* evaluations, batches and failures.                                      *)
(*                                                                         *)
(* SuccessSettlesAll: a run that ends without an error has appended or     *)
(* dropped the game of every root, once.  What is under way between the    *)
(* threads does not matter to it: a slot keeps its episode whatever        *)
(* answers come.                                                           *)
(*                                                                         *)
(* TrafficStaysExact: what is under way between the threads is what the    *)
(* slots wait for, once, and every channel has room for it.  The stages of *)
(* a job (outbox, intake, batch, routing, gateway, reply) are parts of one *)
(* set, UnderWay; a step moves jobs from one stage to another, adds what a *)
(* lane takes from its pool, or drops what a failed thread held.  Because  *)
(* a slot waits for one wave or one measurement (OneWork), the tokens      *)
(* modulo EvalsPerWorker tell the jobs of a slot apart, which bounds every *)
(* channel.                                                                *)
(***************************************************************************)
EXTENDS SelfplayLanes, FiniteSetTheorems, TLAPS

-----------------------------------------------------------------------------
(* The slots that admission fills.                                         *)

(* The place of a slot is one more than the number of slots below it, and  *)
(* two slots have different places.                                        *)
LEMMA PlaceAbove ==
  ASSUME NEW S \in SUBSET Nat, IsFiniteSet(S), NEW w \in S
  PROVE  /\ PlaceIn(S, w) \in 1..Cardinality(S)
         /\ Cardinality({v \in S : v < w}) \in Nat
         /\ PlaceIn(S, w) = Cardinality({v \in S : v < w}) + 1
         /\ \A u \in S : u < w => PlaceIn(S, u) < PlaceIn(S, w)
<1> DEFINE B == {v \in S : v < w}
           U(x) == {v \in S : v <= x}
<1>0. \A v \in S : v \in Nat
  OBVIOUS
<1>1. B \in SUBSET S /\ U(w) \in SUBSET S /\ U(w) = B \cup {w} /\ w \notin B
  <2>1. B \in SUBSET S /\ U(w) \in SUBSET S
    OBVIOUS
  <2>2. w \in Nat /\ \A v \in Nat : (v <= w <=> (v < w \/ v = w)) /\ ~(w < w)
    BY <1>0
  <2>3. \A v \in S : v <= w <=> (v < w \/ v = w)
    BY <1>0, <2>2
  <2>4. U(w) = B \cup {w}
    BY <2>3
  <2> QED BY <2>1, <2>2, <2>4
<1>2. Cardinality(S) \in Nat
  BY FS_CardinalityType
<1> HIDE DEF B
<1>3. IsFiniteSet(B) /\ IsFiniteSet(U(w)) /\ Cardinality(U(w)) <= Cardinality(S)
  <2> HIDE DEF U
  <2> QED BY <1>1, FS_Subset
<1>4. Cardinality(B) \in Nat /\ Cardinality(U(w)) \in Nat
  BY <1>3, FS_CardinalityType
<1>5. Cardinality(U(w)) = Cardinality(B) + 1
  <2> HIDE DEF U
  <2> QED BY <1>1, <1>3, FS_AddElement
<1>6. ASSUME NEW u \in S, u < w PROVE Cardinality(U(u)) < Cardinality(U(w))
  <2>0. \A v \in S : v <= u => v < w
    BY <1>0, <1>6
  <2>1. U(u) \in SUBSET B
    BY <2>0 DEF B
  <2> HIDE DEF U
  <2>2. IsFiniteSet(U(u)) /\ Cardinality(U(u)) <= Cardinality(B)
    BY <1>3, <2>1, FS_Subset
  <2>3. Cardinality(U(u)) \in Nat
    BY <2>2, FS_CardinalityType
  <2> QED BY <1>4, <1>5, <2>2, <2>3
<1>7. \A x : PlaceIn(S, x) = Cardinality(U(x))
  BY DEF PlaceIn
<1>8. B = {v \in S : v < w}
  BY DEF B
<1> HIDE DEF U
<1> QED BY <1>2, <1>3, <1>4, <1>5, <1>6, <1>7, <1>8

(* The slots of a finite set have all places from 1 to their number. *)
LEMMA PlacesAll ==
  ASSUME NEW S \in SUBSET Nat, IsFiniteSet(S), NEW i \in 1..Cardinality(S)
  PROVE  \E w \in S : PlaceIn(S, w) = i
<1>1. PICK N \in Nat : N = Cardinality(S)
  BY FS_CardinalityType
<1>2. PICK f : f = [w \in S |-> PlaceIn(S, w)]
  OBVIOUS
<1>3. \A w \in S : PlaceIn(S, w) \in 1..N
  BY <1>1, PlaceAbove
<1>4. f \in [S -> 1..N]
  BY <1>2, <1>3
<1>5. ASSUME NEW v \in S, NEW w \in S, f[v] = f[w] PROVE v = w
  <2>1. PlaceIn(S, v) = PlaceIn(S, w) /\ PlaceIn(S, v) \in Int
    BY <1>2, <1>3, <1>5
  <2>2. v < w => PlaceIn(S, v) < PlaceIn(S, w)
    BY PlaceAbove
  <2>3. w < v => PlaceIn(S, w) < PlaceIn(S, v)
    BY PlaceAbove
  <2>4. v \in Int /\ w \in Int
    OBVIOUS
  <2> QED BY <2>1, <2>2, <2>3, <2>4
<1>6. f \in Injection(S, 1..N)
  BY <1>4, <1>5 DEF Injection, IsInjective
<1>7. IsFiniteSet(1..N) /\ Cardinality(1..N) = N
  BY FS_Interval
<1>8. f \in Surjection(S, 1..N)
  BY <1>1, <1>6, <1>7, FS_Injection
<1> QED BY <1>1, <1>2, <1>8 DEF Surjection

(* The n lowest slots of a set that has so many have the places 1 to n. *)
LEMMA FirstPlaces ==
  ASSUME NEW S \in SUBSET Nat, IsFiniteSet(S), NEW n \in Nat, n <= Cardinality(S)
  PROVE  /\ \A w \in FirstOf(S, n) : PlaceIn(FirstOf(S, n), w) \in 1..n
         /\ \A i \in 1..n : \E w \in FirstOf(S, n) : PlaceIn(FirstOf(S, n), w) = i
<1>1. PICK F : F = FirstOf(S, n)
  OBVIOUS
<1>2. F \in SUBSET S /\ F \in SUBSET Nat
  BY <1>1 DEF FirstOf
<1>3. \A w \in S : w \in F <=> PlaceIn(S, w) <= n
  <2> SUFFICES ASSUME NEW w \in S PROVE w \in F <=> PlaceIn(S, w) <= n
    OBVIOUS
  <2>1. w \in F <=> Cardinality({v \in S : v < w}) < n
    BY <1>1 DEF FirstOf
  <2>2. PICK c \in Nat : c = Cardinality({v \in S : v < w}) /\ PlaceIn(S, w) = c + 1
    BY PlaceAbove
  <2> QED BY <2>1, <2>2
<1>4. ASSUME NEW w \in F PROVE PlaceIn(F, w) = PlaceIn(S, w) /\ PlaceIn(S, w) \in 1..n
  <2>1. w \in S /\ PlaceIn(S, w) <= n /\ PlaceIn(S, w) \in 1..Cardinality(S)
    BY <1>2, <1>3, PlaceAbove
  <2>2. ASSUME NEW v \in S, v <= w PROVE v \in F
    <3>1. v = w \/ v < w
      BY <1>2, <2>2
    <3>2. CASE v < w
      <4>1. PlaceIn(S, v) < PlaceIn(S, w) /\ PlaceIn(S, v) \in 1..Cardinality(S)
        BY <2>1, <3>2, PlaceAbove
      <4>2. PICK a \in Nat : a = PlaceIn(S, v)
        BY <4>1
      <4>3. PICK b \in Nat : b = PlaceIn(S, w)
        BY <2>1
      <4> QED BY <1>3, <2>1, <4>1, <4>2, <4>3
    <3> QED BY <3>1, <3>2
  <2>3. {v \in F : v <= w} = {v \in S : v <= w}
    BY <1>2, <2>2
  <2> QED BY <2>1, <2>3 DEF PlaceIn
<1>5. ASSUME NEW i \in 1..n PROVE \E w \in F : PlaceIn(F, w) = i
  <2>1. i \in 1..Cardinality(S)
    BY FS_CardinalityType
  <2>2. PICK w \in S : PlaceIn(S, w) = i
    BY <2>1, PlacesAll
  <2> QED BY <1>3, <1>4, <2>2
<1> QED BY <1>1, <1>4, <1>5


-----------------------------------------------------------------------------
(* The slots of a pool.                                                    *)

(* What a slot holds in each of its states. *)
LEMMA SlotView ==
  ASSUME NEW s \in SlotState
  PROVE  /\ s.state \in {"idle", "running", "parked"}
         /\ s.state # "idle" =>
              s.episode \in Nat /\ s.next \in Nat /\ s.waves \in Nat /\ s.measured \in BOOLEAN
         /\ s.state = "parked" =>
              s.kind \in {"eval", "measure"} /\ s.waiting \in SUBSET Nat /\ s.unsent \in SUBSET Nat
BY DEF SlotState, Idle

(* A task that blocks parks its slot. *)
LEMMA ParkedTyped ==
  ASSUME NEW e \in Nat, NEW n \in Nat, NEW v \in Nat, NEW m \in BOOLEAN,
         NEW k \in {"eval", "measure"}, NEW t \in SUBSET Nat, NEW u \in SUBSET Nat
  PROVE  [state |-> "parked", episode |-> e, next |-> n, waves |-> v, measured |-> m,
          kind |-> k, waiting |-> t, unsent |-> u] \in SlotState
BY DEF SlotState

(* A task that begins or goes on runs in its slot. *)
LEMMA RunningTyped ==
  ASSUME NEW e \in Nat, NEW n \in Nat, NEW v \in Nat, NEW m \in BOOLEAN
  PROVE  [state |-> "running", episode |-> e, next |-> n, waves |-> v, measured |-> m] \in SlotState
BY DEF SlotState

(* Marking jobs as sent changes nothing else in the slot. *)
LEMMA MarkedTyped ==
  ASSUME NEW s \in SlotState, s.state = "parked"
  PROVE  LET r == [s EXCEPT !.unsent = {}]
         IN  r \in SlotState /\ r.state = "parked" /\ r.episode = s.episode
<1>1. s \in [state : {"parked"}, episode : Nat, next : Nat, waves : Nat,
             measured : BOOLEAN, kind : {"eval", "measure"}, waiting : SUBSET Nat,
             unsent : SUBSET Nat]
  BY DEF SlotState, Idle
<1> QED BY <1>1 DEF SlotState

(* An answer to a parked slot lets it run or wait for the others, with the *)
(* episode it had.                                                         *)
LEMMA ResumedTyped ==
  ASSUME NEW s \in SlotState, s.state = "parked", NEW r
  PROVE  /\ Resumed(s, r) \in SlotState /\ Resumed(s, r).state # "idle"
         /\ Resumed(s, r).episode = s.episode
<1>1. /\ s.episode \in Nat /\ s.next \in Nat /\ s.waves \in Nat
  BY SlotView
<1>2. ASSUME NEW m \in BOOLEAN
      PROVE  /\ RunsAgain(s, m) \in SlotState /\ RunsAgain(s, m).state # "idle"
             /\ RunsAgain(s, m).episode = s.episode
  BY <1>1, RunningTyped DEF RunsAgain
<1>3. s \in [state : {"parked"}, episode : Nat, next : Nat, waves : Nat,
             measured : BOOLEAN, kind : {"eval", "measure"}, waiting : SUBSET Nat,
             unsent : SUBSET Nat]
  BY DEF SlotState, Idle
<1>4. PICK t : t = [s EXCEPT !.waiting = s.waiting \ {r.token}]
  OBVIOUS
<1>5. t \in SlotState /\ t.state # "idle" /\ t.episode = s.episode
  BY <1>3, <1>4 DEF SlotState
<1>6. Resumed(s, r) \in {RunsAgain(s, TRUE), RunsAgain(s, FALSE), t}
  BY <1>4 DEF Resumed, ResumedMeasure, ResumedEval
<1> QED BY <1>2, <1>5, <1>6


-----------------------------------------------------------------------------
(* One lane moves.                                                         *)

(* A step of lane l leaves what the other lanes hold and what is stored. *)
OthersSame(l) ==
  /\ \A k \in Lanes \ {l} :
       /\ phase'[k] = phase[k] /\ slots'[k] = slots[k] /\ completed'[k] = completed[k]
       /\ admitted'[k] = admitted[k] /\ exhausted'[k] = exhausted[k] /\ ack'[k] = ack[k]
       /\ appended'[k] = appended[k] /\ dropped'[k] = dropped[k]

(* The slots of lane l are free, or play the episodes they played. *)
KeepsEpisodes(l) ==
  \A w \in Slot :
    /\ slots'[l][w].state \in {"idle", "running", "parked"}
    /\ slots'[l][w].state = "idle" <=> slots[l][w].state = "idle"
    /\ slots[l][w].state # "idle" => slots'[l][w].episode = slots[l][w].episode

(* The slots that play. *)
LEMMA ActiveSlots ==
  ASSUME LanesTypeOK, NEW l \in Lanes
  PROVE  Active(l) = {w \in Slot : slots[l][w].state # "idle"}
<1>1. \A w \in Slot : slots[l][w] \in SlotState
  BY DEF LanesTypeOK
<1> QED BY <1>1, SlotView DEF Active, Running, Parked

(* What a lane has begun stays in one place each when its slots keep their *)
(* episodes and nothing is settled.                                        *)
LEMMA ExactSame ==
  ASSUME NEW k \in Lanes, LaneExact(k),
         appended'[k] = appended[k], dropped'[k] = dropped[k], completed'[k] = completed[k],
         ack'[k] = ack[k], Active(k)' = Active(k),
         \A w \in Active(k) : slots'[k][w].episode = slots[k][w].episode,
         phase'[k] # "failed" => phase[k] # "failed"
  PROVE  LaneExact(k)'
<1>1. Settled(k)' = Settled(k) /\ Playing(k)' = Playing(k)
  BY DEF Settled, Playing
<1> QED BY <1>1 DEF LaneExact

(* A lane that does not move stays accounted. *)
LEMMA OthersAccounted ==
  ASSUME NEW l \in Lanes, NEW k \in Lanes \ {l}, LaneAccounted(k), LaneExact(k), OthersSame(l)
  PROVE  LaneAccounted(k)' /\ LaneExact(k)'
<1>1. Active(k)' = Active(k)
  BY DEF OthersSame, Active, Running, Parked
<1>2. Playing(k)' = Playing(k) /\ Settled(k)' = Settled(k)
  BY <1>1 DEF OthersSame, Playing, Settled
<1>3. LaneAccounted(k)'
  BY <1>1, <1>2 DEF OthersSame, LaneAccounted
<1>4. \A w \in Active(k) : slots'[k][w].episode = slots[k][w].episode
  BY DEF OthersSame
<1>5. LaneExact(k)'
  BY <1>1, <1>4, ExactSame DEF OthersSame
<1> QED BY <1>3, <1>5

(* A step of a lane that has no game in the channel keeps the channel. *)
LEMMA GamesKept ==
  ASSUME GamesAwaited, games \in Seq([lane : Lanes, episode : Nat]), NEW l \in Lanes, OthersSame(l),
         games' = games, sink' = sink, \A i \in 1..Len(games) : games[i].lane # l
  PROVE  GamesAwaited'
<1>1. \A i \in 1..Len(games) : games[i].lane \in Lanes \ {l}
  <2>1. PICK S : S = [lane : Lanes, episode : Nat]
    OBVIOUS
  <2>2. games \in Seq(S)
    BY <2>1
  <2>3. \A i \in 1..Len(games) : games[i] \in S
    BY <2>2
  <2> QED BY <2>1, <2>3
<1> QED BY <1>1 DEF GamesAwaited, OthersSame

(* The episodes a lane plays, when its slots keep theirs. *)
LEMMA PlayingKept ==
  ASSUME LanesTypeOK, NEW l \in Lanes, KeepsEpisodes(l)
  PROVE  /\ Active(l)' = Active(l) /\ Playing(l)' = Playing(l)
         /\ \A w \in Active(l) : slots'[l][w].episode = slots[l][w].episode
<1>1. Active(l) = {w \in Slot : slots[l][w].state # "idle"}
  BY ActiveSlots
<1>2. Active(l)' = {w \in Slot : slots'[l][w].state # "idle"}
  BY DEF KeepsEpisodes, Active, Running, Parked
<1>3. Active(l)' = Active(l)
  BY <1>1, <1>2 DEF KeepsEpisodes
<1>4. \A w \in Active(l) : slots'[l][w].episode = slots[l][w].episode
  BY <1>1 DEF KeepsEpisodes
<1> QED BY <1>3, <1>4 DEF Playing

(* A lane goes from one step of its round to the next: it stores nothing,  *)
(* begins nothing and its slots keep their episodes.                       *)
LEMMA LaneMoves ==
  ASSUME RunAccounted, NEW l \in Lanes,
         slots' \in [Lanes -> [Slot -> SlotState]], KeepsEpisodes(l),
         \A k \in Lanes \ {l} : slots'[k] = slots[k],
         NEW p \in {"top", "drive", "evals", "sending", "measures", "wait", "more", "done"},
         phase' = [phase EXCEPT ![l] = p], phase[l] \notin {"ack", "failed"},
         completed' = completed, admitted' = admitted, exhausted' = exhausted,
         games' = games, ack' = ack, appended' = appended /\ dropped' = dropped, sink' = sink,
         p # "drive" => completed[l] = <<>>,
         p = "done" => exhausted[l] /\ Active(l) = {}
  PROVE  RunAccounted'
<1>1. LanesTypeOK /\ GamesAwaited /\ \A k \in Lanes : LaneAccounted(k) /\ LaneExact(k)
  BY DEF RunAccounted
<1>2. LanesTypeOK'
  BY <1>1 DEF LanesTypeOK, Ended
<1>3. OthersSame(l) /\ phase'[l] = p
  BY <1>1 DEF OthersSame, LanesTypeOK
<1>4. \A k \in Lanes \ {l} : LaneAccounted(k)' /\ LaneExact(k)'
  BY <1>1, <1>3, OthersAccounted
<1>5. /\ Active(l)' = Active(l) /\ Playing(l)' = Playing(l)
      /\ \A w \in Active(l) : slots'[l][w].episode = slots[l][w].episode
  BY <1>1, PlayingKept
<1>6. LaneAccounted(l)' /\ LaneExact(l)'
  <2>1. Settled(l)' = Settled(l)
    BY DEF Settled
  <2>2. LaneAccounted(l)'
    BY <1>1, <1>3, <1>5, <2>1 DEF LaneAccounted
  <2>3. LaneExact(l)'
    BY <1>1, <1>3, <1>5, ExactSame
  <2> QED BY <2>2, <2>3
<1>7. games \in Seq([lane : Lanes, episode : Nat]) /\ \A i \in 1..Len(games) : games[i].lane # l
  BY <1>1 DEF LanesTypeOK, GamesAwaited
<1>8. GamesAwaited'
  BY <1>1, <1>3, <1>7, GamesKept
<1> QED BY <1>2, <1>4, <1>6, <1>8 DEF RunAccounted

(* A lane that fails is accounted for by its failure; it fails with no     *)
(* game in the channel.                                                    *)
LEMMA LaneFails ==
  ASSUME RunAccounted, NEW l \in Lanes, FailLane(l),
         games' = games, ack' = ack, appended' = appended /\ dropped' = dropped, sink' = sink,
         \A i \in 1..Len(games) : games[i].lane # l
  PROVE  RunAccounted'
<1>1. LanesTypeOK /\ GamesAwaited /\ \A k \in Lanes : LaneAccounted(k) /\ LaneExact(k)
  BY DEF RunAccounted
<1>2. LanesTypeOK'
  <2>1. slots' \in [Lanes -> [Slot -> SlotState]]
    BY <1>1 DEF FailLane, LanesTypeOK, SlotState
  <2>2. /\ completed' \in [Lanes -> Seq(Nat)] /\ admitted' \in [Lanes -> Nat]
        /\ exhausted' \in [Lanes -> BOOLEAN]
    BY <1>1 DEF FailLane, LanesTypeOK
  <2>3. \A k \in Lanes : admitted'[k] <= Roots[k]
    <3>1. Roots \in [Lanes -> Nat]
      BY SizesAssumption
    <3>2. \A k \in Lanes : admitted'[k] = IF k = l THEN 0 ELSE admitted[k]
      BY <1>1 DEF FailLane, LanesTypeOK
    <3>3. \A k \in Lanes : Roots[k] >= 0 /\ admitted[k] <= Roots[k]
      BY <1>1, <3>1 DEF LanesTypeOK
    <3> QED BY <3>2, <3>3
  <2>4. phase' \in [Lanes -> {"top", "drive", "ack", "evals", "sending",
                              "measures", "wait", "more"} \cup Ended]
    BY <1>1 DEF FailLane, Goto, LanesTypeOK, Ended
  <2> QED BY <1>1, <2>1, <2>2, <2>3, <2>4 DEF LanesTypeOK
<1>3. OthersSame(l) /\ phase'[l] = "failed"
  BY <1>1 DEF OthersSame, LanesTypeOK, FailLane, Goto
<1>4. \A k \in Lanes \ {l} : LaneAccounted(k)' /\ LaneExact(k)'
  BY <1>1, <1>3, OthersAccounted
<1>5. LaneAccounted(l)' /\ LaneExact(l)'
  BY <1>1, <1>3 DEF LaneAccounted, LaneExact
<1>6. games \in Seq([lane : Lanes, episode : Nat])
  BY <1>1 DEF LanesTypeOK
<1>7. GamesAwaited'
  BY <1>1, <1>3, <1>6, GamesKept
<1> QED BY <1>2, <1>4, <1>5, <1>7 DEF RunAccounted

(* A lane that does not wait for the sink has no game in the channel. *)
LEMMA NoGame ==
  ASSUME RunAccounted, NEW l \in Lanes, phase[l] # "ack"
  PROVE  \A i \in 1..Len(games) : games[i].lane # l
BY DEF RunAccounted, GamesAwaited


-----------------------------------------------------------------------------
(* The steps of a round that store nothing.                                *)

(* A step that does not touch the pool. *)
LEMMA SlotsSame ==
  ASSUME LanesTypeOK, NEW l \in Lanes, slots' = slots
  PROVE  /\ slots' \in [Lanes -> [Slot -> SlotState]] /\ KeepsEpisodes(l)
         /\ \A k \in Lanes \ {l} : slots'[k] = slots[k]
<1>1. \A w \in Slot : slots[l][w] \in SlotState
  BY DEF LanesTypeOK
<1>2. \A w \in Slot : slots[l][w].state \in {"idle", "running", "parked"}
  BY <1>1, SlotView
<1> QED BY <1>2 DEF LanesTypeOK, KeepsEpisodes

(* Taking the unsent jobs of a pool marks them and nothing else. *)
LEMMA MarkKept ==
  ASSUME LanesTypeOK, NEW l \in Lanes, NEW kind, slots' = MarkSent(l, kind)
  PROVE  /\ slots' \in [Lanes -> [Slot -> SlotState]] /\ KeepsEpisodes(l)
         /\ \A k \in Lanes \ {l} : slots'[k] = slots[k]
<1>1. slots \in [Lanes -> [Slot -> SlotState]] /\ \A w \in Slot : slots[l][w] \in SlotState
  BY DEF LanesTypeOK
<1>2. PICK m : m = [w \in Slot |-> IF w \in Parked(l) /\ slots[l][w].kind = kind
                                   THEN [slots[l][w] EXCEPT !.unsent = {}] ELSE slots[l][w]]
  OBVIOUS
<1>3. slots' = [slots EXCEPT ![l] = m]
  BY <1>2 DEF MarkSent
<1>4. ASSUME NEW w \in Slot
      PROVE  /\ m[w] \in SlotState /\ m[w].state \in {"idle", "running", "parked"}
             /\ m[w].state = "idle" <=> slots[l][w].state = "idle"
             /\ slots[l][w].state # "idle" => m[w].episode = slots[l][w].episode
  <2>1. slots[l][w].state \in {"idle", "running", "parked"}
    BY <1>1, SlotView
  <2>2. CASE w \in Parked(l) /\ slots[l][w].kind = kind
    <3>1. slots[l][w].state = "parked" /\ m[w] = [slots[l][w] EXCEPT !.unsent = {}]
      BY <1>2, <2>2 DEF Parked
    <3> QED BY <1>1, <3>1, MarkedTyped
  <2>3. CASE ~(w \in Parked(l) /\ slots[l][w].kind = kind)
    BY <1>1, <1>2, <2>1, <2>3
  <2> QED BY <2>2, <2>3
<1>5. m \in [Slot -> SlotState]
  BY <1>2, <1>4
<1>6. slots'[l] = m /\ \A k \in Lanes \ {l} : slots'[k] = slots[k]
  BY <1>1, <1>3
<1>7. slots' \in [Lanes -> [Slot -> SlotState]]
  BY <1>1, <1>3, <1>5
<1> QED BY <1>4, <1>6, <1>7 DEF KeepsEpisodes

(* One slot changes, and keeps its episode if it has one. *)
LEMMA SlotKept ==
  ASSUME LanesTypeOK, NEW l \in Lanes, NEW w, NEW r, slots' = [slots EXCEPT ![l][w] = r],
         w \in Slot => /\ r \in SlotState /\ r.state # "idle" /\ slots[l][w].state # "idle"
                       /\ r.episode = slots[l][w].episode
  PROVE  /\ slots' \in [Lanes -> [Slot -> SlotState]] /\ KeepsEpisodes(l)
         /\ \A k \in Lanes \ {l} : slots'[k] = slots[k]
<1>1. slots \in [Lanes -> [Slot -> SlotState]] /\ \A v \in Slot : slots[l][v] \in SlotState
  BY DEF LanesTypeOK
<1>2. \A v \in Slot : slots[l][v].state \in {"idle", "running", "parked"}
  BY <1>1, SlotView
<1>3. slots'[l] = [slots[l] EXCEPT ![w] = r] /\ \A k \in Lanes \ {l} : slots'[k] = slots[k]
  BY <1>1
<1>4. \A v \in Slot : slots'[l][v] = IF v = w THEN r ELSE slots[l][v]
  BY <1>1, <1>3
<1>5. slots' \in [Lanes -> [Slot -> SlotState]]
  BY <1>1
<1>6. w \in Slot => r.state \in {"idle", "running", "parked"}
  BY SlotView
<1>7. KeepsEpisodes(l)
  BY <1>2, <1>4, <1>6 DEF KeepsEpisodes
<1> QED BY <1>3, <1>5, <1>7

(* The slot that drive polls next. *)
LEMMA FirstRunning ==
  ASSUME LanesTypeOK, NEW l \in Lanes, Running(l) # {}
  PROVE  First(Running(l)) \in Running(l)
<1>1. PICK S : S = Running(l)
  OBVIOUS
<1>2. S \in SUBSET Slot /\ S \in SUBSET Nat
  BY <1>1, SizesAssumption DEF Running, Slot
<1>3. IsFiniteSet(S) /\ Cardinality(S) \in Nat /\ Cardinality(S) # 0
  <2>1. IsFiniteSet(1..Workers)
    BY SizesAssumption, FS_Interval
  <2>2. IsFiniteSet(S)
    BY <1>2, <2>1, FS_Subset DEF Slot
  <2> QED BY <1>1, <2>2, FS_CardinalityType, FS_EmptySet
<1>4. PICK w \in S : PlaceIn(S, w) = 1
  <2>1. 1 \in 1..Cardinality(S)
    BY <1>3
  <2> QED BY <1>2, <1>3, <2>1, PlacesAll
<1>5. \A v \in S : w <= v
  <2> SUFFICES ASSUME NEW v \in S, v < w PROVE FALSE
    BY <1>2, <1>4
  <2>1. PlaceIn(S, v) < PlaceIn(S, w)
    BY <1>2, <1>3, <1>4, PlaceAbove
  <2>2. PlaceIn(S, v) \in 1..Cardinality(S)
    BY <1>2, <1>3, PlaceAbove
  <2> QED BY <1>3, <1>4, <2>1, <2>2
<1> QED BY <1>1, <1>4, <1>5 DEF First

(* drive: a task blocks with a wave of evaluations or a measurement. *)
LEMMA DriveKept ==
  ASSUME RunAccounted, NEW l \in Lanes, DriveWave(l) \/ DriveMeasure(l)
  PROVE  RunAccounted'
<1>1. LanesTypeOK /\ phase[l] = "drive" /\ Running(l) # {}
  BY DEF RunAccounted, DriveWave, DriveMeasure
<1>2. PICK w \in Slot : w = First(Running(l)) /\ slots[l][w].state = "running"
  BY <1>1, FirstRunning DEF Running
<1>3. PICK s \in SlotState : s = slots[l][w]
  BY <1>1 DEF LanesTypeOK
<1>4. s.state = "running" /\ s.episode \in Nat /\ s.next \in Nat /\ s.waves \in Nat
  BY <1>2, <1>3, SlotView
<1>5. \E r \in SlotState : /\ slots' = [slots EXCEPT ![l][w] = r]
                           /\ r.state # "idle" /\ r.episode = s.episode
  <2>1. CASE DriveWave(l)
    <3>1. PICK n \in WaveSizes : slots' = [slots EXCEPT ![l][w] =
              [state |-> "parked", episode |-> s.episode, next |-> s.next + n,
               waves |-> s.waves + 1, measured |-> FALSE, kind |-> "eval",
               waiting |-> s.next..(s.next + n - 1), unsent |-> s.next..(s.next + n - 1)]]
      BY <1>2, <1>3, <2>1 DEF DriveWave
    <3>2. n \in Nat
      BY SizesAssumption DEF WaveSizes
    <3>3. /\ s.next + n \in Nat /\ s.waves + 1 \in Nat
          /\ s.next..(s.next + n - 1) \in SUBSET Nat
      BY <1>4, <3>2
    <3>4. PICK t \in SUBSET Nat : t = s.next..(s.next + n - 1)
      BY <3>3
    <3>5. PICK r : r = [state |-> "parked", episode |-> s.episode, next |-> s.next + n,
               waves |-> s.waves + 1, measured |-> FALSE, kind |-> "eval",
               waiting |-> t, unsent |-> t]
      OBVIOUS
    <3>6. r \in SlotState
      BY <1>4, <3>3, <3>5, ParkedTyped
    <3>7. r.state = "parked" /\ r.episode = s.episode
      BY <3>5
    <3> QED BY <3>1, <3>4, <3>5, <3>6, <3>7
  <2>2. CASE DriveMeasure(l)
    <3>1. slots' = [slots EXCEPT ![l][w] =
              [state |-> "parked", episode |-> s.episode, next |-> s.next + 1,
               waves |-> s.waves, measured |-> FALSE, kind |-> "measure",
               waiting |-> {s.next}, unsent |-> {s.next}]]
      BY <1>2, <1>3, <2>2 DEF DriveMeasure
    <3>2. s.next + 1 \in Nat /\ {s.next} \in SUBSET Nat
      BY <1>4
    <3>3. PICK r : r = [state |-> "parked", episode |-> s.episode, next |-> s.next + 1,
               waves |-> s.waves, measured |-> FALSE, kind |-> "measure",
               waiting |-> {s.next}, unsent |-> {s.next}]
      OBVIOUS
    <3>4. r \in SlotState
      BY <1>4, <3>2, <3>3, ParkedTyped
    <3>5. r.state = "parked" /\ r.episode = s.episode
      BY <3>3
    <3> QED BY <3>1, <3>3, <3>4, <3>5
  <2> QED BY <2>1, <2>2
<1>6. PICK r \in SlotState : /\ slots' = [slots EXCEPT ![l][w] = r]
                             /\ r.state # "idle" /\ r.episode = s.episode
  BY <1>5
<1>7. /\ slots' \in [Lanes -> [Slot -> SlotState]] /\ KeepsEpisodes(l)
      /\ \A k \in Lanes \ {l} : slots'[k] = slots[k]
  BY <1>1, <1>2, <1>3, <1>6, SlotKept
<1>8. /\ phase' = phase /\ completed' = completed /\ admitted' = admitted
      /\ exhausted' = exhausted /\ games' = games /\ ack' = ack /\ appended' = appended /\ dropped' = dropped
      /\ sink' = sink
  BY DEF DriveWave, DriveMeasure, sinkVars, channels
<1>9. phase' = [phase EXCEPT ![l] = "drive"]
  BY <1>1, <1>8 DEF LanesTypeOK
<1> QED BY <1>1, <1>7, <1>8, <1>9, LaneMoves


(* send_parked and send_measurements mark the jobs they take. *)
LEMMA TakeKept ==
  ASSUME RunAccounted, NEW l \in Lanes, TakeEvals(l) \/ TakeMeasures(l)
  PROVE  RunAccounted'
<1>1. LanesTypeOK /\ LaneAccounted(l)
  BY DEF RunAccounted
<1>2. \E kind : slots' = MarkSent(l, kind)
  BY DEF TakeEvals, TakeMeasures
<1>3. PICK kind : slots' = MarkSent(l, kind)
  BY <1>2
<1>4. /\ slots' \in [Lanes -> [Slot -> SlotState]] /\ KeepsEpisodes(l)
      /\ \A k \in Lanes \ {l} : slots'[k] = slots[k]
  BY <1>1, <1>3, MarkKept
<1>5. /\ phase[l] \in {"drive", "evals"} /\ completed[l] = <<>>
      /\ \E p \in {"evals", "measures"} : phase' = [phase EXCEPT ![l] = p]
  BY <1>1 DEF TakeEvals, TakeMeasures, Driven, Goto, LaneAccounted
<1>6. PICK p \in {"evals", "measures"} : phase' = [phase EXCEPT ![l] = p]
  BY <1>5
<1>7. /\ completed' = completed /\ admitted' = admitted
      /\ exhausted' = exhausted /\ games' = games /\ ack' = ack /\ appended' = appended /\ dropped' = dropped
      /\ sink' = sink
  BY DEF TakeEvals, TakeMeasures, sinkVars, channels
<1> QED BY <1>4, <1>5, <1>6, <1>7, LaneMoves

(* Sending jobs, looking for replies and ending the round move the lane    *)
(* on; it is done only with an empty pool and no roots left.               *)
LEMMA StepKept ==
  ASSUME RunAccounted, NEW l \in Lanes,
         CountEval(l) \/ SendEval(l) \/ SendMeasure(l) \/ EndRound(l) \/ Poll(l)
  PROVE  RunAccounted'
<1>1. LanesTypeOK /\ LaneAccounted(l)
  BY DEF RunAccounted
<1>2. /\ slots' = slots /\ completed' = completed /\ admitted' = admitted
      /\ exhausted' = exhausted /\ games' = games /\ ack' = ack /\ appended' = appended /\ dropped' = dropped
      /\ sink' = sink
  BY DEF CountEval, SendEval, SendMeasure, EndRound, Poll, sinkVars, channels
<1>3. /\ slots' \in [Lanes -> [Slot -> SlotState]] /\ KeepsEpisodes(l)
      /\ \A k \in Lanes \ {l} : slots'[k] = slots[k]
  BY <1>1, <1>2, SlotsSame
<1>4. phase[l] \in {"evals", "sending", "measures", "wait", "more"}
  BY DEF CountEval, SendEval, SendMeasure, EndRound, Poll
<1>5. completed[l] = <<>>
  BY <1>1, <1>4 DEF LaneAccounted
<1>6. \E p \in {"top", "evals", "sending", "measures", "wait", "done"} :
         /\ phase' = [phase EXCEPT ![l] = p]
         /\ p = "done" => exhausted[l] /\ Active(l) = {}
  <2>1. CASE CountEval(l)
    BY <2>1 DEF CountEval, Goto
  <2>2. CASE SendEval(l)
    BY <2>2 DEF SendEval, Goto
  <2>3. CASE SendMeasure(l)
    <3>1. phase' = phase /\ phase[l] = "measures"
      BY <2>3 DEF SendMeasure
    <3>2. phase' = [phase EXCEPT ![l] = "measures"]
      BY <1>1, <3>1 DEF LanesTypeOK
    <3> QED BY <3>2
  <2>4. CASE EndRound(l)
    <3>1. CASE exhausted[l] /\ Active(l) = {}
      <4>1. Parked(l) = {}
        BY <3>1 DEF Active
      <4>2. phase' = [phase EXCEPT ![l] = "done"]
        BY <2>4, <3>1, <4>1 DEF EndRound, Goto
      <4> QED BY <3>1, <4>2
    <3>2. CASE ~(exhausted[l] /\ Active(l) = {}) /\ Parked(l) # {}
      <4>1. phase' = [phase EXCEPT ![l] = "wait"]
        BY <2>4, <3>2 DEF EndRound, Goto
      <4> QED BY <4>1
    <3>3. CASE ~(exhausted[l] /\ Active(l) = {}) /\ Parked(l) = {}
      <4>1. phase' = [phase EXCEPT ![l] = "top"]
        BY <2>4, <3>3 DEF EndRound, Goto
      <4> QED BY <4>1
    <3> QED BY <3>1, <3>2, <3>3
  <2>5. CASE Poll(l)
    BY <2>5 DEF Poll, Goto
  <2> QED BY <2>1, <2>2, <2>3, <2>4, <2>5
<1>7. PICK p \in {"top", "evals", "sending", "measures", "wait", "done"} :
         /\ phase' = [phase EXCEPT ![l] = p]
         /\ p = "done" => exhausted[l] /\ Active(l) = {}
  BY <1>6
<1> QED BY <1>2, <1>3, <1>4, <1>5, <1>7, LaneMoves

(* A reply resumes the slot it is for, whichever episode that plays. *)
LEMMA ResumeKept ==
  ASSUME RunAccounted, NEW l \in Lanes, Resume(l)
  PROVE  RunAccounted'
<1>1. LanesTypeOK /\ LaneAccounted(l)
  BY DEF RunAccounted
<1>2. PICK r : r = Head(replies[l])
  OBVIOUS
<1>3. /\ Expected(l, r) /\ slots' = [slots EXCEPT ![l][r.slot] = Resumed(slots[l][r.slot], r)]
      /\ phase[l] \in {"wait", "more"} /\ phase' = [phase EXCEPT ![l] = "more"]
      /\ completed' = completed /\ admitted' = admitted /\ exhausted' = exhausted
      /\ games' = games /\ ack' = ack /\ appended' = appended /\ dropped' = dropped /\ sink' = sink
  BY <1>2 DEF Resume, Goto, sinkVars
<1>4. ASSUME r.slot \in Slot
      PROVE  /\ Resumed(slots[l][r.slot], r) \in SlotState
             /\ Resumed(slots[l][r.slot], r).state # "idle" /\ slots[l][r.slot].state # "idle"
             /\ Resumed(slots[l][r.slot], r).episode = slots[l][r.slot].episode
  <2>1. PICK s \in SlotState : s = slots[l][r.slot]
    BY <1>1, <1>4 DEF LanesTypeOK
  <2>2. s.state = "parked"
    BY <1>3, <2>1 DEF Expected, has_parked_token
  <2> QED BY <2>1, <2>2, ResumedTyped
<1>5. /\ slots' \in [Lanes -> [Slot -> SlotState]] /\ KeepsEpisodes(l)
      /\ \A k \in Lanes \ {l} : slots'[k] = slots[k]
  BY <1>1, <1>3, <1>4, SlotKept
<1>6. completed[l] = <<>>
  BY <1>1, <1>3 DEF LaneAccounted
<1> QED BY <1>3, <1>5, <1>6, LaneMoves

(* Whatever makes a lane fail, it has no game in the channel: the sink     *)
(* that refuses a game, or is gone, has dropped the games it had.          *)
LEMMA FailureKept ==
  ASSUME RunAccounted, NEW l \in Lanes,
         \/ TopFails(l) \/ DriveFails(l) \/ SendGameFails(l) \/ ReceiveAckFails(l)
         \/ SendEvalFails(l) \/ SendMeasureFails(l) \/ ResumeFails(l) \/ PollFails(l)
  PROVE  RunAccounted'
<1>1. FailLane(l) /\ games' = games /\ ack' = ack /\ appended' = appended /\ dropped' = dropped /\ sink' = sink
  BY DEF TopFails, DriveFails, SendGameFails, ReceiveAckFails, SendEvalFails, SendMeasureFails,
         ResumeFails, PollFails, sinkVars
<1>2. phase[l] # "ack" \/ (phase[l] = "ack" /\ (ack[l] = "error" \/ sink \in Ended))
  BY DEF TopFails, DriveFails, SendGameFails, ReceiveAckFails, SendEvalFails, SendMeasureFails,
         ResumeFails, PollFails, Driven
<1>3. \A i \in 1..Len(games) : games[i].lane # l
  <2>1. CASE phase[l] # "ack"
    BY <2>1, NoGame
  <2>2. CASE ack[l] = "error"
    BY <2>2 DEF RunAccounted, GamesAwaited
  <2>3. CASE sink \in Ended
    BY <2>3 DEF RunAccounted, GamesAwaited
  <2> QED BY <1>2, <2>1, <2>2, <2>3
<1> QED BY <1>1, <1>3, LaneFails


-----------------------------------------------------------------------------
(* The life of an episode: it begins, is played, is sent and is stored.    *)

(* Admission numbers the episodes it begins without a gap, from the first  *)
(* that the lane has not had.                                              *)
LEMMA AdmitKept ==
  ASSUME RunAccounted, NEW l \in Lanes, Admit(l)
  PROVE  RunAccounted'
<1>1. LanesTypeOK /\ GamesAwaited /\ (\A k \in Lanes : LaneAccounted(k) /\ LaneExact(k)) /\ phase[l] = "top"
  BY DEF RunAccounted, Admit
<1>2. PICK S : S = IdleSlots(l)
  OBVIOUS
<1>3. /\ S \in SUBSET Slot /\ S \in SUBSET Nat /\ IsFiniteSet(S)
  <2>1. S \in SUBSET Slot /\ S \in SUBSET Nat
    BY <1>2, SizesAssumption DEF IdleSlots, Slot
  <2>2. IsFiniteSet(1..Workers)
    BY SizesAssumption, FS_Interval
  <2> QED BY <2>1, <2>2, FS_Subset DEF Slot
<1>4. PICK N \in Nat : N = Cardinality(S)
  BY <1>3, FS_CardinalityType
<1>5. PICK a \in Nat : a = admitted[l]
  BY <1>1 DEF LanesTypeOK
<1>6. PICK left \in Nat : left = Roots[l] - a /\ Roots[l] = a + left
  <2>1. Roots[l] \in Nat /\ a <= Roots[l]
    BY <1>1, <1>5, SizesAssumption DEF LanesTypeOK
  <2>2. Roots[l] - a \in Nat /\ Roots[l] = a + (Roots[l] - a)
    BY <2>1
  <2> QED BY <2>2
<1>7. PICK limit \in 0..(IF exhausted[l] THEN 0 ELSE N) :
        LET n == FromRoots(limit, left)
            chosen == FirstOf(S, n)
        IN  /\ slots' = [slots EXCEPT ![l] =
                  [w \in Slot |->
                      IF w \in chosen
                      THEN [state |-> "running", episode |-> a + PlaceIn(chosen, w),
                            next |-> 0, waves |-> 0, measured |-> FALSE]
                      ELSE slots[l][w]]]
            /\ admitted' = [admitted EXCEPT ![l] = a + n]
            /\ exhausted' = [exhausted EXCEPT ![l] = exhausted[l] \/ left < limit]
  BY <1>2, <1>4, <1>5, <1>6 DEF Admit
<1>8. PICK n \in Nat : n = FromRoots(limit, left)
  BY <1>4, <1>7 DEF FromRoots
<1>9. /\ n <= N /\ n <= left /\ (left < limit => n = left) /\ limit \in Nat
  BY <1>4, <1>7, <1>8 DEF FromRoots
<1>10. PICK F : F = FirstOf(S, n)
  OBVIOUS
<1>11. /\ \A w \in F : PlaceIn(F, w) \in 1..n
       /\ \A i \in 1..n : \E w \in F : PlaceIn(F, w) = i
  BY <1>3, <1>4, <1>9, <1>10, FirstPlaces
<1>12. PICK m : m = [w \in Slot |-> IF w \in F
                      THEN [state |-> "running", episode |-> a + PlaceIn(F, w),
                            next |-> 0, waves |-> 0, measured |-> FALSE]
                      ELSE slots[l][w]]
  OBVIOUS
<1>13. /\ slots' = [slots EXCEPT ![l] = m] /\ admitted' = [admitted EXCEPT ![l] = a + n]
       /\ exhausted' = [exhausted EXCEPT ![l] = exhausted[l] \/ left < limit]
  BY <1>7, <1>8, <1>10, <1>12
<1>14. /\ phase' = [phase EXCEPT ![l] = "drive"] /\ completed' = completed
       /\ games' = games /\ ack' = ack /\ appended' = appended /\ dropped' = dropped /\ sink' = sink
  BY DEF Admit, Goto, sinkVars, channels
<1>15. /\ slots \in [Lanes -> [Slot -> SlotState]] /\ admitted \in [Lanes -> Nat]
       /\ exhausted \in [Lanes -> BOOLEAN] /\ phase \in [Lanes -> {"top", "drive", "ack",
            "evals", "sending", "measures", "wait", "more"} \cup Ended]
       /\ completed \in [Lanes -> Seq(Nat)]
       /\ \A k \in Lanes : admitted[k] <= Roots[k]
  BY <1>1 DEF LanesTypeOK
<1>16. F \in SUBSET S /\ \A w \in S : slots[l][w].state = "idle"
  BY <1>2, <1>10 DEF FirstOf, IdleSlots
<1>17. ASSUME NEW w \in Slot, w \in F
       PROVE  m[w] \in SlotState /\ m[w].state = "running" /\ m[w].episode = a + PlaceIn(F, w)
  <2>1. a + PlaceIn(F, w) \in Nat
    BY <1>11, <1>17
  <2>2. m[w] = [state |-> "running", episode |-> a + PlaceIn(F, w),
                next |-> 0, waves |-> 0, measured |-> FALSE]
    BY <1>12, <1>17
  <2>3. m[w] \in SlotState
    BY <2>1, <2>2, RunningTyped
  <2> QED BY <2>2, <2>3
<1>18. ASSUME NEW w \in Slot, w \notin F PROVE m[w] = slots[l][w] /\ m[w] \in SlotState
  BY <1>12, <1>15, <1>18
<1>19. m \in [Slot -> SlotState]
  BY <1>12, <1>17, <1>18
<1>20. slots' \in [Lanes -> [Slot -> SlotState]] /\ slots'[l] = m
  BY <1>13, <1>15, <1>19
<1>21. admitted'[l] = a + n /\ exhausted'[l] = (exhausted[l] \/ left < limit) /\ phase'[l] = "drive"
  BY <1>13, <1>14, <1>15
<1>22. LanesTypeOK'
  <2>1. \A k \in Lanes : admitted'[k] <= Roots[k]
    <3>1. a + n <= Roots[l]
      BY <1>6, <1>9
    <3> QED BY <1>13, <1>15, <3>1
  <2>2. admitted' \in [Lanes -> Nat] /\ exhausted' \in [Lanes -> BOOLEAN]
    BY <1>13, <1>15
  <2>3. phase' \in [Lanes -> {"top", "drive", "ack", "evals", "sending",
                              "measures", "wait", "more"} \cup Ended]
    BY <1>14, <1>15
  <2> QED BY <1>1, <1>14, <1>20, <2>1, <2>2, <2>3 DEF LanesTypeOK
<1>23. OthersSame(l)
  BY <1>13, <1>14, <1>15 DEF OthersSame
<1>24. Active(l) = {w \in Slot : slots[l][w].state # "idle"}
  BY <1>1, ActiveSlots
<1>25. Active(l)' = Active(l) \cup F
  <2>1. \A w \in Slot : m[w].state \in {"idle", "running", "parked"}
    BY <1>19, SlotView
  <2>2. Active(l)' = {w \in Slot : m[w].state # "idle"}
    BY <1>20, <2>1 DEF Active, Running, Parked
  <2>3. F \in SUBSET Slot
    BY <1>3, <1>16
  <2> QED BY <1>17, <1>18, <1>24, <2>2, <2>3
<1>26. Playing(l)' = Playing(l) \cup {a + i : i \in 1..n}
  <2>1. Playing(l)' = {m[w].episode : w \in Active(l) \cup F}
    BY <1>20, <1>25 DEF Playing
  <2>2. \A w \in Active(l) : w \in Slot /\ m[w].episode = slots[l][w].episode
    BY <1>16, <1>18, <1>24
  <2>3. \A w \in F : w \in Slot /\ m[w].episode = a + PlaceIn(F, w)
    BY <1>3, <1>16, <1>17
  <2>4. {m[w].episode : w \in F} = {a + i : i \in 1..n}
    BY <1>11, <2>3
  <2>5. {m[w].episode : w \in Active(l)} = Playing(l)
    BY <2>2 DEF Playing
  <2> QED BY <2>1, <2>4, <2>5
<1>27. 1..(a + n) = (1..a) \cup {a + i : i \in 1..n}
  <2>1. \A x \in 1..(a + n) : x \in 1..a \/ (x - a \in 1..n /\ x = a + (x - a))
    OBVIOUS
  <2>2. \A i \in 1..n : a + i \in 1..(a + n)
    OBVIOUS
  <2>3. \A x \in 1..a : x \in 1..(a + n)
    OBVIOUS
  <2> QED BY <2>1, <2>2, <2>3
<1>28. LaneAccounted(l)'
  <2>1. /\ 1..a = Settled(l) \cup Range(completed[l]) \cup Playing(l)
        /\ exhausted[l] => a = Roots[l]
        /\ completed[l] = <<>> /\ ack[l] = "none"
    BY <1>1, <1>5 DEF LaneAccounted
  <2>2. 1..(a + n) = Settled(l) \cup Range(completed[l]) \cup Playing(l)'
    BY <1>26, <1>27, <2>1
  <2>3. exhausted'[l] => a + n = Roots[l]
    <3>1. exhausted[l] => left = 0 /\ n = 0
      BY <1>6, <1>9, <2>1
    <3>2. left < limit => a + n = Roots[l]
      BY <1>6, <1>9
    <3> QED BY <1>6, <1>21, <2>1, <3>1, <3>2
  <2>4. Settled(l)' = Settled(l)
    BY <1>14 DEF Settled
  <2> QED BY <1>14, <1>21, <2>1, <2>2, <2>3, <2>4 DEF LaneAccounted
<1>29. LaneExact(l)'
  <2>1. /\ Settled(l) \in SUBSET (1..a) /\ Playing(l) \in SUBSET (1..a)
        /\ completed[l] = <<>> /\ LaneExact(l) /\ phase[l] # "failed"
    BY <1>1, <1>5 DEF LaneAccounted
  <2>2. \A i \in 1..n : a + i \in Nat /\ a + i \notin 1..a
    OBVIOUS
  <2>3. \A w \in Active(l) : m[w].episode = slots[l][w].episode /\ m[w].episode \in Playing(l)
    BY <1>16, <1>18, <1>24 DEF Playing
  <2>4. \A w \in F : PlaceIn(F, w) \in 1..n /\ m[w].episode = a + PlaceIn(F, w)
    BY <1>3, <1>11, <1>16, <1>17
  <2>5. ASSUME NEW w \in F, NEW v \in F, m[w].episode = m[v].episode PROVE w = v
    <3>1. F \in SUBSET Nat /\ IsFiniteSet(F)
      BY <1>3, <1>16, FS_Subset
    <3>2. PlaceIn(F, w) = PlaceIn(F, v)
      <4>1. PICK i \in 1..n : i = PlaceIn(F, w)
        BY <2>4
      <4>2. PICK j \in 1..n : j = PlaceIn(F, v)
        BY <2>4
      <4>3. a + i = a + j
        BY <2>4, <2>5, <4>1, <4>2
      <4> QED BY <4>1, <4>2, <4>3
    <3>3. w \in Nat /\ v \in Nat /\ PlaceIn(F, w) \in 1..n
      BY <2>4, <3>1
    <3>4. ~(w < v) /\ ~(v < w)
      <4>1. PICK i \in 1..n : i = PlaceIn(F, w) /\ i = PlaceIn(F, v)
        BY <3>2, <3>3
      <4>2. w < v => PlaceIn(F, w) < PlaceIn(F, v)
        BY <3>1, PlaceAbove
      <4>3. v < w => PlaceIn(F, v) < PlaceIn(F, w)
        BY <3>1, PlaceAbove
      <4>4. ~(i < i)
        OBVIOUS
      <4> QED BY ONLY <4>1, <4>2, <4>3, <4>4
    <3> QED BY <3>3, <3>4
  <2>6. ASSUME NEW w \in Active(l) \cup F, NEW v \in Active(l) \cup F, m[w].episode = m[v].episode
        PROVE  w = v
    <3>1. CASE w \in Active(l) /\ v \in Active(l)
      BY <2>1, <2>3, <2>6, <3>1 DEF LaneExact
    <3>2. CASE w \in F /\ v \in F
      BY <2>5, <2>6, <3>2
    <3>3. CASE w \in Active(l) /\ v \in F
      BY <2>1, <2>2, <2>3, <2>4, <2>6, <3>3
    <3>4. CASE w \in F /\ v \in Active(l)
      BY <2>1, <2>2, <2>3, <2>4, <2>6, <3>4
    <3> QED BY <3>1, <3>2, <3>3, <3>4
  <2>7. Settled(l)' = Settled(l) /\ appended'[l] = appended[l] /\ dropped'[l] = dropped[l]
    BY <1>14 DEF Settled
  <2>8. Range(completed[l]) = {}
    BY <2>1 DEF Range
  <2>9. Playing(l)' \cap (Settled(l) \cup Range(completed[l])) = {}
    <3>1. Playing(l) \cap Settled(l) = {}
      BY <2>1 DEF LaneExact
    <3>2. \A i \in 1..n : a + i \notin Settled(l)
      BY <2>1, <2>2
    <3> QED BY <1>26, <2>8, <3>1, <3>2
  <2>10. \A w, v \in Active(l)' : slots'[l][w].episode = slots'[l][v].episode => w = v
    BY <1>20, <1>25, <2>6
  <2> QED BY <1>14, <2>1, <2>7, <2>9, <2>10 DEF LaneExact
<1>30. \A k \in Lanes \ {l} : LaneAccounted(k)' /\ LaneExact(k)'
  BY <1>1, <1>23, OthersAccounted
<1>31. GamesAwaited'
  <2>1. games \in Seq([lane : Lanes, episode : Nat]) /\ \A i \in 1..Len(games) : games[i].lane # l
    BY <1>1, NoGame DEF LanesTypeOK
  <2> QED BY <1>1, <1>14, <1>23, <2>1, GamesKept
<1> QED BY <1>22, <1>28, <1>30, <1>31, <1>29 DEF RunAccounted


(* The elements of a sequence without its first, or with one more. *)
LEMMA RangeOfTail ==
  ASSUME NEW s \in Seq(Nat), s # <<>>
  PROVE  /\ Tail(s) \in Seq(Nat) /\ Head(s) \in Nat /\ Range(s) = {Head(s)} \cup Range(Tail(s))
         /\ 1 \in DOMAIN s /\ s[1] = Head(s)
         /\ \A i \in DOMAIN Tail(s) : i + 1 \in DOMAIN s /\ i + 1 # 1 /\ Tail(s)[i] = s[i + 1]
         /\ IsInjective(s) => IsInjective(Tail(s))
<1>1. PICK n \in Nat : n = Len(s)
  OBVIOUS
<1>2. n # 0 /\ Head(s) = s[1] /\ DOMAIN s = 1..n
  BY <1>1
<1>3. Len(Tail(s)) = n - 1 /\ DOMAIN Tail(s) = 1..(n - 1) /\ \A i \in 1..(n - 1) : Tail(s)[i] = s[i + 1]
  BY <1>1, <1>2
<1>4. \A i \in 1..n : i = 1 \/ (i - 1 \in 1..(n - 1) /\ (i - 1) + 1 = i)
  OBVIOUS
<1>5. \A i \in 1..(n - 1) : i + 1 \in 1..n
  OBVIOUS
<1>6. 1 \in 1..n
  BY <1>2
<1>7. Tail(s) \in Seq(Nat) /\ Head(s) \in Nat
  BY <1>2
<1>8. PICK t : t = Tail(s)
  OBVIOUS
<1>9. DOMAIN t = 1..(n - 1) /\ \A i \in 1..(n - 1) : t[i] = s[i + 1]
  BY <1>3, <1>8
<1>10. ASSUME NEW x \in Range(s) PROVE x = Head(s) \/ x \in Range(t)
  <2>1. PICK i \in 1..n : x = s[i]
    BY <1>2 DEF Range
  <2>2. CASE i = 1
    BY <1>2, <2>1, <2>2
  <2>3. CASE i # 1
    <3>1. PICK k \in 1..(n - 1) : k + 1 = i
      BY <1>4, <2>3
    <3> QED BY <1>9, <2>1, <3>1 DEF Range
  <2> QED BY <2>2, <2>3
<1>11. ASSUME NEW x \in Range(t) PROVE x \in Range(s)
  <2>1. PICK k \in 1..(n - 1) : x = t[k]
    BY <1>9 DEF Range
  <2>2. PICK i \in 1..n : i = k + 1
    BY <1>5
  <2> QED BY <1>2, <1>9, <2>1, <2>2 DEF Range
<1>12. Head(s) \in Range(s)
  BY <1>2, <1>6 DEF Range
<1>13. \A i \in DOMAIN t : i + 1 \in DOMAIN s /\ i + 1 # 1 /\ t[i] = s[i + 1]
  BY <1>2, <1>5, <1>9
<1>14. ASSUME IsInjective(s) PROVE IsInjective(t)
  <2> SUFFICES ASSUME NEW i \in 1..(n - 1), NEW j \in 1..(n - 1), t[i] = t[j] PROVE i = j
    BY <1>9 DEF IsInjective
  <2>1. i + 1 \in DOMAIN s /\ j + 1 \in DOMAIN s
    BY <1>2, <1>5
  <2>2. s[i + 1] = s[j + 1]
    BY <1>9
  <2>3. i + 1 = j + 1
    BY ONLY <1>14, <2>1, <2>2 DEF IsInjective
  <2> QED BY <2>3
<1> QED BY <1>2, <1>6, <1>7, <1>8, <1>10, <1>11, <1>12, <1>13, <1>14

(* The elements of a sequence with one more. *)
LEMMA RangeOfAppend ==
  ASSUME NEW s \in Seq(Nat), NEW x \in Nat
  PROVE  /\ Append(s, x) \in Seq(Nat) /\ Range(Append(s, x)) = Range(s) \cup {x}
         /\ IsInjective(s) /\ x \notin Range(s) => IsInjective(Append(s, x))
<1>1. PICK n \in Nat : n = Len(s)
  OBVIOUS
<1>2. /\ DOMAIN s = 1..n /\ DOMAIN Append(s, x) = 1..(n + 1) /\ Append(s, x)[n + 1] = x
      /\ \A i \in 1..n : Append(s, x)[i] = s[i]
  BY <1>1
<1>3. \A i \in 1..(n + 1) : i \in 1..n \/ i = n + 1
  OBVIOUS
<1>4. n + 1 \in 1..(n + 1) /\ \A i \in 1..n : i \in 1..(n + 1)
  OBVIOUS
<1>5. PICK t : t = Append(s, x)
  OBVIOUS
<1>6. ASSUME IsInjective(s), x \notin Range(s) PROVE IsInjective(t)
  <2> SUFFICES ASSUME NEW i \in 1..(n + 1), NEW j \in 1..(n + 1), t[i] = t[j] PROVE i = j
    BY <1>2, <1>5 DEF IsInjective
  <2>1. \A k \in 1..n : t[k] = s[k] /\ s[k] # x
    BY <1>2, <1>5, <1>6 DEF Range
  <2>2. t[n + 1] = x
    BY <1>2, <1>5
  <2>3. CASE i \in 1..n /\ j \in 1..n
    <3>1. s[i] = s[j]
      BY <2>1, <2>3
    <3> QED BY <1>2, <1>6, <2>3, <3>1 DEF IsInjective
  <2>4. CASE i = n + 1 /\ j \in 1..n
    BY <2>1, <2>2, <2>4
  <2>5. CASE i \in 1..n /\ j = n + 1
    BY <2>1, <2>2, <2>5
  <2> QED BY <1>3, <2>3, <2>4, <2>5
<1>7. Append(s, x) \in Seq(Nat)
  OBVIOUS
<1>8. Range(Append(s, x)) = Range(s) \cup {x}
  BY <1>2, <1>3, <1>4 DEF Range
<1> QED BY <1>5, <1>6, <1>7, <1>8

(* An episode that is complete leaves its slot and waits to be sent. *)
LEMMA DriveDoneKept ==
  ASSUME RunAccounted, NEW l \in Lanes, DriveDone(l)
  PROVE  RunAccounted'
<1>1. /\ LanesTypeOK /\ GamesAwaited /\ (\A k \in Lanes : LaneAccounted(k) /\ LaneExact(k))
      /\ phase[l] = "drive" /\ Running(l) # {}
  BY DEF RunAccounted, DriveDone
<1>2. PICK w \in Slot : w = First(Running(l)) /\ slots[l][w].state = "running"
  BY <1>1, FirstRunning DEF Running
<1>3. PICK e \in Nat : e = slots[l][w].episode
  <2>1. slots[l][w] \in SlotState
    BY <1>1 DEF LanesTypeOK
  <2> QED BY <1>2, <2>1, SlotView
<1>4. /\ slots' = [slots EXCEPT ![l][w] = Idle]
      /\ completed' = [completed EXCEPT ![l] = Append(completed[l], e)]
      /\ phase' = phase /\ admitted' = admitted /\ exhausted' = exhausted
      /\ games' = games /\ ack' = ack /\ appended' = appended /\ dropped' = dropped /\ sink' = sink
  BY <1>2, <1>3 DEF DriveDone, sinkVars, channels
<1>5. /\ slots \in [Lanes -> [Slot -> SlotState]] /\ completed \in [Lanes -> Seq(Nat)]
      /\ completed[l] \in Seq(Nat)
  BY <1>1 DEF LanesTypeOK
<1>6. /\ Append(completed[l], e) \in Seq(Nat)
      /\ Range(Append(completed[l], e)) = Range(completed[l]) \cup {e}
  BY <1>5, RangeOfAppend
<1>7. /\ slots' \in [Lanes -> [Slot -> SlotState]] /\ completed' \in [Lanes -> Seq(Nat)]
      /\ completed'[l] = Append(completed[l], e)
      /\ \A v \in Slot : slots'[l][v] = IF v = w THEN Idle ELSE slots[l][v]
      /\ \A k \in Lanes \ {l} : slots'[k] = slots[k] /\ completed'[k] = completed[k]
  BY <1>4, <1>5, <1>6 DEF SlotState
<1>8. LanesTypeOK'
  BY <1>1, <1>4, <1>7 DEF LanesTypeOK
<1>9. OthersSame(l)
  BY <1>4, <1>7 DEF OthersSame
<1>10. Active(l) = {v \in Slot : slots[l][v].state # "idle"}
  BY <1>1, ActiveSlots
<1>11. Active(l)' = Active(l) \ {w}
  <2>1. \A v \in Slot : slots[l][v].state \in {"idle", "running", "parked"}
    <3>1. \A v \in Slot : slots[l][v] \in SlotState
      BY <1>5
    <3> QED BY <3>1, SlotView
  <2>2. Idle.state = "idle"
    BY DEF Idle
  <2> QED BY <1>7, <1>10, <2>1, <2>2 DEF Active, Running, Parked
<1>12. Playing(l) = Playing(l)' \cup {e}
  <2>1. w \in Active(l)
    BY <1>2, <1>10
  <2>2. Playing(l)' = {slots[l][v].episode : v \in Active(l) \ {w}}
    BY <1>7, <1>10, <1>11 DEF Playing
  <2> QED BY <1>3, <2>1, <2>2 DEF Playing
<1>13. LaneAccounted(l)'
  <2>1. /\ 1..admitted[l] = Settled(l) \cup Range(completed[l]) \cup Playing(l)
        /\ exhausted[l] => admitted[l] = Roots[l]
        /\ ack[l] = "none"
    BY <1>1 DEF LaneAccounted
  <2>2. 1..admitted[l] = Settled(l) \cup Range(completed'[l]) \cup Playing(l)'
    BY <1>6, <1>7, <1>12, <2>1
  <2>3. Settled(l)' = Settled(l)
    BY <1>4 DEF Settled
  <2> QED BY <1>1, <1>4, <2>1, <2>2, <2>3 DEF LaneAccounted
<1>14. LaneExact(l)'
  <2>1. LaneExact(l) /\ phase[l] # "failed" /\ ack[l] = "none" /\ w \in Active(l)
    BY <1>1, <1>2, <1>10 DEF LaneAccounted
  <2>2. e \in Playing(l) /\ e \notin Settled(l) /\ e \notin Range(completed[l])
    BY <1>12, <2>1 DEF LaneExact
  <2>3. Settled(l)' = Settled(l) /\ appended'[l] = appended[l] /\ dropped'[l] = dropped[l]
    BY <1>4 DEF Settled
  <2>4. \A v \in Active(l)' : v \in Active(l) /\ v # w /\ slots'[l][v] = slots[l][v]
    BY <1>7, <1>10, <1>11
  <2>5. \A v \in Active(l)' : slots'[l][v].episode # e
    BY <1>3, <2>1, <2>4 DEF LaneExact
  <2>6. e \notin Playing(l)'
    BY <2>5 DEF Playing
  <2>7. Playing(l)' \cap (Settled(l)' \cup Range(completed'[l])) = {}
    <3>1. Playing(l) \cap (Settled(l) \cup Range(completed[l])) = {}
      BY <2>1 DEF LaneExact
    <3> QED BY <1>6, <1>7, <1>12, <2>3, <2>6, <3>1
  <2>8. \A u, v \in Active(l)' : slots'[l][u].episode = slots'[l][v].episode => u = v
    BY <2>1, <2>4 DEF LaneExact
  <2>9. IsInjective(completed'[l])
    BY <1>5, <1>7, <2>1, <2>2, RangeOfAppend DEF LaneExact
  <2>10. \A i \in DOMAIN completed'[l] : completed'[l][i] \notin Settled(l)
    <3>1. \A x \in Range(completed[l]) : x \notin Settled(l)
      BY <2>1 DEF LaneExact, Range
    <3>2. \A x \in Range(completed'[l]) : x \notin Settled(l)
      BY <1>6, <1>7, <2>2, <3>1
    <3> QED BY <3>2 DEF Range
  <2> QED BY <2>1, <2>3, <2>7, <2>8, <2>9, <2>10 DEF LaneExact
<1>15. \A k \in Lanes \ {l} : LaneAccounted(k)' /\ LaneExact(k)'
  BY <1>1, <1>9, OthersAccounted
<1>16. GamesAwaited'
  <2>1. games \in Seq([lane : Lanes, episode : Nat]) /\ \A i \in 1..Len(games) : games[i].lane # l
    BY <1>1, NoGame DEF LanesTypeOK
  <2> QED BY <1>1, <1>4, <1>9, <2>1, GamesKept
<1> QED BY <1>8, <1>13, <1>14, <1>15, <1>16 DEF RunAccounted

(* The game that is sent is the first of the completed ones, and the lane  *)
(* waits for the answer.                                                   *)
LEMMA SendGameKept ==
  ASSUME RunAccounted, NEW l \in Lanes, SendGame(l)
  PROVE  RunAccounted'
<1>1. /\ LanesTypeOK /\ GamesAwaited /\ (\A k \in Lanes : LaneAccounted(k) /\ LaneExact(k))
      /\ phase[l] = "drive" /\ completed[l] # <<>> /\ sink \notin Ended
  BY DEF RunAccounted, SendGame, Driven
<1>2. PICK e \in Nat : e = Head(completed[l])
  <2>1. completed[l] \in Seq(Nat)
    BY <1>1 DEF LanesTypeOK
  <2> QED BY <1>1, <2>1
<1>3. PICK G : G = [lane : Lanes, episode : Nat]
  OBVIOUS
<1>4. PICK g \in G : g = [lane |-> l, episode |-> e] /\ g.lane = l /\ g.episode = e
  <2>1. PICK g : g = [lane |-> l, episode |-> e]
    OBVIOUS
  <2>2. g.lane = l /\ g.episode = e /\ g \in G
    BY <1>3, <2>1
  <2> QED BY <2>1, <2>2
<1>5. /\ games' = Append(games, g) /\ phase' = [phase EXCEPT ![l] = "ack"]
      /\ slots' = slots /\ completed' = completed /\ admitted' = admitted
      /\ exhausted' = exhausted /\ ack' = ack /\ appended' = appended /\ dropped' = dropped /\ sink' = sink
  BY <1>2, <1>4 DEF SendGame, Goto, sinkVars
<1>6. games \in Seq(G) /\ phase \in [Lanes -> {"top", "drive", "ack", "evals", "sending",
                                                "measures", "wait", "more"} \cup Ended]
  BY <1>1, <1>3 DEF LanesTypeOK
<1>7. games' \in Seq(G) /\ phase'[l] = "ack" /\ \A k \in Lanes \ {l} : phase'[k] = phase[k]
  BY <1>4, <1>5, <1>6
<1>8. LanesTypeOK'
  <2>1. phase' \in [Lanes -> {"top", "drive", "ack", "evals", "sending",
                              "measures", "wait", "more"} \cup Ended]
    BY <1>5, <1>6
  <2> QED BY <1>1, <1>3, <1>5, <1>7, <2>1 DEF LanesTypeOK
<1>9. OthersSame(l)
  BY <1>5, <1>7 DEF OthersSame
<1>10. \A k \in Lanes \ {l} : LaneAccounted(k)' /\ LaneExact(k)'
  BY <1>1, <1>9, OthersAccounted
<1>11. LaneAccounted(l) /\ Playing(l)' = Playing(l) /\ ack[l] = "none"
  <2>1. Playing(l)' = Playing(l)
    BY <1>5 DEF Playing, Active, Running, Parked
  <2>2. LaneAccounted(l) /\ (LaneAccounted(l) => ack[l] = "none")
    BY <1>1 DEF LaneAccounted
  <2> QED BY <2>1, <2>2
<1>12. LaneAccounted(l)' /\ LaneExact(l)'
  <2>1. Settled(l)' = Settled(l)
    BY <1>5 DEF Settled
  <2>2. LaneAccounted(l)'
    BY <1>1, <1>5, <1>7, <1>11, <2>1 DEF LaneAccounted
  <2>3. Active(l)' = Active(l)
    BY <1>5 DEF Active, Running, Parked
  <2>4. LaneExact(l)'
    BY <1>1, <1>5, <1>7, <2>3, ExactSame
  <2> QED BY <2>2, <2>4
<1>13. GamesAwaited'
  <2>1. PICK n \in Nat : n = Len(games)
    BY <1>6
  <2>2. /\ Len(games') = n + 1 /\ games'[n + 1] = g /\ \A i \in 1..n : games'[i] = games[i]
    BY <1>4, <1>5, <1>6, <2>1
  <2>3. \A i \in 1..n : games[i] \in G /\ games[i].lane \in Lanes \ {l}
    <3>1. \A i \in 1..n : games[i].lane # l
      BY <1>1, <2>1, NoGame
    <3>2. \A i \in 1..n : games[i] \in G
      BY <1>6, <2>1
    <3> QED BY <1>3, <3>1, <3>2
  <2>4. \A i \in 1..(n + 1) : i \in 1..n \/ i = n + 1
    OBVIOUS
  <2>5. ASSUME NEW i \in 1..(n + 1)
        PROVE  /\ phase'[games'[i].lane] = "ack" /\ ack'[games'[i].lane] = "none"
               /\ games'[i].episode = Head(completed'[games'[i].lane])
    <3>1. CASE i \in 1..n
      BY <1>1, <1>5, <1>7, <2>1, <2>2, <2>3, <3>1 DEF GamesAwaited
    <3>2. CASE i = n + 1
      BY <1>2, <1>4, <1>5, <1>7, <1>11, <2>2, <3>2
    <3> QED BY <2>4, <3>1, <3>2
  <2>6. ASSUME NEW i \in 1..(n + 1), NEW j \in 1..(n + 1), games'[i].lane = games'[j].lane
        PROVE  i = j
    <3>1. CASE i \in 1..n /\ j \in 1..n
      BY <1>1, <2>1, <2>2, <2>6, <3>1 DEF GamesAwaited
    <3>2. CASE i = n + 1 /\ j \in 1..n
      BY <1>4, <2>2, <2>3, <2>6, <3>2
    <3>3. CASE i \in 1..n /\ j = n + 1
      BY <1>4, <2>2, <2>3, <2>6, <3>3
    <3> QED BY <2>4, <3>1, <3>2, <3>3
  <2> QED BY <1>1, <1>5, <2>2, <2>5, <2>6 DEF GamesAwaited
<1> QED BY <1>8, <1>10, <1>12, <1>13 DEF RunAccounted

(* The answer is for the first of the completed games, which is stored. *)
LEMMA ReceiveAckKept ==
  ASSUME RunAccounted, NEW l \in Lanes, ReceiveAck(l)
  PROVE  RunAccounted'
<1>1. /\ LanesTypeOK /\ GamesAwaited /\ (\A k \in Lanes : LaneAccounted(k) /\ LaneExact(k))
      /\ phase[l] = "ack" /\ ack[l] = "ok"
  BY DEF RunAccounted, ReceiveAck
<1>2. /\ completed[l] \in Seq(Nat) /\ completed[l] # <<>> /\ Head(completed[l]) \in Settled(l)
      /\ completed \in [Lanes -> Seq(Nat)] /\ ack \in [Lanes -> {"none", "ok", "error"}]
      /\ phase \in [Lanes -> {"top", "drive", "ack", "evals", "sending",
                              "measures", "wait", "more"} \cup Ended]
  BY <1>1 DEF LanesTypeOK, LaneAccounted
<1>3. /\ Tail(completed[l]) \in Seq(Nat)
      /\ Range(completed[l]) = {Head(completed[l])} \cup Range(Tail(completed[l]))
  BY <1>2, RangeOfTail
<1>4. /\ ack' = [ack EXCEPT ![l] = "none"] /\ completed' = [completed EXCEPT ![l] = Tail(completed[l])]
      /\ phase' = [phase EXCEPT ![l] = "drive"] /\ slots' = slots /\ admitted' = admitted
      /\ exhausted' = exhausted /\ games' = games /\ appended' = appended /\ dropped' = dropped /\ sink' = sink
  BY DEF ReceiveAck, Goto, sinkVars
<1>5. /\ ack'[l] = "none" /\ completed'[l] = Tail(completed[l]) /\ phase'[l] = "drive"
      /\ \A k \in Lanes \ {l} : /\ ack'[k] = ack[k] /\ completed'[k] = completed[k]
                                /\ phase'[k] = phase[k]
  BY <1>2, <1>4
<1>6. LanesTypeOK'
  <2>1. /\ ack' \in [Lanes -> {"none", "ok", "error"}] /\ completed' \in [Lanes -> Seq(Nat)]
        /\ phase' \in [Lanes -> {"top", "drive", "ack", "evals", "sending",
                                 "measures", "wait", "more"} \cup Ended]
    BY <1>2, <1>3, <1>4
  <2> QED BY <1>1, <1>4, <2>1 DEF LanesTypeOK
<1>7. OthersSame(l)
  BY <1>4, <1>5 DEF OthersSame
<1>8. \A k \in Lanes \ {l} : LaneAccounted(k)' /\ LaneExact(k)'
  BY <1>1, <1>7, OthersAccounted
<1>9. LaneAccounted(l)'
  <2>1. Playing(l)' = Playing(l)
    BY <1>4 DEF Playing, Active, Running, Parked
  <2>2. /\ 1..admitted[l] = Settled(l) \cup Range(completed[l]) \cup Playing(l)
        /\ exhausted[l] => admitted[l] = Roots[l]
    BY <1>1 DEF LaneAccounted
  <2>3. 1..admitted[l] = Settled(l) \cup Range(completed'[l]) \cup Playing(l)
    BY <1>2, <1>3, <1>5, <2>2
  <2>4. Settled(l)' = Settled(l)
    BY <1>4 DEF Settled
  <2> QED BY <1>4, <1>5, <2>1, <2>2, <2>3, <2>4 DEF LaneAccounted
<1>10. LaneExact(l)'
  <2>1. LaneExact(l) /\ phase[l] # "failed"
    BY <1>1
  <2>2. /\ Settled(l)' = Settled(l) /\ appended'[l] = appended[l] /\ dropped'[l] = dropped[l]
        /\ Active(l)' = Active(l) /\ Playing(l)' = Playing(l) /\ slots'[l] = slots[l]
    BY <1>4 DEF Settled, Playing, Active, Running, Parked
  <2>3. Playing(l) \cap (Settled(l) \cup Range(completed'[l])) = {}
    BY <1>3, <1>5, <2>1 DEF LaneExact
  <2>4. IsInjective(completed'[l])
    BY <1>2, <1>5, <2>1, RangeOfTail DEF LaneExact
  <2>5. \A i \in DOMAIN completed'[l] : completed'[l][i] \notin Settled(l)
    BY <1>2, <1>5, <2>1, RangeOfTail DEF LaneExact
  <2> QED BY <2>1, <2>2, <2>3, <2>4, <2>5 DEF LaneExact
<1>11. GamesAwaited'
  <2>1. games \in Seq([lane : Lanes, episode : Nat])
    BY <1>1 DEF LanesTypeOK
  <2>2. \A i \in 1..Len(games) : games[i].lane # l
    BY <1>1 DEF GamesAwaited
  <2> QED BY <1>1, <1>4, <1>7, <2>1, <2>2, GamesKept
<1> QED BY <1>6, <1>8, <1>9, <1>10, <1>11 DEF RunAccounted


-----------------------------------------------------------------------------
(* The other threads.                                                      *)

(* A step that changes nothing the account is about. *)
LEMMA FrameKept ==
  ASSUME RunAccounted, UNCHANGED laneVars, games' = games, ack' = ack, appended' = appended /\ dropped' = dropped,
         sink' = sink
  PROVE  RunAccounted'
<1>1. /\ phase' = phase /\ slots' = slots /\ completed' = completed /\ admitted' = admitted
      /\ exhausted' = exhausted
  BY DEF laneVars
<1>2. LanesTypeOK /\ GamesAwaited /\ \A k \in Lanes : LaneAccounted(k) /\ LaneExact(k)
  BY DEF RunAccounted
<1>3. LanesTypeOK'
  BY <1>1, <1>2 DEF LanesTypeOK
<1>4. GamesAwaited'
  BY <1>1, <1>2 DEF GamesAwaited
<1>5. ASSUME NEW k \in Lanes PROVE LaneAccounted(k)' /\ LaneExact(k)'
  <2>1. Active(k)' = Active(k) /\ Playing(k)' = Playing(k) /\ Settled(k)' = Settled(k)
    BY <1>1 DEF Playing, Active, Running, Parked, Settled
  <2>2. LaneAccounted(k)'
    BY <1>1, <1>2, <2>1 DEF LaneAccounted
  <2>3. LaneExact(k)'
    BY <1>1, <1>2, <2>1, ExactSame
  <2> QED BY <2>2, <2>3
<1> QED BY <1>3, <1>4, <1>5 DEF RunAccounted

(* The batcher and the gateway store nothing. *)
LEMMA ServersKept ==
  ASSUME RunAccounted, BatcherStep \/ GatewayStep
  PROVE  RunAccounted'
<1>1. CASE BatcherStep
  <2>1. UNCHANGED laneVars /\ games' = games /\ ack' = ack /\ appended' = appended /\ dropped' = dropped /\ sink' = sink
    BY <1>1 DEF BatcherStep, Submit, Drain, Route, Account, BatcherFails, BatcherEnds, sinkVars,
                channels
  <2> QED BY <2>1, FrameKept
<1>2. CASE GatewayStep
  <2>1. UNCHANGED laneVars /\ games' = games /\ ack' = ack /\ appended' = appended /\ dropped' = dropped /\ sink' = sink
    BY <1>2 DEF GatewayStep, GatewayTakes, GatewayFails, GatewayAnswers, GatewayEnds, sinkVars,
                channels
  <2> QED BY <2>1, FrameKept
<1> QED BY <1>1, <1>2

(* The lane of the first game in the channel waits for it. *)
LEMMA FirstGame ==
  ASSUME RunAccounted, games # <<>>
  PROVE  /\ Head(games).lane \in Lanes /\ Head(games).episode \in Nat
         /\ phase[Head(games).lane] = "ack" /\ ack[Head(games).lane] = "none"
         /\ Head(games).episode = Head(completed[Head(games).lane])
<1>1. PICK G : G = [lane : Lanes, episode : Nat]
  OBVIOUS
<1>2. games \in Seq(G)
  BY <1>1 DEF RunAccounted, LanesTypeOK
<1>3. 1 \in 1..Len(games) /\ Head(games) = games[1] /\ games[1] \in G
  BY <1>2
<1> QED BY <1>1, <1>3 DEF RunAccounted, GamesAwaited

(* The sink stores the game that the lane waits for or drops it, and       *)
(* answers Ok in both cases.                                               *)
LEMMA SinkSettlesKept ==
  ASSUME RunAccounted, SinkAppends \/ SinkDrops
  PROVE  RunAccounted'
<1>1. /\ LanesTypeOK /\ GamesAwaited /\ (\A k \in Lanes : LaneAccounted(k) /\ LaneExact(k))
      /\ games # <<>> /\ sink = "running"
  BY DEF RunAccounted, SinkAppends, SinkDrops
<1>2. PICK l \in Lanes : l = Head(games).lane
  BY <1>1, FirstGame
<1>3. PICK e \in Nat : e = Head(games).episode
  BY <1>1, FirstGame
<1>4. phase[l] = "ack" /\ ack[l] = "none" /\ e = Head(completed[l])
  BY <1>1, <1>2, <1>3, FirstGame
<1>5. /\ \/ /\ appended' = [appended EXCEPT ![l] = appended[l] \cup {e}]
            /\ dropped' = dropped
         \/ /\ dropped' = [dropped EXCEPT ![l] = dropped[l] \cup {e}]
            /\ appended' = appended
      /\ ack' = [ack EXCEPT ![l] = "ok"] /\ games' = Tail(games) /\ sink' = sink
      /\ phase' = phase /\ slots' = slots /\ completed' = completed /\ admitted' = admitted
      /\ exhausted' = exhausted
  BY <1>2, <1>3 DEF SinkAppends, SinkDrops, laneVars
<1>6. PICK G : G = [lane : Lanes, episode : Nat]
  OBVIOUS
<1>7. /\ games \in Seq(G) /\ appended \in [Lanes -> SUBSET Nat] /\ dropped \in [Lanes -> SUBSET Nat]
      /\ ack \in [Lanes -> {"none", "ok", "error"}] /\ completed[l] \in Seq(Nat)
  BY <1>1, <1>6 DEF LanesTypeOK
<1>8. /\ Settled(l)' = Settled(l) \cup {e} /\ ack'[l] = "ok"
      /\ \/ appended'[l] = appended[l] \cup {e} /\ dropped'[l] = dropped[l]
         \/ appended'[l] = appended[l] /\ dropped'[l] = dropped[l] \cup {e}
      /\ \A k \in Lanes \ {l} : appended'[k] = appended[k] /\ dropped'[k] = dropped[k] /\ ack'[k] = ack[k]
  BY <1>5, <1>7 DEF Settled
<1>9. LanesTypeOK'
  <2>1. games' \in Seq(G)
    BY <1>1, <1>5, <1>7
  <2>2. /\ appended' \in [Lanes -> SUBSET Nat] /\ dropped' \in [Lanes -> SUBSET Nat]
        /\ ack' \in [Lanes -> {"none", "ok", "error"}]
    BY <1>5, <1>7
  <2> QED BY <1>1, <1>5, <1>6, <2>1, <2>2 DEF LanesTypeOK
<1>10. OthersSame(l)
  BY <1>5, <1>8 DEF OthersSame
<1>11. \A k \in Lanes \ {l} : LaneAccounted(k)' /\ LaneExact(k)'
  BY <1>1, <1>10, OthersAccounted
<1>12. LaneAccounted(l)'
  <2>1. Active(l)' = Active(l) /\ Playing(l)' = Playing(l)
    BY <1>5 DEF Playing, Active, Running, Parked
  <2>2. /\ 1..admitted[l] = Settled(l) \cup Range(completed[l]) \cup Playing(l)
        /\ exhausted[l] => admitted[l] = Roots[l]
        /\ completed[l] # <<>>
    BY <1>1, <1>4 DEF LaneAccounted
  <2>3. e \in Range(completed[l])
    BY <1>4, <1>7, <2>2, RangeOfTail
  <2>4. 1..admitted[l] = Settled(l)' \cup Range(completed[l]) \cup Playing(l)
    BY <1>8, <2>2, <2>3
  <2>5. Head(completed[l]) \in Settled(l)'
    BY <1>4, <1>8
  <2> QED BY <1>4, <1>5, <1>8, <2>1, <2>2, <2>4, <2>5 DEF LaneAccounted
<1>13. LaneExact(l)'
  <2>1. /\ LaneExact(l) /\ phase[l] # "failed" /\ completed[l] # <<>>
        /\ Active(l)' = Active(l) /\ Playing(l)' = Playing(l) /\ slots'[l] = slots[l]
    BY <1>1, <1>4, <1>5 DEF LaneAccounted, Playing, Active, Running, Parked
  <2>2. 1 \in DOMAIN completed[l] /\ completed[l][1] = e /\ e \in Range(completed[l])
    BY <1>4, <1>7, <2>1, RangeOfTail
  <2>3. e \notin Settled(l) /\ \A i \in DOMAIN completed[l] : completed[l][i] \notin Settled(l)
    BY <1>4, <2>1, <2>2 DEF LaneExact
  <2>4. appended'[l] \cap dropped'[l] = {}
    <3>1. appended[l] \cap dropped[l] = {} /\ e \notin appended[l] /\ e \notin dropped[l]
      BY <2>1, <2>3 DEF LaneExact, Settled
    <3> QED BY <1>8, <3>1
  <2>5. Playing(l) \cap (Settled(l)' \cup Range(completed[l])) = {}
    BY <1>8, <2>1, <2>2 DEF LaneExact
  <2>6. \A i \in DOMAIN completed[l] : completed[l][i] \in Settled(l)' => i = 1
    <3>1. \A i \in DOMAIN completed[l] : completed[l][i] = e => i = 1
      BY <2>1, <2>2 DEF LaneExact, IsInjective
    <3> QED BY <1>8, <2>3, <3>1
  <2> QED BY <1>5, <1>8, <2>1, <2>4, <2>5, <2>6 DEF LaneExact
<1>14. GamesAwaited'
  <2>1. PICK n \in Nat : n = Len(games) - 1 /\ n + 1 = Len(games)
    <3>1. Len(games) \in Nat /\ Len(games) # 0
      BY <1>1, <1>7
    <3>2. Len(games) - 1 \in Nat /\ (Len(games) - 1) + 1 = Len(games)
      BY <3>1
    <3> QED BY ONLY <3>2, Zenon
  <2>2. Len(games') = n /\ Head(games) = games[1] /\ \A i \in 1..n : games'[i] = games[i + 1]
    BY <1>1, <1>5, <1>7, <2>1
  <2>3. \A i \in 1..n : i + 1 \in 1..Len(games) /\ i + 1 # 1
    BY <2>1
  <2>4. 1 \in 1..Len(games)
    BY <2>1
  <2>5. \A i \in 1..n : games[i + 1] \in G /\ games[i + 1].lane # l
    <3>1. \A i \in 1..Len(games) : games[i] \in G
      BY <1>7
    <3>2. \A i \in 1..n : games[i + 1].lane # games[1].lane
      BY <1>1, <2>3, <2>4 DEF GamesAwaited
    <3> QED BY <1>2, <2>2, <2>3, <3>1, <3>2
  <2>6. \A i \in 1..n : games'[i].lane \in Lanes \ {l}
    BY <1>6, <2>2, <2>5
  <2>7. ASSUME NEW i \in 1..n
        PROVE  /\ phase'[games'[i].lane] = "ack" /\ ack'[games'[i].lane] = "none"
               /\ games'[i].episode = Head(completed'[games'[i].lane])
    BY <1>1, <1>5, <1>8, <2>2, <2>3, <2>6 DEF GamesAwaited
  <2>8. ASSUME NEW i \in 1..n, NEW j \in 1..n, games'[i].lane = games'[j].lane PROVE i = j
    <3>1. i + 1 = j + 1
      BY <1>1, <2>2, <2>3, <2>8 DEF GamesAwaited
    <3> QED BY <3>1
  <2>9. sink \notin Ended
    BY <1>1 DEF Ended
  <2>10. \A i \in 1..Len(games') :
           /\ phase'[games'[i].lane] = "ack" /\ ack'[games'[i].lane] = "none"
           /\ games'[i].episode = Head(completed'[games'[i].lane])
    BY ONLY <2>2, <2>7
  <2>11. \A i, j \in 1..Len(games') : games'[i].lane = games'[j].lane => i = j
    BY ONLY <2>2, <2>8
  <2>12. sink' \notin Ended
    BY ONLY <1>5, <2>9
  <2> QED BY ONLY <2>10, <2>11, <2>12, Zenon DEF GamesAwaited
<1> QED BY <1>9, <1>11, <1>12, <1>13, <1>14 DEF RunAccounted

(* The store refuses the game: the lane that waits for it is told, and     *)
(* whatever else was in the channel is gone with the sink.                 *)
LEMMA SinkFailsKept ==
  ASSUME RunAccounted, SinkFails
  PROVE  RunAccounted'
<1>1. /\ LanesTypeOK /\ (\A k \in Lanes : LaneAccounted(k) /\ LaneExact(k)) /\ games # <<>>
  BY DEF RunAccounted, SinkFails
<1>2. PICK l \in Lanes : l = Head(games).lane /\ phase[l] = "ack" /\ ack[l] = "none"
  BY <1>1, FirstGame
<1>3. /\ ack' = [ack EXCEPT ![l] = "error"] /\ games' = <<>> /\ appended' = appended /\ dropped' = dropped
      /\ phase' = phase /\ slots' = slots /\ completed' = completed /\ admitted' = admitted
      /\ exhausted' = exhausted
  BY <1>2 DEF SinkFails, laneVars
<1>4. ack \in [Lanes -> {"none", "ok", "error"}]
  BY <1>1 DEF LanesTypeOK
<1>5. ack'[l] = "error" /\ ack' \in [Lanes -> {"none", "ok", "error"}]
      /\ \A k \in Lanes \ {l} : ack'[k] = ack[k]
  BY <1>3, <1>4
<1>6. LanesTypeOK'
  BY <1>1, <1>3, <1>5 DEF LanesTypeOK
<1>7. OthersSame(l)
  BY <1>3, <1>5 DEF OthersSame
<1>8. \A k \in Lanes \ {l} : LaneAccounted(k)' /\ LaneExact(k)'
  BY <1>1, <1>7, OthersAccounted
<1>9. LaneAccounted(l)' /\ LaneExact(l)'
  <2>1. /\ Active(l)' = Active(l) /\ Playing(l)' = Playing(l) /\ Settled(l)' = Settled(l)
        /\ appended'[l] = appended[l] /\ dropped'[l] = dropped[l] /\ slots'[l] = slots[l]
    BY <1>3 DEF Playing, Active, Running, Parked, Settled
  <2>2. LaneAccounted(l)'
    BY <1>1, <1>2, <1>3, <1>5, <2>1 DEF LaneAccounted
  <2>3. \A i \in DOMAIN completed[l] : completed[l][i] \notin Settled(l)
    BY <1>1, <1>2 DEF LaneExact
  <2>4. LaneExact(l)'
    BY <1>1, <1>2, <1>3, <2>1, <2>3 DEF LaneExact
  <2> QED BY <2>2, <2>4
<1>10. GamesAwaited'
  BY <1>3 DEF GamesAwaited
<1> QED BY <1>6, <1>8, <1>9, <1>10 DEF RunAccounted

(* The sink returns when it has stored everything. *)
LEMMA SinkEndsKept ==
  ASSUME RunAccounted, SinkEnds
  PROVE  RunAccounted'
<1>1. LanesTypeOK /\ GamesAwaited /\ (\A k \in Lanes : LaneAccounted(k) /\ LaneExact(k)) /\ games = <<>>
  BY DEF RunAccounted, SinkEnds
<1>2. /\ phase' = phase /\ slots' = slots /\ completed' = completed /\ admitted' = admitted
      /\ exhausted' = exhausted /\ games' = games /\ ack' = ack /\ appended' = appended /\ dropped' = dropped
  BY DEF SinkEnds, laneVars, channels
<1>3. LanesTypeOK'
  BY <1>1, <1>2 DEF LanesTypeOK
<1>4. GamesAwaited'
  BY <1>1, <1>2 DEF GamesAwaited
<1>5. ASSUME NEW k \in Lanes PROVE LaneAccounted(k)' /\ LaneExact(k)'
  <2>1. Active(k)' = Active(k) /\ Playing(k)' = Playing(k) /\ Settled(k)' = Settled(k)
    BY <1>2 DEF Playing, Active, Running, Parked, Settled
  <2>2. LaneAccounted(k)'
    BY <1>1, <1>2, <2>1 DEF LaneAccounted
  <2>3. LaneExact(k)'
    BY <1>1, <1>2, <2>1, ExactSame
  <2> QED BY <2>2, <2>3
<1> QED BY <1>3, <1>4, <1>5 DEF RunAccounted

-----------------------------------------------------------------------------
(* At the start nothing has begun. *)
LEMMA NothingBegun ==
  ASSUME Init
  PROVE  RunAccounted
<1>1. LanesTypeOK
  <2>1. Idle \in SlotState
    BY DEF SlotState
  <2>2. Roots \in [Lanes -> Nat]
    BY SizesAssumption
  <2> QED BY <2>1, <2>2 DEF Init, LanesTypeOK, Ended
<1>2. ASSUME NEW l \in Lanes PROVE LaneAccounted(l) /\ LaneExact(l)
  <2>1. Active(l) = {} /\ Playing(l) = {}
    <3>1. \A w \in Slot : slots[l][w].state = "idle"
      BY DEF Init, Idle
    <3> QED BY <3>1 DEF Playing, Active, Running, Parked
  <2>2. Range(completed[l]) = {} /\ 1..admitted[l] = {} /\ Settled(l) = {}
    BY DEF Init, Range, Settled
  <2>3. LaneAccounted(l)
    BY <2>1, <2>2 DEF Init, LaneAccounted
  <2>4. LaneExact(l)
    BY <2>1 DEF Init, LaneExact, IsInjective
  <2> QED BY <2>3, <2>4
<1>3. GamesAwaited
  BY DEF Init, GamesAwaited, Ended
<1> QED BY <1>1, <1>2, <1>3 DEF RunAccounted

(* Every step of every thread keeps every episode accounted for. *)
LEMMA AccountedKept ==
  ASSUME RunAccounted, [Next]_vars
  PROVE  RunAccounted'
<1>1. ASSUME NEW l \in Lanes, LaneStep(l) PROVE RunAccounted'
  BY <1>1, AdmitKept, DriveKept, DriveDoneKept, SendGameKept, ReceiveAckKept, TakeKept,
     StepKept, ResumeKept, FailureKept DEF LaneStep
<1>2. CASE BatcherStep \/ GatewayStep
  BY <1>2, ServersKept
<1>3. CASE SinkStep
  BY <1>3, SinkSettlesKept, SinkFailsKept, SinkEndsKept DEF SinkStep
<1>4. CASE UNCHANGED vars
  BY <1>4, FrameKept DEF vars, sinkVars, channels
<1> QED BY <1>1, <1>2, <1>3, <1>4 DEF Next, Joined

(* Every episode that a lane has begun is played, waits to be settled or   *)
(* has been appended or dropped by the sink, one of these and only once,   *)
(* in every state of every run, for all numbers of lanes, workers, roots,  *)
(* evaluations and faults.                                                 *)
THEOREM RunInvariant == Spec => []RunAccounted
<1>1. Init => RunAccounted
  BY NothingBegun
<1>2. RunAccounted /\ [Next]_vars => RunAccounted'
  BY AccountedKept
<1> QED BY <1>1, <1>2, PTL DEF Spec

(* A run that returns without an error has appended or dropped the game of *)
(* every root of every lane: none was lost between the pool, the channel   *)
(* and the sink, and none was settled that no root asked for.  Games that  *)
(* were appended and games that were dropped are different ones, and no    *)
(* game is handed to the sink again.                                       *)
THEOREM SuccessSettlesAll == Spec => []SuccessIsComplete
<1>1. ASSUME RunAccounted, AllEnded, NoFailure, NEW l \in Lanes
      PROVE  Settled(l) = 1..Roots[l]
  <2>1. phase[l] = "done"
    BY <1>1 DEF AllEnded, LanesEnded, LaneEnded, Ended, NoFailure
  <2>2. LaneAccounted(l)
    BY <1>1 DEF RunAccounted
  <2>3. /\ 1..admitted[l] = Settled(l) \cup Range(completed[l]) \cup Playing(l)
        /\ admitted[l] = Roots[l] /\ completed[l] = <<>> /\ Active(l) = {}
    BY <2>1, <2>2 DEF LaneAccounted
  <2>4. Range(completed[l]) = {} /\ Playing(l) = {}
    BY <2>3 DEF Range, Playing
  <2> QED BY <2>3, <2>4
<1>2. ASSUME RunAccounted, NEW i \in DOMAIN games
      PROVE  games[i].episode \notin Settled(games[i].lane)
  <2>1. PICK G : G = [lane : Lanes, episode : Nat]
    OBVIOUS
  <2>2. games \in Seq(G)
    BY <1>2, <2>1 DEF RunAccounted, LanesTypeOK
  <2>3. i \in 1..Len(games) /\ games[i] \in G
    BY <1>2, <2>2
  <2>4. PICK l \in Lanes : l = games[i].lane
    BY <2>1, <2>3
  <2>5. /\ phase[l] = "ack" /\ ack[l] = "none" /\ games[i].episode = Head(completed[l])
        /\ completed[l] \in Seq(Nat) /\ completed[l] # <<>> /\ LaneExact(l)
    BY <1>2, <2>3, <2>4 DEF RunAccounted, GamesAwaited, LanesTypeOK, LaneAccounted
  <2>6. 1 \in DOMAIN completed[l] /\ completed[l][1] = Head(completed[l])
    BY <2>5, RangeOfTail
  <2> QED BY <2>4, <2>5, <2>6 DEF LaneExact
<1>3. RunAccounted => SuccessIsComplete
  BY <1>1, <1>2 DEF SuccessIsComplete, RunAccounted, LaneExact
<1> QED BY <1>3, RunInvariant, PTL

-----------------------------------------------------------------------------
(* Sequences, and the order in which jobs are taken from a pool.           *)

(* The elements of a sequence are those at its places. *)
LEMMA SeqHolds ==
  ASSUME NEW S, NEW s \in Seq(S)
  PROVE  /\ Len(s) \in Nat /\ DOMAIN s = 1..Len(s)
         /\ \A i \in 1..Len(s) : s[i] \in S /\ s[i] \in Range(s)
         /\ \A x \in Range(s) : x \in S /\ \E i \in 1..Len(s) : x = s[i]
BY DEF Range

(* Appending puts one element behind the others. *)
LEMMA AppendedView ==
  ASSUME NEW S, NEW s \in Seq(S), NEW x \in S, NEW t, t = Append(s, x)
  PROVE  /\ t \in Seq(S) /\ Len(t) = Len(s) + 1 /\ t[Len(s) + 1] = x
         /\ \A i \in 1..Len(s) : t[i] = s[i]
OBVIOUS

(* It adds one element, and keeps a sequence without repetition one. *)
LEMMA AppendedHolds ==
  ASSUME NEW S, NEW s \in Seq(S), NEW x \in S, NEW t \in Seq(S), Len(t) = Len(s) + 1,
         t[Len(s) + 1] = x, \A i \in 1..Len(s) : t[i] = s[i]
  PROVE  /\ \A y : y \in Range(t) <=> y \in Range(s) \/ y = x
         /\ IsInjective(s) /\ x \notin Range(s) => IsInjective(t)
<1>1. PICK n \in Nat : n = Len(s) /\ DOMAIN s = 1..n
  BY SeqHolds
<1>2. Len(t) = n + 1
  BY <1>1
<1>3. t[n + 1] = x /\ \A i \in 1..n : t[i] = s[i]
  BY <1>1
<1>4. DOMAIN t = 1..(n + 1)
  BY <1>2
<1>5. 1..(n + 1) = 1..n \cup {n + 1}
  OBVIOUS
<1>6. ASSUME NEW y PROVE y \in Range(t) <=> y \in Range(s) \/ y = x
  <2>1. ASSUME y \in Range(t) PROVE y \in Range(s) \/ y = x
    <3>1. PICK i \in 1..(n + 1) : y = t[i]
      BY <1>4, <2>1 DEF Range
    <3> QED BY <1>1, <1>3, <1>5, <3>1 DEF Range
  <2>2. ASSUME y \in Range(s) PROVE y \in Range(t)
    <3>1. PICK i \in 1..n : y = s[i]
      BY <1>1, <2>2 DEF Range
    <3> QED BY <1>3, <1>4, <1>5, <3>1 DEF Range
  <2>3. x \in Range(t)
    BY <1>3, <1>4, <1>5 DEF Range
  <2> QED BY <2>1, <2>2, <2>3
<1>7. ASSUME IsInjective(s), x \notin Range(s) PROVE IsInjective(t)
  <2>1. \A i \in 1..n : t[i] # x
    BY <1>1, <1>3, <1>7 DEF Range
  <2>2. \A i, k \in 1..n : t[i] = t[k] => i = k
    BY <1>1, <1>3, <1>7 DEF IsInjective
  <2>3. \A i, k \in 1..(n + 1) : t[i] = t[k] => i = k
    BY ONLY <1>3, <1>5, <2>1, <2>2
  <2> QED BY <1>4, <2>3 DEF IsInjective
<1> QED BY <1>6, <1>7

(* Taking the head removes one element, once if there is no repetition. *)
LEMMA ShiftedHolds ==
  ASSUME NEW S, NEW s \in Seq(S), s # <<>>, NEW t, t = Tail(s), NEW x, x = Head(s)
  PROVE  /\ t \in Seq(S) /\ Len(s) = Len(t) + 1 /\ x \in S
         /\ \A y : y \in Range(s) <=> y \in Range(t) \/ y = x
         /\ IsInjective(s) => IsInjective(t) /\ x \notin Range(t)
<1>1. t \in Seq(S) /\ Len(s) = Len(t) + 1 /\ x \in S
  OBVIOUS
<1>2. PICK n \in Nat : n = Len(t) /\ DOMAIN t = 1..n
  BY ONLY <1>1, SeqHolds
<1>3. DOMAIN s = 1..(n + 1)
  BY <1>1, <1>2, SeqHolds
<1>4. x = s[1] /\ \A i \in 1..n : t[i] = s[i + 1]
  BY <1>1, <1>2
<1>5. \A i \in 1..n : i + 1 \in 1..(n + 1) /\ i + 1 # 1
  OBVIOUS
<1>6. \A i \in 1..(n + 1) : i = 1 \/ (i - 1 \in 1..n /\ i = (i - 1) + 1)
  OBVIOUS
<1>7. 1 \in 1..(n + 1)
  OBVIOUS
<1>8. ASSUME NEW y PROVE y \in Range(s) <=> y \in Range(t) \/ y = x
  <2>1. ASSUME y \in Range(s) PROVE y \in Range(t) \/ y = x
    <3>1. PICK i \in 1..(n + 1) : y = s[i]
      BY <1>3, <2>1 DEF Range
    <3>2. CASE i = 1
      BY <1>4, <3>1, <3>2
    <3>3. CASE i # 1
      <4>1. PICK k \in 1..n : i = k + 1
        BY <1>6, <3>3
      <4> QED BY <1>2, <1>4, <3>1, <4>1 DEF Range
    <3> QED BY <3>2, <3>3
  <2>2. ASSUME y \in Range(t) PROVE y \in Range(s)
    <3>1. PICK i \in 1..n : y = t[i]
      BY <1>2, <2>2 DEF Range
    <3>2. PICK k \in 1..(n + 1) : k = i + 1
      BY <1>5
    <3> QED BY <1>3, <1>4, <3>1, <3>2 DEF Range
  <2>3. x \in Range(s)
    BY <1>3, <1>4, <1>7 DEF Range
  <2> QED BY <2>1, <2>2, <2>3
<1>9. ASSUME IsInjective(s) PROVE IsInjective(t) /\ x \notin Range(t)
  <2>0. \A i, k \in 1..(n + 1) : s[i] = s[k] => i = k
    BY <1>3, <1>9 DEF IsInjective
  <2>1. \A i, k \in 1..n : t[i] = t[k] => i = k
    <3> SUFFICES ASSUME NEW i \in 1..n, NEW k \in 1..n, t[i] = t[k] PROVE i = k
      OBVIOUS
    <3>1. s[i + 1] = s[k + 1]
      BY <1>4
    <3>2. i + 1 = k + 1
      BY ONLY <1>5, <2>0, <3>1, i \in 1..n, k \in 1..n
    <3>3. i \in Int /\ k \in Int
      OBVIOUS
    <3> QED BY ONLY <3>2, <3>3
  <2>2. ASSUME NEW i \in 1..n PROVE t[i] # x
    <3>1. t[i] = s[i + 1] /\ i + 1 \in 1..(n + 1) /\ i + 1 # 1
      BY <1>4, <1>5
    <3>2. s[i + 1] # s[1]
      BY <1>7, <2>0, <3>1
    <3> QED BY <1>4, <3>1, <3>2
  <2> QED BY <1>2, <2>1, <2>2 DEF IsInjective, Range
<1> QED BY <1>1, <1>8, <1>9

(* A sequence without repetition has as many elements as places. *)
LEMMA InjectiveCount ==
  ASSUME NEW S, NEW s \in Seq(S), IsInjective(s)
  PROVE  IsFiniteSet(Range(s)) /\ Cardinality(Range(s)) = Len(s)
<1>1. PICK n \in Nat : n = Len(s) /\ DOMAIN s = 1..n
  BY SeqHolds
<1>2. PICK R : R = Range(s)
  OBVIOUS
<1>3. s \in [1..n -> R]
  BY <1>1, <1>2, SeqHolds
<1>4. s \in Bijection(1..n, R)
  <2>1. \A i, k \in 1..n : s[i] = s[k] => i = k
    BY <1>1 DEF IsInjective
  <2>2. \A y \in R : \E i \in 1..n : s[i] = y
    BY <1>1, <1>2 DEF Range
  <2> QED BY <1>3, <2>1, <2>2 DEF Bijection, Injection, Surjection, IsInjective
<1>5. IsFiniteSet(1..n) /\ Cardinality(1..n) = n
  BY FS_Interval
<1>6. ExistsBijection(1..n, R)
  BY <1>4 DEF ExistsBijection
<1>7. IsFiniteSet(R) /\ Cardinality(R) = Cardinality(1..n)
  BY <1>5, <1>6, FS_Bijection
<1> QED BY <1>1, <1>2, <1>5, <1>7

(* The first n places of a sequence, and the others.  *)
LEMMA SplitPlaces ==
  ASSUME NEW S, NEW s \in Seq(S), NEW n \in 1..Len(s), NEW a, a = SubSeq(s, 1, n),
         NEW b, b = SubSeq(s, n + 1, Len(s))
  PROVE  /\ a \in Seq(S) /\ Len(a) = n /\ b \in Seq(S) /\ Len(b) = Len(s) - n
         /\ \A i \in 1..n : a[i] = s[i]
         /\ \A i \in 1..(Len(s) - n) : b[i] = s[i + n]
<1>1. n \in Nat /\ Len(s) \in Nat /\ n <= Len(s) /\ n >= 1
  BY SeqHolds
<1>2. a \in Seq(S) /\ Len(a) = n
  BY <1>1
<1>3. \A i \in 1..n : a[i] = s[i]
  BY <1>1
<1>4. b \in Seq(S) /\ Len(b) = Len(s) - n
  BY <1>1
<1>5. \A i \in 1..(Len(s) - n) : b[i] = s[i + n]
  BY <1>1
<1> QED BY <1>2, <1>3, <1>4, <1>5

(* The sequence s of elements of S is a, followed by b. *)
Splits(S, s, a, b) ==
  /\ s \in Seq(S) /\ a \in Seq(S) /\ b \in Seq(S) /\ Len(s) = Len(a) + Len(b)
  /\ \A i \in 1..Len(a) : a[i] = s[i]
  /\ \A i \in 1..Len(b) : b[i] = s[i + Len(a)]

(* They share the elements of a sequence without repetition. *)
LEMMA SplitHolds ==
  ASSUME NEW S, NEW s, NEW a, NEW b, Splits(S, s, a, b)
  PROVE  /\ \A y : y \in Range(s) <=> y \in Range(a) \/ y \in Range(b)
         /\ IsInjective(s) => IsInjective(a) /\ IsInjective(b) /\ Range(a) \cap Range(b) = {}
<1>10. s \in Seq(S) /\ a \in Seq(S) /\ b \in Seq(S)
  BY DEF Splits
<1>7. PICK n \in Nat : n = Len(a)
  BY <1>10, SeqHolds
<1>8. PICK m \in Nat : m = Len(b)
  BY <1>10, SeqHolds
<1>1. DOMAIN a = 1..n /\ DOMAIN b = 1..m /\ DOMAIN s = 1..(n + m)
  BY <1>7, <1>8, <1>10, SeqHolds DEF Splits
<1>9. (\A i \in 1..n : a[i] = s[i]) /\ \A i \in 1..m : b[i] = s[i + n]
  BY <1>7, <1>8 DEF Splits
<1>2. \A i \in 1..n : i \in 1..(n + m)
  OBVIOUS
<1>3. \A i \in 1..m : i + n \in 1..(n + m) /\ i + n \notin 1..n
  OBVIOUS
<1>4. \A i \in 1..(n + m) : i \in 1..n \/ (i - n \in 1..m /\ i = (i - n) + n)
  OBVIOUS
<1>5. ASSUME NEW y PROVE y \in Range(s) <=> y \in Range(a) \/ y \in Range(b)
  <2>1. ASSUME y \in Range(s) PROVE y \in Range(a) \/ y \in Range(b)
    <3>1. PICK i \in 1..(n + m) : y = s[i]
      BY <1>1, <2>1 DEF Range
    <3>2. CASE i \in 1..n
      BY <1>1, <1>9, <3>1, <3>2 DEF Range
    <3>3. CASE i \notin 1..n
      <4>1. PICK k \in 1..m : i = k + n
        BY <1>4, <3>3
      <4> QED BY <1>9, <1>1, <3>1, <4>1 DEF Range
    <3> QED BY <3>2, <3>3
  <2>2. ASSUME y \in Range(a) PROVE y \in Range(s)
    <3>1. PICK i \in 1..n : y = a[i]
      BY <1>1, <2>2 DEF Range
    <3> QED BY <1>9, <1>1, <1>2, <3>1 DEF Range
  <2>3. ASSUME y \in Range(b) PROVE y \in Range(s)
    <3>1. PICK i \in 1..m : y = b[i]
      BY <1>1, <2>3 DEF Range
    <3>2. PICK k \in 1..(n + m) : k = i + n
      BY <1>3
    <3> QED BY <1>9, <1>1, <3>1, <3>2 DEF Range
  <2> QED BY <2>1, <2>2, <2>3
<1>6. ASSUME IsInjective(s)
      PROVE  IsInjective(a) /\ IsInjective(b) /\ Range(a) \cap Range(b) = {}
  <2>0. \A i, k \in 1..(n + m) : s[i] = s[k] => i = k
    BY <1>1, <1>6 DEF IsInjective
  <2>1. \A i, k \in 1..n : a[i] = a[k] => i = k
    BY <1>9, <1>2, <2>0
  <2>2. ASSUME NEW i \in 1..m, NEW k \in 1..m, b[i] = b[k] PROVE i = k
    <3>1. i + n = k + n
      BY <1>9, <1>3, <2>0, <2>2
    <3> QED BY <3>1
  <2>3. ASSUME NEW i \in 1..n, NEW k \in 1..m PROVE a[i] # b[k]
    <3>1. i # k + n /\ k + n \in 1..(n + m) /\ i \in 1..(n + m)
      BY <1>2, <1>3
    <3> QED BY <1>9, <2>0, <3>1
  <2>4. Range(a) \cap Range(b) = {}
    BY <1>1, <2>3 DEF Range
  <2> QED BY <1>1, <2>1, <2>2, <2>4 DEF IsInjective
<1> QED BY <1>5, <1>6

(* Jobs that are told apart by their slots and tokens have different ranks. *)
LEMMA RankGrows ==
  ASSUME NEW J, IsFiniteSet(J), \A j \in J : j.slot \in Nat /\ j.token \in Nat, NEW j \in J
  PROVE  LET rank(x) == Cardinality({i \in J : Precedes(i, x)})
         IN  /\ rank(j) \in Nat /\ rank(j) < Cardinality(J)
             /\ \A k \in J : Precedes(j, k) => rank(j) < rank(k)
<1> DEFINE B(x) == {i \in J : Precedes(i, x)}
<1>1. Cardinality(J) \in Nat
  BY FS_CardinalityType
<1>2. \A x : B(x) \in SUBSET J
  OBVIOUS
<1>3. ~Precedes(j, j)
  BY DEF Precedes
<1>4. \A i, k \in J : Precedes(i, j) /\ Precedes(j, k) => Precedes(i, k)
  BY DEF Precedes
<1>5. j \notin B(j)
  BY <1>3
<1>6. \A k \in J : Precedes(j, k) => B(j) \cup {j} \in SUBSET B(k)
  BY <1>4
<1> HIDE DEF B
<1>7. \A x : IsFiniteSet(B(x)) /\ Cardinality(B(x)) \in Nat
  BY <1>2, FS_Subset, FS_CardinalityType
<1>8. PICK A : A = B(j) \cup {j}
  OBVIOUS
<1>9. IsFiniteSet(A) /\ Cardinality(A) = Cardinality(B(j)) + 1
  BY <1>5, <1>7, <1>8, FS_AddElement
<1>10. A \in SUBSET J
  BY <1>2, <1>8
<1>11. Cardinality(A) <= Cardinality(J)
  BY <1>10, FS_Subset
<1>12. ASSUME NEW k \in J, Precedes(j, k) PROVE Cardinality(B(j)) < Cardinality(B(k))
  <2>1. A \in SUBSET B(k)
    BY <1>6, <1>8, <1>12
  <2>2. Cardinality(A) <= Cardinality(B(k))
    BY <1>7, <2>1, FS_Subset
  <2> QED BY <1>7, <1>9, <2>2
<1>13. Cardinality(B(j)) \in Nat /\ Cardinality(B(j)) < Cardinality(J)
  BY <1>1, <1>7, <1>9, <1>11
<1>14. \A x : B(x) = {i \in J : Precedes(i, x)}
  BY DEF B
<1> QED BY <1>12, <1>13, <1>14

(* Jobs in order are these jobs, each once. *)
LEMMA InOrderHolds ==
  ASSUME NEW J, IsFiniteSet(J), \A j \in J : j.slot \in Nat /\ j.token \in Nat,
         \A i, j \in J : i.slot = j.slot /\ i.token = j.token => i = j, NEW s, s = InOrder(J)
  PROVE  s \in Seq(J) /\ IsInjective(s) /\ Range(s) = J
<1> DEFINE rank(x) == Cardinality({i \in J : Precedes(i, x)})
<1>1. PICK N \in Nat : N = Cardinality(J)
  BY FS_CardinalityType
<1>2. \A j \in J : rank(j) \in Nat /\ rank(j) < N
  BY <1>1, RankGrows
<1>3. \A i, j \in J : rank(i) = rank(j) => i = j
  <2> SUFFICES ASSUME NEW i \in J, NEW j \in J, rank(i) = rank(j), i # j PROVE FALSE
    OBVIOUS
  <2>1. Precedes(i, j) \/ Precedes(j, i)
    BY DEF Precedes
  <2>2. rank(i) < rank(j) \/ rank(j) < rank(i)
    BY <2>1, RankGrows
  <2>3. rank(i) \in Nat
    BY <1>2
  <2> HIDE DEF rank
  <2> QED BY <2>2, <2>3
<1>4. s = [n \in 1..N |-> CHOOSE j \in J : rank(j) = n - 1]
  BY <1>1 DEF InOrder
<1> HIDE DEF rank
<1>5. PICK f : f = [j \in J |-> rank(j) + 1]
  OBVIOUS
<1>6. f \in Injection(J, 1..N)
  <2>1. \A j \in J : f[j] \in 1..N
    BY <1>2, <1>5
  <2>2. \A i, j \in J : f[i] = f[j] => i = j
    <3> SUFFICES ASSUME NEW i \in J, NEW j \in J, f[i] = f[j] PROVE i = j
      OBVIOUS
    <3>1. rank(i) = rank(j)
      BY <1>2, <1>5
    <3> QED BY <1>3, <3>1
  <2> QED BY <1>5, <2>1, <2>2 DEF Injection, IsInjective
<1>7. IsFiniteSet(1..N) /\ Cardinality(1..N) = N
  BY FS_Interval
<1>8. f \in Surjection(J, 1..N)
  BY <1>1, <1>6, <1>7, FS_Injection
<1>9. ASSUME NEW n \in 1..N PROVE s[n] \in J /\ rank(s[n]) = n - 1
  <2>1. PICK j \in J : f[j] = n
    BY <1>8 DEF Surjection
  <2>2. rank(j) = n - 1
    BY <1>2, <1>5, <2>1
  <2> QED BY <1>4, <2>2
<1>10. s \in Seq(J) /\ DOMAIN s = 1..N
  BY <1>4, <1>9
<1>11. IsInjective(s)
  <2>1. \A n, m \in 1..N : s[n] = s[m] => n = m
    <3> SUFFICES ASSUME NEW n \in 1..N, NEW m \in 1..N, s[n] = s[m] PROVE n = m
      OBVIOUS
    <3>1. n - 1 = m - 1
      BY <1>9
    <3> QED BY <3>1
  <2> QED BY <1>10, <2>1 DEF IsInjective
<1>12. ASSUME NEW j \in J PROVE j \in Range(s)
  <2>1. PICK n \in 1..N : n = rank(j) + 1
    BY <1>2
  <2>2. rank(s[n]) = rank(j) /\ s[n] \in J
    BY <1>2, <1>9, <2>1
  <2>3. s[n] = j
    BY <1>3, <2>2
  <2> QED BY <1>10, <2>3 DEF Range
<1>13. \A j \in Range(s) : j \in J
  BY <1>9, <1>10 DEF Range
<1> QED BY <1>10, <1>11, <1>12, <1>13

-----------------------------------------------------------------------------
(* Where the jobs are.                                                     *)

Disjoint(P) == \A a, b \in 1..7 : a # b => P[a] \cap P[b] = {}
Together7(P) == UNION {P[a] : a \in 1..7}

(* Jobs that go from one stage to another are under way as before. *)
LEMMA MoveStages ==
  ASSUME NEW P, Disjoint(P), NEW Q, NEW f \in 1..7, NEW t \in 1..7, f # t, NEW M \in SUBSET P[f],
         Q[f] = P[f] \ M, Q[t] = P[t] \cup M, \A a \in 1..7 \ {f, t} : Q[a] = P[a]
  PROVE  Disjoint(Q) /\ Together7(Q) = Together7(P)
<1>1. ASSUME NEW a \in 1..7, NEW b \in 1..7, a # b, NEW x \in Q[a] PROVE x \notin Q[b]
  <2>1. \A c \in 1..7 : x \in P[c] => \A d \in 1..7 : d # c => x \notin P[d]
    BY DEF Disjoint
  <2>2. CASE x \in M
    BY <1>1, <2>1, <2>2
  <2>3. CASE x \notin M
    BY <1>1, <2>1, <2>3
  <2> QED BY <2>2, <2>3
<1>2. ASSUME NEW x PROVE x \in Together7(Q) <=> x \in Together7(P)
  <2>1. ASSUME NEW a \in 1..7, x \in Q[a] PROVE \E c \in 1..7 : x \in P[c]
    BY <2>1
  <2>2. ASSUME NEW a \in 1..7, x \in P[a] PROVE \E c \in 1..7 : x \in Q[c]
    BY <2>2
  <2> QED BY <2>1, <2>2 DEF Together7
<1> QED BY <1>1, <1>2 DEF Disjoint

(* New jobs join a stage. *)
LEMMA AddStages ==
  ASSUME NEW P, Disjoint(P), NEW Q, NEW t \in 1..7, NEW M, M \cap Together7(P) = {},
         Q[t] = P[t] \cup M, \A a \in 1..7 \ {t} : Q[a] = P[a]
  PROVE  Disjoint(Q) /\ Together7(Q) = Together7(P) \cup M
<1>1. \A a \in 1..7 : M \cap P[a] = {}
  BY DEF Together7
<1>2. ASSUME NEW a \in 1..7, NEW b \in 1..7, a # b PROVE Q[a] \cap Q[b] = {}
  BY <1>1, <1>2 DEF Disjoint
<1>3. ASSUME NEW x PROVE x \in Together7(Q) <=> x \in Together7(P) \cup M
  <2>1. ASSUME NEW a \in 1..7, x \in Q[a] PROVE x \in M \/ \E c \in 1..7 : x \in P[c]
    BY <2>1
  <2>2. ASSUME NEW a \in 1..7, x \in P[a] PROVE \E c \in 1..7 : x \in Q[c]
    BY <2>2
  <2> QED BY <2>1, <2>2 DEF Together7
<1> QED BY <1>2, <1>3 DEF Disjoint

(* Fewer jobs are under way. *)
LEMMA ShrinkStages ==
  ASSUME NEW P, Disjoint(P), NEW Q, \A a \in 1..7 : Q[a] \in SUBSET P[a]
  PROVE  Disjoint(Q) /\ Together7(Q) \in SUBSET Together7(P)
BY DEF Disjoint, Together7

(* The stages by number. *)
LEMMA StagesView ==
  /\ DOMAIN Stages = 1..7
  /\ Stages[1] = OutboxJobs /\ Stages[2] = Range(intake) /\ Stages[3] = InFlightJobs
  /\ Stages[4] = Range(routing) /\ Stages[5] = Range(measures) /\ Stages[6] = tasks
  /\ Stages[7] = RepliedJobs
BY DEF Stages

(* The numbers. *)
LEMMA Seven == \A a \in 1..7 : a = 1 \/ a = 2 \/ a = 3 \/ a = 4 \/ a = 5 \/ a = 6 \/ a = 7
OBVIOUS

(* The stages after a step, by number. *)
LEMMA StagesViewNext ==
  /\ (DOMAIN Stages)' = 1..7
  /\ Stages'[1] = OutboxJobs' /\ Stages'[2] = Range(intake)' /\ Stages'[3] = InFlightJobs'
  /\ Stages'[4] = Range(routing)' /\ Stages'[5] = Range(measures)' /\ Stages'[6] = tasks'
  /\ Stages'[7] = RepliedJobs'
BY DEF Stages

(* The parts of UnderWayOnce that are about single stages. *)
FlightOnce ==
  \A i \in DOMAIN inFlight :
    /\ IsInjective(inFlight[i])
    /\ \A k \in DOMAIN inFlight \ {i} : Range(inFlight[i]) \cap Range(inFlight[k]) = {}
RepliesOnce(l) ==
  \A i, k \in DOMAIN replies[l] : Asked(l, replies[l][i]) = Asked(l, replies[l][k]) => i = k
StagesOnce ==
  /\ IsInjective(intake) /\ IsInjective(routing) /\ IsInjective(measures)
  /\ FlightOnce
  /\ \A l \in Lanes : IsInjective(outbox[l]) /\ RepliesOnce(l)

(* UnderWayOnce in these parts. *)
LEMMA OnceParts == UnderWayOnce <=> Disjoint(Stages) /\ StagesOnce
BY StagesView, Zenon DEF UnderWayOnce, Disjoint, StagesOnce, FlightOnce, RepliesOnce

(* What is under way is what the stages hold together. *)
LEMMA UnderWayParts == UnderWay = Together7(Stages) /\ UnderWay' = Together7(Stages')
<1>1. UnderWay = Together7(Stages)
  BY StagesView DEF UnderWay, Together7
<1>2. UnderWay' = Together7(Stages')
  BY StagesViewNext DEF UnderWay, Together7
<1> QED BY <1>1, <1>2

-----------------------------------------------------------------------------
(* What a change of one channel does to its stage.                         *)

Answers == [slot : Slot, token : Nat, episode : Nat, kind : {"eval", "measure"}, ok : BOOLEAN]

OutboxTyped ==
  /\ outbox \in [Lanes -> Seq(Job)]
  /\ \A l \in Lanes : \A j \in Range(outbox[l]) : j.lane = l

(* The jobs that a lane has in its hands change. *)
LEMMA OutboxChanges ==
  ASSUME OutboxTyped, NEW l \in Lanes, NEW t, outbox' = [outbox EXCEPT ![l] = t],
         \A j \in Range(t) : j.lane = l
  PROVE  /\ outbox'[l] = t /\ \A k \in Lanes \ {l} : outbox'[k] = outbox[k]
         /\ Range(outbox[l]) \in SUBSET OutboxJobs
         /\ OutboxJobs' = (OutboxJobs \ Range(outbox[l])) \cup Range(t)
<1>1. outbox'[l] = t /\ \A k \in Lanes \ {l} : outbox'[k] = outbox[k]
  BY DEF OutboxTyped
<1>2. ASSUME NEW x PROVE x \in OutboxJobs' <=> x \in (OutboxJobs \ Range(outbox[l])) \cup Range(t)
  <2>1. x \in OutboxJobs' <=> \E k \in Lanes : x \in Range(outbox'[k])
    BY DEF OutboxJobs
  <2>2. x \in OutboxJobs <=> \E k \in Lanes : x \in Range(outbox[k])
    BY DEF OutboxJobs
  <2>3. \A k \in Lanes : x \in Range(outbox[k]) => x.lane = k
    BY DEF OutboxTyped
  <2>4. x \in Range(t) => x.lane = l
    OBVIOUS
  <2> QED BY <1>1, <2>1, <2>2, <2>3, <2>4
<1>3. Range(outbox[l]) \in SUBSET OutboxJobs
  BY DEF OutboxJobs
<1> QED BY <1>1, <1>2, <1>3

(* A lane sends the first of its jobs. *)
LEMMA OutboxSends ==
  ASSUME OutboxTyped, NEW l \in Lanes, outbox[l] # <<>>, IsInjective(outbox[l]), NEW h,
         h = Head(outbox[l]), outbox' = [outbox EXCEPT ![l] = Tail(outbox[l])]
  PROVE  /\ h \in Job /\ h.lane = l /\ h \in OutboxJobs /\ OutboxJobs' = OutboxJobs \ {h}
         /\ outbox'[l] \in Seq(Job) /\ IsInjective(outbox'[l])
         /\ Range(outbox[l]) = Range(outbox'[l]) \cup {h}
         /\ \A k \in Lanes \ {l} : outbox'[k] = outbox[k]
         /\ OutboxTyped'
<1>1. outbox[l] \in Seq(Job)
  BY DEF OutboxTyped
<1>2. PICK t : t = Tail(outbox[l])
  OBVIOUS
<1>3. PICK s : s = outbox[l]
  OBVIOUS
<1>4. /\ t \in Seq(Job) /\ h \in Job /\ Range(s) = Range(t) \cup {h} /\ IsInjective(t)
      /\ h \notin Range(t)
  <2>1. s \in Seq(Job) /\ s # <<>> /\ IsInjective(s) /\ t = Tail(s) /\ h = Head(s)
    BY <1>1, <1>2, <1>3, Zenon
  <2>2. PICK S : S = Job
    OBVIOUS
  <2>3. s \in Seq(S)
    BY ONLY <2>1, <2>2
  <2>4. s # <<>> /\ t = Tail(s) /\ h = Head(s) /\ IsInjective(s)
    BY ONLY <2>1
  <2>5. /\ t \in Seq(S) /\ Len(s) = Len(t) + 1 /\ h \in S
        /\ \A y : y \in Range(s) <=> y \in Range(t) \/ y = h
        /\ IsInjective(s) => IsInjective(t) /\ h \notin Range(t)
    BY ONLY <2>3, <2>4, ShiftedHolds
  <2>6. Range(s) = Range(t) \cup {h}
    BY ONLY <2>5
  <2> QED BY ONLY <2>2, <2>4, <2>5, <2>6
<1>5. outbox' = [outbox EXCEPT ![l] = t]
  BY <1>2
<1>6. \A j \in Range(s) : j.lane = l
  BY <1>3 DEF OutboxTyped
<1>7. /\ outbox'[l] = t /\ \A k \in Lanes \ {l} : outbox'[k] = outbox[k]
      /\ Range(s) \in SUBSET OutboxJobs /\ OutboxJobs' = (OutboxJobs \ Range(s)) \cup Range(t)
  <2>1. \A j \in Range(t) : j.lane = l
    BY <1>4, <1>6
  <2> QED BY ONLY <1>3, <1>5, <2>1, OutboxTyped, l \in Lanes, OutboxChanges
<1>8. OutboxJobs' = OutboxJobs \ {h} /\ h \in OutboxJobs
  BY <1>4, <1>7
<1>9. OutboxTyped'
  <2>1. outbox' \in [Lanes -> Seq(Job)]
    BY <1>4, <1>5 DEF OutboxTyped
  <2>2. ASSUME NEW k \in Lanes, NEW j \in Range(outbox'[k]) PROVE j.lane = k
    <3>1. CASE k = l
      BY <1>4, <1>6, <1>7, <2>2, <3>1
    <3>2. CASE k # l
      BY <1>7, <2>2, <3>2 DEF OutboxTyped
    <3> QED BY <3>1, <3>2
  <2> QED BY <2>1, <2>2 DEF OutboxTyped
<1> QED BY <1>3, <1>4, <1>6, <1>7, <1>8, <1>9

(* The jobs that the replies to lane l answer. *)
AskedOf(l) == {Asked(l, replies[l][i]) : i \in DOMAIN replies[l]}

(* The job that a reply answers, part by part. *)
LEMMA AskedView ==
  ASSUME NEW l, NEW r
  PROVE  /\ Asked(l, r).lane = l /\ Asked(l, r).slot = r.slot /\ Asked(l, r).token = r.token
         /\ Asked(l, r).episode = r.episode /\ Asked(l, r).kind = r.kind
BY DEF Asked

(* The replies that a lane has not taken change. *)
LEMMA RepliesChange ==
  ASSUME replies \in [Lanes -> Seq(Answers)], NEW l \in Lanes, NEW t,
         replies' = [replies EXCEPT ![l] = t]
  PROVE  /\ replies'[l] = t /\ \A k \in Lanes \ {l} : replies'[k] = replies[k]
         /\ AskedOf(l) \in SUBSET RepliedJobs
         /\ RepliedJobs' = (RepliedJobs \ AskedOf(l)) \cup {Asked(l, t[i]) : i \in DOMAIN t}
<1>1. replies'[l] = t /\ \A k \in Lanes \ {l} : replies'[k] = replies[k]
  OBVIOUS
<1>2. ASSUME NEW x
      PROVE  x \in RepliedJobs' <=>
               x \in (RepliedJobs \ AskedOf(l)) \cup {Asked(l, t[i]) : i \in DOMAIN t}
  <2>1. x \in RepliedJobs' <=> \E k \in Lanes : x \in AskedOf(k)'
    BY DEF RepliedJobs, AskedOf
  <2>2. x \in RepliedJobs <=> \E k \in Lanes : x \in AskedOf(k)
    BY DEF RepliedJobs, AskedOf
  <2>3. \A k \in Lanes : x \in AskedOf(k) => x.lane = k
    BY AskedView DEF AskedOf
  <2>4. AskedOf(l)' = {Asked(l, t[i]) : i \in DOMAIN t}
    BY <1>1 DEF AskedOf, Asked
  <2>5. x \in AskedOf(l)' => x.lane = l
    BY <2>4, AskedView
  <2>6. \A k \in Lanes \ {l} : AskedOf(k)' = AskedOf(k)
    BY <1>1 DEF AskedOf, Asked
  <2> QED BY <2>1, <2>2, <2>3, <2>4, <2>5, <2>6
<1>3. AskedOf(l) \in SUBSET RepliedJobs
  BY DEF RepliedJobs, AskedOf
<1> QED BY <1>1, <1>2, <1>3

(* A reply is sent to a lane. *)
LEMMA ReplySent ==
  ASSUME replies \in [Lanes -> Seq(Answers)], \A k \in Lanes : RepliesOnce(k), NEW l \in Lanes,
         NEW r \in Answers, replies' = [replies EXCEPT ![l] = Append(replies[l], r)],
         NEW j, j = Asked(l, r), j \notin RepliedJobs
  PROVE  /\ replies' \in [Lanes -> Seq(Answers)] /\ \A k \in Lanes : RepliesOnce(k)'
         /\ RepliedJobs' = RepliedJobs \cup {j}
<1>1. PICK s \in Seq(Answers) : s = replies[l]
  OBVIOUS
<1>2. PICK t : t = Append(s, r)
  OBVIOUS
<1>3. PICK n \in Nat : n = Len(s) /\ DOMAIN s = 1..n
  BY SeqHolds
<1>4. t \in Seq(Answers) /\ Len(t) = n + 1
  BY <1>2, <1>3
<1>5. DOMAIN t = 1..(n + 1)
  BY <1>4
<1>6. t[n + 1] = r /\ \A i \in 1..n : t[i] = s[i]
  BY <1>2, <1>3
<1>7. 1..(n + 1) = 1..n \cup {n + 1}
  OBVIOUS
<1>8. replies' = [replies EXCEPT ![l] = t]
  BY <1>1, <1>2
<1>9. /\ replies'[l] = t /\ \A k \in Lanes \ {l} : replies'[k] = replies[k]
      /\ AskedOf(l) \in SUBSET RepliedJobs
      /\ RepliedJobs' = (RepliedJobs \ AskedOf(l)) \cup {Asked(l, t[i]) : i \in DOMAIN t}
  BY <1>8, RepliesChange
<1>10. AskedOf(l) = {Asked(l, s[i]) : i \in 1..n}
  BY <1>1, <1>3 DEF AskedOf
<1>11. {Asked(l, t[i]) : i \in DOMAIN t} = AskedOf(l) \cup {j}
  <2>1. ASSUME NEW x PROVE (\E i \in 1..(n + 1) : x = Asked(l, t[i])) <=> (\E i \in 1..n : x = Asked(l, s[i])) \/ x = j
    BY <1>6, <1>7
  <2> QED BY <1>5, <1>10, <2>1
<1>12. RepliedJobs' = RepliedJobs \cup {j}
  BY <1>9, <1>11
<1>13. replies' \in [Lanes -> Seq(Answers)]
  BY <1>4, <1>8
<1>14. RepliesOnce(l)'
  <2>1. \A i, k \in 1..n : Asked(l, s[i]) = Asked(l, s[k]) => i = k
    BY <1>1, <1>3 DEF RepliesOnce
  <2>2. \A i \in 1..n : Asked(l, s[i]) # j
    BY <1>9, <1>10
  <2>3. \A i, k \in 1..(n + 1) : Asked(l, t[i]) = Asked(l, t[k]) => i = k
    BY <1>6, <1>7, <2>1, <2>2
  <2> QED BY <1>5, <1>9, <2>3 DEF RepliesOnce, Asked
<1>15. ASSUME NEW k \in Lanes \ {l} PROVE RepliesOnce(k)'
  BY <1>9, <1>15 DEF RepliesOnce, Asked
<1> QED BY <1>12, <1>13, <1>14, <1>15

(* A lane takes a reply. *)
LEMMA ReplyTaken ==
  ASSUME replies \in [Lanes -> Seq(Answers)], \A k \in Lanes : RepliesOnce(k), NEW l \in Lanes,
         replies[l] # <<>>, replies' = [replies EXCEPT ![l] = Tail(replies[l])],
         NEW r, r = Head(replies[l]), NEW j, j = Asked(l, r)
  PROVE  /\ replies' \in [Lanes -> Seq(Answers)] /\ \A k \in Lanes : RepliesOnce(k)'
         /\ r \in Answers /\ j \in RepliedJobs /\ RepliedJobs' = RepliedJobs \ {j}
<1>1. PICK s \in Seq(Answers) : s = replies[l] /\ s # <<>> /\ r = Head(s)
  OBVIOUS
<1>2. PICK t : t = Tail(s)
  OBVIOUS
<1>3. t \in Seq(Answers) /\ Len(s) = Len(t) + 1 /\ r \in Answers
  BY <1>1, <1>2
<1>4. PICK n \in Nat : n = Len(t) /\ DOMAIN t = 1..n
  BY <1>3, SeqHolds
<1>5. DOMAIN s = 1..(n + 1)
  BY <1>3, <1>4
<1>6. r = s[1] /\ \A i \in 1..n : t[i] = s[i + 1]
  BY <1>1, <1>2, <1>4
<1>7. \A i \in 1..n : i + 1 \in 1..(n + 1) /\ i + 1 # 1
  OBVIOUS
<1>8. \A i \in 1..(n + 1) : i = 1 \/ \E k \in 1..n : i = k + 1
  <2> SUFFICES ASSUME NEW i \in 1..(n + 1), i # 1 PROVE \E k \in 1..n : i = k + 1
    OBVIOUS
  <2>1. i - 1 \in 1..n /\ i = (i - 1) + 1
    OBVIOUS
  <2> QED BY <2>1
<1>9. replies' = [replies EXCEPT ![l] = t]
  BY <1>1, <1>2
<1>10. /\ replies'[l] = t /\ \A k \in Lanes \ {l} : replies'[k] = replies[k]
       /\ AskedOf(l) \in SUBSET RepliedJobs
       /\ RepliedJobs' = (RepliedJobs \ AskedOf(l)) \cup {Asked(l, t[i]) : i \in DOMAIN t}
  BY <1>9, RepliesChange
<1>11. AskedOf(l) = {Asked(l, s[i]) : i \in 1..(n + 1)}
  BY <1>1, <1>5 DEF AskedOf
<1>12. \A i, k \in 1..(n + 1) : Asked(l, s[i]) = Asked(l, s[k]) => i = k
  BY <1>1, <1>5 DEF RepliesOnce
<1>13. 1 \in 1..(n + 1)
  OBVIOUS
<1>14. j \in AskedOf(l)
  BY <1>6, <1>11, <1>13
<1>15. {Asked(l, t[i]) : i \in DOMAIN t} = AskedOf(l) \ {j}
  <2>1. ASSUME NEW x, NEW i \in 1..n, x = Asked(l, t[i])
        PROVE  x # j /\ \E k \in 1..(n + 1) : x = Asked(l, s[k])
    <3>1. x = Asked(l, s[i + 1]) /\ i + 1 \in 1..(n + 1) /\ i + 1 # 1
      BY <1>6, <1>7, <2>1
    <3> QED BY <1>6, <1>12, <1>13, <3>1
  <2>2. ASSUME NEW x, NEW i \in 1..(n + 1), x = Asked(l, s[i]), x # j
        PROVE  \E k \in 1..n : x = Asked(l, t[k])
    <3>1. i # 1
      BY <1>6, <2>2
    <3>2. PICK k \in 1..n : i = k + 1
      BY <1>8, <3>1
    <3> QED BY <1>6, <2>2, <3>2
  <2>3. ASSUME NEW x PROVE x \in {Asked(l, t[i]) : i \in DOMAIN t} <=> x \in AskedOf(l) \ {j}
    <3>1. x \in {Asked(l, t[i]) : i \in DOMAIN t} <=> \E i \in 1..n : x = Asked(l, t[i])
      BY <1>4
    <3>2. x \in AskedOf(l) <=> \E i \in 1..(n + 1) : x = Asked(l, s[i])
      BY <1>11
    <3> QED BY ONLY <2>1, <2>2, <3>1, <3>2
  <2> QED BY ONLY <2>3
<1>16. RepliedJobs' = RepliedJobs \ {j} /\ j \in RepliedJobs
  BY <1>10, <1>14, <1>15
<1>17. replies' \in [Lanes -> Seq(Answers)]
  BY <1>3, <1>9
<1>18. RepliesOnce(l)'
  <2>1. ASSUME NEW i \in 1..n, NEW k \in 1..n, Asked(l, t[i]) = Asked(l, t[k]) PROVE i = k
    <3>0. Asked(l, s[i + 1]) = Asked(l, s[k + 1])
      BY <1>6, <2>1
    <3>1. i + 1 = k + 1
      BY ONLY <1>7, <1>12, <3>0, i \in 1..n, k \in 1..n
    <3>2. i \in Int /\ k \in Int
      OBVIOUS
    <3> QED BY ONLY <3>1, <3>2
  <2> QED BY ONLY <1>4, <1>10, <2>1 DEF RepliesOnce, Asked
<1>19. ASSUME NEW k \in Lanes \ {l} PROVE RepliesOnce(k)'
  BY <1>10, <1>19 DEF RepliesOnce, Asked
<1> QED BY <1>3, <1>16, <1>17, <1>18, <1>19

(* A lane's replies are dropped. *)
LEMMA RepliesDropped ==
  ASSUME replies \in [Lanes -> Seq(Answers)], \A k \in Lanes : RepliesOnce(k), NEW l \in Lanes,
         replies' = [replies EXCEPT ![l] = <<>>]
  PROVE  /\ replies' \in [Lanes -> Seq(Answers)] /\ \A k \in Lanes : RepliesOnce(k)'
         /\ RepliedJobs' \in SUBSET RepliedJobs
<1>1. PICK t : t = <<>>
  OBVIOUS
<1>2. DOMAIN t = {} /\ t \in Seq(Answers)
  BY <1>1
<1>3. replies' = [replies EXCEPT ![l] = t]
  BY <1>1
<1>4. replies'[l] = t /\ \A k \in Lanes \ {l} : replies'[k] = replies[k]
  BY <1>3
<1>9. ASSUME NEW x \in RepliedJobs' PROVE x \in RepliedJobs
  <2>1. PICK k \in Lanes : x \in AskedOf(k)'
    BY <1>9 DEF RepliedJobs, AskedOf
  <2>2. k # l
    BY <1>2, <1>4, <2>1 DEF AskedOf
  <2>3. x \in AskedOf(k)
    BY <1>4, <2>1, <2>2 DEF AskedOf, Asked
  <2> QED BY <2>3 DEF RepliedJobs, AskedOf
<1>5. RepliedJobs' \in SUBSET RepliedJobs
  BY <1>9
<1>6. replies' \in [Lanes -> Seq(Answers)]
  BY <1>2, <1>3
<1>7. RepliesOnce(l)'
  BY <1>2, <1>4 DEF RepliesOnce, Asked
<1>8. ASSUME NEW k \in Lanes \ {l} PROVE RepliesOnce(k)'
  BY <1>4, <1>8 DEF RepliesOnce, Asked
<1> QED BY <1>5, <1>6, <1>7, <1>8

(* A batch is submitted. *)
LEMMA BatchAdded ==
  ASSUME inFlight \in Seq(Seq(Job)), FlightOnce, NEW b \in Seq(Job), IsInjective(b),
         Range(b) \cap InFlightJobs = {}, inFlight' = Append(inFlight, b)
  PROVE  /\ inFlight' \in Seq(Seq(Job)) /\ FlightOnce'
         /\ InFlightJobs' = InFlightJobs \cup Range(b)
<1>1. PICK s \in Seq(Seq(Job)) : s = inFlight
  OBVIOUS
<1>2. PICK t : t = inFlight'
  OBVIOUS
<1>3. PICK n \in Nat : n = Len(s) /\ DOMAIN s = 1..n
  BY SeqHolds
<1>4. t \in Seq(Seq(Job)) /\ Len(t) = n + 1
  BY <1>1, <1>2, <1>3
<1>5. DOMAIN t = 1..(n + 1)
  BY <1>4
<1>6. t[n + 1] = b /\ \A i \in 1..n : t[i] = s[i]
  BY <1>1, <1>2, <1>3
<1>7. 1..(n + 1) = 1..n \cup {n + 1} /\ n + 1 \notin 1..n
  OBVIOUS
<1>8. \A i \in 1..n : Range(b) \cap Range(s[i]) = {} /\ IsInjective(s[i])
  BY <1>1, <1>3 DEF FlightOnce, InFlightJobs
<1>9. \A i \in 1..n : \A k \in 1..n \ {i} : Range(s[i]) \cap Range(s[k]) = {}
  BY <1>1, <1>3 DEF FlightOnce
<1>10. ASSUME NEW i \in 1..(n + 1)
       PROVE  /\ IsInjective(t[i])
              /\ \A k \in 1..(n + 1) \ {i} : Range(t[i]) \cap Range(t[k]) = {}
  BY <1>6, <1>7, <1>8, <1>9
<1>11. FlightOnce'
  BY <1>2, <1>5, <1>10 DEF FlightOnce
<1>12. ASSUME NEW x PROVE x \in InFlightJobs' <=> x \in InFlightJobs \cup Range(b)
  <2>1. x \in InFlightJobs' <=> \E i \in 1..(n + 1) : x \in Range(t[i])
    BY <1>2, <1>5 DEF InFlightJobs
  <2>2. x \in InFlightJobs <=> \E i \in 1..n : x \in Range(s[i])
    BY <1>1, <1>3 DEF InFlightJobs
  <2> QED BY <1>6, <1>7, <2>1, <2>2
<1> QED BY <1>2, <1>4, <1>11, <1>12

(* The oldest batch is taken. *)
LEMMA BatchTaken ==
  ASSUME inFlight \in Seq(Seq(Job)), FlightOnce, inFlight # <<>>, NEW b, b = Head(inFlight),
         inFlight' = Tail(inFlight)
  PROVE  /\ inFlight' \in Seq(Seq(Job)) /\ FlightOnce' /\ b \in Seq(Job) /\ IsInjective(b)
         /\ Range(b) \in SUBSET InFlightJobs /\ InFlightJobs' = InFlightJobs \ Range(b)
         /\ 1 \in DOMAIN inFlight /\ b = inFlight[1]
         /\ \A i \in DOMAIN inFlight' : \E k \in DOMAIN inFlight : inFlight'[i] = inFlight[k]
<1>1. PICK s \in Seq(Seq(Job)) : s = inFlight /\ s # <<>> /\ b = Head(s)
  OBVIOUS
<1>2. PICK t : t = inFlight'
  OBVIOUS
<1>3. t \in Seq(Seq(Job)) /\ Len(s) = Len(t) + 1 /\ b \in Seq(Job)
  BY <1>1, <1>2
<1>4. PICK n \in Nat : n = Len(t) /\ DOMAIN t = 1..n
  BY <1>3, SeqHolds
<1>5. DOMAIN s = 1..(n + 1)
  BY <1>3, <1>4
<1>6. b = s[1] /\ \A i \in 1..n : t[i] = s[i + 1]
  BY <1>1, <1>2, <1>4
<1>7. \A i \in 1..n : i + 1 \in 1..(n + 1) /\ i + 1 # 1
  OBVIOUS
<1>8. \A i \in 1..(n + 1) : i = 1 \/ \E k \in 1..n : i = k + 1
  <2> SUFFICES ASSUME NEW i \in 1..(n + 1), i # 1 PROVE \E k \in 1..n : i = k + 1
    OBVIOUS
  <2>1. i - 1 \in 1..n /\ i = (i - 1) + 1
    OBVIOUS
  <2> QED BY <2>1
<1>9. 1 \in 1..(n + 1)
  OBVIOUS
<1>10. \A i \in 1..(n + 1) : IsInjective(s[i])
  BY <1>1, <1>5 DEF FlightOnce
<1>11. \A i, k \in 1..(n + 1) : i # k => Range(s[i]) \cap Range(s[k]) = {}
  BY <1>1, <1>5 DEF FlightOnce
<1>12. ASSUME NEW i \in 1..n
       PROVE  IsInjective(t[i]) /\ \A k \in 1..n \ {i} : Range(t[i]) \cap Range(t[k]) = {}
  <2>1. IsInjective(t[i])
    BY <1>6, <1>7, <1>10
  <2>2. ASSUME NEW k \in 1..n \ {i} PROVE Range(t[i]) \cap Range(t[k]) = {}
    <3>1. i + 1 # k + 1
      OBVIOUS
    <3> QED BY <1>6, <1>7, <1>11, <3>1
  <2> QED BY <2>1, <2>2
<1>13. FlightOnce'
  BY <1>2, <1>4, <1>12 DEF FlightOnce
<1>14. ASSUME NEW x
       PROVE  /\ x \in Range(b) => x \in InFlightJobs
              /\ x \in InFlightJobs' <=> x \in InFlightJobs \ Range(b)
  <2>1. x \in InFlightJobs' <=> \E i \in 1..n : x \in Range(t[i])
    BY <1>2, <1>4 DEF InFlightJobs
  <2>2. x \in InFlightJobs <=> \E i \in 1..(n + 1) : x \in Range(s[i])
    BY <1>1, <1>5 DEF InFlightJobs
  <2>3. ASSUME NEW i \in 1..n, x \in Range(t[i]) PROVE x \in InFlightJobs /\ x \notin Range(b)
    <3>1. x \in Range(s[i + 1]) /\ i + 1 \in 1..(n + 1) /\ i + 1 # 1
      BY <1>6, <1>7, <2>3
    <3> QED BY <1>6, <1>9, <1>11, <2>2, <3>1
  <2>4. ASSUME NEW i \in 1..(n + 1), x \in Range(s[i]), x \notin Range(b) PROVE x \in InFlightJobs'
    <3>1. i # 1
      BY <1>6, <2>4
    <3>2. PICK k \in 1..n : i = k + 1
      BY <1>8, <3>1
    <3> QED BY <1>6, <2>1, <2>4, <3>2
  <2> QED BY <1>6, <1>9, <2>1, <2>2, <2>3, <2>4
<1>15. ASSUME NEW i \in 1..n PROVE \E k \in 1..(n + 1) : t[i] = s[k]
  BY <1>6, <1>7
<1>16. inFlight' \in Seq(Seq(Job)) /\ b \in Seq(Job) /\ IsInjective(b)
  BY <1>2, <1>3, <1>6, <1>9, <1>10
<1>17. Range(b) \in SUBSET InFlightJobs /\ InFlightJobs' = InFlightJobs \ Range(b)
  BY <1>14
<1>18. 1 \in DOMAIN inFlight /\ b = inFlight[1]
  BY <1>1, <1>5, <1>6, <1>9
<1>19. \A i \in DOMAIN inFlight' : \E k \in DOMAIN inFlight : inFlight'[i] = inFlight[k]
  BY <1>1, <1>2, <1>4, <1>5, <1>15
<1> QED BY ONLY <1>13, <1>16, <1>17, <1>18, <1>19

-----------------------------------------------------------------------------
(* What waits and what is waited for, when the jobs of U are under way.    *)

JobsAwaited(U) == \A j \in U : ~LaneEnded(j.lane) => Awaited(j)
NothingLost(U) ==
  NoFailure =>
    \A l \in Lanes : \A w \in Parked(l) :
      \A t \in slots[l][w].waiting \ slots[l][w].unsent : JobOf(l, w, t) \in U
AllSlotsWait == \A l \in Lanes : \A w \in Slot : SlotWaits(slots[l][w])
Awaiting(U) == U \in SUBSET Job /\ JobsAwaited(U) /\ NothingLost(U) /\ OneWork(U) /\ AllSlotsWait

(* The lane and the slot of a job. *)
LEMMA JobView ==
  ASSUME NEW j \in Job
  PROVE  /\ j.lane \in Lanes /\ j.slot \in Slot /\ j.token \in Nat /\ j.episode \in Nat
         /\ j.kind \in {"eval", "measure"}
BY DEF Job

(* The job of a slot names the slot. *)
LEMMA JobOfView ==
  ASSUME NEW l, NEW w, NEW t
  PROVE  /\ JobOf(l, w, t).lane = l /\ JobOf(l, w, t).slot = w /\ JobOf(l, w, t).token = t
         /\ JobOf(l, w, t).episode = slots[l][w].episode /\ JobOf(l, w, t).kind = slots[l][w].kind
BY DEF JobOf

(* Jobs that nobody waits for may leave. *)
LEMMA AwaitKept ==
  ASSUME NEW U, Awaiting(U), NEW V \in SUBSET U, slots' = slots, NoFailure' => NoFailure,
         \A k \in Lanes : LaneEnded(k) => LaneEnded(k)',
         \A j \in U \ V : NoFailure' => Parked(j.lane)' = {}
  PROVE  Awaiting(V)'
<1>1. U \in SUBSET Job /\ JobsAwaited(U) /\ NothingLost(U) /\ OneWork(U) /\ AllSlotsWait
  BY DEF Awaiting
<1>2. JobsAwaited(V)'
  BY <1>1, JobView DEF JobsAwaited, Awaited
<1>3. NothingLost(V)'
  <2> SUFFICES ASSUME NoFailure', NEW l \in Lanes, NEW w \in Parked(l)',
                      NEW t \in slots'[l][w].waiting \ slots'[l][w].unsent
               PROVE  JobOf(l, w, t)' \in V
    BY DEF NothingLost
  <2>1. w \in Parked(l) /\ JobOf(l, w, t)' = JobOf(l, w, t)
    BY DEF Parked, JobOf
  <2>2. JobOf(l, w, t) \in U
    BY <1>1, <2>1 DEF NothingLost
  <2>3. JobOf(l, w, t).lane = l
    BY JobOfView
  <2> QED BY <2>1, <2>2, <2>3
<1>4. OneWork(V)'
  BY <1>1 DEF OneWork, Together
<1>5. AllSlotsWait'
  BY <1>1 DEF AllSlotsWait, SlotWaits, Together
<1> QED BY <1>1, <1>2, <1>3, <1>4, <1>5 DEF Awaiting

(* Slots that were not parked take other work, of which nothing is sent. *)
LEMMA AwaitTurns ==
  ASSUME NEW U, Awaiting(U), NoFailure' => NoFailure,
         \A k \in Lanes : LaneEnded(k) => LaneEnded(k)',
         \A l \in Lanes : \A w \in Slot :
            \/ slots'[l][w] = slots[l][w]
            \/ /\ slots[l][w].state # "parked" /\ SlotWaits(slots'[l][w])
               /\ slots'[l][w].state = "parked" => slots'[l][w].waiting = slots'[l][w].unsent
  PROVE  Awaiting(U)'
<1>1. U \in SUBSET Job /\ JobsAwaited(U) /\ NothingLost(U) /\ OneWork(U) /\ AllSlotsWait
  BY DEF Awaiting
<1>2. JobsAwaited(U)'
  <2> SUFFICES ASSUME NEW j \in U, ~LaneEnded(j.lane)' PROVE Awaited(j)'
    BY DEF JobsAwaited
  <2>1. j.lane \in Lanes /\ j.slot \in Slot
    BY <1>1, JobView
  <2>2. Awaited(j)
    BY <1>1, <2>1 DEF JobsAwaited
  <2>3. slots[j.lane][j.slot].state = "parked"
    BY <2>2 DEF Awaited
  <2>4. slots'[j.lane][j.slot] = slots[j.lane][j.slot]
    BY <2>1, <2>3
  <2> QED BY <2>2, <2>4 DEF Awaited
<1>3. NothingLost(U)'
  <2> SUFFICES ASSUME NoFailure', NEW l \in Lanes, NEW w \in Parked(l)',
                      NEW t \in slots'[l][w].waiting \ slots'[l][w].unsent
               PROVE  JobOf(l, w, t)' \in U
    BY DEF NothingLost
  <2>1. w \in Slot /\ slots'[l][w].state = "parked"
    BY DEF Parked
  <2>2. slots'[l][w] = slots[l][w]
    BY <2>1
  <2>3. w \in Parked(l)
    BY <2>1, <2>2 DEF Parked
  <2>4. JobOf(l, w, t) \in U
    BY <1>1, <2>2, <2>3 DEF NothingLost
  <2> QED BY <2>2, <2>4 DEF JobOf
<1>4. OneWork(U)'
  BY <1>1 DEF OneWork, Together
<1>5. ASSUME NEW l \in Lanes, NEW w \in Slot PROVE SlotWaits(slots[l][w])'
  BY <1>1 DEF AllSlotsWait, SlotWaits, Together
<1>6. AllSlotsWait'
  BY <1>5 DEF AllSlotsWait
<1> QED BY <1>1, <1>2, <1>3, <1>4, <1>6 DEF Awaiting

(* A lane that fails waits for nothing. *)
LEMMA AwaitFails ==
  ASSUME NEW U, Awaiting(U), NEW V \in SUBSET U, ~NoFailure', NEW l \in Lanes, LaneEnded(l)',
         \A k \in Lanes : LaneEnded(k) => LaneEnded(k)',
         \A k \in Lanes \ {l} : slots'[k] = slots[k],
         \A w \in Slot : slots'[l][w].state # "parked"
  PROVE  Awaiting(V)'
<1>1. U \in SUBSET Job /\ JobsAwaited(U) /\ OneWork(U) /\ AllSlotsWait
  BY DEF Awaiting
<1>2. JobsAwaited(V)'
  <2> SUFFICES ASSUME NEW j \in V, ~LaneEnded(j.lane)' PROVE Awaited(j)'
    BY DEF JobsAwaited
  <2>1. j.lane \in Lanes \ {l} /\ j.slot \in Slot
    BY <1>1, JobView
  <2>2. Awaited(j)
    BY <1>1, <2>1 DEF JobsAwaited
  <2>3. slots'[j.lane] = slots[j.lane]
    BY <2>1
  <2> QED BY <2>2, <2>3 DEF Awaited
<1>3. NothingLost(V)'
  BY DEF NothingLost
<1>4. OneWork(V)'
  BY <1>1 DEF OneWork, Together
<1>5. ASSUME NEW k \in Lanes, NEW w \in Slot PROVE SlotWaits(slots[k][w])'
  BY <1>1 DEF AllSlotsWait, SlotWaits, Together
<1>6. AllSlotsWait'
  BY <1>5 DEF AllSlotsWait
<1> QED BY <1>1, <1>2, <1>3, <1>4, <1>6 DEF Awaiting

-----------------------------------------------------------------------------
(* How many jobs there can be.                                             *)

(* A job is what its fields say. *)
LEMMA SameJob ==
  ASSUME NEW i \in Job, NEW j \in Job, i.lane = j.lane, i.slot = j.slot, i.token = j.token,
         i.episode = j.episode, i.kind = j.kind
  PROVE  i = j
BY DEF Job

(* Multiples of n that differ are n apart. *)
LEMMA NoMultiple ==
  ASSUME NEW n \in Nat \ {0}, NEW q \in Int, NEW p \in Int, NEW x \in Int, q > p, x = n*q - n*p
  PROVE x >= n
<1>1. PICK d \in Nat : q = p + 1 + d
  <2>1. q - p - 1 \in Nat /\ q = p + 1 + (q - p - 1)
    OBVIOUS
  <2> QED BY <2>1
<1>2. n * d >= 0
  OBVIOUS
<1>3. x = n + n * d
  <2>1. n * q = n * p + n + n * d
    BY <1>1
  <2> QED BY <2>1
<1> QED BY <1>2, <1>3

(* Less than n apart and with the same rest, two numbers are the same. *)
LEMMA SameRest ==
  ASSUME NEW n \in Nat \ {0}, NEW t \in Nat, NEW u \in Nat, t % n = u % n, t - u < n, u - t < n
  PROVE t = u
<1>1. t = n * (t \div n) + (t % n) /\ u = n * (u \div n) + (u % n) /\ t \div n \in Int /\ u \div n \in Int
  OBVIOUS
<1>2. PICK q \in Int : q = t \div n
  BY <1>1
<1>3. PICK p \in Int : p = u \div n
  BY <1>1
<1>4. PICK r \in Nat : r = t % n
  OBVIOUS
<1>5. t = n * q + r /\ u = n * p + r
  BY <1>1, <1>2, <1>3, <1>4
<1>6. n * q \in Int /\ n * p \in Int
  OBVIOUS
<1>7. q > p => t - u >= n
  BY <1>5, <1>6, NoMultiple
<1>8. p > q => u - t >= n
  BY <1>5, <1>6, NoMultiple
<1> QED BY <1>5, <1>7, <1>8

(* Jobs of one wave or one measurement, with the same rest, are the same. *)
LEMMA SameWork ==
  ASSUME NEW J \in SUBSET Job, OneWork(J), NEW i \in J, NEW j \in J, i.lane = j.lane, i.slot = j.slot,
         i.token % EvalsPerWorker = j.token % EvalsPerWorker
  PROVE  i = j
<1>1. i.episode = j.episode /\ i.kind = j.kind
  BY DEF OneWork
<1>2. i.token - j.token < EvalsPerWorker /\ j.token - i.token < EvalsPerWorker
  BY DEF OneWork, Together
<1>3. i \in Job /\ j \in Job
  OBVIOUS
<1>4. EvalsPerWorker \in Nat \ {0} /\ i.token \in Nat /\ j.token \in Nat
  BY <1>3, JobView, SizesAssumption
<1>5. i.token = j.token
  BY <1>2, <1>4, SameRest
<1> QED BY <1>1, <1>3, <1>5, SameJob

(* The slots, and the places of a wave. *)
LEMMA Places ==
  /\ Workers \in Nat \ {0} /\ EvalsPerWorker \in Nat \ {0} /\ Cardinality(Lanes) \in Nat
  /\ IsFiniteSet(Slot) /\ Cardinality(Slot) = Workers
  /\ IsFiniteSet(0..(EvalsPerWorker - 1)) /\ Cardinality(0..(EvalsPerWorker - 1)) = EvalsPerWorker
  /\ IsFiniteSet(Lanes \X Slot) /\ Cardinality(Lanes \X Slot) = WorkerCapacity
<1>1. Workers \in Nat \ {0} /\ EvalsPerWorker \in Nat \ {0}
  BY SizesAssumption
<1>2. Cardinality(Lanes) \in Nat /\ IsFiniteSet(Lanes)
  BY LanesAssumption, FS_CardinalityType
<1>3. IsFiniteSet(Slot) /\ Cardinality(Slot) = Workers
  BY <1>1, FS_Interval DEF Slot
<1>4. IsFiniteSet(0..(EvalsPerWorker - 1)) /\ Cardinality(0..(EvalsPerWorker - 1)) = EvalsPerWorker
  BY <1>1, FS_Interval
<1>5. IsFiniteSet(Lanes \X Slot) /\ Cardinality(Lanes \X Slot) = WorkerCapacity
  BY <1>2, <1>3, FS_Product DEF WorkerCapacity
<1> QED BY <1>1, <1>2, <1>3, <1>4, <1>5

(* One lane has at most as many jobs as its channel of replies has room. *)
LEMMA LaneJobsFew ==
  ASSUME NEW J \in SUBSET Job, OneWork(J), NEW l, \A j \in J : j.lane = l
  PROVE  IsFiniteSet(J) /\ Cardinality(J) <= ReplyCapacity
<1>1. PICK T : T = Slot \X (0..(EvalsPerWorker - 1))
  OBVIOUS
<1>2. IsFiniteSet(T) /\ Cardinality(T) = ReplyCapacity
  BY <1>1, Places, FS_Product DEF ReplyCapacity
<1>3. PICK f : f = [j \in J |-> <<j.slot, j.token % EvalsPerWorker>>]
  OBVIOUS
<1>4. ASSUME NEW j \in J PROVE f[j] \in T
  <2>1. j.slot \in Slot /\ j.token \in Nat
    BY JobView
  <2>2. j.token % EvalsPerWorker \in 0..(EvalsPerWorker - 1)
    BY <2>1, Places
  <2> QED BY <1>1, <1>3, <2>1, <2>2
<1>5. ASSUME NEW i \in J, NEW j \in J, f[i] = f[j] PROVE i = j
  <2>1. i.slot = j.slot /\ i.token % EvalsPerWorker = j.token % EvalsPerWorker
    BY <1>3, <1>5
  <2>2. i.lane = j.lane
    OBVIOUS
  <2> QED BY <2>1, <2>2, SameWork
<1>6. f \in Injection(J, T)
  BY <1>3, <1>4, <1>5 DEF Injection, IsInjective
<1>7. IsFiniteSet(J) /\ Cardinality(J) <= Cardinality(T)
  BY <1>2, <1>6, FS_Injection
<1> QED BY <1>2, <1>7

(* All lanes have at most as many jobs as the batcher's channel has room. *)
LEMMA AllJobsFew ==
  ASSUME NEW J \in SUBSET Job, OneWork(J)
  PROVE  IsFiniteSet(J) /\ Cardinality(J) <= IntakeCapacity
<1>1. PICK T : T = (Lanes \X Slot) \X (0..(EvalsPerWorker - 1))
  OBVIOUS
<1>2. IsFiniteSet(T) /\ Cardinality(T) = IntakeCapacity
  BY <1>1, Places, FS_Product DEF IntakeCapacity
<1>3. PICK f : f = [j \in J |-> <<<<j.lane, j.slot>>, j.token % EvalsPerWorker>>]
  OBVIOUS
<1>4. ASSUME NEW j \in J PROVE f[j] \in T
  <2>1. j.lane \in Lanes /\ j.slot \in Slot /\ j.token \in Nat
    BY JobView
  <2>2. j.token % EvalsPerWorker \in 0..(EvalsPerWorker - 1)
    BY <2>1, Places
  <2> QED BY <1>1, <1>3, <2>1, <2>2
<1>5. ASSUME NEW i \in J, NEW j \in J, f[i] = f[j] PROVE i = j
  <2>1. i.lane = j.lane /\ i.slot = j.slot /\ i.token % EvalsPerWorker = j.token % EvalsPerWorker
    BY <1>3, <1>5
  <2> QED BY <2>1, SameWork
<1>6. f \in Injection(J, T)
  BY <1>3, <1>4, <1>5 DEF Injection, IsInjective
<1>7. IsFiniteSet(J) /\ Cardinality(J) <= Cardinality(T)
  BY <1>2, <1>6, FS_Injection
<1> QED BY <1>2, <1>7

(* There are no more measurements than workers. *)
LEMMA MeasureJobsFew ==
  ASSUME NEW J \in SUBSET Job, OneWork(J), \A j \in J : j.kind = "measure"
  PROVE  IsFiniteSet(J) /\ Cardinality(J) <= WorkerCapacity
<1>1. PICK T : T = Lanes \X Slot
  OBVIOUS
<1>2. IsFiniteSet(T) /\ Cardinality(T) = WorkerCapacity
  BY <1>1, Places
<1>3. PICK f : f = [j \in J |-> <<j.lane, j.slot>>]
  OBVIOUS
<1>4. ASSUME NEW j \in J PROVE f[j] \in T
  <2>1. j.lane \in Lanes /\ j.slot \in Slot
    BY JobView
  <2> QED BY <1>1, <1>3, <2>1
<1>5. ASSUME NEW i \in J, NEW j \in J, f[i] = f[j] PROVE i = j
  <2>1. i.lane = j.lane /\ i.slot = j.slot
    BY <1>3, <1>5
  <2>2. i.token = j.token
    BY <2>1 DEF OneWork, Together
  <2> QED BY <2>1, <2>2, SameWork
<1>6. f \in Injection(J, T)
  BY <1>3, <1>4, <1>5 DEF Injection, IsInjective
<1>7. IsFiniteSet(J) /\ Cardinality(J) <= Cardinality(T)
  BY <1>2, <1>6, FS_Injection
<1> QED BY <1>2, <1>7

(* A part of the jobs is such, too. *)
LEMMA OneWorkPart ==
  ASSUME NEW U, OneWork(U), NEW V \in SUBSET U
  PROVE  OneWork(V)
BY DEF OneWork

-----------------------------------------------------------------------------
(* A lane takes the jobs that it has not sent, and takes replies.          *)

PoolTyped == slots \in [Lanes -> [Slot -> SlotState]]

(* What a parked slot holds. *)
LEMMA ParkedView ==
  ASSUME NEW s \in SlotState
  PROVE  /\ s.state \in {"idle", "running", "parked"}
         /\ s.state = "parked" =>
              /\ s.episode \in Nat /\ s.kind \in {"eval", "measure"}
              /\ s.waiting \in SUBSET Nat /\ s.unsent \in SUBSET Nat
BY DEF SlotState, Idle

(* The slots after their jobs have been taken. *)
LEMMA MarkView ==
  ASSUME PoolTyped, NEW l \in Lanes, NEW k, slots' = MarkSent(l, k)
  PROVE  /\ \A m \in Lanes \ {l} : slots'[m] = slots[m]
         /\ \A w \in Slot :
              IF w \in ParkedWith(l, k)
              THEN /\ slots'[l][w].state = "parked" /\ slots'[l][w].unsent = {}
                   /\ slots'[l][w].waiting = slots[l][w].waiting
                   /\ slots'[l][w].episode = slots[l][w].episode
                   /\ slots'[l][w].kind = slots[l][w].kind
              ELSE slots'[l][w] = slots[l][w]
<1>1. PICK m : m = [w \in Slot |-> IF w \in Parked(l) /\ slots[l][w].kind = k
                                   THEN [slots[l][w] EXCEPT !.unsent = {}] ELSE slots[l][w]]
  OBVIOUS
<1>2. slots' = [slots EXCEPT ![l] = m]
  BY <1>1 DEF MarkSent
<1>3. slots'[l] = m /\ \A n \in Lanes \ {l} : slots'[n] = slots[n]
  BY <1>2 DEF PoolTyped
<1>4. ASSUME NEW w \in Slot, w \in ParkedWith(l, k)
      PROVE  /\ m[w].state = "parked" /\ m[w].unsent = {} /\ m[w].waiting = slots[l][w].waiting
             /\ m[w].episode = slots[l][w].episode /\ m[w].kind = slots[l][w].kind
  <2>1. slots[l][w] \in SlotState /\ slots[l][w].state = "parked" /\ slots[l][w].kind = k
    BY <1>4 DEF PoolTyped, ParkedWith, Parked
  <2>2. PICK s : s = slots[l][w]
    OBVIOUS
  <2>3. s \in [state : {"parked"}, episode : Nat, next : Nat, waves : Nat,
          measured : BOOLEAN, kind : {"eval", "measure"}, waiting : SUBSET Nat,
          unsent : SUBSET Nat]
    BY <2>1, <2>2 DEF SlotState, Idle
  <2>4. m[w] = [s EXCEPT !.unsent = {}]
    BY <1>1, <1>4, <2>2 DEF ParkedWith
  <2> QED BY <2>1, <2>2, <2>3, <2>4
<1>5. ASSUME NEW w \in Slot, w \notin ParkedWith(l, k) PROVE m[w] = slots[l][w]
  BY <1>1, <1>5 DEF ParkedWith
<1> QED BY <1>3, <1>4, <1>5

(* The unsent jobs. *)
LEMMA UnsentView ==
  ASSUME PoolTyped, NEW l \in Lanes, NEW k \in {"eval", "measure"}, NEW j \in UnsentJobs(l, k)
  PROVE  /\ j \in Job /\ j.lane = l /\ j.kind = k /\ j.slot \in ParkedWith(l, k)
         /\ j.slot \in Slot /\ slots[l][j.slot].state = "parked" /\ slots[l][j.slot].kind = k
         /\ j.token \in slots[l][j.slot].unsent /\ j.episode = slots[l][j.slot].episode
<1>1. PICK w \in ParkedWith(l, k) : \E t \in slots[l][w].unsent : j = JobOf(l, w, t)
  BY DEF UnsentJobs
<1>2. PICK t \in slots[l][w].unsent : j = JobOf(l, w, t)
  BY <1>1
<1>3. w \in Slot /\ slots[l][w].state = "parked" /\ slots[l][w].kind = k
  BY <1>1 DEF ParkedWith, Parked
<1>4. slots[l][w] \in SlotState
  BY <1>3 DEF PoolTyped
<1>5. t \in Nat /\ slots[l][w].episode \in Nat
  BY <1>2, <1>3, <1>4, ParkedView
<1>6. /\ j.lane = l /\ j.slot = w /\ j.token = t /\ j.episode = slots[l][w].episode
      /\ j.kind = slots[l][w].kind
  BY <1>2, JobOfView
<1>7. j \in Job
  BY <1>2, <1>3, <1>5 DEF JobOf, Job
<1> QED BY <1>1, <1>2, <1>3, <1>6, <1>7

(* Nothing is sent twice: what is unsent is not under way. *)
LEMMA UnsentNew ==
  ASSUME NEW U, Awaiting(U), PoolTyped, NEW l \in Lanes, ~LaneEnded(l),
         NEW k \in {"eval", "measure"}
  PROVE  UnsentJobs(l, k) \cap U = {}
<1> SUFFICES ASSUME NEW j \in UnsentJobs(l, k), j \in U PROVE FALSE
  OBVIOUS
<1>1. j.lane = l /\ j.token \in slots[l][j.slot].unsent
  BY UnsentView
<1>2. Awaited(j)
  BY <1>1 DEF Awaiting, JobsAwaited
<1> QED BY <1>1, <1>2 DEF Awaited

(* They are told apart by slot and token. *)
LEMMA UnsentApart ==
  ASSUME PoolTyped, NEW l \in Lanes, NEW k \in {"eval", "measure"}, NEW i \in UnsentJobs(l, k),
         NEW j \in UnsentJobs(l, k), i.slot = j.slot, i.token = j.token
  PROVE  i = j
<1>1. i \in Job /\ i.lane = l /\ i.kind = k /\ i.episode = slots[l][i.slot].episode
  BY UnsentView
<1>2. j \in Job /\ j.lane = l /\ j.kind = k /\ j.episode = slots[l][j.slot].episode
  BY UnsentView
<1> QED BY <1>1, <1>2, SameJob

(* What a lane takes from its pool is under way from then on. *)
LEMMA AwaitTakes ==
  ASSUME NEW U, Awaiting(U), PoolTyped, NEW l \in Lanes, ~LaneEnded(l), NEW k \in {"eval", "measure"},
         slots' = MarkSent(l, k), NoFailure' => NoFailure,
         \A m \in Lanes : LaneEnded(m)' <=> LaneEnded(m),
         NEW V, V = U \cup UnsentJobs(l, k)
  PROVE  Awaiting(V)'
<1>1. U \in SUBSET Job /\ JobsAwaited(U) /\ NothingLost(U) /\ OneWork(U) /\ AllSlotsWait
  BY DEF Awaiting
<1>2. V \in SUBSET Job
  BY <1>1, UnsentView
<1>3. ASSUME NEW m \in Lanes, NEW w \in Slot
      PROVE  IF m = l /\ w \in ParkedWith(l, k)
             THEN /\ slots'[m][w].state = "parked" /\ slots'[m][w].unsent = {}
                  /\ slots'[m][w].waiting = slots[m][w].waiting
                  /\ slots'[m][w].episode = slots[m][w].episode
                  /\ slots'[m][w].kind = slots[m][w].kind
                  /\ slots[m][w].state = "parked" /\ slots[m][w].kind = k
             ELSE slots'[m][w] = slots[m][w]
  <2>1. CASE m = l /\ w \in ParkedWith(l, k)
    BY <2>1, MarkView DEF ParkedWith, Parked
  <2>2. CASE m = l /\ w \notin ParkedWith(l, k)
    BY <2>2, MarkView
  <2>3. CASE m # l
    BY <2>3, MarkView
  <2> QED BY <2>1, <2>2, <2>3
<1>4. ASSUME NEW m \in Lanes, NEW w \in Slot
      PROVE  /\ SlotWaits(slots[m][w])'
             /\ slots[m][w].state = "parked" =>
                  slots[m][w].unsent \subseteq slots[m][w].waiting
  <2>1. SlotWaits(slots[m][w])
    BY <1>1 DEF AllSlotsWait
  <2> QED BY <1>3, <2>1 DEF SlotWaits, Together
<1>5. ASSUME NEW j \in U, ~LaneEnded(j.lane)' PROVE Awaited(j)'
  <2>1. j.lane \in Lanes /\ j.slot \in Slot
    BY <1>1, JobView
  <2>2. Awaited(j)
    BY <1>1, <1>5, <2>1 DEF JobsAwaited
  <2> QED BY <1>3, <2>1, <2>2 DEF Awaited
<1>6. ASSUME NEW j \in UnsentJobs(l, k) PROVE Awaited(j)'
  <2>1. /\ j.lane = l /\ j.kind = k /\ j.slot \in ParkedWith(l, k) /\ j.slot \in Slot
        /\ j.token \in slots[l][j.slot].unsent /\ j.episode = slots[l][j.slot].episode
        /\ slots[l][j.slot].state = "parked" /\ slots[l][j.slot].kind = k
    BY UnsentView
  <2>2. j.token \in slots[l][j.slot].waiting
    BY <1>4, <2>1
  <2> QED BY <1>3, <2>1, <2>2 DEF Awaited
<1>7. JobsAwaited(V)'
  BY <1>5, <1>6 DEF JobsAwaited
<1>8. NothingLost(V)'
  <2> SUFFICES ASSUME NoFailure', NEW m \in Lanes, NEW w \in Parked(m)',
                      NEW t \in slots'[m][w].waiting \ slots'[m][w].unsent
               PROVE  JobOf(m, w, t)' \in V
    BY DEF NothingLost
  <2>1. w \in Slot /\ slots'[m][w].state = "parked"
    BY DEF Parked
  <2>2. CASE m = l /\ w \in ParkedWith(l, k)
    <3>1. /\ slots[l][w].state = "parked" /\ t \in slots[l][w].waiting /\ w \in Parked(l)
          /\ slots'[l][w].episode = slots[l][w].episode /\ slots'[l][w].kind = slots[l][w].kind
      BY <1>3, <2>1, <2>2 DEF Parked
    <3>2. JobOf(m, w, t)' = JobOf(m, w, t)
      BY <2>2, <3>1 DEF JobOf
    <3>3. CASE t \in slots[l][w].unsent
      <4>1. JobOf(l, w, t) \in UnsentJobs(l, k)
        BY <2>2, <3>3 DEF UnsentJobs
      <4> QED BY <2>2, <3>2, <4>1
    <3>4. CASE t \notin slots[l][w].unsent
      <4>1. JobOf(l, w, t) \in U
        BY <1>1, <3>1, <3>4 DEF NothingLost
      <4> QED BY <2>2, <3>2, <4>1
    <3> QED BY <3>3, <3>4
  <2>3. CASE ~(m = l /\ w \in ParkedWith(l, k))
    <3>1. slots'[m][w] = slots[m][w]
      BY <1>3, <2>1, <2>3
    <3>2. w \in Parked(m) /\ t \in slots[m][w].waiting \ slots[m][w].unsent
      BY <2>1, <3>1 DEF Parked
    <3>3. JobOf(m, w, t) \in U
      BY <1>1, <3>2 DEF NothingLost
    <3> QED BY <3>1, <3>3 DEF JobOf
  <2> QED BY <2>2, <2>3
<1>9. OneWork(V)
  <2> SUFFICES ASSUME NEW i \in V, NEW j \in V, i.lane = j.lane, i.slot = j.slot
               PROVE  i.episode = j.episode /\ i.kind = j.kind /\ Together(i.kind, i.token, j.token)
    BY DEF OneWork
  <2>1. CASE i \in U /\ j \in U
    BY <1>1, <2>1 DEF OneWork
  <2>2. CASE i \notin U \/ j \notin U
    <3>1. i.lane = l
      BY <2>2, UnsentView
    <3>2. ASSUME NEW x \in V, x.lane = l
          PROVE  /\ slots'[l][x.slot].episode = x.episode /\ slots'[l][x.slot].kind = x.kind
                 /\ x.token \in slots'[l][x.slot].waiting /\ slots'[l][x.slot].state = "parked"
      <4>1. Awaited(x)'
        BY <1>5, <1>6, <3>2
      <4> QED BY <3>2, <4>1 DEF Awaited
    <3>3. i.slot \in Slot
      BY <1>2, JobView
    <3>4. SlotWaits(slots[l][i.slot])'
      BY <1>4, <3>3
    <3>5. PICK c : c = slots'[l][i.slot]
      OBVIOUS
    <3>6. c.episode = i.episode /\ c.kind = i.kind /\ i.token \in c.waiting /\ c.state = "parked"
      BY <3>1, <3>2, <3>5
    <3>7. c.episode = j.episode /\ c.kind = j.kind /\ j.token \in c.waiting
      BY <3>1, <3>2, <3>5
    <3>8. \A t, u \in c.waiting : t - u < EvalsPerWorker /\ (c.kind = "measure" => t = u)
      BY <3>4, <3>5, <3>6 DEF SlotWaits, Together
    <3> QED BY <3>6, <3>7, <3>8 DEF Together
  <2> QED BY <2>1, <2>2
<1>10. OneWork(V)'
  BY <1>9 DEF OneWork, Together
<1>11. AllSlotsWait'
  BY <1>4 DEF AllSlotsWait
<1> QED BY <1>2, <1>7, <1>8, <1>10, <1>11 DEF Awaiting

(* Taken in order they are a sequence of jobs of the lane, each once. *)
LEMMA TakenOnce ==
  ASSUME PoolTyped, NEW l \in Lanes, NEW k \in {"eval", "measure"}, OneWork(UnsentJobs(l, k)),
         NEW s, s = Unsent(l, k)
  PROVE  s \in Seq(Job) /\ IsInjective(s) /\ Range(s) = UnsentJobs(l, k)
<1>1. PICK J : J = UnsentJobs(l, k)
  OBVIOUS
<1>2. J \in SUBSET Job /\ \A j \in J : j.lane = l
  BY <1>1, UnsentView
<1>3. IsFiniteSet(J)
  BY <1>1, <1>2, LaneJobsFew
<1>4. \A j \in J : j.slot \in Nat /\ j.token \in Nat
  BY <1>2, JobView, SizesAssumption DEF Slot
<1>5. \A i, j \in J : i.slot = j.slot /\ i.token = j.token => i = j
  BY <1>1, UnsentApart
<1>6. s = InOrder(J)
  BY <1>1 DEF Unsent
<1>7. s \in Seq(J) /\ IsInjective(s) /\ Range(s) = J
  BY <1>3, <1>4, <1>5, <1>6, InOrderHolds
<1>8. s \in Seq(Job)
  <2>1. DOMAIN s = 1..Len(s) /\ Len(s) \in Nat /\ \A i \in 1..Len(s) : s[i] \in J
    BY <1>7, SeqHolds
  <2> QED BY <1>2, <1>7, <2>1
<1> QED BY <1>1, <1>7, <1>8

(* What a reply does to the slot that waited for it: the slot runs again if it waited for nothing
   else, and waits for the rest if it did. *)
LEMMA ResumedView ==
  ASSUME NEW c \in SlotState, c.state = "parked", SlotWaits(c), NEW r, r.kind = c.kind,
         r.token \in c.waiting \ c.unsent, NEW d, d = Resumed(c, r)
  PROVE  /\ SlotWaits(d)
         /\ \/ d.state = "running" /\ \A t \in c.waiting : t = r.token
            \/ /\ d.state = "parked" /\ d.episode = c.episode /\ d.kind = c.kind
               /\ d.waiting = c.waiting \ {r.token} /\ d.unsent = c.unsent
<1>1. c \in [state : {"parked"}, episode : Nat, next : Nat, waves : Nat,
             measured : BOOLEAN, kind : {"eval", "measure"}, waiting : SUBSET Nat,
             unsent : SUBSET Nat]
  BY DEF SlotState, Idle
<1>2. c.unsent \subseteq c.waiting /\ \A t, u \in c.waiting : Together(c.kind, t, u)
  BY DEF SlotWaits
<1>3. CASE r.kind = "measure"
  <2>1. d = RunsAgain(c, TRUE)
    BY <1>3 DEF Resumed, ResumedMeasure
  <2>2. d.state = "running"
    BY <2>1 DEF RunsAgain
  <2>3. \A t \in c.waiting : t = r.token
    BY <1>2, <1>3 DEF Together
  <2>4. SlotWaits(d)
    BY <2>2 DEF SlotWaits
  <2> QED BY <2>2, <2>3, <2>4
<1>4. CASE r.kind # "measure" /\ c.waiting = {r.token}
  <2>1. d = RunsAgain(c, FALSE)
    BY <1>4 DEF Resumed, ResumedEval
  <2>2. d.state = "running"
    BY <2>1 DEF RunsAgain
  <2>3. SlotWaits(d)
    BY <2>2 DEF SlotWaits
  <2> QED BY <1>4, <2>2, <2>3
<1>5. CASE r.kind # "measure" /\ c.waiting # {r.token}
  <2>1. d = [c EXCEPT !.waiting = c.waiting \ {r.token}]
    BY <1>5 DEF Resumed, ResumedEval
  <2>2. /\ d.state = "parked" /\ d.episode = c.episode /\ d.kind = c.kind
        /\ d.waiting = c.waiting \ {r.token} /\ d.unsent = c.unsent
    BY <1>1, <2>1
  <2>3. SlotWaits(d)
    BY <1>2, <2>2 DEF SlotWaits
  <2> QED BY <2>2, <2>3
<1> QED BY <1>3, <1>4, <1>5

(* A reply is taken by the slot that waits for it. *)
LEMMA AwaitResumes ==
  ASSUME NEW U, Awaiting(U), PoolTyped, NEW l \in Lanes, ~LaneEnded(l), NEW r, NEW j \in U,
         j = Asked(l, r), slots' = [slots EXCEPT ![l][r.slot] = Resumed(slots[l][r.slot], r)],
         NoFailure' => NoFailure, \A m \in Lanes : LaneEnded(m)' <=> LaneEnded(m),
         NEW V, V = U \ {j}
  PROVE  Awaiting(V)'
<1>1. U \in SUBSET Job /\ JobsAwaited(U) /\ NothingLost(U) /\ OneWork(U) /\ AllSlotsWait
  BY DEF Awaiting
<1>2. /\ j.lane = l /\ j.slot = r.slot /\ j.token = r.token /\ j.episode = r.episode
      /\ j.kind = r.kind
  BY AskedView
<1>3. j \in Job /\ r.slot \in Slot
  BY <1>1, <1>2, JobView
<1>4. PICK c \in SlotState : c = slots[l][r.slot]
  BY <1>3 DEF PoolTyped
<1>5. Awaited(j)
  BY <1>1, <1>2 DEF JobsAwaited
<1>6. c.state = "parked" /\ c.episode = j.episode /\ c.kind = r.kind /\ r.token \in c.waiting \ c.unsent
  BY <1>2, <1>4, <1>5 DEF Awaited
<1>7. SlotWaits(c)
  BY <1>1, <1>3, <1>4 DEF AllSlotsWait
<1>8. PICK d : d = Resumed(c, r)
  OBVIOUS
<1>9. /\ SlotWaits(d)
      /\ \/ d.state = "running" /\ \A t \in c.waiting : t = r.token
         \/ /\ d.state = "parked" /\ d.episode = c.episode /\ d.kind = c.kind
            /\ d.waiting = c.waiting \ {r.token} /\ d.unsent = c.unsent
  BY <1>6, <1>7, <1>8, ResumedView
<1>10. slots' = [slots EXCEPT ![l][r.slot] = d]
  BY <1>4, <1>8
<1>11. /\ slots'[l][r.slot] = d
       /\ \A m \in Lanes, w \in Slot : m # l \/ w # r.slot => slots'[m][w] = slots[m][w]
  BY <1>3, <1>10 DEF PoolTyped
<1>12. ASSUME NEW x \in V, ~LaneEnded(x.lane)' PROVE Awaited(x)'
  <2>1. x \in Job /\ x.lane \in Lanes /\ x.slot \in Slot /\ x # j /\ x \in U
    BY <1>1, JobView
  <2>2. Awaited(x)
    BY <1>1, <1>12, <2>1 DEF JobsAwaited
  <2>3. CASE x.lane # l \/ x.slot # r.slot
    <3>1. slots'[x.lane][x.slot] = slots[x.lane][x.slot]
      BY <1>11, <2>1, <2>3
    <3> QED BY <2>2, <3>1 DEF Awaited
  <2>4. CASE x.lane = l /\ x.slot = r.slot
    <3>1. x.episode = c.episode /\ x.kind = c.kind /\ x.token \in c.waiting \ c.unsent
      BY <1>4, <2>2, <2>4 DEF Awaited
    <3>2. x.token # r.token
      BY <1>2, <1>3, <1>6, <2>1, <2>4, <3>1, SameJob
    <3>3. /\ d.state = "parked" /\ d.episode = x.episode /\ d.kind = x.kind
          /\ x.token \in d.waiting \ d.unsent
      BY <1>9, <3>1, <3>2
    <3> QED BY <1>11, <2>4, <3>3 DEF Awaited
  <2> QED BY <2>3, <2>4
<1>13. ASSUME NoFailure', NEW m \in Lanes, NEW w \in Parked(m)',
              NEW t \in slots'[m][w].waiting \ slots'[m][w].unsent
       PROVE  JobOf(m, w, t)' \in V
  <2>1. w \in Slot /\ slots'[m][w].state = "parked"
    BY DEF Parked
  <2>2. JobOf(m, w, t).lane = m /\ JobOf(m, w, t).slot = w /\ JobOf(m, w, t).token = t
    BY JobOfView
  <2>3. CASE m # l \/ w # r.slot
    <3>1. slots'[m][w] = slots[m][w]
      BY <1>11, <2>1, <2>3
    <3>2. w \in Parked(m) /\ t \in slots[m][w].waiting \ slots[m][w].unsent
      BY <2>1, <3>1 DEF Parked
    <3>3. JobOf(m, w, t) \in U
      BY <1>1, <1>13, <3>2 DEF NothingLost
    <3>4. JobOf(m, w, t) # j
      BY <1>2, <2>2, <2>3
    <3> QED BY <3>1, <3>3, <3>4 DEF JobOf
  <2>4. CASE m = l /\ w = r.slot
    <3>1. /\ d.episode = c.episode /\ d.kind = c.kind
          /\ t \in c.waiting \ c.unsent /\ t # r.token
      BY <1>9, <1>11, <2>1, <2>4
    <3>2. w \in Parked(m)
      BY <1>4, <1>6, <2>1, <2>4 DEF Parked
    <3>3. JobOf(m, w, t) \in U
      BY <1>1, <1>4, <1>13, <2>4, <3>1, <3>2 DEF NothingLost
    <3>4. JobOf(m, w, t) # j
      BY <1>2, <2>2, <3>1
    <3>5. JobOf(m, w, t)' = JobOf(m, w, t)
      BY <1>4, <1>11, <2>4, <3>1 DEF JobOf
    <3> QED BY <3>3, <3>4, <3>5
  <2> QED BY <2>3, <2>4
<1>14. OneWork(V)'
  BY <1>1 DEF OneWork, Together
<1>15. ASSUME NEW m \in Lanes, NEW w \in Slot PROVE SlotWaits(slots[m][w])'
  <2>1. CASE m # l \/ w # r.slot
    <3>1. slots'[m][w] = slots[m][w]
      BY <1>11, <2>1
    <3> QED BY <1>1, <3>1 DEF AllSlotsWait, SlotWaits, Together
  <2>2. CASE m = l /\ w = r.slot
    BY <1>9, <1>11, <2>2 DEF SlotWaits, Together
  <2> QED BY <2>1, <2>2
<1>16. JobsAwaited(V)'
  BY <1>12 DEF JobsAwaited
<1>17. NothingLost(V)'
  BY <1>13 DEF NothingLost
<1>18. AllSlotsWait'
  BY <1>15 DEF AllSlotsWait
<1>19. (V \in SUBSET Job)'
  BY <1>1
<1> QED BY <1>14, <1>16, <1>17, <1>18, <1>19 DEF Awaiting

-----------------------------------------------------------------------------
(* No send waits for room.                                                 *)

(* The types of the channels and of what the batcher and the gateway hold. *)
ChannelsTypeOK ==
  /\ OutboxTyped
  /\ intake \in Seq(Job) /\ routing \in Seq(Job) /\ measures \in Seq(Job)
  /\ inFlight \in Seq(Seq(Job))
  /\ replies \in [Lanes -> Seq(Answers)]
  /\ tasks \in SUBSET Job

(* What is under way, where it is once, and who waits for it. *)
WorkSound == ChannelsTypeOK /\ Disjoint(Stages) /\ StagesOnce /\ Awaiting(UnderWay)

(* The stages are parts of what is under way. *)
LEMMA StagesUnderWay ==
  /\ OutboxJobs \in SUBSET UnderWay /\ Range(intake) \in SUBSET UnderWay
  /\ InFlightJobs \in SUBSET UnderWay /\ Range(routing) \in SUBSET UnderWay
  /\ Range(measures) \in SUBSET UnderWay /\ tasks \in SUBSET UnderWay
  /\ RepliedJobs \in SUBSET UnderWay
<1>1. \A a \in 1..7 : Stages[a] \in SUBSET UnderWay
  BY UnderWayParts DEF Together7
<1>2. {1, 2, 3, 4, 5, 6, 7} \in SUBSET (1..7)
  OBVIOUS
<1> QED BY <1>1, <1>2, StagesView

(* The stages have nothing in common. *)
LEMMA StagesApart ==
  ASSUME Disjoint(Stages)
  PROVE  /\ OutboxJobs \cap Range(intake) = {} /\ OutboxJobs \cap Range(measures) = {}
         /\ tasks \cap RepliedJobs = {} /\ Range(routing) \cap RepliedJobs = {}
         /\ Range(intake) \cap InFlightJobs = {}
<1>1. {1, 2, 3, 4, 5, 6, 7} \in SUBSET (1..7)
  OBVIOUS
<1>2. ASSUME NEW a \in 1..7, NEW b \in 1..7, a # b PROVE Stages[a] \cap Stages[b] = {}
  BY <1>2 DEF Disjoint
<1>3. Stages[1] \cap Stages[2] = {} /\ Stages[1] \cap Stages[5] = {}
  BY <1>1, <1>2
<1>4. Stages[6] \cap Stages[7] = {} /\ Stages[4] \cap Stages[7] = {} /\ Stages[2] \cap Stages[3] = {}
  BY <1>1, <1>2
<1> QED BY <1>3, <1>4, StagesView

(* The first job in the hands of a lane. *)
LEMMA FirstJob ==
  ASSUME ChannelsTypeOK, NEW l \in Lanes, outbox[l] # <<>>
  PROVE  /\ Head(outbox[l]) \in Range(outbox[l]) /\ Head(outbox[l]) \in OutboxJobs
         /\ Head(outbox[l]) \in Job /\ Head(outbox[l]).lane = l
<1>1. PICK s \in Seq(Job) : s = outbox[l] /\ s # <<>>
  BY DEF ChannelsTypeOK, OutboxTyped
<1>2. PICK x : x = Head(s)
  OBVIOUS
<1>3. PICK t : t = Tail(s)
  OBVIOUS
<1>4. x \in Range(s) /\ x \in Job
  BY <1>1, <1>2, <1>3, ShiftedHolds
<1>5. x.lane = l /\ x \in OutboxJobs
  BY <1>1, <1>4 DEF ChannelsTypeOK, OutboxTyped, OutboxJobs
<1> QED BY <1>1, <1>2, <1>4, <1>5

(* A sequence without repetition that lacks a job of a bounded set is shorter than the bound. *)
LEMMA RoomFor ==
  ASSUME NEW s \in Seq(Job), IsInjective(s), NEW j, j \notin Range(s), NEW n \in Nat,
         IsFiniteSet(Range(s) \cup {j}), Cardinality(Range(s) \cup {j}) <= n
  PROVE  Len(s) < n
<1>1. IsFiniteSet(Range(s)) /\ Cardinality(Range(s)) = Len(s) /\ Len(s) \in Nat
  BY InjectiveCount, SeqHolds
<1>2. Cardinality(Range(s) \cup {j}) = Len(s) + 1
  BY <1>1, FS_AddElement
<1> QED BY <1>1, <1>2

(* The capacities are numbers. *)
LEMMA Capacities ==
  WorkerCapacity \in Nat /\ IntakeCapacity \in Nat /\ ReplyCapacity \in Nat
<1>1. WorkerCapacity \in Nat
  BY Places DEF WorkerCapacity
<1>2. IntakeCapacity \in Nat
  BY <1>1, Places DEF IntakeCapacity
<1>3. ReplyCapacity \in Nat
  BY Places DEF ReplyCapacity
<1> QED BY <1>1, <1>2, <1>3

(* A lane that has a job in its hands finds room for it with the batcher. *)
LEMMA IntakeRoom ==
  ASSUME WorkSound, NEW l \in Lanes, outbox[l] # <<>>
  PROVE  Len(intake) < IntakeCapacity
<1>1. PICK j : j = Head(outbox[l])
  OBVIOUS
<1>2. j \in OutboxJobs
  BY <1>1, FirstJob DEF WorkSound
<1>3. PICK s \in Seq(Job) : s = intake
  BY DEF WorkSound, ChannelsTypeOK
<1>4. j \notin Range(s) /\ IsInjective(s)
  BY <1>2, <1>3, StagesApart DEF WorkSound, StagesOnce
<1>5. Range(s) \cup {j} \in SUBSET UnderWay
  BY <1>2, <1>3, StagesUnderWay
<1>6. UnderWay \in SUBSET Job /\ OneWork(UnderWay)
  BY DEF WorkSound, Awaiting
<1>7. Range(s) \cup {j} \in SUBSET Job /\ OneWork(Range(s) \cup {j})
  BY <1>5, <1>6, OneWorkPart
<1>8. IsFiniteSet(Range(s) \cup {j}) /\ Cardinality(Range(s) \cup {j}) <= IntakeCapacity
  BY <1>7, AllJobsFew
<1> QED BY <1>3, <1>4, <1>8, RoomFor, Capacities

(* A lane that has a measurement in its hands finds room for it with the gateway. *)
LEMMA MeasuresRoom ==
  ASSUME WorkSound, JobsRouted, NEW l \in Lanes, outbox[l] # <<>>, phase[l] = "measures"
  PROVE  Len(measures) < WorkerCapacity
<1>1. PICK j : j = Head(outbox[l])
  OBVIOUS
<1>2. j \in OutboxJobs /\ j \in Range(outbox[l])
  BY <1>1, FirstJob DEF WorkSound
<1>3. PICK s \in Seq(Job) : s = measures
  BY DEF WorkSound, ChannelsTypeOK
<1>4. j \notin Range(s) /\ IsInjective(s)
  BY <1>2, <1>3, StagesApart DEF WorkSound, StagesOnce
<1>5. Range(s) \cup {j} \in SUBSET UnderWay
  BY <1>2, <1>3, StagesUnderWay
<1>6. UnderWay \in SUBSET Job /\ OneWork(UnderWay)
  BY DEF WorkSound, Awaiting
<1>7. Range(s) \cup {j} \in SUBSET Job /\ OneWork(Range(s) \cup {j})
  BY <1>5, <1>6, OneWorkPart
<1>8. \A i \in Range(s) \cup {j} : i.kind = "measure"
  BY <1>2, <1>3 DEF JobsRouted
<1>9. IsFiniteSet(Range(s) \cup {j}) /\ Cardinality(Range(s) \cup {j}) <= WorkerCapacity
  BY <1>7, <1>8, MeasureJobsFew
<1> QED BY <1>3, <1>4, <1>9, RoomFor, Capacities

(* The replies to a lane are as many as the jobs they answer. *)
LEMMA RepliesCount ==
  ASSUME replies \in [Lanes -> Seq(Answers)], NEW l \in Lanes, RepliesOnce(l)
  PROVE  IsFiniteSet(AskedOf(l)) /\ Cardinality(AskedOf(l)) = Len(replies[l])
<1>1. PICK s \in Seq(Answers) : s = replies[l]
  OBVIOUS
<1>2. PICK n \in Nat : n = Len(s) /\ DOMAIN s = 1..n
  BY SeqHolds
<1>3. PICK R : R = AskedOf(l)
  OBVIOUS
<1>4. R = {Asked(l, s[i]) : i \in 1..n}
  BY <1>1, <1>2, <1>3 DEF AskedOf
<1>5. \A i, k \in 1..n : Asked(l, s[i]) = Asked(l, s[k]) => i = k
  BY <1>1, <1>2 DEF RepliesOnce
<1>6. PICK f : f = [i \in 1..n |-> Asked(l, s[i])]
  OBVIOUS
<1>7. f \in Bijection(1..n, R)
  <2>1. f \in [1..n -> R]
    BY <1>4, <1>6
  <2>2. \A i, k \in 1..n : f[i] = f[k] => i = k
    BY <1>5, <1>6
  <2>3. \A x \in R : \E i \in 1..n : f[i] = x
    BY <1>4, <1>6
  <2>4. f \in Injection(1..n, R)
    BY <2>1, <2>2 DEF Injection, IsInjective
  <2>5. f \in Surjection(1..n, R)
    BY <2>1, <2>3 DEF Surjection
  <2> QED BY <2>4, <2>5 DEF Bijection
<1>8. IsFiniteSet(1..n) /\ Cardinality(1..n) = n
  BY FS_Interval
<1>9. ExistsBijection(1..n, R)
  BY <1>7 DEF ExistsBijection
<1>10. IsFiniteSet(R) /\ Cardinality(R) = n
  BY <1>8, <1>9, FS_Bijection
<1> QED BY <1>1, <1>2, <1>3, <1>10

(* Who answers a job finds room for the reply. *)
LEMMA ReplyRoom ==
  ASSUME WorkSound, NEW j \in tasks \cup Range(routing), NEW l \in Lanes, l = j.lane
  PROVE  Len(replies[l]) < ReplyCapacity
<1>1. PICK R : R = AskedOf(l)
  OBVIOUS
<1>2. IsFiniteSet(R) /\ Cardinality(R) = Len(replies[l])
  BY <1>1, RepliesCount DEF WorkSound, ChannelsTypeOK, StagesOnce
<1>3. R \in SUBSET RepliedJobs
  BY <1>1 DEF RepliedJobs, AskedOf
<1>4. j \notin R
  BY <1>3, StagesApart DEF WorkSound
<1>5. R \cup {j} \in SUBSET UnderWay
  BY <1>3, StagesUnderWay
<1>6. UnderWay \in SUBSET Job /\ OneWork(UnderWay)
  BY DEF WorkSound, Awaiting
<1>7. R \cup {j} \in SUBSET Job /\ OneWork(R \cup {j})
  BY <1>5, <1>6, OneWorkPart
<1>8. \A i \in R \cup {j} : i.lane = l
  BY <1>1, AskedView DEF AskedOf
<1>9. IsFiniteSet(R \cup {j}) /\ Cardinality(R \cup {j}) <= ReplyCapacity
  BY <1>7, <1>8, LaneJobsFew
<1>10. Cardinality(R \cup {j}) = Cardinality(R) + 1
  BY <1>2, <1>4, FS_AddElement
<1>11. Cardinality(R) \in Nat
  BY <1>2, FS_CardinalityType
<1> QED BY <1>2, <1>9, <1>10, <1>11, Capacities

(* A lane that has a game to send finds room for it with the sink: each of the others waits for
   one game at most. *)
LEMMA GamesRoom ==
  ASSUME RunAccounted, NEW l \in Lanes, phase[l] # "ack"
  PROVE  Len(games) < WorkerCapacity
<1>1. PICK G : G = [lane : Lanes, episode : Nat]
  OBVIOUS
<1>2. PICK g \in Seq(G) : g = games
  BY <1>1 DEF RunAccounted, LanesTypeOK
<1>3. PICK n \in Nat : n = Len(g) /\ \A i \in 1..n : g[i] \in G
  BY <1>2, SeqHolds
<1>4. \A i \in 1..n : phase[g[i].lane] = "ack"
  BY <1>2, <1>3 DEF RunAccounted, GamesAwaited
<1>5. \A i, k \in 1..n : g[i].lane = g[k].lane => i = k
  BY <1>2, <1>3 DEF RunAccounted, GamesAwaited
<1>6. PICK f : f = [i \in 1..n |-> g[i].lane]
  OBVIOUS
<1>7. PICK T : T = Lanes \ {l}
  OBVIOUS
<1>8. f \in Injection(1..n, T)
  <2>1. ASSUME NEW i \in 1..n PROVE f[i] \in T
    <3>1. g[i].lane \in Lanes
      BY <1>1, <1>3
    <3>2. g[i].lane # l
      BY <1>4
    <3> QED BY <1>6, <1>7, <3>1, <3>2
  <2>2. f \in [1..n -> T]
    BY <1>6, <2>1
  <2> QED BY <1>5, <1>6, <2>2 DEF Injection, IsInjective
<1>9. IsFiniteSet(T) /\ Cardinality(T) = Cardinality(Lanes) - 1
  BY <1>7, LanesAssumption, FS_RemoveElement
<1>10. n <= Cardinality(T)
  <2>1. Cardinality(1..n) = n
    BY FS_Interval
  <2> QED BY <1>8, <1>9, <2>1, FS_Injection
<1>11. Cardinality(Lanes) <= WorkerCapacity
  <2>1. PICK c \in Nat : c = Cardinality(Lanes)
    BY Places
  <2>2. c * Workers >= c
    BY Places
  <2> QED BY <2>1, <2>2 DEF WorkerCapacity
<1> QED BY <1>2, <1>3, <1>9, <1>10, <1>11, Places, Capacities

(* No thread ever waits for room in a channel. *)
LEMMA RoomEverywhere ==
  ASSUME RunAccounted, WorkSound, JobsRouted
  PROVE  SendsNeverBlock
<1>1. ASSUME NEW l \in Lanes, phase[l] = "sending" PROVE Len(intake) < IntakeCapacity
  <2>1. outbox[l] # <<>>
    BY <1>1 DEF JobsRouted
  <2> QED BY <2>1, IntakeRoom
<1>2. ASSUME NEW l \in Lanes, phase[l] = "measures", outbox[l] # <<>>
      PROVE  Len(measures) < WorkerCapacity
  BY <1>2, MeasuresRoom
<1>3. ASSUME NEW l \in Lanes, Driven(l), completed[l] # <<>>
      PROVE  Len(games) < WorkerCapacity
  <2>1. phase[l] # "ack"
    BY <1>3 DEF Driven
  <2> QED BY <2>1, GamesRoom
<1>4. ASSUME NEW job \in tasks \cup Range(routing)
      PROVE  Len(replies[job.lane]) < ReplyCapacity
  <2>1. job \in Job
    BY StagesUnderWay DEF WorkSound, Awaiting
  <2>2. job.lane \in Lanes
    BY <2>1, JobView
  <2> QED BY <2>2, ReplyRoom
<1> QED BY <1>1, <1>2, <1>3, <1>4 DEF SendsNeverBlock

-----------------------------------------------------------------------------
(* What a step leaves as it was.                                           *)

(* A channel that does not change holds the same jobs. *)
LEMMA ChannelsSame ==
  /\ outbox' = outbox => /\ OutboxJobs' = OutboxJobs
                         /\ OutboxTyped => OutboxTyped'
                         /\ (\A l \in Lanes : IsInjective(outbox[l])) =>
                              \A l \in Lanes : IsInjective(outbox[l])'
  /\ intake' = intake => Range(intake)' = Range(intake)
  /\ inFlight' = inFlight => InFlightJobs' = InFlightJobs /\ (FlightOnce => FlightOnce')
  /\ routing' = routing => Range(routing)' = Range(routing)
  /\ measures' = measures => Range(measures)' = Range(measures)
  /\ replies' = replies => /\ RepliedJobs' = RepliedJobs
                           /\ (\A l \in Lanes : RepliesOnce(l)) => \A l \in Lanes : RepliesOnce(l)'
<1>1. ASSUME outbox' = outbox
      PROVE  /\ OutboxJobs' = OutboxJobs
             /\ OutboxTyped => OutboxTyped'
             /\ (\A l \in Lanes : IsInjective(outbox[l])) => \A l \in Lanes : IsInjective(outbox[l])'
  BY <1>1 DEF OutboxJobs, OutboxTyped
<1>2. ASSUME inFlight' = inFlight
      PROVE  InFlightJobs' = InFlightJobs /\ (FlightOnce => FlightOnce')
  BY <1>2 DEF InFlightJobs, FlightOnce
<1>3. ASSUME replies' = replies
      PROVE  /\ RepliedJobs' = RepliedJobs
             /\ (\A l \in Lanes : RepliesOnce(l)) => \A l \in Lanes : RepliesOnce(l)'
  BY <1>3 DEF RepliedJobs, RepliesOnce, Asked
<1>4. intake' = intake => Range(intake)' = Range(intake)
  OBVIOUS
<1>5. routing' = routing => Range(routing)' = Range(routing)
  OBVIOUS
<1>6. measures' = measures => Range(measures)' = Range(measures)
  OBVIOUS
<1> QED BY <1>1, <1>2, <1>3, <1>4, <1>5, <1>6

(* The awaiting of what is under way after a step. *)
LEMMA AwaitingNext ==
  ASSUME NEW V, V = UnderWay', Awaiting(V)'
  PROVE  Awaiting(UnderWay)'
BY DEF Awaiting, JobsAwaited, NothingLost, OneWork

(* A thread that has ended stays so. *)
LEMMA ThreadsStay ==
  ASSUME LanesTypeOK, [Next]_vars
  PROVE  (NoFailure' => NoFailure) /\ \A k \in Lanes : LaneEnded(k) => LaneEnded(k)'
<1>1. ASSUME NEW l \in Lanes, LaneStep(l)
      PROVE  /\ ~LaneEnded(l) /\ batcher' = batcher /\ gateway' = gateway /\ sink' = sink
             /\ phase' = phase \/ \E p : phase' = [phase EXCEPT ![l] = p]
  <2>1. CASE Admit(l) \/ TopFails(l) \/ DriveWave(l) \/ DriveMeasure(l) \/ DriveDone(l) \/ DriveFails(l)
    BY <2>1 DEF Admit, TopFails, DriveWave, DriveMeasure, DriveDone, DriveFails, FailLane, Goto,
                LaneEnded, Ended, batchVars, gatewayVars, sinkVars
  <2>2. CASE SendGame(l) \/ SendGameFails(l) \/ ReceiveAck(l) \/ ReceiveAckFails(l)
    BY <2>2 DEF SendGame, SendGameFails, ReceiveAck, ReceiveAckFails, FailLane, Goto, Driven,
                LaneEnded, Ended, batchVars, gatewayVars, sinkVars
  <2>3. CASE TakeEvals(l) \/ CountEval(l) \/ SendEval(l) \/ SendEvalFails(l)
    BY <2>3 DEF TakeEvals, CountEval, SendEval, SendEvalFails, FailLane, Goto, Driven,
                LaneEnded, Ended, batchVars, gatewayVars, sinkVars
  <2>4. CASE TakeMeasures(l) \/ SendMeasure(l) \/ SendMeasureFails(l)
    BY <2>4 DEF TakeMeasures, SendMeasure, SendMeasureFails, FailLane, Goto,
                LaneEnded, Ended, batchVars, gatewayVars, sinkVars
  <2>5. CASE EndRound(l)
    <3>1. PICK p : p = CASE exhausted[l] /\ Active(l) = {} -> "done"
                         [] Parked(l) # {}                 -> "wait"
                         [] OTHER                          -> "top"
      OBVIOUS
    <3>2. phase' = [phase EXCEPT ![l] = p]
      BY <2>5, <3>1 DEF EndRound, Goto
    <3> QED BY <2>5, <3>2 DEF EndRound, LaneEnded, Ended, batchVars, gatewayVars, sinkVars
  <2>6. CASE Resume(l) \/ ResumeFails(l) \/ Poll(l) \/ PollFails(l)
    BY <2>6 DEF Resume, ResumeFails, Poll, PollFails, FailLane, Goto,
                LaneEnded, Ended, batchVars, gatewayVars, sinkVars
  <2> QED BY <1>1, <2>1, <2>2, <2>3, <2>4, <2>5, <2>6 DEF LaneStep
<1>2. ASSUME NEW l \in Lanes, LaneStep(l)
      PROVE  (NoFailure' => NoFailure) /\ \A k \in Lanes : LaneEnded(k) => LaneEnded(k)'
  <2>1. \A k \in Lanes \ {l} : phase'[k] = phase[k]
    BY <1>1, <1>2 DEF LanesTypeOK
  <2>2. \A k \in Lanes : LaneEnded(k) => phase'[k] = phase[k]
    BY <1>1, <1>2, <2>1
  <2> QED BY <1>1, <1>2, <2>2 DEF NoFailure, LaneEnded, Ended
<1>3. ASSUME BatcherStep \/ GatewayStep \/ SinkStep \/ UNCHANGED vars
      PROVE  /\ phase' = phase /\ (batcher' = batcher \/ batcher = "running")
             /\ (gateway' = gateway \/ gateway = "running") /\ (sink' = sink \/ sink = "running")
  <2>1. CASE BatcherStep
    BY <2>1 DEF BatcherStep, Submit, Drain, Route, Account, BatcherFails, BatcherEnds,
                laneVars, gatewayVars, sinkVars
  <2>2. CASE GatewayStep
    BY <2>2 DEF GatewayStep, GatewayTakes, GatewayFails, GatewayEnds, GatewayAnswers,
                laneVars, batchVars, sinkVars
  <2>3. CASE SinkStep
    BY <2>3 DEF SinkStep, SinkAppends, SinkDrops, SinkFails, SinkEnds, laneVars, batchVars,
                gatewayVars
  <2>4. CASE UNCHANGED vars
    BY <2>4 DEF vars, laneVars, batchVars, gatewayVars, sinkVars
  <2> QED BY <1>3, <2>1, <2>2, <2>3, <2>4
<1>4. ASSUME BatcherStep \/ GatewayStep \/ SinkStep \/ UNCHANGED vars
      PROVE  (NoFailure' => NoFailure) /\ \A k \in Lanes : LaneEnded(k) => LaneEnded(k)'
  BY <1>3, <1>4 DEF NoFailure, LaneEnded
<1> QED BY <1>2, <1>4 DEF Next, Joined

(* A step that moves no job. *)
LEMMA NothingMoves ==
  ASSUME WorkSound, outbox' = outbox, intake' = intake, inFlight' = inFlight,
         routing' = routing, measures' = measures, tasks' = tasks, replies' = replies
  PROVE  ChannelsTypeOK' /\ Disjoint(Stages') /\ StagesOnce' /\ UnderWay' = UnderWay
<1>1. ChannelsTypeOK'
  BY ChannelsSame DEF WorkSound, ChannelsTypeOK
<1>2. \A a \in 1..7 : Stages'[a] = Stages[a]
  BY Seven, ChannelsSame, StagesView, StagesViewNext
<1>3. Disjoint(Stages')
  BY <1>2 DEF WorkSound, Disjoint
<1>4. UnderWay' = UnderWay
  BY <1>2, UnderWayParts DEF Together7
<1>5. StagesOnce'
  BY ChannelsSame DEF WorkSound, StagesOnce
<1> QED BY <1>1, <1>3, <1>4, <1>5

-----------------------------------------------------------------------------
(* The steps that move jobs.                                               *)

(* What a lane has not sent is one piece of work in each slot. *)
LEMMA UnsentOneWork ==
  ASSUME PoolTyped, AllSlotsWait, NEW l \in Lanes, NEW k \in {"eval", "measure"}
  PROVE  OneWork(UnsentJobs(l, k))
<1> SUFFICES ASSUME NEW i \in UnsentJobs(l, k), NEW j \in UnsentJobs(l, k), i.slot = j.slot
             PROVE  i.episode = j.episode /\ i.kind = j.kind /\ Together(i.kind, i.token, j.token)
  BY DEF OneWork
<1>1. PICK c : c = slots[l][i.slot]
  OBVIOUS
<1>2. /\ i.kind = k /\ i.token \in c.unsent /\ i.episode = c.episode /\ i.slot \in Slot
      /\ c.state = "parked" /\ c.kind = k
  BY <1>1, UnsentView
<1>3. j.kind = k /\ j.token \in c.unsent /\ j.episode = c.episode
  BY <1>1, UnsentView
<1>4. SlotWaits(c)
  BY <1>1, <1>2 DEF AllSlotsWait
<1>5. i.token \in c.waiting /\ j.token \in c.waiting /\ \A t, u \in c.waiting : Together(k, t, u)
  BY <1>2, <1>3, <1>4 DEF SlotWaits
<1> QED BY <1>2, <1>3, <1>5

(* A lane takes from its pool what it has not sent. *)
LEMMA TakeMoves ==
  ASSUME WorkSound, PoolTyped, NEW l \in Lanes, ~LaneEnded(l), outbox[l] = <<>>,
         NEW k \in {"eval", "measure"}, outbox' = [outbox EXCEPT ![l] = Unsent(l, k)],
         intake' = intake, inFlight' = inFlight, routing' = routing, measures' = measures,
         tasks' = tasks, replies' = replies
  PROVE  /\ ChannelsTypeOK' /\ Disjoint(Stages') /\ StagesOnce'
         /\ UnderWay' = UnderWay \cup UnsentJobs(l, k)
         /\ Range(outbox'[l]) = UnsentJobs(l, k) /\ \A m \in Lanes \ {l} : outbox'[m] = outbox[m]
<1>1. PICK M : M = UnsentJobs(l, k)
  OBVIOUS
<1>2. PICK s : s = Unsent(l, k)
  OBVIOUS
<1>3. OneWork(UnsentJobs(l, k)) /\ M \cap UnderWay = {}
  BY <1>1, UnsentOneWork, UnsentNew DEF WorkSound, Awaiting
<1>4. s \in Seq(Job) /\ IsInjective(s) /\ Range(s) = M
  BY <1>1, <1>2, <1>3, TakenOnce
<1>5. \A j \in M : j.lane = l
  BY <1>1, UnsentView
<1>6. outbox' = [outbox EXCEPT ![l] = s]
  BY <1>2
<1>7. OutboxTyped
  BY DEF WorkSound, ChannelsTypeOK
<1>8. /\ outbox'[l] = s /\ \A m \in Lanes \ {l} : outbox'[m] = outbox[m]
      /\ OutboxJobs' = (OutboxJobs \ Range(outbox[l])) \cup Range(s)
  BY <1>4, <1>5, <1>6, <1>7, OutboxChanges
<1>9. Range(outbox[l]) = {}
  BY DEF Range
<1>10. OutboxJobs' = OutboxJobs \cup M
  BY <1>4, <1>8, <1>9
<1>11. OutboxTyped'
  <2>1. outbox' \in [Lanes -> Seq(Job)]
    BY <1>4, <1>6, <1>7 DEF OutboxTyped
  <2>2. ASSUME NEW m \in Lanes, NEW j \in Range(outbox'[m]) PROVE j.lane = m
    <3>1. CASE m = l
      BY <1>4, <1>5, <1>8, <2>2, <3>1
    <3>2. CASE m # l
      BY <1>7, <1>8, <2>2, <3>2 DEF OutboxTyped
    <3> QED BY <3>1, <3>2
  <2> QED BY <2>1, <2>2 DEF OutboxTyped
<1>12. Stages'[1] = Stages[1] \cup M
  BY <1>10, StagesView, StagesViewNext
<1>13. \A a \in 1..7 \ {1} : Stages'[a] = Stages[a]
  BY Seven, ChannelsSame, StagesView, StagesViewNext
<1>14. Disjoint(Stages) /\ M \cap Together7(Stages) = {}
  BY <1>3, UnderWayParts DEF WorkSound
<1>15. PICK P : P = Stages
  OBVIOUS
<1>16. PICK Q : Q = Stages'
  OBVIOUS
<1>19. Disjoint(Q) /\ Together7(Q) = Together7(P) \cup M
  <2>1. Disjoint(P) /\ M \cap Together7(P) = {}
    BY <1>14, <1>15
  <2>2. Q[1] = P[1] \cup M /\ \A a \in 1..7 \ {1} : Q[a] = P[a]
    BY <1>12, <1>13, <1>15, <1>16
  <2>3. 1 \in 1..7
    OBVIOUS
  <2> QED BY ONLY <2>1, <2>2, <2>3, AddStages
<1>17. ChannelsTypeOK'
  BY <1>11, ChannelsSame DEF WorkSound, ChannelsTypeOK
<1>18. StagesOnce'
  <2>1. \A m \in Lanes : IsInjective(outbox[m])'
    BY <1>4, <1>8 DEF WorkSound, StagesOnce
  <2> QED BY <2>1, ChannelsSame DEF WorkSound, StagesOnce
<1> QED BY <1>1, <1>4, <1>8, <1>15, <1>16, <1>17, <1>18, <1>19, UnderWayParts

(* Jobs that go from one stage to another are under way as before. *)
LEMMA JobsMove ==
  ASSUME Disjoint(Stages), NEW f \in 1..7, NEW t \in 1..7, f # t, NEW M, M \in SUBSET Stages[f],
         Stages'[f] = Stages[f] \ M, Stages'[t] = Stages[t] \cup M,
         \A a \in 1..7 \ {f, t} : Stages'[a] = Stages[a]
  PROVE  Disjoint(Stages') /\ UnderWay' = UnderWay
<1>1. PICK P : P = Stages
  OBVIOUS
<1>2. PICK Q : Q = Stages'
  OBVIOUS
<1>3. Disjoint(P) /\ M \in SUBSET P[f] /\ Q[f] = P[f] \ M /\ Q[t] = P[t] \cup M
  BY <1>1, <1>2
<1>4. \A a \in 1..7 \ {f, t} : Q[a] = P[a]
  BY <1>1, <1>2
<1>5. Disjoint(Q) /\ Together7(Q) = Together7(P)
  BY ONLY <1>3, <1>4, f \in 1..7, t \in 1..7, f # t, MoveStages
<1>6. Disjoint(Stages')
  BY ONLY <1>2, <1>5
<1>7. UnderWay = Together7(P) /\ UnderWay' = Together7(Q)
  BY ONLY <1>1, <1>2, UnderWayParts
<1> QED BY ONLY <1>5, <1>6, <1>7

(* Jobs that leave a stage are not under way any more. *)
LEMMA JobsGo ==
  ASSUME Disjoint(Stages), NEW f \in 1..7, NEW M, M \in SUBSET Stages[f],
         Stages'[f] = Stages[f] \ M, \A a \in 1..7 \ {f} : Stages'[a] = Stages[a]
  PROVE  Disjoint(Stages') /\ UnderWay' = UnderWay \ M
<1>1. PICK P : P = Stages
  OBVIOUS
<1>2. PICK Q : Q = Stages'
  OBVIOUS
<1>3. Disjoint(P) /\ M \in SUBSET P[f] /\ Q[f] = P[f] \ M
  BY <1>1, <1>2
<1>4. \A a \in 1..7 \ {f} : Q[a] = P[a]
  BY <1>1, <1>2
<1>5. Disjoint(Q) /\ Together7(Q) = Together7(P) \ M
  <2>1. \A a \in 1..7 \ {f} : M \cap P[a] = {}
    BY ONLY <1>3, f \in 1..7 DEF Disjoint
  <2>2. \A a \in 1..7 : Q[a] = P[a] \ M
    BY ONLY <1>3, <1>4, <2>1
  <2>3. Disjoint(Q)
    BY ONLY <1>3, <2>2 DEF Disjoint
  <2>4. Together7(Q) = Together7(P) \ M
    BY ONLY <2>2 DEF Together7
  <2> QED BY ONLY <2>3, <2>4
<1>6. Disjoint(Stages')
  BY ONLY <1>2, <1>5
<1>7. UnderWay = Together7(P) /\ UnderWay' = Together7(Q)
  BY ONLY <1>1, <1>2, UnderWayParts
<1> QED BY ONLY <1>5, <1>6, <1>7

(* Fewer jobs are under way. *)
LEMMA JobsShrink ==
  ASSUME Disjoint(Stages), \A a \in 1..7 : Stages'[a] \in SUBSET Stages[a]
  PROVE  Disjoint(Stages') /\ UnderWay' \in SUBSET UnderWay
<1>1. PICK P : P = Stages
  OBVIOUS
<1>2. PICK Q : Q = Stages'
  OBVIOUS
<1>3. Disjoint(P) /\ \A a \in 1..7 : Q[a] \in SUBSET P[a]
  BY <1>1, <1>2
<1>4. Disjoint(Q) /\ Together7(Q) \in SUBSET Together7(P)
  BY ONLY <1>3, ShrinkStages
<1>5. Disjoint(Stages')
  BY ONLY <1>2, <1>4
<1>6. UnderWay = Together7(P) /\ UnderWay' = Together7(Q)
  BY ONLY <1>1, <1>2, UnderWayParts
<1> QED BY ONLY <1>4, <1>5, <1>6

(* A lane sends an evaluation to the batcher. *)
LEMMA SendEvalMoves ==
  ASSUME WorkSound, NEW l \in Lanes, outbox[l] # <<>>,
         outbox' = [outbox EXCEPT ![l] = Tail(outbox[l])],
         intake' = Append(intake, Head(outbox[l])), inFlight' = inFlight, routing' = routing,
         measures' = measures, tasks' = tasks, replies' = replies
  PROVE  /\ ChannelsTypeOK' /\ Disjoint(Stages') /\ StagesOnce' /\ UnderWay' = UnderWay
         /\ Range(outbox'[l]) \in SUBSET Range(outbox[l])
         /\ \A m \in Lanes \ {l} : outbox'[m] = outbox[m]
         /\ Range(intake') = Range(intake) \cup {Head(outbox[l])} /\ Len(intake') = Len(intake) + 1
<1>1. PICK h : h = Head(outbox[l])
  OBVIOUS
<1>2. OutboxTyped /\ IsInjective(outbox[l]) /\ \A m \in Lanes : IsInjective(outbox[m])
  BY DEF WorkSound, ChannelsTypeOK, StagesOnce
<1>3. /\ h \in Job /\ h.lane = l /\ h \in OutboxJobs /\ OutboxJobs' = OutboxJobs \ {h}
      /\ outbox'[l] \in Seq(Job) /\ IsInjective(outbox'[l])
      /\ Range(outbox[l]) = Range(outbox'[l]) \cup {h}
      /\ \A k \in Lanes \ {l} : outbox'[k] = outbox[k]
      /\ OutboxTyped'
  BY <1>1, <1>2, OutboxSends
<1>4. PICK s \in Seq(Job) : s = intake
  BY DEF WorkSound, ChannelsTypeOK
<1>5. PICK t : t = intake'
  OBVIOUS
<1>6. t = Append(s, h)
  BY <1>1, <1>4, <1>5
<1>7. /\ t \in Seq(Job) /\ Len(t) = Len(s) + 1 /\ Range(t) = Range(s) \cup {h}
      /\ IsInjective(s) /\ h \notin Range(s) => IsInjective(t)
  <2>1. h \in Job
    BY <1>3
  <2>2. t \in Seq(Job) /\ Len(t) = Len(s) + 1
    BY ONLY <1>6, <2>1, s \in Seq(Job), AppendedView
  <2>3. t[Len(s) + 1] = h /\ \A i \in 1..Len(s) : t[i] = s[i]
    BY ONLY <1>6, <2>1, s \in Seq(Job), AppendedView
  <2>6. ASSUME NEW y PROVE y \in Range(t) <=> y \in Range(s) \/ y = h
    BY ONLY <2>1, <2>2, <2>3, s \in Seq(Job), AppendedHolds
  <2>4. Range(t) = Range(s) \cup {h}
    BY <2>6
  <2>5. IsInjective(s) /\ h \notin Range(s) => IsInjective(t)
    BY ONLY <2>1, <2>2, <2>3, s \in Seq(Job), AppendedHolds
  <2> QED BY ONLY <2>2, <2>4, <2>5
<1>8. h \notin Range(s) /\ IsInjective(s)
  BY <1>3, <1>4, StagesApart DEF WorkSound, StagesOnce
<1>9. Stages'[1] = Stages[1] \ {h} /\ {h} \in SUBSET Stages[1]
  BY <1>3, StagesView, StagesViewNext
<1>10. Stages'[2] = Stages[2] \cup {h}
  BY <1>4, <1>5, <1>7, StagesView, StagesViewNext
<1>11. \A a \in 1..7 \ {1, 2} : Stages'[a] = Stages[a]
  BY Seven, ChannelsSame, StagesView, StagesViewNext
<1>12. Disjoint(Stages') /\ UnderWay' = UnderWay
  <2>1. Disjoint(Stages) /\ 1 \in 1..7 /\ 2 \in 1..7 /\ 1 # 2
    BY DEF WorkSound
  <2> QED BY <1>9, <1>10, <1>11, <2>1, JobsMove
<1>13. ChannelsTypeOK'
  BY <1>3, <1>5, <1>7, ChannelsSame DEF WorkSound, ChannelsTypeOK
<1>14. StagesOnce'
  <2>1. \A m \in Lanes : IsInjective(outbox[m])'
    BY <1>2, <1>3
  <2>2. IsInjective(intake)'
    BY <1>5, <1>7, <1>8
  <2> QED BY <2>1, <2>2, ChannelsSame DEF WorkSound, StagesOnce
<1>15. Range(intake') = Range(intake) \cup {Head(outbox[l])} /\ Len(intake') = Len(intake) + 1
  BY <1>1, <1>4, <1>5, <1>7
<1> QED BY <1>3, <1>12, <1>13, <1>14, <1>15

(* A lane sends a measurement to the gateway. *)
LEMMA SendMeasureMoves ==
  ASSUME WorkSound, NEW l \in Lanes, outbox[l] # <<>>,
         outbox' = [outbox EXCEPT ![l] = Tail(outbox[l])],
         measures' = Append(measures, Head(outbox[l])), inFlight' = inFlight, routing' = routing,
         intake' = intake, tasks' = tasks, replies' = replies
  PROVE  /\ ChannelsTypeOK' /\ Disjoint(Stages') /\ StagesOnce' /\ UnderWay' = UnderWay
         /\ Range(outbox'[l]) \in SUBSET Range(outbox[l])
         /\ \A m \in Lanes \ {l} : outbox'[m] = outbox[m]
         /\ Range(measures') = Range(measures) \cup {Head(outbox[l])}
<1>1. PICK h : h = Head(outbox[l])
  OBVIOUS
<1>2. OutboxTyped /\ IsInjective(outbox[l]) /\ \A m \in Lanes : IsInjective(outbox[m])
  BY DEF WorkSound, ChannelsTypeOK, StagesOnce
<1>3. /\ h \in Job /\ h.lane = l /\ h \in OutboxJobs /\ OutboxJobs' = OutboxJobs \ {h}
      /\ outbox'[l] \in Seq(Job) /\ IsInjective(outbox'[l])
      /\ Range(outbox[l]) = Range(outbox'[l]) \cup {h}
      /\ \A k \in Lanes \ {l} : outbox'[k] = outbox[k]
      /\ OutboxTyped'
  BY <1>1, <1>2, OutboxSends
<1>4. PICK s \in Seq(Job) : s = measures
  BY DEF WorkSound, ChannelsTypeOK
<1>5. PICK t : t = measures'
  OBVIOUS
<1>6. t = Append(s, h)
  BY <1>1, <1>4, <1>5
<1>7. /\ t \in Seq(Job) /\ Range(t) = Range(s) \cup {h}
      /\ IsInjective(s) /\ h \notin Range(s) => IsInjective(t)
  <2>1. h \in Job
    BY <1>3
  <2>2. t \in Seq(Job) /\ Len(t) = Len(s) + 1
    BY ONLY <1>6, <2>1, s \in Seq(Job), AppendedView
  <2>3. t[Len(s) + 1] = h /\ \A i \in 1..Len(s) : t[i] = s[i]
    BY ONLY <1>6, <2>1, s \in Seq(Job), AppendedView
  <2>6. ASSUME NEW y PROVE y \in Range(t) <=> y \in Range(s) \/ y = h
    BY ONLY <2>1, <2>2, <2>3, s \in Seq(Job), AppendedHolds
  <2>4. Range(t) = Range(s) \cup {h}
    BY <2>6
  <2>5. IsInjective(s) /\ h \notin Range(s) => IsInjective(t)
    BY ONLY <2>1, <2>2, <2>3, s \in Seq(Job), AppendedHolds
  <2> QED BY ONLY <2>2, <2>4, <2>5
<1>8. h \notin Range(s) /\ IsInjective(s)
  BY <1>3, <1>4, StagesApart DEF WorkSound, StagesOnce
<1>9. Stages'[1] = Stages[1] \ {h} /\ {h} \in SUBSET Stages[1]
  BY <1>3, StagesView, StagesViewNext
<1>10. Stages'[5] = Stages[5] \cup {h}
  BY <1>4, <1>5, <1>7, StagesView, StagesViewNext
<1>11. \A a \in 1..7 \ {1, 5} : Stages'[a] = Stages[a]
  BY Seven, ChannelsSame, StagesView, StagesViewNext
<1>12. Disjoint(Stages') /\ UnderWay' = UnderWay
  <2>1. Disjoint(Stages) /\ 1 \in 1..7 /\ 5 \in 1..7 /\ 1 # 5
    BY DEF WorkSound
  <2> QED BY <1>9, <1>10, <1>11, <2>1, JobsMove
<1>13. ChannelsTypeOK'
  BY <1>3, <1>5, <1>7, ChannelsSame DEF WorkSound, ChannelsTypeOK
<1>14. StagesOnce'
  <2>1. \A m \in Lanes : IsInjective(outbox[m])'
    BY <1>2, <1>3
  <2>2. IsInjective(measures)'
    BY <1>5, <1>7, <1>8
  <2> QED BY <2>1, <2>2, ChannelsSame DEF WorkSound, StagesOnce
<1>15. Range(measures') = Range(measures) \cup {Head(outbox[l])}
  BY <1>1, <1>4, <1>5, <1>7
<1> QED BY <1>3, <1>12, <1>13, <1>14, <1>15

(* The batcher submits the first jobs that it has received. *)
LEMMA SubmitMoves ==
  ASSUME WorkSound, NEW n \in 1..Len(intake), NEW a, a = SubSeq(intake, 1, n),
         inFlight' = Append(inFlight, a), intake' = SubSeq(intake, n + 1, Len(intake)),
         outbox' = outbox, routing' = routing, measures' = measures, tasks' = tasks,
         replies' = replies
  PROVE  /\ ChannelsTypeOK' /\ Disjoint(Stages') /\ StagesOnce' /\ UnderWay' = UnderWay
         /\ a \in Seq(Job) /\ IsInjective(a) /\ Len(a) = n /\ Range(a) \in SUBSET Range(intake)
         /\ Range(a) \cap InFlightJobs = {} /\ InFlightJobs' = InFlightJobs \cup Range(a)
         /\ Len(intake') = Len(intake) - n /\ Range(intake') \in SUBSET Range(intake)
<1>1. PICK s \in Seq(Job) : s = intake
  BY DEF WorkSound, ChannelsTypeOK
<1>2. n \in Nat /\ Len(s) - n \in Nat /\ n \in 1..Len(s)
  BY <1>1, SeqHolds
<1>3. PICK b : b = SubSeq(s, n + 1, Len(s))
  OBVIOUS
<1>4. intake' = b /\ a = SubSeq(s, 1, n)
  BY <1>1, <1>3
<1>5. a \in Seq(Job) /\ Len(a) = n /\ b \in Seq(Job) /\ Len(b) = Len(s) - n
  BY ONLY <1>2, <1>3, <1>4, s \in Seq(Job), SplitPlaces
<1>6. (\A i \in 1..n : a[i] = s[i]) /\ \A i \in 1..(Len(s) - n) : b[i] = s[i + n]
  BY ONLY <1>2, <1>3, <1>4, s \in Seq(Job), SplitPlaces
<1>7. Len(s) = Len(a) + Len(b)
  BY <1>2, <1>5, SeqHolds
<1>8. (\A i \in 1..Len(a) : a[i] = s[i]) /\ \A i \in 1..Len(b) : b[i] = s[i + Len(a)]
  BY <1>5, <1>6
<1>9. Splits(Job, s, a, b)
  BY <1>5, <1>7, <1>8 DEF Splits
<1>11. Range(s) = Range(a) \cup Range(b)
  <2>1. ASSUME NEW y PROVE y \in Range(s) <=> y \in Range(a) \/ y \in Range(b)
    BY ONLY <1>9, SplitHolds
  <2> QED BY <2>1
<1>12. IsInjective(s) => IsInjective(a) /\ IsInjective(b) /\ Range(a) \cap Range(b) = {}
  BY ONLY <1>9, SplitHolds
<1>13. IsInjective(s) /\ Range(s) \cap InFlightJobs = {}
  BY <1>1, StagesApart DEF WorkSound, StagesOnce
<1>14. IsInjective(a) /\ IsInjective(b) /\ Range(a) \cap Range(b) = {} /\ Range(a) \cap InFlightJobs = {}
  BY <1>11, <1>12, <1>13
<1>15. inFlight \in Seq(Seq(Job)) /\ FlightOnce
  BY DEF WorkSound, ChannelsTypeOK, StagesOnce
<1>16. /\ inFlight' \in Seq(Seq(Job)) /\ FlightOnce' /\ InFlightJobs' = InFlightJobs \cup Range(a)
  BY <1>5, <1>14, <1>15, BatchAdded
<1>17. Stages'[2] = Stages[2] \ Range(a) /\ Range(a) \in SUBSET Stages[2]
  BY <1>1, <1>4, <1>11, <1>14, StagesView, StagesViewNext
<1>18. Stages'[3] = Stages[3] \cup Range(a)
  BY <1>16, StagesView, StagesViewNext
<1>19. \A c \in 1..7 \ {2, 3} : Stages'[c] = Stages[c]
  BY Seven, ChannelsSame, StagesView, StagesViewNext
<1>20. Disjoint(Stages') /\ UnderWay' = UnderWay
  <2>1. Disjoint(Stages) /\ 2 \in 1..7 /\ 3 \in 1..7 /\ 2 # 3
    BY DEF WorkSound
  <2> QED BY <1>17, <1>18, <1>19, <2>1, JobsMove
<1>21. ChannelsTypeOK'
  BY <1>4, <1>5, <1>16, ChannelsSame DEF WorkSound, ChannelsTypeOK
<1>22. StagesOnce'
  BY <1>4, <1>14, <1>16, ChannelsSame DEF WorkSound, StagesOnce
<1>23. Len(intake') = Len(intake) - n /\ Range(intake') \in SUBSET Range(intake)
  BY <1>1, <1>4, <1>5, <1>11
<1>24. Range(a) \in SUBSET Range(intake)
  BY <1>1, <1>11
<1> QED BY <1>5, <1>14, <1>16, <1>20, <1>21, <1>22, <1>23, <1>24

(* The batcher takes the oldest batch. *)
LEMMA DrainMoves ==
  ASSUME WorkSound, inFlight # <<>>, routing = <<>>, NEW b, b = Head(inFlight), routing' = b,
         inFlight' = Tail(inFlight), intake' = intake, outbox' = outbox, measures' = measures,
         tasks' = tasks, replies' = replies
  PROVE  /\ ChannelsTypeOK' /\ Disjoint(Stages') /\ StagesOnce' /\ UnderWay' = UnderWay
         /\ b \in Seq(Job) /\ IsInjective(b) /\ Range(b) \in SUBSET InFlightJobs
         /\ InFlightJobs' = InFlightJobs \ Range(b)
         /\ 1 \in DOMAIN inFlight /\ b = inFlight[1]
         /\ \A i \in DOMAIN inFlight' : \E k \in DOMAIN inFlight : inFlight'[i] = inFlight[k]
<1>1. inFlight \in Seq(Seq(Job)) /\ FlightOnce
  BY DEF WorkSound, ChannelsTypeOK, StagesOnce
<1>2. /\ inFlight' \in Seq(Seq(Job)) /\ FlightOnce' /\ b \in Seq(Job) /\ IsInjective(b)
      /\ Range(b) \in SUBSET InFlightJobs /\ InFlightJobs' = InFlightJobs \ Range(b)
      /\ 1 \in DOMAIN inFlight /\ b = inFlight[1]
      /\ \A i \in DOMAIN inFlight' : \E k \in DOMAIN inFlight : inFlight'[i] = inFlight[k]
  BY <1>1, BatchTaken
<1>3. Range(routing) = {} /\ Range(routing') = Range(b)
  BY DEF Range
<1>4. Stages'[3] = Stages[3] \ Range(b) /\ Range(b) \in SUBSET Stages[3]
  BY <1>2, StagesView, StagesViewNext
<1>5. Stages'[4] = Stages[4] \cup Range(b)
  BY <1>3, StagesView, StagesViewNext
<1>6. \A c \in 1..7 \ {3, 4} : Stages'[c] = Stages[c]
  BY Seven, ChannelsSame, StagesView, StagesViewNext
<1>7. Disjoint(Stages') /\ UnderWay' = UnderWay
  <2>1. Disjoint(Stages) /\ 3 \in 1..7 /\ 4 \in 1..7 /\ 3 # 4
    BY DEF WorkSound
  <2> QED BY <1>4, <1>5, <1>6, <2>1, JobsMove
<1>8. ChannelsTypeOK'
  BY <1>2, ChannelsSame DEF WorkSound, ChannelsTypeOK
<1>9. StagesOnce'
  BY <1>2, ChannelsSame DEF WorkSound, StagesOnce
<1> QED BY <1>2, <1>7, <1>8, <1>9

(* The head of a sequence of jobs, and the others. *)
LEMMA JobsShift ==
  ASSUME NEW s \in Seq(Job), s # <<>>, NEW t, t = Tail(s), NEW x, x = Head(s)
  PROVE  /\ t \in Seq(Job) /\ x \in Job /\ Range(s) = Range(t) \cup {x} /\ x \in Range(s)
         /\ IsInjective(s) => IsInjective(t) /\ x \notin Range(t)
         /\ Len(s) = Len(t) + 1
<1>1. PICK S : S = Job
  OBVIOUS
<1>2. s \in Seq(S) /\ s # <<>> /\ t = Tail(s) /\ x = Head(s)
  BY <1>1
<1>3. t \in Seq(S) /\ x \in S /\ Len(s) = Len(t) + 1
  BY ONLY <1>2, ShiftedHolds
<1>6. ASSUME NEW y PROVE y \in Range(s) <=> y \in Range(t) \/ y = x
  BY ONLY <1>2, ShiftedHolds
<1>4. Range(s) = Range(t) \cup {x}
  BY <1>6
<1>5. IsInjective(s) => IsInjective(t) /\ x \notin Range(t)
  BY ONLY <1>2, ShiftedHolds
<1> QED BY <1>1, <1>3, <1>4, <1>5

(* The gateway takes a measurement. *)
LEMMA GatewayTakesMoves ==
  ASSUME WorkSound, measures # <<>>, tasks' = tasks \cup {Head(measures)},
         measures' = Tail(measures), intake' = intake, outbox' = outbox, inFlight' = inFlight,
         routing' = routing, replies' = replies
  PROVE  /\ ChannelsTypeOK' /\ Disjoint(Stages') /\ StagesOnce' /\ UnderWay' = UnderWay
         /\ Range(measures') \in SUBSET Range(measures) /\ Head(measures) \in Range(measures)
<1>1. PICK s \in Seq(Job) : s = measures /\ s # <<>>
  BY DEF WorkSound, ChannelsTypeOK
<1>2. PICK x : x = Head(s)
  OBVIOUS
<1>3. PICK t : t = Tail(s)
  OBVIOUS
<1>4. t \in Seq(Job) /\ x \in Job
  BY <1>1, <1>2, <1>3, JobsShift
<1>5. Range(s) = Range(t) \cup {x} /\ x \in Range(s)
  BY <1>1, <1>2, <1>3, JobsShift
<1>6. IsInjective(s) => IsInjective(t) /\ x \notin Range(t)
  BY <1>1, <1>2, <1>3, JobsShift
<1>7. IsInjective(s)
  BY <1>1 DEF WorkSound, StagesOnce
<1>8. measures' = t /\ tasks' = tasks \cup {x}
  BY <1>1, <1>2, <1>3
<1>9. Stages'[5] = Stages[5] \ {x} /\ {x} \in SUBSET Stages[5]
  BY <1>1, <1>5, <1>6, <1>7, <1>8, StagesView, StagesViewNext
<1>10. Stages'[6] = Stages[6] \cup {x}
  BY <1>8, StagesView, StagesViewNext
<1>11. \A c \in 1..7 \ {5, 6} : Stages'[c] = Stages[c]
  BY Seven, ChannelsSame, StagesView, StagesViewNext
<1>12. Disjoint(Stages') /\ UnderWay' = UnderWay
  <2>1. Disjoint(Stages) /\ 5 \in 1..7 /\ 6 \in 1..7 /\ 5 # 6
    BY DEF WorkSound
  <2>2. PICK f \in 1..7 : f = 5
    BY <2>1
  <2>3. PICK t7 \in 1..7 : t7 = 6
    BY <2>1
  <2>4. PICK M : M = {x}
    OBVIOUS
  <2>5. /\ Stages'[f] = Stages[f] \ M /\ M \in SUBSET Stages[f] /\ Stages'[t7] = Stages[t7] \cup M
        /\ f # t7 /\ Disjoint(Stages)
    BY <1>9, <1>10, <2>1, <2>2, <2>3, <2>4
  <2>6. \A c \in 1..7 \ {f, t7} : Stages'[c] = Stages[c]
    BY <1>11, <2>2, <2>3
  <2> QED BY ONLY <2>5, <2>6, f \in 1..7, t7 \in 1..7, JobsMove
<1>13. ChannelsTypeOK'
  BY <1>4, <1>8, ChannelsSame DEF WorkSound, ChannelsTypeOK
<1>14. StagesOnce'
  BY <1>6, <1>7, <1>8, ChannelsSame DEF WorkSound, StagesOnce
<1> QED BY <1>1, <1>2, <1>5, <1>8, <1>12, <1>13, <1>14

(* The reply to a job joins those that its lane has not taken, unless the lane has ended. *)
LEMMA ReplyEffect ==
  ASSUME WorkSound, NEW j \in Job, j \notin RepliedJobs, NEW ok \in BOOLEAN,
         Reply(j.lane, Answer(j, ok))
  PROVE  /\ replies' \in [Lanes -> Seq(Answers)] /\ \A k \in Lanes : RepliesOnce(k)'
         /\ \/ LaneEnded(j.lane) /\ RepliedJobs' = RepliedJobs
            \/ RepliedJobs' = RepliedJobs \cup {j}
<1>1. replies \in [Lanes -> Seq(Answers)] /\ \A k \in Lanes : RepliesOnce(k)
  BY DEF WorkSound, ChannelsTypeOK, StagesOnce
<1>2. CASE LaneEnded(j.lane)
  <2>1. replies' = replies
    BY <1>2 DEF Reply
  <2> QED BY <1>1, <1>2, <2>1, ChannelsSame
<1>3. CASE ~LaneEnded(j.lane)
  <2>1. PICK l \in Lanes : l = j.lane
    BY JobView
  <2>2. PICK r : r = Answer(j, ok)
    OBVIOUS
  <2>3. r \in Answers
    BY <2>2, JobView DEF Answer, Answers
  <2>4. PICK i : i = Asked(l, r)
    OBVIOUS
  <2>5. i = j
    <3>1. /\ r.slot = j.slot /\ r.token = j.token /\ r.episode = j.episode /\ r.kind = j.kind
      BY <2>2 DEF Answer
    <3>2. i = [lane |-> j.lane, slot |-> j.slot, token |-> j.token, episode |-> j.episode,
               kind |-> j.kind]
      BY <2>1, <2>4, <3>1 DEF Asked
    <3> QED BY <3>2 DEF Job
  <2>6. replies' = [replies EXCEPT ![l] = Append(replies[l], r)]
    BY <1>3, <2>1, <2>2 DEF Reply
  <2>7. j = Asked(l, r)
    BY <2>4, <2>5
  <2>8. /\ replies' \in [Lanes -> Seq(Answers)] /\ \A k \in Lanes : RepliesOnce(k)'
        /\ RepliedJobs' = RepliedJobs \cup {j}
    BY ONLY <1>1, <2>3, <2>6, <2>7, l \in Lanes, j \notin RepliedJobs, ReplySent
  <2> QED BY <2>8
<1> QED BY <1>2, <1>3

(* The batcher answers the first job of the batch. *)
LEMMA RouteMoves ==
  ASSUME WorkSound, routing # <<>>, NEW j, j = Head(routing), routing' = Tail(routing),
         Reply(j.lane, Answer(j, TRUE)), outbox' = outbox, intake' = intake, inFlight' = inFlight,
         measures' = measures, tasks' = tasks
  PROVE  /\ ChannelsTypeOK' /\ Disjoint(Stages') /\ StagesOnce' /\ j \in UnderWay
         /\ \/ UnderWay' = UnderWay
            \/ LaneEnded(j.lane) /\ UnderWay' = UnderWay \ {j}
         /\ Range(routing') \in SUBSET Range(routing) /\ Len(routing) = Len(routing') + 1
<1>1. PICK s \in Seq(Job) : s = routing /\ s # <<>>
  BY DEF WorkSound, ChannelsTypeOK
<1>2. PICK t : t = Tail(s)
  OBVIOUS
<1>3. j = Head(s) /\ t = routing'
  BY <1>1, <1>2
<1>4. t \in Seq(Job) /\ j \in Job /\ Range(s) = Range(t) \cup {j} /\ j \in Range(s) /\ Len(s) = Len(t) + 1
  BY <1>1, <1>2, <1>3, JobsShift
<1>5. IsInjective(s) => IsInjective(t) /\ j \notin Range(t)
  BY <1>1, <1>2, <1>3, JobsShift
<1>6. IsInjective(s)
  BY <1>1 DEF WorkSound, StagesOnce
<1>7. j \notin RepliedJobs
  BY <1>1, <1>4, StagesApart DEF WorkSound
<1>8. /\ replies' \in [Lanes -> Seq(Answers)] /\ \A k \in Lanes : RepliesOnce(k)'
      /\ \/ LaneEnded(j.lane) /\ RepliedJobs' = RepliedJobs
         \/ RepliedJobs' = RepliedJobs \cup {j}
  BY <1>4, <1>7, ReplyEffect
<1>9. PICK M : M = {j}
  OBVIOUS
<1>10. Stages'[4] = Stages[4] \ M /\ M \in SUBSET Stages[4]
  BY <1>1, <1>3, <1>4, <1>5, <1>6, <1>9, StagesView, StagesViewNext
<1>11. \A c \in 1..7 \ {4, 7} : Stages'[c] = Stages[c]
  BY Seven, ChannelsSame, StagesView, StagesViewNext
<1>12. PICK f \in 1..7 : f = 4
  OBVIOUS
<1>13. PICK u \in 1..7 : u = 7
  OBVIOUS
<1>14. /\ Stages'[f] = Stages[f] \ M /\ M \in SUBSET Stages[f] /\ f # u /\ Disjoint(Stages)
       /\ \A c \in 1..7 \ {f, u} : Stages'[c] = Stages[c]
  BY <1>10, <1>11, <1>12, <1>13 DEF WorkSound
<1>15. ASSUME RepliedJobs' = RepliedJobs \cup {j} PROVE Disjoint(Stages') /\ UnderWay' = UnderWay
  <2>1. Stages'[u] = Stages[u] \cup M
    BY <1>9, <1>13, <1>15, StagesView, StagesViewNext
  <2> QED BY ONLY <1>14, <2>1, f \in 1..7, u \in 1..7, JobsMove
<1>16. ASSUME LaneEnded(j.lane) /\ RepliedJobs' = RepliedJobs
       PROVE  Disjoint(Stages') /\ UnderWay' = UnderWay \ {j}
  <2>1. Stages'[u] = Stages[u]
    BY <1>13, <1>16, StagesView, StagesViewNext
  <2>2. \A c \in 1..7 \ {f} : Stages'[c] = Stages[c]
    BY <1>14, <2>1
  <2>3. Disjoint(Stages') /\ UnderWay' = UnderWay \ M
    BY ONLY <1>14, <2>2, f \in 1..7, JobsGo
  <2> QED BY <1>9, <2>3
<1>17. Disjoint(Stages') /\ (UnderWay' = UnderWay \/ (LaneEnded(j.lane) /\ UnderWay' = UnderWay \ {j}))
  <2>1. CASE RepliedJobs' = RepliedJobs \cup {j}
    BY <1>15, <2>1
  <2>2. CASE LaneEnded(j.lane) /\ RepliedJobs' = RepliedJobs
    BY <1>9, <1>16, <2>2
  <2> QED BY <1>8, <2>1, <2>2
<1>18. ChannelsTypeOK'
  BY <1>3, <1>4, <1>8, ChannelsSame DEF WorkSound, ChannelsTypeOK
<1>19. StagesOnce'
  BY <1>3, <1>5, <1>6, <1>8, ChannelsSame DEF WorkSound, StagesOnce
<1>20. j \in UnderWay
  BY <1>1, <1>4, StagesUnderWay
<1> QED BY <1>1, <1>3, <1>4, <1>17, <1>18, <1>19, <1>20

(* The gateway answers a measurement. *)
LEMMA AnswerMoves ==
  ASSUME WorkSound, NEW j \in tasks, NEW ok \in BOOLEAN, tasks' = tasks \ {j},
         Reply(j.lane, Answer(j, ok)), outbox' = outbox, intake' = intake, inFlight' = inFlight,
         measures' = measures, routing' = routing
  PROVE  /\ ChannelsTypeOK' /\ Disjoint(Stages') /\ StagesOnce' /\ j \in UnderWay
         /\ \/ UnderWay' = UnderWay
            \/ LaneEnded(j.lane) /\ UnderWay' = UnderWay \ {j}
<1>1. j \in Job /\ tasks \in SUBSET Job
  BY DEF WorkSound, ChannelsTypeOK
<1>7. j \notin RepliedJobs
  BY StagesApart DEF WorkSound
<1>8. /\ replies' \in [Lanes -> Seq(Answers)] /\ \A k \in Lanes : RepliesOnce(k)'
      /\ \/ LaneEnded(j.lane) /\ RepliedJobs' = RepliedJobs
         \/ RepliedJobs' = RepliedJobs \cup {j}
  BY <1>1, <1>7, ReplyEffect
<1>9. PICK M : M = {j}
  OBVIOUS
<1>10. Stages'[6] = Stages[6] \ M /\ M \in SUBSET Stages[6]
  BY <1>9, StagesView, StagesViewNext
<1>11. \A c \in 1..7 \ {6, 7} : Stages'[c] = Stages[c]
  BY Seven, ChannelsSame, StagesView, StagesViewNext
<1>12. PICK f \in 1..7 : f = 6
  OBVIOUS
<1>13. PICK u \in 1..7 : u = 7
  OBVIOUS
<1>14. /\ Stages'[f] = Stages[f] \ M /\ M \in SUBSET Stages[f] /\ f # u /\ Disjoint(Stages)
       /\ \A c \in 1..7 \ {f, u} : Stages'[c] = Stages[c]
  BY <1>10, <1>11, <1>12, <1>13 DEF WorkSound
<1>15. ASSUME RepliedJobs' = RepliedJobs \cup {j} PROVE Disjoint(Stages') /\ UnderWay' = UnderWay
  <2>1. Stages'[u] = Stages[u] \cup M
    BY <1>9, <1>13, <1>15, StagesView, StagesViewNext
  <2> QED BY ONLY <1>14, <2>1, f \in 1..7, u \in 1..7, JobsMove
<1>16. ASSUME LaneEnded(j.lane) /\ RepliedJobs' = RepliedJobs
       PROVE  Disjoint(Stages') /\ UnderWay' = UnderWay \ {j}
  <2>1. Stages'[u] = Stages[u]
    BY <1>13, <1>16, StagesView, StagesViewNext
  <2>2. \A c \in 1..7 \ {f} : Stages'[c] = Stages[c]
    BY <1>14, <2>1
  <2>3. Disjoint(Stages') /\ UnderWay' = UnderWay \ M
    BY ONLY <1>14, <2>2, f \in 1..7, JobsGo
  <2> QED BY <1>9, <2>3
<1>17. Disjoint(Stages') /\ (UnderWay' = UnderWay \/ (LaneEnded(j.lane) /\ UnderWay' = UnderWay \ {j}))
  <2>1. CASE RepliedJobs' = RepliedJobs \cup {j}
    BY <1>15, <2>1
  <2>2. CASE LaneEnded(j.lane) /\ RepliedJobs' = RepliedJobs
    BY <1>9, <1>16, <2>2
  <2> QED BY <1>8, <2>1, <2>2
<1>18. ChannelsTypeOK'
  BY <1>1, <1>8, ChannelsSame DEF WorkSound, ChannelsTypeOK
<1>19. StagesOnce'
  BY <1>8, ChannelsSame DEF WorkSound, StagesOnce
<1>20. j \in UnderWay
  BY StagesUnderWay
<1> QED BY <1>17, <1>18, <1>19, <1>20

(* A lane takes a reply. *)
LEMMA ResumeMoves ==
  ASSUME WorkSound, NEW l \in Lanes, replies[l] # <<>>, NEW r, r = Head(replies[l]),
         replies' = [replies EXCEPT ![l] = Tail(replies[l])], outbox' = outbox, intake' = intake,
         inFlight' = inFlight, measures' = measures, routing' = routing, tasks' = tasks
  PROVE  /\ ChannelsTypeOK' /\ Disjoint(Stages') /\ StagesOnce'
         /\ Asked(l, r) \in UnderWay /\ UnderWay' = UnderWay \ {Asked(l, r)}
<1>1. PICK j : j = Asked(l, r)
  OBVIOUS
<1>2. replies \in [Lanes -> Seq(Answers)] /\ \A k \in Lanes : RepliesOnce(k)
  BY DEF WorkSound, ChannelsTypeOK, StagesOnce
<1>3. /\ replies' \in [Lanes -> Seq(Answers)] /\ \A k \in Lanes : RepliesOnce(k)'
      /\ j \in RepliedJobs /\ RepliedJobs' = RepliedJobs \ {j}
  BY <1>1, <1>2, ReplyTaken
<1>4. PICK M : M = {j}
  OBVIOUS
<1>5. PICK f \in 1..7 : f = 7
  OBVIOUS
<1>6. Stages'[7] = Stages[7] \ M /\ M \in SUBSET Stages[7]
  BY <1>3, <1>4, StagesView, StagesViewNext
<1>7. \A c \in 1..7 \ {7} : Stages'[c] = Stages[c]
  BY Seven, ChannelsSame, StagesView, StagesViewNext
<1>8. /\ Stages'[f] = Stages[f] \ M /\ M \in SUBSET Stages[f] /\ Disjoint(Stages)
      /\ \A c \in 1..7 \ {f} : Stages'[c] = Stages[c]
  BY <1>5, <1>6, <1>7 DEF WorkSound
<1>9. Disjoint(Stages') /\ UnderWay' = UnderWay \ M
  BY ONLY <1>8, f \in 1..7, JobsGo
<1>10. ChannelsTypeOK'
  BY <1>3, ChannelsSame DEF WorkSound, ChannelsTypeOK
<1>11. StagesOnce'
  BY <1>3, ChannelsSame DEF WorkSound, StagesOnce
<1> QED BY <1>1, <1>3, <1>4, <1>9, <1>10, <1>11, StagesUnderWay

(* A lane that fails drops the jobs in its hands and the replies it has not taken. *)
LEMMA FailMoves ==
  ASSUME WorkSound, NEW l \in Lanes, outbox' = [outbox EXCEPT ![l] = <<>>],
         replies' = [replies EXCEPT ![l] = <<>>], intake' = intake,
         inFlight' = inFlight, measures' = measures, routing' = routing, tasks' = tasks
  PROVE  /\ ChannelsTypeOK' /\ Disjoint(Stages') /\ StagesOnce' /\ UnderWay' \in SUBSET UnderWay
         /\ outbox'[l] = <<>> /\ \A m \in Lanes \ {l} : outbox'[m] = outbox[m]
<1>1. PICK t : t = <<>>
  OBVIOUS
<1>2. t \in Seq(Job) /\ Range(t) = {} /\ IsInjective(t)
  BY <1>1 DEF Range, IsInjective
<1>3. OutboxTyped /\ outbox' = [outbox EXCEPT ![l] = t]
  BY <1>1 DEF WorkSound, ChannelsTypeOK
<1>4. /\ outbox'[l] = t /\ \A k \in Lanes \ {l} : outbox'[k] = outbox[k]
      /\ OutboxJobs' = (OutboxJobs \ Range(outbox[l])) \cup Range(t)
  BY <1>2, <1>3, OutboxChanges
<1>5. OutboxTyped'
  <2>1. outbox' \in [Lanes -> Seq(Job)]
    BY <1>2, <1>3 DEF OutboxTyped
  <2>2. ASSUME NEW m \in Lanes, NEW j \in Range(outbox'[m]) PROVE j.lane = m
    <3>1. m # l
      BY <1>2, <1>4, <2>2
    <3> QED BY <1>3, <1>4, <2>2, <3>1 DEF OutboxTyped
  <2> QED BY <2>1, <2>2 DEF OutboxTyped
<1>6. replies \in [Lanes -> Seq(Answers)] /\ \A k \in Lanes : RepliesOnce(k)
  BY DEF WorkSound, ChannelsTypeOK, StagesOnce
<1>7. /\ replies' \in [Lanes -> Seq(Answers)] /\ \A k \in Lanes : RepliesOnce(k)'
      /\ RepliedJobs' \in SUBSET RepliedJobs
  BY <1>6, RepliesDropped
<1>8. Stages'[1] \in SUBSET Stages[1]
  BY <1>2, <1>4, StagesView, StagesViewNext
<1>9. Stages'[7] \in SUBSET Stages[7]
  BY <1>7, StagesView, StagesViewNext
<1>10. \A c \in 1..7 \ {1, 7} : Stages'[c] = Stages[c]
  BY Seven, ChannelsSame, StagesView, StagesViewNext
<1>11. \A c \in 1..7 : Stages'[c] \in SUBSET Stages[c]
  BY <1>8, <1>9, <1>10
<1>12. Disjoint(Stages') /\ UnderWay' \in SUBSET UnderWay
  BY <1>11, JobsShrink DEF WorkSound
<1>13. ChannelsTypeOK'
  BY <1>5, <1>7, ChannelsSame DEF WorkSound, ChannelsTypeOK
<1>14. StagesOnce'
  <2>1. \A m \in Lanes : IsInjective(outbox[m])'
    BY <1>2, <1>4 DEF WorkSound, StagesOnce
  <2> QED BY <1>7, <2>1, ChannelsSame DEF WorkSound, StagesOnce
<1> QED BY <1>1, <1>4, <1>12, <1>13, <1>14

(* A batcher that fails drops what it has received and submitted. *)
LEMMA BatcherDrops ==
  ASSUME WorkSound, intake' = <<>>, inFlight' = <<>>, outbox' = outbox, measures' = measures,
         routing' = routing, tasks' = tasks, replies' = replies
  PROVE  /\ ChannelsTypeOK' /\ Disjoint(Stages') /\ StagesOnce' /\ UnderWay' \in SUBSET UnderWay
         /\ InFlightJobs' = {} /\ Range(intake') = {} /\ Len(intake') = 0 /\ DOMAIN inFlight' = {}
<1>1. PICK t : t = <<>>
  OBVIOUS
<1>2. t \in Seq(Job) /\ t \in Seq(Seq(Job)) /\ DOMAIN t = {} /\ Range(t) = {} /\ IsInjective(t) /\ Len(t) = 0
  BY <1>1 DEF Range, IsInjective
<1>3. intake' = t /\ inFlight' = t
  BY <1>1
<1>4. InFlightJobs' = {} /\ FlightOnce'
  BY <1>2, <1>3 DEF InFlightJobs, FlightOnce
<1>5. Stages'[2] \in SUBSET Stages[2] /\ Stages'[3] \in SUBSET Stages[3]
  BY <1>2, <1>3, <1>4, StagesView, StagesViewNext
<1>6. \A c \in 1..7 \ {2, 3} : Stages'[c] = Stages[c]
  BY Seven, ChannelsSame, StagesView, StagesViewNext
<1>7. \A c \in 1..7 : Stages'[c] \in SUBSET Stages[c]
  BY <1>5, <1>6
<1>8. Disjoint(Stages') /\ UnderWay' \in SUBSET UnderWay
  BY <1>7, JobsShrink DEF WorkSound
<1>9. ChannelsTypeOK'
  BY <1>2, <1>3, ChannelsSame DEF WorkSound, ChannelsTypeOK
<1>10. StagesOnce'
  BY <1>2, <1>3, <1>4, ChannelsSame DEF WorkSound, StagesOnce
<1> QED BY <1>2, <1>3, <1>4, <1>8, <1>9, <1>10

(* A gateway that fails drops what it has received and asked. *)
LEMMA GatewayDrops ==
  ASSUME WorkSound, measures' = <<>>, tasks' = {}, outbox' = outbox, intake' = intake,
         inFlight' = inFlight, routing' = routing, replies' = replies
  PROVE  /\ ChannelsTypeOK' /\ Disjoint(Stages') /\ StagesOnce' /\ UnderWay' \in SUBSET UnderWay
         /\ Range(measures') = {}
<1>1. PICK t : t = <<>>
  OBVIOUS
<1>2. t \in Seq(Job) /\ Range(t) = {} /\ IsInjective(t)
  BY <1>1 DEF Range, IsInjective
<1>3. measures' = t
  BY <1>1
<1>5. Stages'[5] \in SUBSET Stages[5] /\ Stages'[6] \in SUBSET Stages[6]
  BY <1>2, <1>3, StagesView, StagesViewNext
<1>6. \A c \in 1..7 \ {5, 6} : Stages'[c] = Stages[c]
  BY Seven, ChannelsSame, StagesView, StagesViewNext
<1>7. \A c \in 1..7 : Stages'[c] \in SUBSET Stages[c]
  BY <1>5, <1>6
<1>8. Disjoint(Stages') /\ UnderWay' \in SUBSET UnderWay
  BY <1>7, JobsShrink DEF WorkSound
<1>9. ChannelsTypeOK'
  BY <1>2, <1>3, ChannelsSame DEF WorkSound, ChannelsTypeOK
<1>10. StagesOnce'
  BY <1>2, <1>3, ChannelsSame DEF WorkSound, StagesOnce
<1> QED BY <1>2, <1>3, <1>8, <1>9, <1>10

-----------------------------------------------------------------------------
(* What is under way stays awaited, and what is awaited under way.         *)

(* The parts of the invariant after a step. *)
LEMMA WorkNext ==
  ASSUME ChannelsTypeOK', Disjoint(Stages'), StagesOnce', NEW V, V = UnderWay', Awaiting(V)'
  PROVE  WorkSound'
<1>1. Awaiting(UnderWay)'
  BY AwaitingNext
<1> QED BY <1>1 DEF WorkSound

(* A step that moves no job, and in which slots that wait for nothing take other work. *)
LEMMA TurnsKept ==
  ASSUME LanesTypeOK, WorkSound, [Next]_vars, outbox' = outbox, intake' = intake,
         inFlight' = inFlight, routing' = routing, measures' = measures, tasks' = tasks,
         replies' = replies,
         \A l \in Lanes : \A w \in Slot :
            \/ slots'[l][w] = slots[l][w]
            \/ /\ slots[l][w].state # "parked" /\ SlotWaits(slots'[l][w])
               /\ slots'[l][w].state = "parked" => slots'[l][w].waiting = slots'[l][w].unsent
  PROVE  WorkSound'
<1>1. ChannelsTypeOK' /\ Disjoint(Stages') /\ StagesOnce' /\ UnderWay' = UnderWay
  BY NothingMoves
<1>2. (NoFailure' => NoFailure) /\ \A k \in Lanes : LaneEnded(k) => LaneEnded(k)'
  BY ThreadsStay
<1>3. PICK U : U = UnderWay
  OBVIOUS
<1>4. Awaiting(U)
  BY <1>3 DEF WorkSound
<1>5. Awaiting(U)'
  BY <1>2, <1>4, AwaitTurns
<1> QED BY <1>1, <1>3, <1>5, WorkNext

(* A step that moves jobs, or drops those of lanes in which nothing waits. *)
LEMMA MovesKept ==
  ASSUME LanesTypeOK, WorkSound, [Next]_vars, ChannelsTypeOK', Disjoint(Stages'), StagesOnce',
         slots' = slots, NEW V, V = UnderWay', V \in SUBSET UnderWay,
         \A j \in UnderWay \ V : NoFailure' => Parked(j.lane)' = {}
  PROVE  WorkSound'
<1>1. PICK U : U = UnderWay
  OBVIOUS
<1>2. Awaiting(U) /\ V \in SUBSET U /\ \A j \in U \ V : NoFailure' => Parked(j.lane)' = {}
  BY <1>1 DEF WorkSound
<1>3. (NoFailure' => NoFailure) /\ \A k \in Lanes : LaneEnded(k) => LaneEnded(k)'
  BY ThreadsStay
<1>4. Awaiting(V)'
  BY <1>2, <1>3, AwaitKept
<1> QED BY <1>4, WorkNext

(* One slot, which waits for nothing, takes other work. *)
LEMMA OneTurn ==
  ASSUME PoolTyped, NEW l \in Lanes, NEW w \in Slot, NEW d, slots' = [slots EXCEPT ![l][w] = d],
         slots[l][w].state # "parked", SlotWaits(d), d.state = "parked" => d.waiting = d.unsent
  PROVE  \A k \in Lanes : \A v \in Slot :
            \/ slots'[k][v] = slots[k][v]
            \/ /\ slots[k][v].state # "parked" /\ SlotWaits(slots'[k][v])
               /\ slots'[k][v].state = "parked" => slots'[k][v].waiting = slots'[k][v].unsent
<1> SUFFICES ASSUME NEW k \in Lanes, NEW v \in Slot
             PROVE  \/ slots'[k][v] = slots[k][v]
                    \/ /\ slots[k][v].state # "parked" /\ SlotWaits(slots'[k][v])
                       /\ slots'[k][v].state = "parked" => slots'[k][v].waiting = slots'[k][v].unsent
  OBVIOUS
<1>1. CASE k = l /\ v = w
  <2>1. slots'[k][v] = d
    BY <1>1 DEF PoolTyped
  <2> QED BY <1>1, <2>1
<1>2. CASE k # l \/ v # w
  BY <1>2 DEF PoolTyped
<1> QED BY <1>1, <1>2

(* drive: a task blocks with a wave of evaluations or a measurement, or is done. *)
LEMMA DriveWork ==
  ASSUME RunAccounted, WorkSound, NEW l \in Lanes, DriveWave(l) \/ DriveMeasure(l) \/ DriveDone(l)
  PROVE  WorkSound'
<1>1. LanesTypeOK /\ PoolTyped /\ Running(l) # {}
  BY DEF RunAccounted, DriveWave, DriveMeasure, DriveDone, LanesTypeOK, PoolTyped
<1>2. PICK w \in Slot : w = First(Running(l)) /\ slots[l][w].state = "running"
  BY <1>1, FirstRunning DEF Running
<1>3. PICK s \in SlotState : s = slots[l][w]
  BY <1>1 DEF LanesTypeOK
<1>4. s.next \in Nat
  BY <1>2, <1>3, SlotView
<1>5. \E d : /\ slots' = [slots EXCEPT ![l][w] = d] /\ SlotWaits(d)
             /\ d.state = "parked" => d.waiting = d.unsent
  <2>1. CASE DriveWave(l)
    <3>1. PICK n \in WaveSizes : slots' = [slots EXCEPT ![l][w] =
              [state |-> "parked", episode |-> s.episode, next |-> s.next + n,
               waves |-> s.waves + 1, measured |-> FALSE, kind |-> "eval",
               waiting |-> s.next..(s.next + n - 1), unsent |-> s.next..(s.next + n - 1)]]
      BY <1>2, <1>3, <2>1 DEF DriveWave
    <3>2. n \in Nat /\ n <= EvalsPerWorker /\ EvalsPerWorker \in Nat
      BY SizesAssumption DEF WaveSizes
    <3>3. PICK t : t = s.next..(s.next + n - 1)
      OBVIOUS
    <3>4. \A x, y \in t : x - y < EvalsPerWorker
      BY <1>4, <3>2, <3>3
    <3>5. PICK d : d = [state |-> "parked", episode |-> s.episode, next |-> s.next + n,
               waves |-> s.waves + 1, measured |-> FALSE, kind |-> "eval",
               waiting |-> t, unsent |-> t]
      OBVIOUS
    <3>6. d.kind = "eval" /\ d.waiting = t /\ d.unsent = t
      BY <3>5
    <3>7. SlotWaits(d)
      BY <3>4, <3>6 DEF SlotWaits, Together
    <3>8. slots' = [slots EXCEPT ![l][w] = d]
      BY <3>1, <3>3, <3>5
    <3> QED BY <3>6, <3>7, <3>8
  <2>2. CASE DriveMeasure(l)
    <3>1. slots' = [slots EXCEPT ![l][w] =
              [state |-> "parked", episode |-> s.episode, next |-> s.next + 1,
               waves |-> s.waves, measured |-> FALSE, kind |-> "measure",
               waiting |-> {s.next}, unsent |-> {s.next}]]
      BY <1>2, <1>3, <2>2 DEF DriveMeasure
    <3>2. PICK d : d = [state |-> "parked", episode |-> s.episode, next |-> s.next + 1,
               waves |-> s.waves, measured |-> FALSE, kind |-> "measure",
               waiting |-> {s.next}, unsent |-> {s.next}]
      OBVIOUS
    <3>3. d.kind = "measure" /\ d.waiting = {s.next} /\ d.unsent = {s.next}
      BY <3>2
    <3>4. s.next - s.next < EvalsPerWorker
      BY <1>4, Places
    <3>5. SlotWaits(d)
      BY <3>3, <3>4 DEF SlotWaits, Together
    <3> QED BY <3>1, <3>2, <3>3, <3>5
  <2>3. CASE DriveDone(l)
    <3>1. slots' = [slots EXCEPT ![l][w] = Idle]
      BY <1>2, <2>3 DEF DriveDone
    <3>2. Idle.state # "parked"
      BY DEF Idle
    <3>3. SlotWaits(Idle)
      BY <3>2 DEF SlotWaits
    <3> QED BY <3>1, <3>2, <3>3
  <2> QED BY <2>1, <2>2, <2>3
<1>6. PICK d : /\ slots' = [slots EXCEPT ![l][w] = d] /\ SlotWaits(d)
               /\ d.state = "parked" => d.waiting = d.unsent
  BY <1>5
<1>7. slots[l][w].state # "parked"
  BY <1>2
<1>8. \A k \in Lanes : \A v \in Slot :
            \/ slots'[k][v] = slots[k][v]
            \/ /\ slots[k][v].state # "parked" /\ SlotWaits(slots'[k][v])
               /\ slots'[k][v].state = "parked" => slots'[k][v].waiting = slots'[k][v].unsent
  BY <1>1, <1>6, <1>7, OneTurn
<1>9. /\ outbox' = outbox /\ intake' = intake /\ inFlight' = inFlight /\ routing' = routing
      /\ measures' = measures /\ tasks' = tasks /\ replies' = replies
  BY DEF DriveWave, DriveMeasure, DriveDone, batchVars, gatewayVars, channels
<1>10. Next
  BY DEF Next, LaneStep
<1> QED BY <1>1, <1>8, <1>9, <1>10, TurnsKept

(* A round begins: free slots begin episodes. *)
LEMMA AdmitWork ==
  ASSUME RunAccounted, WorkSound, NEW l \in Lanes, Admit(l)
  PROVE  WorkSound'
<1>1. LanesTypeOK
  BY DEF RunAccounted
<1>2. PICK limit : slots' = [slots EXCEPT ![l] =
          [w \in Slot |->
              IF w \in FirstOf(IdleSlots(l), FromRoots(limit, Roots[l] - admitted[l]))
              THEN [state |-> "running",
                    episode |-> admitted[l] +
                       PlaceIn(FirstOf(IdleSlots(l), FromRoots(limit, Roots[l] - admitted[l])), w),
                    next |-> 0, waves |-> 0, measured |-> FALSE]
              ELSE slots[l][w]]]
  BY DEF Admit
<1>3. PICK n, e : n = FromRoots(limit, Roots[l] - admitted[l]) /\ e = admitted[l]
  OBVIOUS
<1>4. PICK C : C = FirstOf(IdleSlots(l), n)
  OBVIOUS
<1>5. \A w \in C : slots[l][w].state = "idle"
  BY <1>4 DEF FirstOf, IdleSlots
<1>6. PICK m : m = [w \in Slot |->
                       IF w \in C
                       THEN [state |-> "running", episode |-> e + PlaceIn(C, w),
                             next |-> 0, waves |-> 0, measured |-> FALSE]
                       ELSE slots[l][w]]
  OBVIOUS
<1>7. slots' = [slots EXCEPT ![l] = m]
  BY <1>2, <1>3, <1>4, <1>6
<1>8. slots'[l] = m /\ \A k \in Lanes \ {l} : slots'[k] = slots[k]
  BY <1>1, <1>7 DEF LanesTypeOK
<1>9. ASSUME NEW w \in Slot
      PROVE  \/ m[w] = slots[l][w]
             \/ slots[l][w].state # "parked" /\ m[w].state = "running"
  <2>1. CASE w \in C
    <3>1. m[w].state = "running"
      BY <1>6, <2>1
    <3> QED BY <1>5, <2>1, <3>1
  <2>2. CASE w \notin C
    BY <1>6, <2>2
  <2> QED BY <2>1, <2>2
<1>10. ASSUME NEW k \in Lanes, NEW v \in Slot
       PROVE  \/ slots'[k][v] = slots[k][v]
              \/ /\ slots[k][v].state # "parked" /\ SlotWaits(slots'[k][v])
                 /\ slots'[k][v].state = "parked" => slots'[k][v].waiting = slots'[k][v].unsent
  <2>1. CASE k = l
    BY <1>8, <1>9, <2>1 DEF SlotWaits
  <2>2. CASE k # l
    BY <1>8, <2>2
  <2> QED BY <2>1, <2>2
<1>11. /\ outbox' = outbox /\ intake' = intake /\ inFlight' = inFlight /\ routing' = routing
       /\ measures' = measures /\ tasks' = tasks /\ replies' = replies
  BY DEF Admit, batchVars, gatewayVars, channels
<1>12. Next
  BY DEF Next, LaneStep
<1> QED BY <1>1, <1>10, <1>11, <1>12, TurnsKept

(* A step that touches neither the pools nor the jobs. *)
LEMMA QuietWork ==
  ASSUME LanesTypeOK, WorkSound, [Next]_vars, slots' = slots, outbox' = outbox, intake' = intake,
         inFlight' = inFlight, routing' = routing, measures' = measures, tasks' = tasks,
         replies' = replies
  PROVE  WorkSound'
BY TurnsKept

(* A lane takes jobs from its pool. *)
LEMMA TakeWork ==
  ASSUME RunAccounted, WorkSound, JobsRouted, NEW l \in Lanes, TakeEvals(l) \/ TakeMeasures(l)
  PROVE  WorkSound'
<1>1. LanesTypeOK /\ PoolTyped
  BY DEF RunAccounted, LanesTypeOK, PoolTyped
<1>2. \E k \in {"eval", "measure"} :
        outbox' = [outbox EXCEPT ![l] = Unsent(l, k)] /\ slots' = MarkSent(l, k)
  BY DEF TakeEvals, TakeMeasures
<1>3. PICK k \in {"eval", "measure"} :
        outbox' = [outbox EXCEPT ![l] = Unsent(l, k)] /\ slots' = MarkSent(l, k)
  BY <1>2
<1>4. /\ phase[l] \in {"drive", "evals"} /\ outbox[l] = <<>>
      /\ \E p \in {"evals", "measures"} : phase' = [phase EXCEPT ![l] = p]
  BY DEF TakeEvals, TakeMeasures, Driven, Goto, JobsRouted
<1>5. PICK p \in {"evals", "measures"} : phase' = [phase EXCEPT ![l] = p]
  BY <1>4
<1>6. /\ intake' = intake /\ inFlight' = inFlight /\ routing' = routing
      /\ measures' = measures /\ tasks' = tasks /\ replies' = replies
  BY DEF TakeEvals, TakeMeasures, batchVars, gatewayVars, channels
<1>7. ~LaneEnded(l) /\ \A m \in Lanes : LaneEnded(m)' <=> LaneEnded(m)
  <2>1. phase'[l] = p /\ \A m \in Lanes \ {l} : phase'[m] = phase[m]
    BY <1>1, <1>5 DEF LanesTypeOK
  <2> QED BY <1>4, <2>1 DEF LaneEnded, Ended
<1>8. /\ ChannelsTypeOK' /\ Disjoint(Stages') /\ StagesOnce'
      /\ UnderWay' = UnderWay \cup UnsentJobs(l, k)
  BY <1>1, <1>3, <1>4, <1>6, <1>7, TakeMoves
<1>9. Next
  BY DEF Next, LaneStep
<1>10. NoFailure' => NoFailure
  BY <1>1, <1>9, ThreadsStay
<1>11. PICK U : U = UnderWay
  OBVIOUS
<1>12. PICK V : V = U \cup UnsentJobs(l, k)
  OBVIOUS
<1>13. Awaiting(U)
  BY <1>11 DEF WorkSound
<1>14. Awaiting(V)'
  BY <1>1, <1>3, <1>7, <1>10, <1>12, <1>13, AwaitTakes
<1>15. V = UnderWay'
  BY <1>8, <1>11, <1>12
<1> QED BY <1>8, <1>14, <1>15, WorkNext

(* A lane sends a job. *)
LEMMA SendWork ==
  ASSUME RunAccounted, WorkSound, JobsRouted, NEW l \in Lanes, SendEval(l) \/ SendMeasure(l)
  PROVE  WorkSound'
<1>1. LanesTypeOK /\ outbox[l] # <<>>
  BY DEF RunAccounted, SendEval, SendMeasure, JobsRouted
<1>2. /\ outbox' = [outbox EXCEPT ![l] = Tail(outbox[l])] /\ inFlight' = inFlight /\ slots' = slots
      /\ routing' = routing /\ tasks' = tasks /\ replies' = replies
  BY DEF SendEval, SendMeasure, batchVars, gatewayVars
<1>3. \/ intake' = Append(intake, Head(outbox[l])) /\ measures' = measures
      \/ measures' = Append(measures, Head(outbox[l])) /\ intake' = intake
  BY DEF SendEval, SendMeasure
<1>4. ChannelsTypeOK' /\ Disjoint(Stages') /\ StagesOnce' /\ UnderWay' = UnderWay
  <2>1. CASE intake' = Append(intake, Head(outbox[l])) /\ measures' = measures
    BY <1>1, <1>2, <2>1, SendEvalMoves
  <2>2. CASE measures' = Append(measures, Head(outbox[l])) /\ intake' = intake
    BY <1>1, <1>2, <2>2, SendMeasureMoves
  <2> QED BY <1>3, <2>1, <2>2
<1>5. Next
  BY DEF Next, LaneStep
<1>6. PICK V : V = UnderWay'
  OBVIOUS
<1>7. V \in SUBSET UnderWay /\ UnderWay \ V = {}
  BY <1>4, <1>6
<1> QED BY <1>1, <1>2, <1>4, <1>5, <1>6, <1>7, MovesKept

(* A lane takes a reply. *)
LEMMA ResumeWork ==
  ASSUME RunAccounted, WorkSound, NEW l \in Lanes, Resume(l)
  PROVE  WorkSound'
<1>1. LanesTypeOK /\ PoolTyped
  BY DEF RunAccounted, LanesTypeOK, PoolTyped
<1>2. PICK r : r = Head(replies[l])
  OBVIOUS
<1>3. /\ slots' = [slots EXCEPT ![l][r.slot] = Resumed(slots[l][r.slot], r)]
      /\ phase[l] \in {"wait", "more"} /\ phase' = [phase EXCEPT ![l] = "more"]
  BY <1>2 DEF Resume, Goto
<1>4. replies[l] # <<>> /\ replies' = [replies EXCEPT ![l] = Tail(replies[l])]
  BY DEF Resume
<1>5. /\ outbox' = outbox /\ intake' = intake /\ inFlight' = inFlight /\ routing' = routing
      /\ measures' = measures /\ tasks' = tasks
  BY DEF Resume, batchVars, gatewayVars
<1>6. PICK j : j = Asked(l, r)
  OBVIOUS
<1>7. /\ ChannelsTypeOK' /\ Disjoint(Stages') /\ StagesOnce'
      /\ j \in UnderWay /\ UnderWay' = UnderWay \ {j}
  BY <1>2, <1>4, <1>5, <1>6, ResumeMoves
<1>8. ~LaneEnded(l) /\ \A m \in Lanes : LaneEnded(m)' <=> LaneEnded(m)
  <2>1. phase'[l] = "more" /\ \A m \in Lanes \ {l} : phase'[m] = phase[m]
    BY <1>1, <1>3 DEF LanesTypeOK
  <2> QED BY <1>3, <2>1 DEF LaneEnded, Ended
<1>9. Next
  BY DEF Next, LaneStep
<1>10. NoFailure' => NoFailure
  BY <1>1, <1>9, ThreadsStay
<1>11. PICK U : U = UnderWay
  OBVIOUS
<1>12. PICK V : V = U \ {j}
  OBVIOUS
<1>13. Awaiting(U) /\ j \in U
  BY <1>7, <1>11 DEF WorkSound
<1>14. Awaiting(V)'
  BY <1>1, <1>3, <1>6, <1>8, <1>10, <1>12, <1>13, AwaitResumes
<1>15. V = UnderWay'
  BY <1>7, <1>11, <1>12
<1> QED BY <1>7, <1>14, <1>15, WorkNext

(* A lane fails. *)
LEMMA FailWork ==
  ASSUME RunAccounted, WorkSound, NEW l \in Lanes, [Next]_vars, FailLane(l),
         intake' = intake, inFlight' = inFlight, routing' = routing, measures' = measures,
         tasks' = tasks
  PROVE  WorkSound'
<1>1. LanesTypeOK
  BY DEF RunAccounted
<1>2. /\ outbox' = [outbox EXCEPT ![l] = <<>>] /\ replies' = [replies EXCEPT ![l] = <<>>]
      /\ phase' = [phase EXCEPT ![l] = "failed"]
  BY DEF FailLane, Goto
<1>3. PICK m : m = [w \in Slot |-> Idle]
  OBVIOUS
<1>4. slots' = [slots EXCEPT ![l] = m]
  BY <1>3 DEF FailLane
<1>5. slots'[l] = m /\ \A k \in Lanes \ {l} : slots'[k] = slots[k]
  BY <1>1, <1>4 DEF LanesTypeOK
<1>6. \A w \in Slot : slots'[l][w].state # "parked"
  BY <1>3, <1>5 DEF Idle
<1>7. phase'[l] = "failed"
  BY <1>1, <1>2 DEF LanesTypeOK
<1>8. ~NoFailure' /\ LaneEnded(l)'
  BY <1>7 DEF NoFailure, LaneEnded, Ended
<1>9. \A k \in Lanes : LaneEnded(k) => LaneEnded(k)'
  BY <1>1, ThreadsStay
<1>10. ChannelsTypeOK' /\ Disjoint(Stages') /\ StagesOnce' /\ UnderWay' \in SUBSET UnderWay
  BY <1>2, FailMoves
<1>11. PICK U : U = UnderWay
  OBVIOUS
<1>12. PICK V : V = UnderWay'
  OBVIOUS
<1>13. Awaiting(U) /\ V \in SUBSET U
  BY <1>10, <1>11, <1>12 DEF WorkSound
<1>14. Awaiting(V)'
  BY <1>5, <1>6, <1>8, <1>9, <1>13, AwaitFails
<1> QED BY <1>10, <1>12, <1>14, WorkNext

(* Nothing waits in a lane that has returned without an error. *)
LEMMA NobodyWaits ==
  ASSUME RunAccounted, NEW l \in Lanes, LaneEnded(l), slots' = slots, phase' = phase, NoFailure'
  PROVE  Parked(l)' = {}
<1>1. phase[l] = "done"
  BY DEF NoFailure, LaneEnded, Ended
<1>2. Active(l) = {}
  BY <1>1 DEF RunAccounted, LaneAccounted
<1>3. Parked(l)' = Parked(l)
  BY DEF Parked
<1> QED BY <1>2, <1>3 DEF Active

(* A job is answered; the reply to a lane that has ended is dropped. *)
LEMMA AnsweredKept ==
  ASSUME RunAccounted, WorkSound, [Next]_vars, ChannelsTypeOK', Disjoint(Stages'), StagesOnce',
         slots' = slots, phase' = phase, NEW j \in UnderWay,
         UnderWay' = UnderWay \/ (LaneEnded(j.lane) /\ UnderWay' = UnderWay \ {j})
  PROVE  WorkSound'
<1>1. LanesTypeOK
  BY DEF RunAccounted
<1>2. PICK V : V = UnderWay'
  OBVIOUS
<1>3. V \in SUBSET UnderWay
  BY <1>2
<1>4. j.lane \in Lanes
  BY JobView DEF WorkSound, Awaiting
<1>5. ASSUME NEW i \in UnderWay \ V, NoFailure' PROVE Parked(i.lane)' = {}
  <2>1. i = j /\ LaneEnded(j.lane)
    BY <1>2, <1>5
  <2> QED BY <1>4, <1>5, <2>1, NobodyWaits
<1> QED BY <1>1, <1>2, <1>3, <1>5, MovesKept

(* A thread fails and drops what it holds. *)
LEMMA DroppedKept ==
  ASSUME RunAccounted, WorkSound, [Next]_vars, ChannelsTypeOK', Disjoint(Stages'), StagesOnce',
         slots' = slots, UnderWay' \in SUBSET UnderWay, ~NoFailure'
  PROVE  WorkSound'
<1>1. LanesTypeOK
  BY DEF RunAccounted
<1>2. PICK V : V = UnderWay'
  OBVIOUS
<1> QED BY <1>1, <1>2, MovesKept

(* The batcher. *)
LEMMA BatcherWork ==
  ASSUME RunAccounted, WorkSound, JobsRouted, BatcherStep
  PROVE  WorkSound'
<1>1. LanesTypeOK /\ [Next]_vars
  BY DEF RunAccounted, Next
<1>2. /\ slots' = slots /\ phase' = phase /\ outbox' = outbox /\ measures' = measures
      /\ tasks' = tasks
  BY DEF BatcherStep, Submit, Drain, Route, Account, BatcherFails, BatcherEnds, laneVars,
         gatewayVars, channels
<1>3. CASE Submit
  <2>1. PICK n \in 1..MaxBatch :
           /\ n <= Len(intake) /\ inFlight' = Append(inFlight, SubSeq(intake, 1, n))
           /\ intake' = SubSeq(intake, n + 1, Len(intake))
    BY <1>3 DEF Submit
  <2>2. Len(intake) \in Nat /\ MaxBatch \in Nat
    BY SeqHolds, SizesAssumption DEF WorkSound, ChannelsTypeOK
  <2>3. n \in 1..Len(intake)
    BY <2>1, <2>2
  <2>4. PICK a : a = SubSeq(intake, 1, n)
    OBVIOUS
  <2>5. routing' = routing /\ replies' = replies
    BY <1>3 DEF Submit
  <2>6. ChannelsTypeOK' /\ Disjoint(Stages') /\ StagesOnce' /\ UnderWay' = UnderWay
    <3>1. inFlight' = Append(inFlight, a) /\ intake' = SubSeq(intake, n + 1, Len(intake))
      BY <2>1, <2>4
    <3> QED BY <1>2, <2>3, <2>4, <2>5, <3>1, SubmitMoves
  <2>7. PICK V : V = UnderWay'
    OBVIOUS
  <2>8. V \in SUBSET UnderWay /\ UnderWay \ V = {}
    BY <2>6, <2>7
  <2> QED BY <1>1, <1>2, <2>6, <2>7, <2>8, MovesKept
<1>4. CASE Drain
  <2>1. /\ inFlight # <<>> /\ routing = <<>> /\ routing' = Head(inFlight)
        /\ inFlight' = Tail(inFlight) /\ intake' = intake /\ replies' = replies
    BY <1>4 DEF Drain, JobsRouted, channels
  <2>2. PICK b : b = Head(inFlight)
    OBVIOUS
  <2>3. ChannelsTypeOK' /\ Disjoint(Stages') /\ StagesOnce' /\ UnderWay' = UnderWay
    BY <1>2, <2>1, <2>2, DrainMoves
  <2>4. PICK V : V = UnderWay'
    OBVIOUS
  <2>5. V \in SUBSET UnderWay /\ UnderWay \ V = {}
    BY <2>3, <2>4
  <2> QED BY <1>1, <1>2, <2>3, <2>4, <2>5, MovesKept
<1>5. CASE Route
  <2>1. PICK j : j = Head(routing)
    OBVIOUS
  <2>2. /\ routing # <<>> /\ Reply(j.lane, Answer(j, TRUE)) /\ routing' = Tail(routing)
        /\ intake' = intake /\ inFlight' = inFlight
    BY <1>5, <2>1 DEF Route
  <2>3. /\ ChannelsTypeOK' /\ Disjoint(Stages') /\ StagesOnce' /\ j \in UnderWay
        /\ UnderWay' = UnderWay \/ (LaneEnded(j.lane) /\ UnderWay' = UnderWay \ {j})
    BY <1>2, <2>1, <2>2, RouteMoves
  <2> QED BY <1>1, <1>2, <2>3, AnsweredKept
<1>6. CASE Account \/ BatcherEnds
  <2>1. /\ intake' = intake /\ inFlight' = inFlight /\ routing' = routing /\ replies' = replies
    BY <1>6 DEF Account, BatcherEnds, channels
  <2> QED BY <1>1, <1>2, <2>1, QuietWork
<1>7. CASE BatcherFails
  <2>1. /\ intake' = <<>> /\ inFlight' = <<>> /\ routing' = routing /\ replies' = replies
        /\ batcher' = "failed"
    BY <1>7 DEF BatcherFails
  <2>2. ChannelsTypeOK' /\ Disjoint(Stages') /\ StagesOnce' /\ UnderWay' \in SUBSET UnderWay
    BY <1>2, <2>1, BatcherDrops
  <2>3. ~NoFailure'
    BY <2>1 DEF NoFailure
  <2> QED BY <1>1, <1>2, <2>2, <2>3, DroppedKept
<1> QED BY <1>3, <1>4, <1>5, <1>6, <1>7 DEF BatcherStep

(* The gateway. *)
LEMMA GatewayWork ==
  ASSUME RunAccounted, WorkSound, GatewayStep
  PROVE  WorkSound'
<1>1. LanesTypeOK /\ [Next]_vars
  BY DEF RunAccounted, Next
<1>2. /\ slots' = slots /\ phase' = phase /\ outbox' = outbox /\ intake' = intake
      /\ inFlight' = inFlight /\ routing' = routing
  BY DEF GatewayStep, GatewayTakes, GatewayFails, GatewayEnds, GatewayAnswers, laneVars,
         batchVars, channels
<1>3. CASE GatewayTakes
  <2>1. /\ measures # <<>> /\ tasks' = tasks \cup {Head(measures)} /\ measures' = Tail(measures)
        /\ replies' = replies
    BY <1>3 DEF GatewayTakes
  <2>2. ChannelsTypeOK' /\ Disjoint(Stages') /\ StagesOnce' /\ UnderWay' = UnderWay
    BY <1>2, <2>1, GatewayTakesMoves
  <2>3. PICK V : V = UnderWay'
    OBVIOUS
  <2>4. V \in SUBSET UnderWay /\ UnderWay \ V = {}
    BY <2>2, <2>3
  <2> QED BY <1>1, <1>2, <2>2, <2>3, <2>4, MovesKept
<1>4. CASE GatewayFails
  <2>1. measures' = <<>> /\ tasks' = {} /\ replies' = replies /\ gateway' = "failed"
    BY <1>4 DEF GatewayFails
  <2>2. ChannelsTypeOK' /\ Disjoint(Stages') /\ StagesOnce' /\ UnderWay' \in SUBSET UnderWay
    BY <1>2, <2>1, GatewayDrops
  <2>3. ~NoFailure'
    BY <2>1 DEF NoFailure
  <2> QED BY <1>1, <1>2, <2>2, <2>3, DroppedKept
<1>5. CASE GatewayEnds
  <2>1. measures' = measures /\ tasks' = tasks /\ replies' = replies
    BY <1>5 DEF GatewayEnds, channels
  <2> QED BY <1>1, <1>2, <2>1, QuietWork
<1>6. ASSUME NEW j \in tasks, GatewayAnswers(j) PROVE WorkSound'
  <2>1. \E ok \in BOOLEAN : Reply(j.lane, Answer(j, ok))
    BY <1>6 DEF GatewayAnswers
  <2>2. PICK ok \in BOOLEAN : Reply(j.lane, Answer(j, ok))
    BY <2>1
  <2>3. tasks' = tasks \ {j} /\ measures' = measures
    BY <1>6 DEF GatewayAnswers
  <2>4. /\ ChannelsTypeOK' /\ Disjoint(Stages') /\ StagesOnce' /\ j \in UnderWay
        /\ UnderWay' = UnderWay \/ (LaneEnded(j.lane) /\ UnderWay' = UnderWay \ {j})
    BY <1>2, <2>2, <2>3, AnswerMoves
  <2> QED BY <1>1, <1>2, <2>4, AnsweredKept
<1> QED BY <1>3, <1>4, <1>5, <1>6 DEF GatewayStep

(* Every step of every thread keeps what is under way awaited, and what is awaited under way. *)
LEMMA WorkKept ==
  ASSUME RunAccounted, WorkSound, JobsRouted, [Next]_vars
  PROVE  WorkSound'
<1>1. LanesTypeOK
  BY DEF RunAccounted
<1>2. ASSUME NEW l \in Lanes, LaneStep(l) PROVE WorkSound'
  <2>1. CASE SendGame(l) \/ ReceiveAck(l) \/ CountEval(l) \/ EndRound(l) \/ Poll(l)
    <3>1. /\ slots' = slots /\ outbox' = outbox /\ intake' = intake /\ inFlight' = inFlight
          /\ routing' = routing /\ measures' = measures /\ tasks' = tasks /\ replies' = replies
      BY <2>1 DEF SendGame, ReceiveAck, CountEval, EndRound, Poll, batchVars, gatewayVars, channels
    <3> QED BY <1>1, <3>1, QuietWork
  <2>2. CASE \/ TopFails(l) \/ DriveFails(l) \/ SendGameFails(l) \/ ReceiveAckFails(l)
             \/ SendEvalFails(l) \/ SendMeasureFails(l) \/ ResumeFails(l) \/ PollFails(l)
    <3>1. /\ FailLane(l) /\ intake' = intake /\ inFlight' = inFlight
          /\ routing' = routing /\ measures' = measures /\ tasks' = tasks
      BY <2>2 DEF TopFails, DriveFails, SendGameFails, ReceiveAckFails, SendEvalFails,
                  SendMeasureFails, ResumeFails, PollFails, batchVars, gatewayVars
    <3> QED BY <3>1, FailWork
  <2> QED BY <1>2, <2>1, <2>2, AdmitWork, DriveWork, TakeWork, SendWork, ResumeWork DEF LaneStep
<1>3. CASE SinkStep \/ UNCHANGED vars
  <2>1. /\ slots' = slots /\ outbox' = outbox /\ intake' = intake /\ inFlight' = inFlight
        /\ routing' = routing /\ measures' = measures /\ tasks' = tasks /\ replies' = replies
    BY <1>3 DEF SinkStep, SinkAppends, SinkDrops, SinkFails, SinkEnds, vars, laneVars, batchVars,
                gatewayVars, channels
  <2> QED BY <1>1, <2>1, QuietWork
<1> QED BY <1>2, <1>3, BatcherWork, GatewayWork DEF Next, Joined

-----------------------------------------------------------------------------
(* Jobs are where jobs of their kind belong.                               *)

(* What JobsRouted says of the batcher, of the gateway, and of a lane. *)
BatchRouted ==
  /\ \A j \in Range(intake) \cup InFlightJobs \cup Range(routing) : j.kind = "eval"
  /\ \A i \in DOMAIN inFlight : Len(inFlight[i]) <= MaxBatch
  /\ received = 0 => routing = <<>>
  /\ Len(routing) <= received
GatewayRouted == \A j \in Range(measures) \cup tasks : j.kind = "measure"
LaneRouted(l) ==
  /\ \A j \in Range(outbox[l]) :
        j.lane = l /\ j.kind = IF phase[l] = "measures" THEN "measure" ELSE "eval"
  /\ phase[l] \notin {"evals", "sending", "measures"} => outbox[l] = <<>>
  /\ phase[l] = "sending" => outbox[l] # <<>>

(* These are all its parts. *)
LEMMA RoutedParts ==
  JobsRouted <=> BatchRouted /\ GatewayRouted /\ \A l \in Lanes : LaneRouted(l)
BY Zenon DEF JobsRouted, BatchRouted, GatewayRouted, LaneRouted

(* And after a step. *)
LEMMA RoutedNext ==
  ASSUME BatchRouted', GatewayRouted', \A l \in Lanes : LaneRouted(l)'
  PROVE  JobsRouted'
BY Zenon DEF JobsRouted, BatchRouted, GatewayRouted, LaneRouted

(* The batcher's part while its stages are the same. *)
LEMMA BatchSame ==
  ASSUME BatchRouted, intake' = intake, inFlight' = inFlight, routing' = routing,
         received' = received
  PROVE  BatchRouted'
BY ChannelsSame DEF BatchRouted

(* The gateway's part while its stages are the same. *)
LEMMA GatewaySame ==
  ASSUME GatewayRouted, measures' = measures, tasks' = tasks
  PROVE  GatewayRouted'
BY ChannelsSame DEF GatewayRouted

(* The lanes' parts when one lane moves. *)
LEMMA LanesRouted ==
  ASSUME \A k \in Lanes : LaneRouted(k), DOMAIN phase = Lanes, NEW l \in Lanes, NEW p,
         phase' = [phase EXCEPT ![l] = p], \A m \in Lanes \ {l} : outbox'[m] = outbox[m],
         \A j \in Range(outbox'[l]) : j.lane = l /\ j.kind = IF p = "measures" THEN "measure" ELSE "eval",
         p \notin {"evals", "sending", "measures"} => outbox'[l] = <<>>,
         p = "sending" => outbox'[l] # <<>>
  PROVE  \A k \in Lanes : LaneRouted(k)'
<1> SUFFICES ASSUME NEW k \in Lanes PROVE LaneRouted(k)'
  OBVIOUS
<1>1. CASE k = l
  <2>1. phase'[l] = p
    OBVIOUS
  <2>2. Range(outbox[l])' = Range(outbox'[l])
    BY DEF Range
  <2> QED BY <1>1, <2>1, <2>2 DEF LaneRouted
<1>2. CASE k # l
  <2>1. phase'[k] = phase[k] /\ outbox'[k] = outbox[k]
    BY <1>2
  <2>2. LaneRouted(k) /\ Range(outbox[k])' = Range(outbox[k])
    BY <2>1 DEF Range
  <2> QED BY <2>1, <2>2 DEF LaneRouted
<1> QED BY <1>1, <1>2

(* The lanes' parts when no lane moves. *)
LEMMA LanesQuiet ==
  ASSUME \A k \in Lanes : LaneRouted(k), phase' = phase, outbox' = outbox
  PROVE  \A k \in Lanes : LaneRouted(k)'
BY DEF LaneRouted, Range

(* Every lane has a phase. *)
LEMMA PhasesTyped == LanesTypeOK => DOMAIN phase = Lanes
BY DEF LanesTypeOK

(* A step of a lane that leaves every channel of jobs as it is. *)
LEMMA RoundRouted ==
  ASSUME RunAccounted, JobsRouted, NEW l \in Lanes,
         \/ Admit(l) \/ DriveWave(l) \/ DriveMeasure(l) \/ DriveDone(l) \/ SendGame(l)
         \/ ReceiveAck(l) \/ CountEval(l) \/ EndRound(l) \/ Poll(l) \/ Resume(l)
  PROVE  JobsRouted'
<1>1. DOMAIN phase = Lanes
  BY PhasesTyped DEF RunAccounted
<1>2. /\ outbox' = outbox /\ intake' = intake /\ inFlight' = inFlight /\ routing' = routing
      /\ measures' = measures /\ tasks' = tasks /\ received' = received
  BY DEF Admit, DriveWave, DriveMeasure, DriveDone, SendGame, ReceiveAck, CountEval, EndRound,
         Poll, Resume, batchVars, gatewayVars, channels
<1>3. BatchRouted' /\ GatewayRouted'
  BY <1>2, RoutedParts, BatchSame, GatewaySame
<1>4. \A k \in Lanes : LaneRouted(k)
  BY RoutedParts
<1>5. \A k \in Lanes : LaneRouted(k)'
  <2>1. CASE DriveWave(l) \/ DriveMeasure(l) \/ DriveDone(l)
    <3>1. phase' = phase
      BY <2>1 DEF DriveWave, DriveMeasure, DriveDone
    <3> QED BY ONLY <1>2, <1>4, <3>1, LanesQuiet
  <2>2. CASE CountEval(l)
    <3>1. /\ phase[l] = "evals" /\ outbox'[l] # <<>> /\ phase' = [phase EXCEPT ![l] = "sending"]
          /\ outbox'[l] = outbox[l]
      BY <1>2, <2>2 DEF CountEval, Goto
    <3>2. \A j \in Range(outbox'[l]) : j.lane = l /\ j.kind = "eval"
      BY <1>4, <3>1 DEF LaneRouted
    <3>3. PICK p : p = "sending"
      OBVIOUS
    <3>4. /\ phase' = [phase EXCEPT ![l] = p] /\ \A m \in Lanes \ {l} : outbox'[m] = outbox[m]
          /\ \A j \in Range(outbox'[l]) :
                j.lane = l /\ j.kind = IF p = "measures" THEN "measure" ELSE "eval"
          /\ p \in {"evals", "sending", "measures"} /\ outbox'[l] # <<>>
      BY <1>2, <3>1, <3>2, <3>3
    <3> QED BY <1>1, <1>4, <3>4, LanesRouted
  <2>3. CASE Admit(l) \/ SendGame(l) \/ ReceiveAck(l) \/ EndRound(l) \/ Poll(l) \/ Resume(l)
    <3>1. \E p \in {"drive", "ack", "done", "wait", "top", "more"} : phase' = [phase EXCEPT ![l] = p]
      BY <2>3 DEF Admit, SendGame, ReceiveAck, EndRound, Poll, Resume, Goto
    <3>2. PICK p \in {"drive", "ack", "done", "wait", "top", "more"} :
            phase' = [phase EXCEPT ![l] = p]
      BY <3>1
    <3>3. outbox[l] = <<>>
      <4>1. \/ phase[l] \in {"top", "drive", "ack", "wait", "more"}
            \/ outbox[l] = <<>>
        BY <2>3 DEF Admit, SendGame, ReceiveAck, EndRound, Poll, Resume, Driven
      <4> QED BY <1>4, <4>1 DEF LaneRouted
    <3>4. outbox'[l] = <<>> /\ \A m \in Lanes \ {l} : outbox'[m] = outbox[m]
      BY <1>2, <3>3
    <3>5. Range(outbox'[l]) = {}
      BY <3>4 DEF Range
    <3> QED BY <1>1, <1>4, <3>2, <3>4, <3>5, LanesRouted
  <2> QED BY <2>1, <2>2, <2>3
<1> QED BY <1>3, <1>5, RoutedNext

(* A lane fails and drops its jobs. *)
LEMMA FailRouted ==
  ASSUME RunAccounted, WorkSound, JobsRouted, NEW l \in Lanes, FailLane(l), intake' = intake,
         inFlight' = inFlight, routing' = routing, measures' = measures, tasks' = tasks,
         received' = received
  PROVE  JobsRouted'
<1>1. DOMAIN phase = Lanes /\ \A k \in Lanes : LaneRouted(k)
  BY PhasesTyped, RoutedParts DEF RunAccounted
<1>2. BatchRouted' /\ GatewayRouted'
  BY RoutedParts, BatchSame, GatewaySame
<1>3. /\ outbox' = [outbox EXCEPT ![l] = <<>>] /\ replies' = [replies EXCEPT ![l] = <<>>]
      /\ phase' = [phase EXCEPT ![l] = "failed"]
  BY DEF FailLane, Goto
<1>4. outbox'[l] = <<>> /\ \A m \in Lanes \ {l} : outbox'[m] = outbox[m]
  BY <1>3, FailMoves
<1>5. Range(outbox'[l]) = {}
  BY <1>4 DEF Range
<1>6. \A k \in Lanes : LaneRouted(k)'
  BY <1>1, <1>3, <1>4, <1>5, LanesRouted
<1> QED BY <1>2, <1>6, RoutedNext

(* What a lane takes from its pool is of the kind it takes. *)
LEMMA TakeRouted ==
  ASSUME RunAccounted, WorkSound, JobsRouted, NEW l \in Lanes, TakeEvals(l) \/ TakeMeasures(l)
  PROVE  JobsRouted'
<1>1. DOMAIN phase = Lanes /\ (\A k \in Lanes : LaneRouted(k)) /\ PoolTyped
  BY PhasesTyped, RoutedParts DEF RunAccounted, LanesTypeOK, PoolTyped
<1>2. \E k \in {"eval", "measure"} :
        /\ outbox' = [outbox EXCEPT ![l] = Unsent(l, k)]
        /\ phase' = [phase EXCEPT ![l] = IF k = "measure" THEN "measures" ELSE "evals"]
  BY DEF TakeEvals, TakeMeasures, Goto
<1>3. PICK k \in {"eval", "measure"} :
        /\ outbox' = [outbox EXCEPT ![l] = Unsent(l, k)]
        /\ phase' = [phase EXCEPT ![l] = IF k = "measure" THEN "measures" ELSE "evals"]
  BY <1>2
<1>4. phase[l] \in {"drive", "evals"} /\ outbox[l] = <<>>
  BY DEF TakeEvals, TakeMeasures, Driven, JobsRouted
<1>5. ~LaneEnded(l)
  BY <1>4 DEF LaneEnded, Ended
<1>6. /\ intake' = intake /\ inFlight' = inFlight /\ routing' = routing /\ received' = received
      /\ measures' = measures /\ tasks' = tasks /\ replies' = replies
  BY DEF TakeEvals, TakeMeasures, batchVars, gatewayVars, channels
<1>7. Range(outbox'[l]) = UnsentJobs(l, k) /\ \A m \in Lanes \ {l} : outbox'[m] = outbox[m]
  BY <1>1, <1>3, <1>4, <1>5, <1>6, TakeMoves
<1>8. \A j \in UnsentJobs(l, k) : j.lane = l /\ j.kind = k
  BY DEF UnsentJobs, JobOf, ParkedWith
<1>9. PICK p : p = IF k = "measure" THEN "measures" ELSE "evals"
  OBVIOUS
<1>10. /\ p \in {"evals", "measures"}
       /\ \A j \in Range(outbox'[l]) : j.lane = l /\ j.kind = IF p = "measures" THEN "measure" ELSE "eval"
  BY <1>7, <1>8, <1>9
<1>11. \A m \in Lanes : LaneRouted(m)'
  BY <1>1, <1>3, <1>7, <1>9, <1>10, LanesRouted
<1>12. BatchRouted' /\ GatewayRouted'
  BY <1>6, RoutedParts, BatchSame, GatewaySame
<1> QED BY <1>11, <1>12, RoutedNext

(* A lane hands over an evaluation. *)
LEMMA SendEvalRouted ==
  ASSUME RunAccounted, WorkSound, JobsRouted, NEW l \in Lanes, SendEval(l)
  PROVE  JobsRouted'
<1>1. DOMAIN phase = Lanes /\ (\A k \in Lanes : LaneRouted(k)) /\ BatchRouted /\ GatewayRouted
  BY PhasesTyped, RoutedParts DEF RunAccounted
<1>2. /\ phase[l] = "sending" /\ phase' = [phase EXCEPT ![l] = "evals"]
      /\ outbox' = [outbox EXCEPT ![l] = Tail(outbox[l])]
      /\ intake' = Append(intake, Head(outbox[l]))
      /\ inFlight' = inFlight /\ routing' = routing /\ received' = received /\ replies' = replies
      /\ measures' = measures /\ tasks' = tasks
  BY DEF SendEval, Goto, batchVars, gatewayVars
<1>3. outbox[l] # <<>> /\ \A j \in Range(outbox[l]) : j.lane = l /\ j.kind = "eval"
  BY <1>1, <1>2 DEF LaneRouted
<1>4. /\ Range(outbox'[l]) \in SUBSET Range(outbox[l])
      /\ \A m \in Lanes \ {l} : outbox'[m] = outbox[m]
      /\ Range(intake') = Range(intake) \cup {Head(outbox[l])}
  BY <1>2, <1>3, SendEvalMoves
<1>5. Head(outbox[l]).kind = "eval"
  BY <1>3, FirstJob DEF WorkSound
<1>6. BatchRouted'
  <2>1. InFlightJobs' = InFlightJobs
    BY <1>2, ChannelsSame
  <2>2. \A j \in Range(intake') : j.kind = "eval"
    BY <1>1, <1>4, <1>5 DEF BatchRouted
  <2>3. Range(intake)' = Range(intake') /\ Range(routing)' = Range(routing)
    BY <1>2 DEF Range
  <2> QED BY <1>1, <1>2, <2>1, <2>2, <2>3 DEF BatchRouted
<1>7. GatewayRouted'
  BY <1>1, <1>2, GatewaySame
<1>8. PICK p : p = "evals"
  OBVIOUS
<1>9. /\ phase' = [phase EXCEPT ![l] = p] /\ p \in {"evals", "measures"}
      /\ \A j \in Range(outbox'[l]) : j.lane = l /\ j.kind = IF p = "measures" THEN "measure" ELSE "eval"
  BY <1>2, <1>3, <1>4, <1>8
<1>10. \A k \in Lanes : LaneRouted(k)'
  BY <1>1, <1>4, <1>9, LanesRouted
<1> QED BY <1>6, <1>7, <1>10, RoutedNext

(* A lane hands over a measurement. *)
LEMMA SendMeasureRouted ==
  ASSUME RunAccounted, WorkSound, JobsRouted, NEW l \in Lanes, SendMeasure(l)
  PROVE  JobsRouted'
<1>1. DOMAIN phase = Lanes /\ (\A k \in Lanes : LaneRouted(k)) /\ BatchRouted /\ GatewayRouted
  BY PhasesTyped, RoutedParts DEF RunAccounted
<1>2. /\ phase[l] = "measures" /\ phase' = phase
      /\ outbox[l] # <<>> /\ outbox' = [outbox EXCEPT ![l] = Tail(outbox[l])]
      /\ measures' = Append(measures, Head(outbox[l])) /\ intake' = intake
      /\ inFlight' = inFlight /\ routing' = routing /\ received' = received /\ replies' = replies
      /\ tasks' = tasks
  BY DEF SendMeasure, batchVars, gatewayVars
<1>3. \A j \in Range(outbox[l]) : j.lane = l /\ j.kind = "measure"
  BY <1>1, <1>2 DEF LaneRouted
<1>4. /\ Range(outbox'[l]) \in SUBSET Range(outbox[l])
      /\ \A m \in Lanes \ {l} : outbox'[m] = outbox[m]
      /\ Range(measures') = Range(measures) \cup {Head(outbox[l])}
  BY <1>2, SendMeasureMoves
<1>5. Head(outbox[l]).kind = "measure"
  BY <1>2, <1>3, FirstJob DEF WorkSound
<1>6. GatewayRouted'
  <2>1. \A j \in Range(measures') : j.kind = "measure"
    BY <1>1, <1>4, <1>5 DEF GatewayRouted
  <2>2. Range(measures)' = Range(measures')
    BY DEF Range
  <2> QED BY <1>1, <1>2, <2>1, <2>2 DEF GatewayRouted
<1>7. BatchRouted'
  BY <1>1, <1>2, BatchSame
<1>8. PICK p : p = phase[l]
  OBVIOUS
<1>9. /\ phase' = [phase EXCEPT ![l] = p] /\ p \in {"evals", "measures"}
      /\ \A j \in Range(outbox'[l]) : j.lane = l /\ j.kind = IF p = "measures" THEN "measure" ELSE "eval"
  <2>1. phase = [phase EXCEPT ![l] = phase[l]]
    BY <1>1, LanesTypeOK DEF RunAccounted, LanesTypeOK
  <2> QED BY <1>2, <1>3, <1>4, <1>8, <2>1
<1>10. \A k \in Lanes : LaneRouted(k)'
  BY <1>1, <1>4, <1>9, LanesRouted
<1> QED BY <1>6, <1>7, <1>10, RoutedNext

(* The batcher submits a batch, receives one, routes its replies and accounts for it. *)
LEMMA BatcherRouted ==
  ASSUME WorkSound, JobsRouted, received \in Nat, BatcherStep
  PROVE  BatchRouted'
<1>1. BatchRouted
  BY RoutedParts
<1>2. /\ outbox' = outbox /\ measures' = measures /\ tasks' = tasks
  BY DEF BatcherStep, Submit, Drain, Route, Account, BatcherFails, BatcherEnds, laneVars,
         gatewayVars, channels
<1>3. CASE Submit
  <2>1. PICK n \in 1..MaxBatch :
           /\ n <= Len(intake) /\ inFlight' = Append(inFlight, SubSeq(intake, 1, n))
           /\ intake' = SubSeq(intake, n + 1, Len(intake))
    BY <1>3 DEF Submit
  <2>2. Len(intake) \in Nat /\ MaxBatch \in Nat
    BY SeqHolds, SizesAssumption DEF WorkSound, ChannelsTypeOK
  <2>3. n \in 1..Len(intake) /\ n <= MaxBatch
    BY <2>1, <2>2
  <2>4. PICK a : a = SubSeq(intake, 1, n)
    OBVIOUS
  <2>5. routing' = routing /\ replies' = replies /\ received' = received
    BY <1>3 DEF Submit
  <2>6. inFlight' = Append(inFlight, a) /\ intake' = SubSeq(intake, n + 1, Len(intake))
    BY <2>1, <2>4
  <2>7. /\ Len(a) = n /\ Range(a) \in SUBSET Range(intake)
        /\ InFlightJobs' = InFlightJobs \cup Range(a) /\ Range(intake') \in SUBSET Range(intake)
    BY <1>2, <2>3, <2>4, <2>5, <2>6, SubmitMoves
  <2>8. \A i \in DOMAIN inFlight' : Len(inFlight'[i]) <= MaxBatch
    <3>1. PICK s \in Seq(Seq(Job)) : s = inFlight
      BY DEF WorkSound, ChannelsTypeOK
    <3>2. PICK t : t = Append(s, a)
      OBVIOUS
    <3>3. \A i \in DOMAIN t : (i \in DOMAIN s /\ t[i] = s[i]) \/ t[i] = a
      BY <3>2
    <3> QED BY <1>1, <2>3, <2>6, <2>7, <3>1, <3>2, <3>3 DEF BatchRouted
  <2>9. Range(intake)' = Range(intake') /\ Range(routing)' = Range(routing)
    BY <2>5 DEF Range
  <2> QED BY <1>1, <2>5, <2>7, <2>8, <2>9 DEF BatchRouted
<1>4. CASE Drain
  <2>1. /\ inFlight # <<>> /\ routing = <<>> /\ routing' = Head(inFlight)
        /\ inFlight' = Tail(inFlight) /\ intake' = intake /\ replies' = replies
        /\ received' = Len(Head(inFlight))
    BY <1>4 DEF Drain, JobsRouted, channels
  <2>2. PICK b : b = Head(inFlight)
    OBVIOUS
  <2>3. /\ b \in Seq(Job) /\ Range(b) \in SUBSET InFlightJobs
        /\ InFlightJobs' = InFlightJobs \ Range(b)
        /\ \A i \in DOMAIN inFlight' : \E k \in DOMAIN inFlight : inFlight'[i] = inFlight[k]
    BY <1>2, <2>1, <2>2, DrainMoves
  <2>4. routing' = b /\ received' = Len(b) /\ Len(b) \in Nat /\ (Len(b) = 0 => b = <<>>)
    BY <2>1, <2>2, <2>3, SeqHolds
  <2>5. \A i \in DOMAIN inFlight' : Len(inFlight'[i]) <= MaxBatch
    BY <1>1, <2>3 DEF BatchRouted
  <2>6. Range(intake)' = Range(intake) /\ Range(routing)' = Range(b)
    BY <2>1, <2>4 DEF Range
  <2> QED BY <1>1, <2>3, <2>4, <2>5, <2>6 DEF BatchRouted
<1>5. CASE Route
  <2>1. PICK j : j = Head(routing)
    OBVIOUS
  <2>2. /\ routing # <<>> /\ Reply(j.lane, Answer(j, TRUE)) /\ routing' = Tail(routing)
        /\ intake' = intake /\ inFlight' = inFlight /\ received' = received
    BY <1>5, <2>1 DEF Route
  <2>3. ChannelsTypeOK' /\ Range(routing') \in SUBSET Range(routing) /\ Len(routing) = Len(routing') + 1
    BY <1>2, <2>1, <2>2, RouteMoves
  <2>4. Len(routing') \in Nat /\ Len(routing) \in Nat
    BY <2>3, SeqHolds DEF WorkSound, ChannelsTypeOK
  <2>5. /\ received # 0 /\ received' = received /\ Len(routing') <= received
        /\ InFlightJobs' = InFlightJobs /\ Range(intake)' = Range(intake)
        /\ Range(routing)' \in SUBSET Range(routing)
    <3>1. received # 0 /\ Len(routing) <= received
      BY <1>1, <2>2 DEF BatchRouted
    <3>2. Len(routing') <= received
      BY <2>3, <2>4, <3>1
    <3>3. Range(routing)' \in SUBSET Range(routing)
      BY <2>3 DEF Range
    <3> QED BY <2>2, <3>1, <3>2, <3>3, ChannelsSame
  <2> QED BY <1>1, <2>2, <2>5 DEF BatchRouted
<1>6. CASE Account
  <2>1. /\ intake' = intake /\ inFlight' = inFlight /\ routing' = routing /\ routing = <<>>
        /\ received' = 0
    BY <1>6 DEF Account
  <2>2. Len(routing) = 0
    BY <2>1
  <2>3. /\ InFlightJobs' = InFlightJobs /\ Range(intake)' = Range(intake)
        /\ Range(routing)' = Range(routing)
    BY <2>1, ChannelsSame
  <2> QED BY <1>1, <2>1, <2>2, <2>3 DEF BatchRouted
<1>7. CASE BatcherEnds
  BY <1>1, <1>7, BatchSame DEF BatcherEnds, channels
<1>8. CASE BatcherFails
  <2>1. /\ intake' = <<>> /\ inFlight' = <<>> /\ routing' = routing /\ replies' = replies
        /\ received' = received
    BY <1>8 DEF BatcherFails
  <2>2. InFlightJobs' = {} /\ Range(intake') = {} /\ DOMAIN inFlight' = {}
    BY <1>2, <2>1, BatcherDrops
  <2>3. Range(intake)' = Range(intake') /\ Range(routing)' = Range(routing)
    BY <2>1 DEF Range
  <2> QED BY <1>1, <2>1, <2>2, <2>3 DEF BatchRouted
<1> QED BY <1>3, <1>4, <1>5, <1>6, <1>7, <1>8 DEF BatcherStep

(* The gateway takes measurements and answers them. *)
LEMMA GatewayStepRouted ==
  ASSUME WorkSound, JobsRouted, GatewayStep
  PROVE  GatewayRouted'
<1>1. GatewayRouted
  BY RoutedParts
<1>2. /\ outbox' = outbox /\ intake' = intake /\ inFlight' = inFlight /\ routing' = routing
  BY DEF GatewayStep, GatewayTakes, GatewayFails, GatewayEnds, GatewayAnswers, laneVars,
         batchVars, channels
<1>3. CASE GatewayTakes
  <2>1. /\ measures # <<>> /\ tasks' = tasks \cup {Head(measures)} /\ measures' = Tail(measures)
        /\ replies' = replies
    BY <1>3 DEF GatewayTakes
  <2>2. Range(measures') \in SUBSET Range(measures) /\ Head(measures) \in Range(measures)
    BY <1>2, <2>1, GatewayTakesMoves
  <2>3. Range(measures)' = Range(measures')
    BY DEF Range
  <2> QED BY <1>1, <2>1, <2>2, <2>3 DEF GatewayRouted
<1>4. CASE GatewayFails
  <2>1. measures' = <<>> /\ tasks' = {} /\ replies' = replies
    BY <1>4 DEF GatewayFails
  <2>2. Range(measures') = {}
    BY <1>2, <2>1, GatewayDrops
  <2>3. Range(measures)' = Range(measures')
    BY DEF Range
  <2> QED BY <2>1, <2>2, <2>3 DEF GatewayRouted
<1>5. CASE GatewayEnds
  BY <1>1, <1>5, GatewaySame DEF GatewayEnds, channels
<1>6. ASSUME NEW j \in tasks, GatewayAnswers(j) PROVE GatewayRouted'
  <2>1. measures' = measures /\ tasks' = tasks \ {j}
    BY <1>6 DEF GatewayAnswers
  <2>2. Range(measures)' = Range(measures)
    BY <2>1 DEF Range
  <2> QED BY <1>1, <2>1, <2>2 DEF GatewayRouted
<1> QED BY <1>3, <1>4, <1>5, <1>6 DEF GatewayStep

(* Every step leaves every job where jobs of its kind belong. *)
LEMMA RoutedKept ==
  ASSUME RunAccounted, WorkSound, JobsRouted, received \in Nat, [Next]_vars
  PROVE  JobsRouted'
<1>1. BatchRouted /\ GatewayRouted /\ \A k \in Lanes : LaneRouted(k)
  BY RoutedParts
<1>2. ASSUME NEW l \in Lanes, LaneStep(l) PROVE JobsRouted'
  <2>1. CASE \/ TopFails(l) \/ DriveFails(l) \/ SendGameFails(l) \/ ReceiveAckFails(l)
             \/ SendEvalFails(l) \/ SendMeasureFails(l) \/ ResumeFails(l) \/ PollFails(l)
    <3>1. /\ FailLane(l) /\ intake' = intake /\ inFlight' = inFlight
          /\ routing' = routing /\ measures' = measures /\ tasks' = tasks /\ received' = received
      BY <2>1 DEF TopFails, DriveFails, SendGameFails, ReceiveAckFails, SendEvalFails,
                  SendMeasureFails, ResumeFails, PollFails, batchVars, gatewayVars
    <3> QED BY <3>1, FailRouted
  <2> QED BY <1>2, <2>1, RoundRouted, TakeRouted, SendEvalRouted, SendMeasureRouted DEF LaneStep
<1>3. CASE BatcherStep
  <2>1. phase' = phase /\ outbox' = outbox /\ measures' = measures /\ tasks' = tasks
    BY <1>3 DEF BatcherStep, Submit, Drain, Route, Account, BatcherFails, BatcherEnds, laneVars,
         gatewayVars, channels
  <2> QED BY <1>1, <1>3, <2>1, BatcherRouted, GatewaySame, LanesQuiet, RoutedNext
<1>4. CASE GatewayStep
  <2>1. /\ phase' = phase /\ outbox' = outbox /\ intake' = intake /\ inFlight' = inFlight
        /\ routing' = routing /\ received' = received
    BY <1>4 DEF GatewayStep, GatewayTakes, GatewayFails, GatewayEnds, GatewayAnswers, laneVars,
         batchVars, channels
  <2> QED BY <1>1, <1>4, <2>1, GatewayStepRouted, BatchSame, LanesQuiet, RoutedNext
<1>5. CASE SinkStep \/ UNCHANGED vars
  <2>1. /\ phase' = phase /\ outbox' = outbox /\ intake' = intake /\ inFlight' = inFlight
        /\ routing' = routing /\ received' = received /\ measures' = measures /\ tasks' = tasks
    BY <1>5 DEF SinkStep, SinkAppends, SinkDrops, SinkFails, SinkEnds, vars, laneVars, batchVars,
                gatewayVars, channels
  <2> QED BY <1>1, <2>1, BatchSame, GatewaySame, LanesQuiet, RoutedNext
<1> QED BY <1>2, <1>3, <1>4, <1>5 DEF Next, Joined

-----------------------------------------------------------------------------
(* The pressure counter.                                                   *)

(* The lanes that have counted a job and not yet sent it, and all that is counted. *)
Sending == {l \in Lanes : phase[l] = "sending"}
Counted == Len(intake) + Cardinality(InFlightJobs) + received + Cardinality(Sending)
PressureSound ==
  received \in 0..MaxBatch /\ outstanding \in Nat /\ PressureCovers /\ OutstandingExact

(* These are numbers. *)
LEMMA CountsTyped ==
  ASSUME WorkSound, received \in Nat
  PROVE  /\ Len(intake) \in Nat
         /\ IsFiniteSet(InFlightJobs) /\ Cardinality(InFlightJobs) \in Nat
         /\ IsFiniteSet(Sending) /\ Cardinality(Sending) \in Nat
         /\ Counted \in Nat
<1>1. Len(intake) \in Nat
  BY SeqHolds DEF WorkSound, ChannelsTypeOK
<1>2. IsFiniteSet(InFlightJobs)
  <2>1. InFlightJobs \in SUBSET UnderWay
    BY StagesUnderWay
  <2>2. UnderWay \in SUBSET Job /\ OneWork(UnderWay)
    BY DEF WorkSound, Awaiting
  <2>3. InFlightJobs \in SUBSET Job /\ OneWork(InFlightJobs)
    BY <2>1, <2>2, OneWorkPart
  <2> QED BY <2>3, AllJobsFew
<1>3. IsFiniteSet(Sending)
  <2>1. Sending \in SUBSET Lanes
    BY DEF Sending
  <2> QED BY <2>1, LanesAssumption, FS_Subset
<1>4. Cardinality(InFlightJobs) \in Nat /\ Cardinality(Sending) \in Nat
  BY <1>2, <1>3, FS_CardinalityType
<1> QED BY <1>1, <1>2, <1>3, <1>4 DEF Counted

(* The counter stays ahead of the jobs, and exact while nothing fails, when it
   changes with them. *)
LEMMA Balance ==
  ASSUME WorkSound, PressureSound, NEW d \in Nat, d = Counted', NEW x \in Int,
         outstanding' = outstanding + x, d <= Counted + x, NoFailure' => NoFailure,
         NoFailure' => d = Counted + x, received' \in 0..MaxBatch
  PROVE  PressureSound'
<1>1. Counted \in Nat /\ outstanding \in Nat
  BY CountsTyped, SizesAssumption DEF PressureSound
<1>2. outstanding >= Counted
  BY DEF PressureSound, PressureCovers, Counted, Sending
<1>3. outstanding' >= d /\ outstanding' \in Nat
  BY <1>1, <1>2
<1>4. PressureCovers'
  BY <1>3 DEF PressureCovers, Counted, Sending
<1>5. ASSUME NoFailure' PROVE outstanding' = d
  <2>1. outstanding = Counted
    BY <1>5 DEF PressureSound, OutstandingExact, Counted, Sending
  <2> QED BY <1>1, <1>5, <2>1
<1>6. OutstandingExact'
  BY <1>5 DEF OutstandingExact, Counted, Sending
<1> QED BY <1>3, <1>4, <1>6 DEF PressureSound

(* Nothing that is counted changes. *)
LEMMA PressureSame ==
  ASSUME WorkSound, PressureSound, NoFailure' => NoFailure, intake' = intake,
         inFlight' = inFlight, received' = received, outstanding' = outstanding,
         Sending' = Sending
  PROVE  PressureSound'
<1>1. Counted \in Nat
  BY CountsTyped, SizesAssumption DEF PressureSound
<1>2. PICK d \in Nat : d = Counted
  BY <1>1
<1>3. d = Counted'
  BY <1>2, ChannelsSame DEF Counted
<1>4. outstanding' = outstanding + 0 /\ d <= Counted + 0 /\ d = Counted + 0
  BY <1>1, <1>2 DEF PressureSound
<1>5. received' \in 0..MaxBatch
  BY DEF PressureSound
<1>6. 0 \in Int
  OBVIOUS
<1> QED BY <1>3, <1>4, <1>5, <1>6, Balance

(* The lanes that are sending, when one lane moves. *)
LEMMA SendingView ==
  ASSUME DOMAIN phase = Lanes, NEW l \in Lanes, NEW p, phase' = [phase EXCEPT ![l] = p]
  PROVE  /\ p = "sending" => Sending' = Sending \cup {l}
         /\ p # "sending" => Sending' = Sending \ {l}
<1>1. phase'[l] = p /\ \A m \in Lanes \ {l} : phase'[m] = phase[m]
  OBVIOUS
<1> QED BY <1>1 DEF Sending

(* A lane counts a job. *)
LEMMA CountEvalPressure ==
  ASSUME RunAccounted, WorkSound, PressureSound, NoFailure' => NoFailure, NEW l \in Lanes,
         CountEval(l)
  PROVE  PressureSound'
<1>1. /\ phase[l] = "evals" /\ phase' = [phase EXCEPT ![l] = "sending"]
      /\ intake' = intake /\ inFlight' = inFlight /\ received' = received
      /\ outstanding' = outstanding + 1
  BY DEF CountEval, Goto, batchVars
<1>2. DOMAIN phase = Lanes
  BY PhasesTyped DEF RunAccounted
<1>3. l \notin Sending /\ Sending' = Sending \cup {l}
  BY <1>1, <1>2, SendingView DEF Sending
<1>4. received \in Nat
  BY SizesAssumption DEF PressureSound
<1>5. Cardinality(Sending)' = Cardinality(Sending) + 1
  BY <1>3, <1>4, CountsTyped, FS_AddElement
<1>6. InFlightJobs' = InFlightJobs
  BY <1>1, ChannelsSame
<1>7. Len(intake)' = Len(intake)
  BY <1>1
<1>8. Counted \in Nat /\ Counted' = Counted + 1
  BY <1>1, <1>4, <1>5, <1>6, <1>7, CountsTyped DEF Counted
<1>9. PICK d \in Nat : d = Counted'
  BY <1>8
<1>10. d = Counted + 1 /\ d <= Counted + 1 /\ 1 \in Int
  BY <1>8, <1>9
<1>11. received' \in 0..MaxBatch
  BY <1>1 DEF PressureSound
<1> QED BY <1>1, <1>9, <1>10, <1>11, Balance

(* A lane sends the job that it has counted. *)
LEMMA SendEvalPressure ==
  ASSUME RunAccounted, WorkSound, JobsRouted, PressureSound, NoFailure' => NoFailure,
         NEW l \in Lanes, SendEval(l)
  PROVE  PressureSound'
<1>1. /\ phase[l] = "sending" /\ phase' = [phase EXCEPT ![l] = "evals"]
      /\ outbox' = [outbox EXCEPT ![l] = Tail(outbox[l])]
      /\ intake' = Append(intake, Head(outbox[l]))
      /\ inFlight' = inFlight /\ routing' = routing /\ received' = received /\ replies' = replies
      /\ measures' = measures /\ tasks' = tasks /\ outstanding' = outstanding
  BY DEF SendEval, Goto, batchVars, gatewayVars
<1>2. DOMAIN phase = Lanes /\ outbox[l] # <<>>
  BY <1>1, PhasesTyped DEF RunAccounted, JobsRouted
<1>3. l \in Sending /\ Sending' = Sending \ {l}
  BY <1>1, <1>2, SendingView DEF Sending
<1>4. received \in Nat
  BY SizesAssumption DEF PressureSound
<1>5. Cardinality(Sending)' = Cardinality(Sending) - 1
  BY <1>3, <1>4, CountsTyped, FS_RemoveElement
<1>6. InFlightJobs' = InFlightJobs
  BY <1>1, ChannelsSame
<1>7. Len(intake') = Len(intake) + 1
  BY <1>1, <1>2, SendEvalMoves
<1>8. Counted \in Nat /\ Counted' = Counted
  <2>1. PICK a, b : a = Len(intake) /\ b = Len(intake')
    OBVIOUS
  <2>2. b = a + 1
    BY <1>7, <2>1
  <2>3. PICK s, t : s = Cardinality(Sending) /\ t = Cardinality(Sending)'
    OBVIOUS
  <2>4. t = s - 1
    BY <1>5, <2>3
  <2>5. /\ a \in Nat /\ s \in Nat /\ Cardinality(InFlightJobs) \in Nat /\ Counted \in Nat
    BY <1>4, <2>1, <2>3, CountsTyped
  <2>6. Counted = a + Cardinality(InFlightJobs) + received + s
    BY <2>1, <2>3 DEF Counted
  <2>7. Counted' = b + Cardinality(InFlightJobs) + received + t
    BY <1>1, <1>6, <2>1, <2>3 DEF Counted
  <2> QED BY ONLY <1>4, <2>2, <2>4, <2>5, <2>6, <2>7
<1>9. PICK d \in Nat : d = Counted'
  BY <1>8
<1>10. d = Counted + 0 /\ d <= Counted + 0 /\ 0 \in Int /\ outstanding' = outstanding + 0
  BY <1>1, <1>8, <1>9 DEF PressureSound
<1>11. received' \in 0..MaxBatch
  BY <1>1 DEF PressureSound
<1> QED BY <1>9, <1>10, <1>11, Balance

(* A lane that cannot send the job uncounts it. *)
LEMMA SendEvalFailsPressure ==
  ASSUME RunAccounted, WorkSound, PressureSound, NoFailure' => NoFailure, NEW l \in Lanes,
         SendEvalFails(l)
  PROVE  PressureSound'
<1>1. /\ phase[l] = "sending" /\ phase' = [phase EXCEPT ![l] = "failed"]
      /\ intake' = intake /\ inFlight' = inFlight /\ received' = received
      /\ outstanding' = outstanding - 1
  BY DEF SendEvalFails, FailLane, Goto, batchVars
<1>2. DOMAIN phase = Lanes
  BY PhasesTyped DEF RunAccounted
<1>3. l \in Sending /\ Sending' = Sending \ {l}
  BY <1>1, <1>2, SendingView DEF Sending
<1>4. received \in Nat
  BY SizesAssumption DEF PressureSound
<1>5. Cardinality(Sending)' = Cardinality(Sending) - 1 /\ Cardinality(Sending)' \in Nat
  <2>1. IsFiniteSet(Sending \ {l})
    BY <1>4, CountsTyped, FS_RemoveElement
  <2> QED BY <1>3, <1>4, <2>1, CountsTyped, FS_RemoveElement, FS_CardinalityType
<1>6. InFlightJobs' = InFlightJobs
  BY <1>1, ChannelsSame
<1>7. Len(intake)' = Len(intake)
  BY <1>1
<1>8. Counted \in Nat /\ Counted' = Counted - 1 /\ Counted' \in Nat
  BY <1>1, <1>4, <1>5, <1>6, <1>7, CountsTyped DEF Counted
<1>9. PICK d \in Nat : d = Counted'
  BY <1>8
<1>10. /\ d = Counted + (-1) /\ d <= Counted + (-1) /\ -1 \in Int
       /\ outstanding' = outstanding + (-1)
  BY <1>1, <1>8, <1>9 DEF PressureSound
<1>11. received' \in 0..MaxBatch
  BY <1>1 DEF PressureSound
<1> QED BY <1>9, <1>10, <1>11, Balance

(* A lane neither counts nor sends. *)
LEMMA LanePressure ==
  ASSUME RunAccounted, WorkSound, PressureSound, NoFailure' => NoFailure, NEW l \in Lanes,
         LaneStep(l), ~CountEval(l), ~SendEval(l), ~SendEvalFails(l)
  PROVE  PressureSound'
<1>1. DOMAIN phase = Lanes
  BY PhasesTyped DEF RunAccounted
<1>2. /\ intake' = intake /\ inFlight' = inFlight /\ received' = received
      /\ outstanding' = outstanding
      /\ \/ phase' = phase
         \/ /\ phase[l] # "sending"
            /\ \E p : p # "sending" /\ phase' = [phase EXCEPT ![l] = p]
  <2>1. CASE \/ TopFails(l) \/ DriveFails(l) \/ SendGameFails(l) \/ ReceiveAckFails(l)
             \/ SendMeasureFails(l) \/ ResumeFails(l) \/ PollFails(l)
    BY <2>1 DEF TopFails, DriveFails, SendGameFails, ReceiveAckFails, SendMeasureFails,
                ResumeFails, PollFails, FailLane, Goto, Driven, batchVars
  <2>2. CASE \/ Admit(l) \/ DriveWave(l) \/ DriveMeasure(l) \/ DriveDone(l) \/ SendGame(l)
             \/ ReceiveAck(l) \/ Resume(l) \/ Poll(l)
    BY <2>2 DEF Admit, DriveWave, DriveMeasure, DriveDone, SendGame, ReceiveAck, Resume, Poll,
                Goto, Driven, batchVars, channels
  <2>3. CASE TakeEvals(l) \/ TakeMeasures(l) \/ SendMeasure(l)
    BY <2>3 DEF TakeEvals, TakeMeasures, SendMeasure, Goto, Driven, batchVars, channels
  <2>4. CASE EndRound(l)
    BY <2>4 DEF EndRound, Goto, batchVars, channels
  <2> QED BY <2>1, <2>2, <2>3, <2>4 DEF LaneStep
<1>3. Sending' = Sending
  <2>1. CASE phase' = phase
    BY <2>1 DEF Sending
  <2>2. ASSUME NEW p, p # "sending", phase' = [phase EXCEPT ![l] = p], phase[l] # "sending"
        PROVE  Sending' = Sending
    BY <1>1, <2>2, SendingView DEF Sending
  <2> QED BY <1>2, <2>1, <2>2
<1> QED BY <1>2, <1>3, PressureSame

(* A batch is submitted: its jobs go from the channel into a batch. *)
LEMMA SubmitPressure ==
  ASSUME WorkSound, PressureSound, NoFailure' => NoFailure, Submit
  PROVE  PressureSound'
<1>1. PICK n \in 1..MaxBatch :
         /\ n <= Len(intake) /\ inFlight' = Append(inFlight, SubSeq(intake, 1, n))
         /\ intake' = SubSeq(intake, n + 1, Len(intake))
  BY DEF Submit
<1>2. Len(intake) \in Nat /\ MaxBatch \in Nat
  BY SeqHolds, SizesAssumption DEF WorkSound, ChannelsTypeOK
<1>3. n \in 1..Len(intake)
  BY <1>1, <1>2
<1>4. PICK a : a = SubSeq(intake, 1, n)
  OBVIOUS
<1>5. /\ routing' = routing /\ replies' = replies /\ received' = received /\ phase' = phase
      /\ outbox' = outbox /\ measures' = measures /\ tasks' = tasks /\ outstanding' = outstanding
  BY DEF Submit, laneVars, gatewayVars
<1>6. inFlight' = Append(inFlight, a) /\ intake' = SubSeq(intake, n + 1, Len(intake))
  BY <1>1, <1>4
<1>7. /\ a \in Seq(Job) /\ IsInjective(a) /\ Len(a) = n /\ Range(a) \cap InFlightJobs = {}
      /\ InFlightJobs' = InFlightJobs \cup Range(a) /\ Len(intake') = Len(intake) - n
  BY <1>3, <1>4, <1>5, <1>6, SubmitMoves
<1>8. received \in Nat
  BY SizesAssumption DEF PressureSound
<1>9. IsFiniteSet(Range(a)) /\ Cardinality(Range(a)) = n
  BY <1>7, InjectiveCount
<1>10. Cardinality(InFlightJobs') = Cardinality(InFlightJobs) + n
  <2>1. PICK F, R : F = InFlightJobs /\ R = Range(a)
    OBVIOUS
  <2>2. IsFiniteSet(F) /\ IsFiniteSet(R) /\ F \cap R = {} /\ Cardinality(R) = n
    BY <1>7, <1>8, <1>9, <2>1, CountsTyped
  <2>3. Cardinality(F \cap R) = 0
    BY <2>2, FS_EmptySet
  <2>4. Cardinality(F \cup R) = Cardinality(F) + Cardinality(R) - Cardinality(F \cap R)
    BY <2>2, FS_Union
  <2>5. Cardinality(F) \in Nat
    BY <2>2, FS_CardinalityType
  <2>6. Cardinality(F \cup R) = Cardinality(F) + n
    BY <1>3, <2>2, <2>3, <2>4, <2>5
  <2> QED BY <1>7, <2>1, <2>6
<1>11. Sending' = Sending
  BY <1>5 DEF Sending
<1>12. Counted \in Nat /\ Counted' = Counted
  <2>1. PICK a1, b1 : a1 = Len(intake) /\ b1 = Len(intake')
    OBVIOUS
  <2>2. PICK f, g : f = Cardinality(InFlightJobs) /\ g = Cardinality(InFlightJobs')
    OBVIOUS
  <2>3. b1 = a1 - n /\ g = f + n
    BY <1>7, <1>10, <2>1, <2>2
  <2>4. a1 \in Nat /\ f \in Nat /\ Cardinality(Sending) \in Nat /\ Counted \in Nat
    BY <1>8, <2>1, <2>2, CountsTyped
  <2>5. Counted = a1 + f + received + Cardinality(Sending)
    BY <2>1, <2>2 DEF Counted
  <2>6. Counted' = b1 + g + received + Cardinality(Sending)
    BY <1>5, <1>11, <2>1, <2>2 DEF Counted
  <2>7. n \in Int
    BY <1>3
  <2> QED BY ONLY <1>8, <2>3, <2>4, <2>5, <2>6, <2>7
<1>13. PICK d \in Nat : d = Counted'
  BY <1>12
<1>14. d = Counted + 0 /\ d <= Counted + 0 /\ 0 \in Int /\ outstanding' = outstanding + 0
  BY <1>5, <1>12, <1>13 DEF PressureSound
<1>15. received' \in 0..MaxBatch
  BY <1>5 DEF PressureSound
<1> QED BY <1>13, <1>14, <1>15, Balance

(* The oldest batch is received. *)
LEMMA DrainPressure ==
  ASSUME WorkSound, JobsRouted, PressureSound, NoFailure' => NoFailure, Drain
  PROVE  PressureSound'
<1>1. /\ inFlight # <<>> /\ routing = <<>> /\ routing' = Head(inFlight)
      /\ inFlight' = Tail(inFlight) /\ intake' = intake /\ replies' = replies
      /\ received = 0 /\ received' = Len(Head(inFlight)) /\ phase' = phase
      /\ outbox' = outbox /\ measures' = measures /\ tasks' = tasks /\ outstanding' = outstanding
  BY DEF Drain, JobsRouted, channels, laneVars, gatewayVars
<1>2. PICK b : b = Head(inFlight)
  OBVIOUS
<1>3. /\ b \in Seq(Job) /\ IsInjective(b) /\ Range(b) \in SUBSET InFlightJobs
      /\ InFlightJobs' = InFlightJobs \ Range(b)
      /\ 1 \in DOMAIN inFlight /\ b = inFlight[1]
  BY <1>1, <1>2, DrainMoves
<1>4. Cardinality(Range(b)) = Len(b) /\ Len(b) \in Nat /\ Len(b) <= MaxBatch
  <2>1. \A i \in DOMAIN inFlight : Len(inFlight[i]) <= MaxBatch
    BY DEF JobsRouted
  <2> QED BY <1>3, <2>1, InjectiveCount, SeqHolds
<1>5. received \in Nat
  BY <1>1
<1>6. Cardinality(InFlightJobs') = Cardinality(InFlightJobs) - Len(b)
  <2>1. PICK F, R : F = InFlightJobs /\ R = Range(b)
    OBVIOUS
  <2>2. IsFiniteSet(F) /\ F \cap R = R
    BY <1>3, <1>5, <2>1, CountsTyped
  <2>3. Cardinality(F \ R) = Cardinality(F) - Cardinality(R)
    BY <2>2, FS_Difference
  <2> QED BY <1>3, <1>4, <2>1, <2>3
<1>7. Sending' = Sending
  BY <1>1 DEF Sending
<1>8. Counted \in Nat /\ Counted' = Counted
  <2>1. PICK n : n = Len(b)
    OBVIOUS
  <2>2. PICK f, g : f = Cardinality(InFlightJobs) /\ g = Cardinality(InFlightJobs')
    OBVIOUS
  <2>3. g = f - n /\ n \in Nat
    BY <1>4, <1>6, <2>1, <2>2
  <2>4. Len(intake) \in Nat /\ f \in Nat /\ Cardinality(Sending) \in Nat /\ Counted \in Nat
    BY <1>5, <2>2, CountsTyped
  <2>5. Counted = Len(intake) + f + 0 + Cardinality(Sending)
    BY <1>1, <2>2 DEF Counted
  <2>6. Counted' = Len(intake) + g + n + Cardinality(Sending)
    BY <1>1, <1>2, <1>7, <2>1, <2>2 DEF Counted
  <2> QED BY ONLY <2>3, <2>4, <2>5, <2>6
<1>9. PICK d \in Nat : d = Counted'
  BY <1>8
<1>10. d = Counted + 0 /\ d <= Counted + 0 /\ 0 \in Int /\ outstanding' = outstanding + 0
  BY <1>1, <1>8, <1>9 DEF PressureSound
<1>11. received' \in 0..MaxBatch
  BY <1>1, <1>2, <1>4, SizesAssumption
<1> QED BY <1>9, <1>10, <1>11, Balance

(* The received batch is accounted: the counter has not saturated. *)
LEMMA AccountPressure ==
  ASSUME WorkSound, PressureSound, NoFailure' => NoFailure, Account
  PROVE  PressureSound'
<1>1. received \in Nat /\ outstanding \in Nat
  BY SizesAssumption DEF PressureSound
<1>2. /\ Len(intake) \in Nat /\ Cardinality(InFlightJobs) \in Nat /\ Cardinality(Sending) \in Nat
      /\ Counted \in Nat
  BY <1>1, CountsTyped
<1>3. outstanding >= Counted
  BY DEF PressureSound, PressureCovers, Counted, Sending
<1>4. Counted >= received
  BY <1>1, <1>2 DEF Counted
<1>5. received <= outstanding
  BY <1>1, <1>2, <1>3, <1>4
<1>6. /\ outstanding' = outstanding - received /\ received' = 0 /\ intake' = intake
      /\ inFlight' = inFlight /\ phase' = phase
  BY <1>5 DEF Account, laneVars
<1>7. Sending' = Sending /\ InFlightJobs' = InFlightJobs
  BY <1>6, ChannelsSame DEF Sending
<1>8. Counted' = Counted - received /\ Counted' \in Nat
  BY <1>1, <1>2, <1>6, <1>7 DEF Counted
<1>9. PICK d \in Nat : d = Counted'
  BY <1>8
<1>10. PICK x \in Int : x = -received
  BY <1>1
<1>11. outstanding' = outstanding + x /\ d = Counted + x /\ d <= Counted + x
  BY <1>1, <1>2, <1>6, <1>8, <1>9, <1>10
<1>12. received' \in 0..MaxBatch
  BY <1>6, SizesAssumption
<1> QED BY <1>9, <1>11, <1>12, Balance

(* The batcher fails: what it drops stays counted. *)
LEMMA BatcherFailsPressure ==
  ASSUME WorkSound, PressureSound, BatcherFails
  PROVE  PressureSound'
<1>1. /\ intake' = <<>> /\ inFlight' = <<>> /\ received' = received /\ phase' = phase
      /\ outbox' = outbox /\ measures' = measures /\ routing' = routing /\ tasks' = tasks
      /\ replies' = replies /\ outstanding' = outstanding /\ batcher' = "failed"
  BY DEF BatcherFails, laneVars, gatewayVars
<1>2. InFlightJobs' = {} /\ Len(intake') = 0
  BY <1>1, BatcherDrops
<1>3. received \in Nat
  BY SizesAssumption DEF PressureSound
<1>4. Sending' = Sending
  BY <1>1 DEF Sending
<1>5. Cardinality(InFlightJobs') = 0
  BY <1>2, FS_EmptySet
<1>6. Counted \in Nat /\ Counted' \in Nat /\ Counted' <= Counted
  BY <1>1, <1>2, <1>3, <1>4, <1>5, CountsTyped DEF Counted
<1>7. PICK d \in Nat : d = Counted'
  BY <1>6
<1>8. d <= Counted + 0 /\ 0 \in Int /\ outstanding' = outstanding + 0
  BY <1>1, <1>6, <1>7 DEF PressureSound
<1>9. ~NoFailure'
  BY <1>1 DEF NoFailure
<1>10. received' \in 0..MaxBatch
  BY <1>1 DEF PressureSound
<1> QED BY <1>7, <1>8, <1>9, <1>10, Balance

(* Every step keeps the counter ahead, and exact while nothing fails. *)
LEMMA PressureKept ==
  ASSUME RunAccounted, WorkSound, JobsRouted, PressureSound, [Next]_vars
  PROVE  PressureSound'
<1>1. NoFailure' => NoFailure
  BY ThreadsStay DEF RunAccounted
<1>2. ASSUME NEW l \in Lanes, LaneStep(l) PROVE PressureSound'
  BY <1>1, <1>2, LanePressure, CountEvalPressure, SendEvalPressure, SendEvalFailsPressure
<1>3. CASE \/ Route \/ BatcherEnds \/ GatewayStep \/ SinkStep \/ UNCHANGED vars
  <2>1. /\ intake' = intake /\ inFlight' = inFlight /\ received' = received
        /\ outstanding' = outstanding /\ phase' = phase
    BY <1>3 DEF Route, BatcherEnds, GatewayStep, GatewayTakes, GatewayFails, GatewayEnds,
                GatewayAnswers, SinkStep, SinkAppends, SinkDrops, SinkFails, SinkEnds, vars, laneVars,
                batchVars, channels
  <2>2. Sending' = Sending
    BY <2>1 DEF Sending
  <2> QED BY <1>1, <2>1, <2>2, PressureSame
<1>4. CASE Submit \/ Drain \/ Account \/ BatcherFails
  BY <1>1, <1>4, SubmitPressure, DrainPressure, AccountPressure, BatcherFailsPressure
<1> QED BY <1>2, <1>3, <1>4 DEF Next, Joined, BatcherStep

-----------------------------------------------------------------------------
(* The invariant.                                                          *)

(* The types of the variables that say how the threads are. *)
ServersTypeOK ==
  /\ {batcher, gateway, sink} \subseteq {"running", "done", "failed"}
  /\ closed \in BOOLEAN /\ faults \in 0..MaxFaults

(* A thread that runs ends or fails, and failures are counted. *)
LEMMA ServersStay ==
  ASSUME ServersTypeOK, [Next]_vars
  PROVE  ServersTypeOK'
<1>1. faults' \in 0..MaxFaults
  <2>1. faults' = faults \/ Fault
    <3>1. ASSUME NEW l \in Lanes, LaneStep(l) PROVE faults' = faults \/ Fault
      BY <3>1 DEF LaneStep, Admit, TopFails, DriveWave, DriveMeasure, DriveDone, DriveFails,
           SendGame, SendGameFails, ReceiveAck, ReceiveAckFails, TakeEvals, CountEval, SendEval,
           SendEvalFails, TakeMeasures, SendMeasure, SendMeasureFails, EndRound, Resume,
           ResumeFails, Poll, PollFails
    <3>2. BatcherStep \/ GatewayStep \/ SinkStep => faults' = faults \/ Fault
      BY DEF BatcherStep, GatewayStep, SinkStep, Submit, Drain, Route, Account, BatcherFails,
             BatcherEnds, GatewayTakes, GatewayFails, GatewayEnds, GatewayAnswers, SinkAppends,
             SinkDrops, SinkFails, SinkEnds
    <3> QED BY <3>1, <3>2 DEF Next, Joined, vars
  <2>2. MaxFaults \in Nat
    BY SizesAssumption
  <2> QED BY <2>1, <2>2 DEF ServersTypeOK, Fault
<1>2. closed' = closed \/ closed' = TRUE
  <2>1. ASSUME NEW l \in Lanes, LaneStep(l) PROVE closed' = closed \/ FailLane(l)
    BY <2>1 DEF LaneStep, Admit, TopFails, DriveWave, DriveMeasure, DriveDone, DriveFails,
         SendGame, SendGameFails, ReceiveAck, ReceiveAckFails, TakeEvals, CountEval, SendEval,
         SendEvalFails, TakeMeasures, SendMeasure, SendMeasureFails, EndRound, Resume,
         ResumeFails, Poll, PollFails
  <2>2. BatcherStep \/ GatewayStep \/ SinkStep => closed' = closed \/ closed' = TRUE
    BY DEF BatcherStep, GatewayStep, SinkStep, Submit, Drain, Route, Account, BatcherFails,
           BatcherEnds, GatewayTakes, GatewayFails, GatewayEnds, GatewayAnswers, SinkAppends,
           SinkDrops, SinkFails, SinkEnds
  <2> QED BY <2>1, <2>2 DEF Next, Joined, vars, FailLane
<1>3. /\ batcher' \in {batcher, "done", "failed"} /\ gateway' \in {gateway, "done", "failed"}
      /\ sink' \in {sink, "done", "failed"}
  <2>1. ASSUME NEW l \in Lanes, LaneStep(l)
        PROVE  batcher' = batcher /\ gateway' = gateway /\ sink' = sink
    BY <2>1 DEF LaneStep, Admit, TopFails, DriveWave, DriveMeasure, DriveDone, DriveFails,
         SendGame, SendGameFails, ReceiveAck, ReceiveAckFails, TakeEvals, CountEval, SendEval,
         SendEvalFails, TakeMeasures, SendMeasure, SendMeasureFails, EndRound, Resume,
         ResumeFails, Poll, PollFails, batchVars, gatewayVars, sinkVars
  <2>2. CASE BatcherStep
    BY <2>2 DEF BatcherStep, Submit, Drain, Route, Account, BatcherFails, BatcherEnds,
                gatewayVars, sinkVars
  <2>3. CASE GatewayStep
    BY <2>3 DEF GatewayStep, GatewayTakes, GatewayFails, GatewayEnds, GatewayAnswers, batchVars,
                sinkVars
  <2>4. CASE SinkStep
    BY <2>4 DEF SinkStep, SinkAppends, SinkDrops, SinkFails, SinkEnds, batchVars, gatewayVars
  <2> QED BY <2>1, <2>2, <2>3, <2>4 DEF Next, Joined, vars, batchVars, gatewayVars, sinkVars
<1> QED BY <1>1, <1>2, <1>3 DEF ServersTypeOK

(* All that holds together. *)
TrafficParts ==
  RunAccounted /\ WorkSound /\ JobsRouted /\ PressureSound /\ ServersTypeOK

(* The parts hold what TrafficSound says. *)
LEMMA PartsSound ==
  ASSUME TrafficParts
  PROVE  TrafficSound
<1>1. TypeOK
  <2>1. LanesTypeOK /\ ChannelsTypeOK /\ PressureSound /\ ServersTypeOK
    BY DEF TrafficParts, RunAccounted, WorkSound
  <2>2. outbox \in [Lanes -> Seq(Job)] /\ {intake, routing, measures} \subseteq Seq(Job)
    BY <2>1 DEF ChannelsTypeOK, OutboxTyped
  <2>3. /\ inFlight \in Seq(Seq(Job)) /\ tasks \subseteq Job
        /\ replies \in [Lanes -> Seq([slot : Slot, token : Nat, episode : Nat,
                                      kind : {"eval", "measure"}, ok : BOOLEAN])]
    BY <2>1 DEF ChannelsTypeOK, Answers
  <2>4. \A l \in Lanes : admitted[l] \in 0..Roots[l]
    BY <2>1, SizesAssumption DEF LanesTypeOK
  <2>5. /\ batcher \in {"running"} \cup Ended /\ gateway \in {"running"} \cup Ended
        /\ sink \in {"running"} \cup Ended /\ closed \in BOOLEAN /\ faults \in 0..MaxFaults
    BY <2>1 DEF ServersTypeOK, Ended
  <2>6. /\ phase \in [Lanes -> {"top", "drive", "ack", "evals", "sending",
                                "measures", "wait", "more"} \cup Ended]
        /\ slots \in [Lanes -> [Slot -> SlotState]]
        /\ completed \in [Lanes -> Seq(Nat)]
        /\ exhausted \in [Lanes -> BOOLEAN]
        /\ games \in Seq([lane : Lanes, episode : Nat])
        /\ ack \in [Lanes -> {"none", "ok", "error"}]
        /\ appended \in [Lanes -> SUBSET Nat] /\ dropped \in [Lanes -> SUBSET Nat]
    BY <2>1, Zenon DEF LanesTypeOK
  <2>7. received \in 0..MaxBatch /\ outstanding \in Nat
    BY <2>1 DEF PressureSound
  <2> QED BY <2>2, <2>3, <2>4, <2>5, <2>6, <2>7, Zenon DEF TypeOK
<1>2. AnswersAreAwaited
  BY OnceParts DEF TrafficParts, WorkSound, Awaiting, JobsAwaited, AnswersAreAwaited
<1>3. AwaitedIsUnderWay
  BY DEF TrafficParts, WorkSound, Awaiting, NothingLost, AwaitedIsUnderWay
<1>4. OneWork(UnderWay) /\ \A l \in Lanes : \A w \in Slot : SlotWaits(slots[l][w])
  BY DEF TrafficParts, WorkSound, Awaiting, AllSlotsWait
<1> QED BY <1>1, <1>2, <1>3, <1>4 DEF TrafficParts, PressureSound, TrafficSound

(* Nothing is under way when the run begins. *)
LEMMA NothingStarted ==
  ASSUME Init
  PROVE  TrafficParts
<1>1. RunAccounted
  BY NothingBegun
<1>2. /\ Range(intake) = {} /\ Range(routing) = {} /\ Range(measures) = {} /\ tasks = {}
      /\ \A l \in Lanes : Range(outbox[l]) = {} /\ outbox[l] = <<>> /\ replies[l] = <<>>
      /\ DOMAIN inFlight = {} /\ Len(intake) = 0 /\ Len(routing) = 0
  BY DEF Init, Range
<1>3. OutboxJobs = {} /\ InFlightJobs = {} /\ RepliedJobs = {}
  BY <1>2 DEF OutboxJobs, InFlightJobs, RepliedJobs
<1>4. \A a \in 1..7 : Stages[a] = {}
  BY <1>2, <1>3, StagesView, Seven
<1>5. Disjoint(Stages) /\ UnderWay = {}
  BY <1>4, StagesView DEF Disjoint, UnderWay
<1>6. \A l \in Lanes : \A w \in Slot : slots[l][w].state # "parked"
  BY DEF Init, Idle
<1>7. Awaiting(UnderWay)
  BY <1>5, <1>6 DEF Awaiting, JobsAwaited, NothingLost, AllSlotsWait, SlotWaits, OneWork, Parked
<1>8. ChannelsTypeOK
  <2>1. \A S : <<>> \in Seq(S)
    OBVIOUS
  <2>2. intake = <<>> /\ routing = <<>> /\ measures = <<>> /\ inFlight = <<>> /\ tasks = {}
    BY DEF Init
  <2>3. replies \in [Lanes -> Seq(Answers)] /\ outbox \in [Lanes -> Seq(Job)]
    BY <2>1 DEF Init
  <2>4. OutboxTyped
    BY <1>2, <2>3 DEF OutboxTyped
  <2> QED BY <2>1, <2>2, <2>3, <2>4 DEF ChannelsTypeOK
<1>9. StagesOnce
  BY <1>2 DEF Init, StagesOnce, FlightOnce, RepliesOnce, IsInjective
<1>10. JobsRouted
  BY <1>2, <1>3 DEF Init, JobsRouted
<1>11. PressureSound
  <2>1. {l \in Lanes : phase[l] = "sending"} = {}
    BY DEF Init
  <2>2. Cardinality({}) = 0
    BY FS_EmptySet
  <2>3. received = 0 /\ outstanding = 0 /\ MaxBatch \in Nat
    BY SizesAssumption DEF Init
  <2>4. outstanding = Len(intake) + Cardinality(InFlightJobs) + received
                        + Cardinality({l \in Lanes : phase[l] = "sending"})
    <3>1. Cardinality({l \in Lanes : phase[l] = "sending"}) = 0 /\ Cardinality(InFlightJobs) = 0
      BY <1>3, <2>1, <2>2
    <3> QED BY <1>2, <2>3, <3>1
  <2>5. PressureCovers /\ OutstandingExact
    BY <2>3, <2>4 DEF PressureCovers, OutstandingExact
  <2> QED BY <2>3, <2>5 DEF PressureSound
<1>12. ServersTypeOK
  <2>1. /\ batcher = "running" /\ gateway \in {"running", "done"} /\ sink = "running"
        /\ closed = FALSE /\ faults = 0 /\ MaxFaults \in Nat
    BY SizesAssumption DEF Init
  <2>2. faults \in 0..MaxFaults
    BY <2>1
  <2>3. {batcher, gateway, sink} \subseteq {"running", "done", "failed"}
    BY <2>1
  <2> QED BY <2>1, <2>2, <2>3 DEF ServersTypeOK
<1> QED BY <1>1, <1>5, <1>7, <1>8, <1>9, <1>10, <1>11, <1>12 DEF TrafficParts, WorkSound

(* Work and answers match in every state of every run, for all numbers of lanes, workers,
   evaluations, batches in flight, roots and failures: what is under way for a lane is
   awaited by the episode that asked for it, once; what is awaited is under way while no
   thread has failed; every job is where jobs of its kind belong, and counted. *)
THEOREM TrafficInvariant == Spec => []TrafficParts
<1>1. Init => TrafficParts
  BY NothingStarted
<1>2. TrafficParts /\ [Next]_vars => TrafficParts'
  <2> SUFFICES ASSUME TrafficParts, [Next]_vars PROVE TrafficParts'
    OBVIOUS
  <2>1. RunAccounted /\ WorkSound /\ JobsRouted /\ PressureSound /\ ServersTypeOK
    BY DEF TrafficParts
  <2>2. received \in Nat
    BY <2>1, SizesAssumption DEF PressureSound
  <2>3. WorkSound' /\ JobsRouted' /\ PressureSound' /\ ServersTypeOK'
    BY <2>1, <2>2, WorkKept, RoutedKept, PressureKept, ServersStay
  <2>4. RunAccounted'
    BY <2>1, AccountedKept
  <2> QED BY <2>3, <2>4 DEF TrafficParts
<1> QED BY <1>1, <1>2, PTL DEF Spec

(* No job or reply outlives the work it belongs to, no worker waits for an answer that
   cannot come while no thread has failed, no thread ever waits for room in a channel, and
   the pressure counter is exact: the sizes that lanes/mod.rs gives the channels are right
   for every number of lanes, workers, evaluations and batches. *)
THEOREM TrafficStaysExact == Spec => []TrafficExact
<1>1. TrafficParts => TrafficExact
  <2> SUFFICES ASSUME TrafficParts PROVE TrafficExact
    OBVIOUS
  <2>1. TrafficSound
    BY PartsSound
  <2>2. SendsNeverBlock
    BY RoomEverywhere DEF TrafficParts
  <2> QED BY <2>1, <2>2 DEF TrafficExact
<1> QED BY <1>1, TrafficInvariant, PTL
=============================================================================
