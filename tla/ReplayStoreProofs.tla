------------------------- MODULE ReplayStoreProofs -------------------------
(***************************************************************************)
(* Proofs about ReplayStore.  The files, the counters of the process and   *)
(* what the sessions hold are kept apart: an append and a retention change *)
(* the files, the publications the counters, and a session itself.         *)
(***************************************************************************)
EXTENDS ReplayStore, FiniteSetTheorems, TLAPS

(* The smaller of two numbers, as in the window of a sample. *)
LEMMA LesserOfTwo ==
  ASSUME NEW a \in Int, NEW b \in Int
  PROVE  Min({a, b}) = IF a <= b THEN a ELSE b
<1>1. \E x \in {a, b} : \A y \in {a, b} : x <= y
  OBVIOUS
<1>2. Min({a, b}) \in {a, b} /\ \A y \in {a, b} : Min({a, b}) <= y
  BY <1>1 DEF Min
<1> QED BY <1>2

-----------------------------------------------------------------------------
(* The files.                                                              *)

(* A step that writes no row and moves no floor. *)
FilesSame ==
  /\ disk'.index = disk.index /\ disk'.rows = disk.rows /\ disk'.episodes = disk.episodes
  /\ disk'.next_episode = disk.next_episode /\ disk'.produced = disk.produced
  /\ disk'.completed = disk.completed /\ disk'.metrics = disk.metrics
  /\ disk'.retained = disk.retained /\ disk'.deleted = disk.deleted
  /\ log' = log /\ games' \in Nat /\ games <= games'

(* A step that binds nothing. *)
BoundSame ==
  /\ disk'.mode = disk.mode /\ disk'.identity = disk.identity /\ disk'.schema = disk.schema
  /\ disk'.epsilon = disk.epsilon /\ disk'.scale = disk.scale

(* The rows of the history. *)
LEMMA LogTyped ==
  ASSUME TypeOK
  PROVE  /\ Len(log) \in Nat
         /\ \A i \in 1..Len(log) : log[i] \in Row /\ log[i].game \in Nat
<1>1. log \in Seq(Row)
  BY DEF TypeOK, FilesTypeOK
<1>2. \A i \in 1..Len(log) : log[i] \in Row
  BY <1>1
<1> QED BY <1>1, <1>2 DEF Row

(* What is not written stays whole. *)
LEMMA StructureSame ==
  ASSUME TypeOK, Structure, FilesSame
  PROVE  Structure'
<1>1. RowsWhole /\ EpisodesWhole /\ CountersWhole /\ IndexInOrder /\ EpisodesInOrder
  BY DEF Structure
<1>2. RowsWhole'
  BY <1>1 DEF FilesSame, RowsWhole
<1>3. EpisodesWhole'
  BY <1>1 DEF FilesSame, EpisodesWhole, FirstRowOfEpisode
<1>4. CountersWhole'
  BY <1>1 DEF FilesSame, CountersWhole, recover_next
<1>5. IndexInOrder'
  BY <1>1 DEF FilesSame, IndexInOrder
<1>6. EpisodesInOrder'
  <2>1. games' \in Nat /\ games <= games' /\ games \in Nat
    BY DEF FilesSame, TypeOK, FilesTypeOK
  <2>2. \A i \in 1..Len(log) : log[i].game < games'
    BY <1>1, <2>1, LogTyped DEF EpisodesInOrder
  <2>3. EpisodeAt(disk.deleted)' = EpisodeAt(disk.deleted)
    BY DEF FilesSame, EpisodeAt
  <2>4. log' = log
    BY DEF FilesSame
  <2>5. DOMAIN disk'.episodes = EpisodeAt(disk.deleted)'..(disk'.next_episode - 1)
    BY <1>1, <2>3 DEF FilesSame, EpisodesInOrder
  <2>6. /\ disk'.episodes = disk.episodes /\ disk'.index = disk.index
        /\ disk'.rows = disk.rows /\ disk'.next_episode = disk.next_episode
    BY DEF FilesSame
  <2> QED BY <1>1, <2>2, <2>4, <2>5, <2>6 DEF EpisodesInOrder
<1> QED BY <1>2, <1>3, <1>4, <1>5, <1>6 DEF Structure

(* What a sequence number resolves to. *)
LEMMA IndexReads ==
  ASSUME TypeOK, Structure, NEW q \in Nat, q < Len(log)
  PROVE  /\ q \in DOMAIN disk.index <=> disk.deleted <= q
         /\ q \in DOMAIN disk.index =>
              /\ disk.index[q] \in RowKeys /\ disk.index[q][1] \in Nat
              /\ disk.index[q][1] < disk.next_episode
              /\ disk.index[q] \in DOMAIN disk.rows /\ disk.rows[disk.index[q]] = log[q + 1]
<1>1. RowsWhole /\ IndexInOrder /\ EpisodesInOrder
  BY DEF Structure
<1>2. Len(log) \in Nat /\ disk.deleted \in Nat /\ disk.next_episode \in Nat
  BY DEF TypeOK, FilesTypeOK
<1>3. q \in DOMAIN disk.index <=> disk.deleted <= q
  BY <1>1, <1>2 DEF RowsWhole
<1>4. ASSUME q \in DOMAIN disk.index
      PROVE  disk.index[q] \in RowKeys /\ disk.index[q][1] \in Nat
  BY <1>4 DEF TypeOK, FilesTypeOK, RowKeys
<1>5. ASSUME q \in DOMAIN disk.index
      PROVE  disk.index[q][1] < disk.next_episode
  <2>1. disk.index[q][1] \in DOMAIN disk.episodes
    BY <1>1, <1>5 DEF IndexInOrder
  <2> QED BY <1>1, <1>2, <1>4, <1>5, <2>1 DEF EpisodesInOrder
<1> QED BY <1>1, <1>3, <1>4, <1>5 DEF RowsWhole

-----------------------------------------------------------------------------
(* The sessions.                                                           *)

(* A session that is under way has an open store. *)
LEMMA BusyIsUp ==
  ASSUME ReplayInductive, NEW s \in Sessions, session[s].pc # "idle"
  PROVE  mem.up
<1>1. TypeOK /\ PublishedInOrder
  BY DEF ReplayInductive
<1> QED BY <1>1 DEF PublishedInOrder, NoSession, TypeOK, ProcessTypeOK

(* A step of one session that writes nothing keeps what is not about it. *)
LEMMA SessionStep ==
  ASSUME ReplayInductive, mem.up, NEW s \in Sessions,
         session'[s] \in SessionState, session' = [session EXCEPT ![s] = session'[s]],
         disk' = disk, mem' = mem, sink' = sink, games' = games, log' = log, served' = served,
         session[s].pc # "consumed", session'[s].pc # "consumed",
         SessionInOrder(session'[s]), SoundSample(session'[s])
  PROVE  ReplayInductive'
<1> USE DEF ReplayInductive
<1>1. TypeOK'
  <2>1. FilesTypeOK' /\ ProcessTypeOK'
    BY DEF TypeOK, FilesTypeOK, ProcessTypeOK
  <2>2. PICK f \in SessionState : f = session'[s]
    OBVIOUS
  <2>3. session \in [Sessions -> SessionState]
    BY DEF TypeOK
  <2>4. session' \in [Sessions -> SessionState]
    BY <2>2, <2>3
  <2> QED BY <2>1, <2>4 DEF TypeOK
<1>2. Structure'
  BY StructureSame DEF FilesSame, TypeOK, FilesTypeOK
<1>3. PublishedInOrder'
  BY DEF PublishedInOrder
<1>4. \A t \in Sessions : t # s => session'[t] = session[t]
  BY DEF TypeOK
<1>5. SessionsInOrder'
  <2>1. \A t \in Sessions : SessionInOrder(session'[t])
    BY <1>4 DEF SessionsInOrder
  <2> SUFFICES ASSUME NEW t \in Sessions PROVE SessionInOrder(session[t])'
    BY DEF SessionsInOrder
  <2> QED BY <2>1 DEF SessionInOrder, Began
<1>6. SampleSound'
  <2>1. \A t \in Sessions : SoundSample(session'[t])
    BY <1>4 DEF SampleSound
  <2> SUFFICES ASSUME NEW t \in Sessions PROVE SoundSample(session[t])'
    BY DEF SampleSound
  <2>2. SoundSample(session'[t])
    BY <2>1
  <2> QED BY <2>2, ZenonT(40) DEF SoundSample
<1>7. ConsumedExact'
  BY DEF ConsumedExact, ConsumedFree
<1>8. ConsumedInOrder'
  BY <1>4 DEF ConsumedInOrder
<1>9. StoredConforms' /\ ContractInOrder'
  BY DEF StoredConforms, ContractInOrder
<1> QED BY <1>1, <1>2, <1>3, <1>5, <1>6, <1>7, <1>8, <1>9

(* A row or an episode is drawn. *)
LEMMA DrawTyped ==
  ASSUME NEW f \in SessionState, NEW pc \in {"index", "first"}, NEW q \in Nat
  PROVE  [f EXCEPT !.pc = pc, !.window = 0, !.seq = q] \in SessionState
BY DEF SessionState

(* A request has loaded its floor, the row's sequence number, or nothing. *)
LEMMA LoadFloorKept ==
  ASSUME ReplayInductive, NEW s \in Sessions, NEW kind \in {"rows", "terminal"}, NEW w \in Windows,
         LoadFloor(s, kind, w)
  PROVE  ReplayInductive'
<1>0. TypeOK
  BY DEF ReplayInductive
<1>1. mem.up /\ mem.floor \in Nat /\ w \in Nat \ {0}
  BY <1>0, ReplayAssumption DEF TypeOK, ProcessTypeOK, LoadFloor, bind_shared
<1>2. session'[s] = [NoSession EXCEPT !.pc = "floor", !.kind = kind, !.window = w,
                                      !.floor = mem.floor]
  BY <1>0 DEF TypeOK, LoadFloor, Step
<1>3. session'[s] = [pc |-> "floor", kind |-> kind, window |-> w, floor |-> mem.floor,
                     produced |-> 0, seq |-> 0, key |-> None, count |-> 0, out |-> None,
                     row |-> None]
  BY <1>2 DEF NoSession
<1>4. session'[s] \in SessionState
  BY <1>1, <1>3 DEF SessionState
<1>5. SessionInOrder(session'[s]) /\ SoundSample(session'[s])
  <2>1. PICK f : f = session'[s]
    OBVIOUS
  <2>2. /\ f.pc = "floor" /\ f.floor = mem.floor /\ f.produced = 0 /\ f.key = None
        /\ f.out = None /\ f.window = w
    BY <1>3, <2>1
  <2>3. SessionInOrder(f)
    BY <1>1, <2>2 DEF SessionInOrder
  <2>4. SoundSample(f)
    BY <2>2, NoneAssumption DEF SoundSample, Outcomes
  <2> QED BY <2>1, <2>3, <2>4
<1>6. /\ session' = [session EXCEPT ![s] = session'[s]]
      /\ session[s].pc # "consumed" /\ session'[s].pc # "consumed"
  BY <1>0, <1>3 DEF TypeOK, LoadFloor, Step
<1> QED BY <1>1, <1>4, <1>5, <1>6, SessionStep DEF LoadFloor


(* The number of rows is read after the floor: what is drawn lies between  *)
(* them, and a store is taken for empty only when it is.                   *)
LEMMA LoadProducedKept ==
  ASSUME ReplayInductive, NEW s \in Sessions, LoadProduced(s)
  PROVE  ReplayInductive'
<1>0. TypeOK /\ PublishedInOrder /\ SessionInOrder(session[s])
  BY DEF ReplayInductive, SessionsInOrder
<1>1. mem.up
  BY BusyIsUp DEF LoadProduced
<1>2. session[s] \in SessionState /\ session[s].pc = "floor"
  BY <1>0 DEF TypeOK, LoadProduced
<1> DEFINE f == session[s]
           p == mem.produced
           window == Min({f.window, p - f.floor})
           g == session'[s]
<1>3. /\ f.window \in Nat /\ f.window > 0 /\ f.floor \in Nat /\ f.out = None /\ f.produced = 0 /\ f.key = None
      /\ f.floor <= mem.floor /\ mem.floor \in Nat /\ p \in Nat
      /\ f.kind \in {"rows", "terminal"}
  <2>1. f.window \in Nat /\ f.floor \in Nat /\ f.kind \in {"rows", "terminal"}
    BY <1>2 DEF SessionState
  <2>2. mem.floor \in Nat /\ p \in Nat
    BY <1>0, <1>1 DEF TypeOK, ProcessTypeOK
  <2> QED BY <1>0, <1>2, <2>1, <2>2 DEF SessionInOrder, Sampling
<1>4. mem.floor < p \/ (mem.floor = 0 /\ p = 0)
  BY <1>0, <1>1 DEF PublishedInOrder
<1>5. session' = [session EXCEPT ![s] = g] /\ g.pc # "consumed" /\ session[s].pc # "consumed"
      /\ g \in SessionState /\ SessionInOrder(g) /\ SoundSample(g)
  <2>1. CASE p <= f.floor
    <3>1. p = 0
      BY <1>3, <1>4, <2>1
    <3>2. session' = [session EXCEPT ![s] = [f EXCEPT !.pc = "done", !.out = "empty", !.produced = p]]
      BY <2>1 DEF LoadProduced, Step
    <3>3. g = [f EXCEPT !.pc = "done", !.out = "empty", !.produced = p]
      BY <1>0, <3>2 DEF TypeOK
    <3>4. g \in SessionState
      BY <1>2, <1>3, <3>3 DEF SessionState, Outcomes
    <3>5. g.pc = "done" /\ g.out = "empty" /\ g.produced = 0 /\ g.key = None
      BY <1>2, <1>3, <3>1, <3>3 DEF SessionState
    <3> HIDE DEF g
    <3>6. SessionInOrder(g)
      BY <3>5 DEF SessionInOrder, Sampling
    <3>7. SoundSample(g)
      BY <3>5 DEF SoundSample
    <3> QED BY <1>2, <3>2, <3>3, <3>4, <3>5, <3>6, <3>7
  <2>2. CASE p > f.floor
    <3>1. window \in Nat /\ window <= p - f.floor /\ window # 0
      <4>1. window = IF f.window <= p - f.floor THEN f.window ELSE p - f.floor
        BY <1>3, LesserOfTwo
      <4> QED BY <1>3, <2>2, <4>1
    <3> HIDE DEF window
    <3>2. CASE f.kind = "rows"
      <4>0. \E q \in (p - window)..(p - 1) :
              Step(s, [f EXCEPT !.pc = "index", !.window = 0, !.seq = q])
        <5>1. ~(p <= f.floor)
          BY <1>3, <2>2
        <5> QED BY <3>2, <5>1, Zenon DEF LoadProduced, window
      <4>1. PICK q \in (p - window)..(p - 1) :
              session' = [session EXCEPT ![s] = [f EXCEPT !.pc = "index", !.window = 0, !.seq = q]]
        BY <4>0, Zenon DEF Step
      <4>2. q \in Nat /\ f.floor <= q /\ q < p
        BY <1>3, <2>2, <3>1
      <4>3. g = [f EXCEPT !.pc = "index", !.window = 0, !.seq = q]
        BY <1>0, <4>1 DEF TypeOK
      <4>4. g \in SessionState
        <5>1. f \in SessionState /\ q \in Nat /\ "index" \in {"index", "first"}
          BY <1>2, <4>2
        <5>2. [f EXCEPT !.pc = "index", !.window = 0, !.seq = q] \in SessionState
          BY <5>1, DrawTyped, Zenon
        <5> QED BY <4>3, <5>2
      <4>5. /\ g.pc = "index" /\ g.kind = "rows" /\ g.seq = q /\ g.floor = f.floor
            /\ g.out = None
        BY <1>2, <1>3, <3>2, <4>3 DEF SessionState
      <4> HIDE DEF g
      <4>6. SessionInOrder(g)
        BY <1>3, <4>2, <4>5 DEF SessionInOrder
      <4>7. SoundSample(g)
        BY <4>5, NoneAssumption DEF SoundSample, Outcomes
      <4> QED BY <1>2, <4>1, <4>3, <4>4, <4>5, <4>6, <4>7
    <3>3. CASE f.kind # "rows"
      <4>1. session' = [session EXCEPT ![s] =
                          [f EXCEPT !.pc = "first", !.window = 0, !.seq = p - window]]
        BY <1>3, <2>2, <3>3 DEF LoadProduced, Step, window
      <4>2. PICK q \in Nat : q = p - window /\ f.floor <= q /\ q < p
        BY <1>3, <2>2, <3>1
      <4>3. g = [f EXCEPT !.pc = "first", !.window = 0, !.seq = q]
        BY <1>0, <4>1, <4>2 DEF TypeOK
      <4>4. g \in SessionState
        <5>1. f \in SessionState /\ q \in Nat /\ "first" \in {"index", "first"}
          BY <1>2, <4>2
        <5>2. [f EXCEPT !.pc = "first", !.window = 0, !.seq = q] \in SessionState
          BY <5>1, DrawTyped, Zenon
        <5> QED BY <4>3, <5>2
      <4>5. /\ g.pc = "first" /\ g.kind = "terminal" /\ g.seq = q /\ g.floor = f.floor
            /\ g.out = None
        BY <1>2, <1>3, <3>3, <4>3 DEF SessionState
      <4> HIDE DEF g
      <4>6. SessionInOrder(g)
        BY <1>3, <4>2, <4>5 DEF SessionInOrder
      <4>7. SoundSample(g)
        BY <4>5, NoneAssumption DEF SoundSample, Outcomes
      <4> QED BY <1>2, <4>1, <4>2, <4>3, <4>4, <4>5, <4>6, <4>7
    <3> QED BY <3>2, <3>3
  <2> QED BY <1>3, <2>1, <2>2
<1> QED BY <1>1, <1>5, SessionStep DEF LoadProduced


(* An outcome that ends a request. *)
LEMMA AnswerKept ==
  ASSUME ReplayInductive, NEW s \in Sessions, NEW out \in Outcomes \ {"empty", "averages"},
         session[s].pc \notin {"idle", "consumed"}, Answer(s, out),
         UNCHANGED <<disk, mem, sink, opens, games, log, served>>,
         out = "missing" => session[s].floor < disk.deleted,
         out = "no terminal" =>
           \E i \in 1..Len(log) : \A j \in 1..Len(log) :
             log[j].game = log[i].game => log[j].kind # "terminal"
  PROVE  ReplayInductive'
<1>0. TypeOK
  BY DEF ReplayInductive
<1>1. mem.up
  BY BusyIsUp
<1>2. PICK g : g = [session[s] EXCEPT !.pc = "done", !.out = out]
  OBVIOUS
<1>3. session[s] \in SessionState
  BY <1>0 DEF TypeOK
<1>4. g \in SessionState /\ g.pc = "done" /\ g.out = out /\ g.floor = session[s].floor
  BY <1>2, <1>3 DEF SessionState
<1>5. session'[s] = g /\ session' = [session EXCEPT ![s] = g]
  BY <1>0, <1>2 DEF TypeOK, Answer, Step
<1>6. SessionInOrder(g)
  BY <1>4 DEF SessionInOrder, Sampling
<1>7. SoundSample(g)
  BY <1>4 DEF SoundSample
<1> QED BY <1>1, <1>4, <1>5, <1>6, <1>7, SessionStep

(* The first phase of a read. *)
LEMMA ReadIndexKept ==
  ASSUME ReplayInductive, NEW s \in Sessions, ReadIndex(s)
  PROVE  ReplayInductive'
<1>0. TypeOK /\ Structure /\ PublishedInOrder /\ SessionInOrder(session[s])
  BY DEF ReplayInductive, SessionsInOrder
<1>1. mem.up /\ session[s].pc = "index" /\ session[s] \in SessionState
  BY <1>0, BusyIsUp DEF ReadIndex, TypeOK
<1>2. PICK q \in Nat : q = session[s].seq
  BY <1>1 DEF SessionState
<1>3. /\ session[s].floor <= q /\ q < Len(log) /\ session[s].floor <= mem.floor
      /\ session[s].floor \in Nat /\ session[s].kind = "rows" /\ disk.deleted \in Nat
      /\ session[s].out = None
  <2>1. mem.produced <= disk.produced /\ disk.produced = Len(log)
    BY <1>0, <1>1 DEF PublishedInOrder, Structure, CountersWhole
  <2>2. Len(log) \in Nat /\ mem.produced \in Nat /\ disk.deleted \in Nat
    BY <1>0, <1>1 DEF TypeOK, FilesTypeOK, ProcessTypeOK
  <2>3. session[s].floor \in Nat
    BY <1>1 DEF SessionState
  <2>4. /\ session[s].floor <= q /\ q < mem.produced /\ session[s].floor <= mem.floor
        /\ session[s].kind = "rows" /\ session[s].out = None
    BY <1>0, <1>1, <1>2 DEF SessionInOrder, Sampling
  <2> QED BY <2>1, <2>2, <2>3, <2>4
<1>4. CASE q \in DOMAIN disk.index
  <2>1. PICK k \in RowKeys : k = disk.index[q]
    BY <1>0, <1>3, <1>4, IndexReads
  <2>2. PICK g : g = [session[s] EXCEPT !.pc = "row", !.key = k]
    OBVIOUS
  <2>3. session'[s] = g /\ session' = [session EXCEPT ![s] = g]
    BY <1>0, <1>2, <1>4, <2>1, <2>2 DEF TypeOK, ReadIndex, Step
  <2>4. g \in SessionState
    BY <1>1, <2>2 DEF SessionState
  <2>5. /\ g.pc = "row" /\ g.kind = "rows" /\ g.key = k /\ g.seq = q /\ g.out = None
        /\ g.floor = session[s].floor
    BY <1>1, <1>2, <1>3, <2>2 DEF SessionState
  <2>6. k[1] < disk.next_episode /\ disk.rows[k] = log[q + 1]
    BY <1>0, <1>3, <1>4, <2>1, IndexReads
  <2>7. SessionInOrder(g)
    BY <1>3, <2>1, <2>5, <2>6 DEF SessionInOrder, Sampling
  <2>8. SoundSample(g)
    BY <2>5, NoneAssumption DEF SoundSample, Outcomes
  <2> QED BY <1>1, <2>3, <2>4, <2>5, <2>7, <2>8, SessionStep DEF ReadIndex
<1>5. CASE q \notin DOMAIN disk.index
  <2>1. session[s].floor < disk.deleted
    BY <1>0, <1>3, <1>5, IndexReads
  <2>2. Answer(s, "missing")
    BY <1>2, <1>5 DEF ReadIndex
  <2> QED BY <1>1, <2>1, <2>2, AnswerKept DEF ReadIndex, Outcomes
<1> QED BY <1>4, <1>5


(* The oldest episode of the window is not older than the floor. *)
LEMMA FirstEpisodeKept ==
  ASSUME ReplayInductive, NEW s \in Sessions, FirstEpisode(s)
  PROVE  ReplayInductive'
<1>0. TypeOK /\ Structure /\ PublishedInOrder /\ SessionInOrder(session[s])
  BY DEF ReplayInductive, SessionsInOrder
<1>1. mem.up /\ session[s].pc = "first" /\ session[s] \in SessionState
  BY <1>0, BusyIsUp DEF FirstEpisode, TypeOK
<1>2. PICK q \in Nat : q = session[s].seq
  BY <1>1 DEF SessionState
<1>3. /\ session[s].floor <= q /\ q < mem.produced /\ q < Len(log) /\ Len(log) \in Nat
      /\ session[s].floor <= mem.floor
      /\ session[s].floor \in Nat /\ session[s].kind = "terminal" /\ disk.deleted \in Nat
      /\ session[s].out = None
  <2>1. mem.produced <= disk.produced /\ disk.produced = Len(log)
    BY <1>0, <1>1 DEF PublishedInOrder, Structure, CountersWhole
  <2>2. Len(log) \in Nat /\ mem.produced \in Nat /\ disk.deleted \in Nat
    BY <1>0, <1>1 DEF TypeOK, FilesTypeOK, ProcessTypeOK
  <2>3. session[s].floor \in Nat
    BY <1>1 DEF SessionState
  <2>4. /\ session[s].floor <= q /\ q < mem.produced /\ session[s].floor <= mem.floor
        /\ session[s].kind = "terminal" /\ session[s].out = None
    BY <1>0, <1>1, <1>2 DEF SessionInOrder, Sampling
  <2> QED BY <2>1, <2>2, <2>3, <2>4
<1>4. CASE q \in DOMAIN disk.index
  <2>1. PICK k \in RowKeys : k = disk.index[q]
    BY <1>0, <1>3, <1>4, IndexReads
  <2>2. PICK g : g = [session[s] EXCEPT !.pc = "pick", !.seq = 0, !.key = k]
    OBVIOUS
  <2>3. session'[s] = g /\ session' = [session EXCEPT ![s] = g]
    BY <1>0, <1>2, <1>4, <2>1, <2>2 DEF TypeOK, FirstEpisode, Step
  <2>4. g \in SessionState
    BY <1>1, <2>2 DEF SessionState
  <2>5. /\ g.pc = "pick" /\ g.kind = "terminal" /\ g.key = k /\ g.out = None
        /\ g.floor = session[s].floor
    BY <1>1, <1>2, <1>3, <2>2 DEF SessionState
  <2>6. k[1] < disk.next_episode
    BY <1>0, <1>3, <1>4, <2>1, IndexReads
  <2>7. k[1] < mem.next_episode
    BY <1>0, <1>1, <1>3, <1>4, <2>1 DEF PublishedInOrder
  <2>8. Began(g)
    <3> SUFFICES ASSUME disk.deleted <= g.floor
                 PROVE  g.floor < Len(log) /\ disk.index[g.floor][1] <= k[1]
      BY <2>5 DEF Began
    <3>1. g.floor \in Nat /\ g.floor < Len(log)
      BY <1>3, <2>5
    <3>2. g.floor \in DOMAIN disk.index
      BY <1>0, <3>1, IndexReads
    <3> QED BY <1>0, <1>3, <1>4, <2>1, <2>5, <3>1, <3>2 DEF Structure, IndexInOrder
  <2>9. SessionInOrder(g)
    BY <1>3, <2>1, <2>5, <2>6, <2>7, <2>8 DEF SessionInOrder, Sampling
  <2>10. SoundSample(g)
    BY <2>5, NoneAssumption DEF SoundSample, Outcomes
  <2> QED BY <1>1, <2>3, <2>4, <2>5, <2>9, <2>10, SessionStep DEF FirstEpisode
<1>5. CASE q \notin DOMAIN disk.index
  <2>1. session[s].floor < disk.deleted
    BY <1>0, <1>3, <1>5, IndexReads
  <2>2. Answer(s, "missing")
    BY <1>2, <1>5 DEF FirstEpisode
  <2> QED BY <1>1, <2>1, <2>2, AnswerKept DEF FirstEpisode, Outcomes
<1> QED BY <1>4, <1>5

(* There is an episode to pick: the count of episodes is published before  *)
(* the count of rows.                                                      *)
LEMMA PickEpisodeKept ==
  ASSUME ReplayInductive, NEW s \in Sessions, PickEpisode(s)
  PROVE  ReplayInductive'
<1>0. TypeOK /\ Structure /\ PublishedInOrder /\ SessionInOrder(session[s])
  BY DEF ReplayInductive, SessionsInOrder
<1>1. mem.up /\ session[s].pc = "pick" /\ session[s] \in SessionState
  BY <1>0, BusyIsUp DEF PickEpisode, TypeOK
<1>2. PICK k \in RowKeys : k = session[s].key
  BY <1>0, <1>1 DEF SessionInOrder
<1>3. /\ k[1] \in Nat /\ k[1] < mem.next_episode /\ mem.next_episode <= disk.next_episode
      /\ mem.next_episode \in Nat /\ disk.next_episode \in Nat
      /\ session[s].kind = "terminal" /\ Began(session[s]) /\ session[s].out = None
      /\ session[s].floor <= mem.floor /\ session[s].floor \in Nat
  <2>1. /\ k[1] < mem.next_episode /\ session[s].kind = "terminal" /\ Began(session[s])
        /\ session[s].out = None /\ session[s].floor <= mem.floor
    BY <1>0, <1>1, <1>2 DEF SessionInOrder, Sampling
  <2>2. /\ mem.next_episode <= disk.next_episode
        /\ mem.next_episode \in Nat /\ disk.next_episode \in Nat
    BY <1>0, <1>1 DEF PublishedInOrder, TypeOK, FilesTypeOK, ProcessTypeOK
  <2>3. k[1] \in Nat /\ session[s].floor \in Nat
    BY <1>1, <1>2 DEF RowKeys, SessionState
  <2> QED BY <2>1, <2>2, <2>3
<1>4. PICK e \in k[1]..(mem.next_episode - 1) :
        Step(s, [session[s] EXCEPT !.pc = "episode", !.key = <<e, 0>>])
  <2>1. ~(session[s].key[1] >= mem.next_episode)
    BY <1>2, <1>3
  <2> QED BY <1>2, <2>1 DEF PickEpisode
<1>5. PICK g : g = [session[s] EXCEPT !.pc = "episode", !.key = <<e, 0>>]
  OBVIOUS
<1>6. session'[s] = g /\ session' = [session EXCEPT ![s] = g]
  BY <1>0, <1>4, <1>5 DEF TypeOK, Step
<1>7. e \in Nat /\ k[1] <= e /\ e < disk.next_episode /\ <<e, 0>> \in RowKeys
  BY <1>3, <1>4 DEF RowKeys
<1>8. g \in SessionState
  BY <1>1, <1>5, <1>7 DEF SessionState
<1>9. /\ g.pc = "episode" /\ g.kind = "terminal" /\ g.key = <<e, 0>> /\ g.out = None
      /\ g.floor = session[s].floor
  BY <1>1, <1>3, <1>5 DEF SessionState
<1>10. Began(g)
  <2> SUFFICES ASSUME disk.deleted <= g.floor
               PROVE  g.floor < Len(log) /\ disk.index[g.floor][1] <= e
    BY <1>9 DEF Began
  <2>1. g.floor < Len(log) /\ disk.index[g.floor][1] <= k[1]
    BY <1>2, <1>3, <1>9 DEF Began
  <2>2. g.floor \in Nat
    BY <1>3, <1>9
  <2>3. disk.index[g.floor][1] \in Nat
    BY <1>0, <2>1, <2>2, IndexReads
  <2> QED BY <1>3, <1>7, <2>1, <2>3
<1>11. SessionInOrder(g)
  BY <1>3, <1>7, <1>9, <1>10 DEF SessionInOrder, Sampling
<1>12. SoundSample(g)
  BY <1>9, NoneAssumption DEF SoundSample, Outcomes
<1> QED BY <1>1, <1>6, <1>8, <1>9, <1>11, <1>12, SessionStep DEF PickEpisode


(* An episode at or above the floor is missing only when the floor itself  *)
(* has been deleted.                                                       *)
LEMMA EpisodeGone ==
  ASSUME TypeOK, Structure, NEW floor \in Nat, NEW e \in Nat, e < disk.next_episode,
         disk.deleted <= floor => floor < Len(log) /\ disk.index[floor][1] <= e,
         e \notin DOMAIN disk.episodes
  PROVE  floor < disk.deleted
<1>0. disk.deleted \in Nat /\ disk.next_episode \in Nat /\ Len(log) \in Nat
  BY DEF TypeOK, FilesTypeOK
<1> SUFFICES ASSUME disk.deleted <= floor PROVE FALSE
  BY <1>0
<1>1. /\ floor \in DOMAIN disk.index /\ disk.deleted \in DOMAIN disk.index
      /\ disk.index[floor][1] \in Nat /\ disk.index[disk.deleted][1] \in Nat
  BY <1>0, IndexReads
<1>2. disk.index[disk.deleted][1] <= disk.index[floor][1]
  BY <1>0, <1>1 DEF Structure, IndexInOrder
<1>3. EpisodeAt(disk.deleted) \in Nat /\ EpisodeAt(disk.deleted) <= e
  BY <1>0, <1>1, <1>2 DEF EpisodeAt
<1> QED BY <1>0, <1>3 DEF Structure, EpisodesInOrder

(* A game whose rows end with its decisions has no terminal row at all. *)
LEMMA NoTerminalRow ==
  ASSUME TypeOK, Structure, NEW e \in DOMAIN disk.episodes,
         disk.episodes[e].rows # disk.episodes[e].steps + 1
  PROVE  \E i \in 1..Len(log) : \A j \in 1..Len(log) :
           log[j].game = log[i].game => log[j].kind # "terminal"
<1>1. RowsWhole /\ EpisodesInOrder
  BY DEF Structure
<1>2. PICK q \in DOMAIN disk.index : disk.index[q] = <<e, 0>>
  BY <1>1 DEF EpisodesInOrder
<1>3. \A j \in 1..Len(log) : log[j].game = disk.episodes[e].game => log[j].kind # "terminal"
  BY <1>1 DEF EpisodesInOrder
<1>4. <<e, 0>> \in DOMAIN disk.rows /\ disk.rows[<<e, 0>>] = log[q + 1]
  BY <1>1, <1>2 DEF RowsWhole
<1>5. disk.rows[<<e, 0>>].game = disk.episodes[e].game
  BY <1>1, <1>4 DEF EpisodesInOrder
<1>6. q + 1 \in 1..Len(log)
  <2>1. Len(log) \in Nat /\ disk.deleted \in Nat /\ q \in disk.deleted..(Len(log) - 1)
    BY <1>1, <1>2 DEF RowsWhole, TypeOK, FilesTypeOK
  <2> QED BY <2>1
<1> QED BY <1>3, <1>4, <1>5, <1>6

(* The record of an episode says where its terminal row is. *)
LEMMA ReadEpisodeKept ==
  ASSUME ReplayInductive, NEW s \in Sessions, ReadEpisode(s)
  PROVE  ReplayInductive'
<1>0. TypeOK /\ Structure /\ SessionInOrder(session[s])
  BY DEF ReplayInductive, SessionsInOrder
<1>1. mem.up /\ session[s].pc = "episode" /\ session[s] \in SessionState
  BY <1>0, BusyIsUp DEF ReadEpisode, TypeOK
<1>2. PICK k \in RowKeys : k = session[s].key
  BY <1>0, <1>1 DEF SessionInOrder
<1>3. PICK e \in Nat : e = k[1]
  BY <1>2 DEF RowKeys
<1>4. /\ e < disk.next_episode /\ Began(session[s])
      /\ session[s].kind = "terminal" /\ session[s].out = None
      /\ session[s].floor <= mem.floor /\ session[s].floor \in Nat
  <2>1. session[s].floor \in Nat
    BY <1>1 DEF SessionState
  <2> QED BY <1>0, <1>1, <1>2, <1>3, <2>1 DEF SessionInOrder, Sampling
<1>5. CASE e \notin DOMAIN disk.episodes
  <2>1. session[s].floor < disk.deleted
    BY <1>0, <1>2, <1>3, <1>4, <1>5, EpisodeGone DEF Began
  <2>2. Answer(s, "missing")
    BY <1>2, <1>3, <1>5 DEF ReadEpisode
  <2> QED BY <1>1, <2>1, <2>2, AnswerKept DEF ReadEpisode, Outcomes
<1>6. CASE e \in DOMAIN disk.episodes /\ disk.episodes[e].rows # disk.episodes[e].steps + 1
  <2>1. Answer(s, "no terminal")
    BY <1>2, <1>3, <1>6 DEF ReadEpisode
  <2>2. \E i \in 1..Len(log) : \A j \in 1..Len(log) :
          log[j].game = log[i].game => log[j].kind # "terminal"
    BY <1>0, <1>6, NoTerminalRow
  <2> QED BY <1>1, <2>1, <2>2, AnswerKept DEF ReadEpisode, Outcomes
<1>7. CASE e \in DOMAIN disk.episodes /\ disk.episodes[e].rows = disk.episodes[e].steps + 1
  <2>1. PICK n \in Nat : n = disk.episodes[e].steps
    BY <1>0, <1>7 DEF Structure, EpisodesInOrder
  <2>2. PICK g : g = [session[s] EXCEPT !.pc = "row", !.key = <<e, n>>]
    OBVIOUS
  <2>3. session'[s] = g /\ session' = [session EXCEPT ![s] = g]
    BY <1>0, <1>2, <1>3, <1>7, <2>1, <2>2 DEF TypeOK, ReadEpisode, Step
  <2>4. <<e, n>> \in RowKeys
    BY DEF RowKeys
  <2>5. g \in SessionState
    BY <1>1, <2>2, <2>4 DEF SessionState
  <2>6. /\ g.pc = "row" /\ g.kind = "terminal" /\ g.key = <<e, n>> /\ g.out = None
        /\ g.floor = session[s].floor
    BY <1>1, <1>4, <2>2 DEF SessionState
  <2>7. Began(g)
    BY <1>2, <1>3, <1>4, <2>6 DEF Began
  <2>8. SessionInOrder(g)
    BY <1>4, <1>7, <2>1, <2>4, <2>6, <2>7 DEF SessionInOrder, Sampling
  <2>9. SoundSample(g)
    BY <2>6, NoneAssumption DEF SoundSample, Outcomes
  <2> QED BY <1>1, <2>3, <2>5, <2>6, <2>8, <2>9, SessionStep DEF ReadEpisode
<1> QED BY <1>5, <1>6, <1>7

(* The second phase of a read: a key that is still there is the row that   *)
(* was meant, and one that is not was below the deleted floor.             *)
LEMMA ReadRowKept ==
  ASSUME ReplayInductive, NEW s \in Sessions, ReadRow(s)
  PROVE  ReplayInductive'
<1>0. TypeOK /\ Structure /\ SessionInOrder(session[s])
  BY DEF ReplayInductive, SessionsInOrder
<1>1. mem.up /\ session[s].pc = "row" /\ session[s] \in SessionState
  BY <1>0, BusyIsUp DEF ReadRow, TypeOK
<1>2. PICK k \in RowKeys : k = session[s].key
  BY <1>0, <1>1 DEF SessionInOrder
<1>3. /\ k[1] < disk.next_episode /\ k[1] \in Nat /\ k[2] \in Nat
      /\ session[s].kind \in {"rows", "terminal"} /\ session[s].out = None
      /\ session[s].floor \in Nat /\ session[s].seq \in Nat /\ disk.deleted \in Nat
  <2>1. /\ session[s].floor \in Nat /\ session[s].seq \in Nat
        /\ session[s].kind \in {"rows", "terminal"}
    BY <1>1 DEF SessionState
  <2>2. k[1] \in Nat /\ k[2] \in Nat
    BY <1>2 DEF RowKeys
  <2>3. disk.deleted \in Nat
    BY <1>0 DEF TypeOK, FilesTypeOK
  <2>4. k[1] < disk.next_episode /\ session[s].out = None
    BY <1>0, <1>1, <1>2 DEF SessionInOrder
  <2> QED BY <2>1, <2>2, <2>3, <2>4
<1>4. k \in DOMAIN disk.rows =>
        /\ disk.rows[k] \in Row
        /\ k[1] \in DOMAIN disk.episodes /\ k[2] < disk.episodes[k[1]].rows
        /\ \E q \in DOMAIN disk.index : disk.index[q] = k
  <2> SUFFICES ASSUME k \in DOMAIN disk.rows
               PROVE  /\ disk.rows[k] \in Row
                      /\ k[1] \in DOMAIN disk.episodes /\ k[2] < disk.episodes[k[1]].rows
                      /\ \E q \in DOMAIN disk.index : disk.index[q] = k
    OBVIOUS
  <2>1. disk.rows[k] \in Row
    BY <1>0 DEF TypeOK, FilesTypeOK
  <2>2. PICK q \in DOMAIN disk.index : disk.index[q] = k
    BY <1>0 DEF Structure, RowsWhole, Range
  <2> QED BY <1>0, <2>1, <2>2 DEF Structure, IndexInOrder
<1>5. CASE k \notin DOMAIN disk.rows
  <2>1. Answer(s, "missing")
    BY <1>2, <1>5 DEF ReadRow
  <2>2. session[s].floor < disk.deleted
    <3>1. CASE session[s].kind = "rows"
      <4>1. PICK q \in Nat : q = session[s].seq
        BY <1>3
      <4>2. /\ session[s].floor <= q /\ q < Len(log)
            /\ disk.deleted <= q => disk.index[q] = k
        BY <1>0, <1>1, <1>2, <3>1, <4>1 DEF SessionInOrder
      <4> QED BY <1>0, <1>3, <1>5, <4>2, IndexReads
    <3>2. CASE session[s].kind = "terminal"
      <4>1. /\ Began(session[s])
            /\ k[1] \in DOMAIN disk.episodes => disk.episodes[k[1]].rows = k[2] + 1
        BY <1>0, <1>1, <1>2, <3>2 DEF SessionInOrder
      <4>2. k[1] \notin DOMAIN disk.episodes
        <5> SUFFICES ASSUME k[1] \in DOMAIN disk.episodes PROVE k \in DOMAIN disk.rows
          BY <1>5
        <5>1. k = <<k[1], k[2]>> /\ k[2] \in 0..(disk.episodes[k[1]].rows - 1)
          BY <1>2, <1>3, <4>1 DEF RowKeys
        <5> QED BY <1>0, <5>1 DEF Structure, EpisodesWhole
      <4> QED BY <1>0, <1>2, <1>3, <4>1, <4>2, EpisodeGone DEF Began
    <3> QED BY <1>3, <3>1, <3>2
  <2> QED BY <1>1, <2>1, <2>2, AnswerKept DEF ReadRow, Outcomes
<1>6. CASE k \in DOMAIN disk.rows
  <2>1. session[s].kind = "terminal" => disk.rows[k].kind = "terminal"
    <3> SUFFICES ASSUME session[s].kind = "terminal" PROVE disk.rows[k].kind = "terminal"
      OBVIOUS
    <3>1. k[2] = disk.episodes[k[1]].steps
      BY <1>0, <1>1, <1>2, <1>4, <1>6 DEF SessionInOrder
    <3> QED BY <1>0, <1>3, <1>6, <3>1 DEF Structure, EpisodesInOrder
  <2>2. PICK r \in Row : r = disk.rows[k]
    BY <1>4, <1>6
  <2>3. PICK g : g = [session[s] EXCEPT !.pc = "consume", !.floor = 0, !.key = None, !.row = r]
    OBVIOUS
  <2>4. session'[s] = g /\ session' = [session EXCEPT ![s] = g]
    BY <1>0, <1>2, <1>6, <2>1, <2>2, <2>3 DEF TypeOK, ReadRow, Step
  <2>5. g \in SessionState
    BY <1>1, <2>2, <2>3 DEF SessionState
  <2>6. /\ g.pc = "consume" /\ g.kind = session[s].kind /\ g.out = None /\ g.row = r
        /\ g.seq = session[s].seq
    BY <1>1, <1>3, <2>3 DEF SessionState
  <2>7. g.kind = "rows" => g.seq < Len(log) /\ r = log[g.seq + 1]
    BY <1>0, <1>1, <1>2, <1>6, <2>2, <2>6 DEF SessionInOrder
  <2>8. g.kind # "rows" => r.kind = "terminal" /\ r \in Range(log)
    <3>1. PICK q \in DOMAIN disk.index : disk.index[q] = k
      BY <1>4, <1>6
    <3>2. r = log[q + 1]
      BY <1>0, <2>2, <3>1 DEF Structure, RowsWhole
    <3>3. q + 1 \in 1..Len(log) /\ DOMAIN log = 1..Len(log)
      <4>1. /\ Len(log) \in Nat /\ disk.deleted \in Nat /\ q \in disk.deleted..(Len(log) - 1)
            /\ log \in Seq(Row)
        BY <1>0, <3>1 DEF Structure, RowsWhole, TypeOK, FilesTypeOK
      <4> QED BY <4>1
    <3>4. r \in Range(log)
      BY <3>2, <3>3 DEF Range
    <3> QED BY <1>3, <2>1, <2>2, <2>6, <3>4
  <2>9. SessionInOrder(g)
    BY <2>6, <2>7 DEF SessionInOrder, Sampling
  <2>10. SoundSample(g)
    BY <2>6, <2>7, <2>8, NoneAssumption DEF SoundSample, Outcomes
  <2> QED BY <1>1, <2>4, <2>5, <2>6, <2>9, <2>10, SessionStep DEF ReadRow
<1> QED BY <1>5, <1>6


(* HELLO loads the number of games first, so that the averages it loads    *)
(* next contain at least that many.                                        *)
LEMMA HelloGamesKept ==
  ASSUME ReplayInductive, NEW s \in Sessions, HelloGames(s)
  PROVE  ReplayInductive'
<1>0. TypeOK
  BY DEF ReplayInductive
<1>1. mem.up /\ mem.averaged_games \in Nat
  BY <1>0 DEF TypeOK, ProcessTypeOK, HelloGames, bind_shared
<1>2. PICK g : g = [NoSession EXCEPT !.pc = "hello", !.seq = mem.averaged_games]
  OBVIOUS
<1>3. session'[s] = g /\ session' = [session EXCEPT ![s] = g]
  BY <1>0, <1>2 DEF TypeOK, HelloGames, Step
<1>4. g = [pc |-> "hello", kind |-> "rows", window |-> 0, floor |-> 0, produced |-> 0,
           seq |-> mem.averaged_games, key |-> None, count |-> 0, out |-> None, row |-> None]
  BY <1>2 DEF NoSession
<1>5. g \in SessionState
  BY <1>1, <1>4 DEF SessionState
<1>6. g.pc = "hello" /\ g.out = None /\ g.seq = mem.averaged_games
  BY <1>4
<1>7. SessionInOrder(g)
  BY <1>1, <1>6 DEF SessionInOrder, Sampling
<1>8. SoundSample(g)
  BY <1>6, NoneAssumption DEF SoundSample, Outcomes
<1> QED BY <1>1, <1>3, <1>5, <1>6, <1>7, <1>8, SessionStep DEF HelloGames

(* The averages of a HELLO are loaded before their game count, and both are below the stored ones. *)
LEMMA HelloAveragesKept ==
  ASSUME ReplayInductive, NEW s \in Sessions, HelloAverages(s)
  PROVE  ReplayInductive'
<1>0. TypeOK /\ PublishedInOrder /\ SessionInOrder(session[s])
  BY DEF ReplayInductive, SessionsInOrder
<1>1. mem.up /\ session[s].pc = "hello" /\ session[s] \in SessionState
  BY <1>0, BusyIsUp DEF HelloAverages, TypeOK
<1>2. PICK n \in Nat : n = mem.averaged
  BY <1>0, <1>1 DEF TypeOK, ProcessTypeOK
<1>3. n >= session[s].seq /\ n <= disk.metrics
  <2>1. session[s].seq \in Nat
    BY <1>1 DEF SessionState
  <2>2. mem.averaged_games \in Nat /\ disk.metrics \in Nat
    BY <1>0, <1>1 DEF TypeOK, ProcessTypeOK, FilesTypeOK
  <2>3. session[s].seq <= mem.averaged_games
    BY <1>0, <1>1 DEF SessionInOrder
  <2> QED BY <1>0, <1>1, <1>2, <2>1, <2>2, <2>3 DEF PublishedInOrder
<1>4. CASE session[s].seq = 0
  <2>1. Answer(s, "no averages")
    BY <1>4 DEF HelloAverages
  <2> QED BY <1>1, <2>1, AnswerKept DEF HelloAverages, Outcomes
<1>5. CASE session[s].seq # 0
  <2>1. PICK g : g = [session[s] EXCEPT !.pc = "done", !.out = "averages", !.count = n]
    OBVIOUS
  <2>2. session'[s] = g /\ session' = [session EXCEPT ![s] = g]
    BY <1>0, <1>2, <1>5, <2>1 DEF TypeOK, HelloAverages, Step
  <2>3. g \in SessionState
    BY <1>1, <2>1 DEF SessionState, Outcomes
  <2>4. g.pc = "done" /\ g.out = "averages" /\ g.count = n /\ g.seq = session[s].seq
    BY <1>1, <2>1 DEF SessionState
  <2>5. SessionInOrder(g)
    BY <2>4 DEF SessionInOrder, Sampling
  <2>6. SoundSample(g)
    BY <1>3, <2>4 DEF SoundSample
  <2> QED BY <1>1, <2>2, <2>3, <2>4, <2>5, <2>6, SessionStep DEF HelloAverages
<1> QED BY <1>4, <1>5

(* A session without a request holds nothing. *)
LEMMA NoSessionSound ==
  /\ NoSession \in SessionState /\ NoSession.pc = "idle"
  /\ SessionInOrder(NoSession) /\ SoundSample(NoSession)
<1>1. NoSession \in SessionState
  BY DEF NoSession, SessionState
<1>2. NoSession.pc = "idle" /\ NoSession.out = None
  BY DEF NoSession
<1>3. SessionInOrder(NoSession)
  BY <1>2 DEF SessionInOrder, Sampling
<1>4. SoundSample(NoSession)
  BY <1>2, NoneAssumption DEF SoundSample, Outcomes
<1> QED BY <1>1, <1>2, <1>3, <1>4

(* A session replies and is idle again, keeping nothing. *)
LEMMA ReplyKept ==
  ASSUME ReplayInductive, NEW s \in Sessions, Reply(s)
  PROVE  ReplayInductive'
<1>0. TypeOK
  BY DEF ReplayInductive
<1>1. mem.up /\ session[s].pc = "done"
  BY BusyIsUp DEF Reply
<1>2. session'[s] = NoSession /\ session' = [session EXCEPT ![s] = NoSession]
  BY <1>0 DEF TypeOK, Reply, Step
<1> QED BY <1>1, <1>2, NoSessionSound, SessionStep DEF Reply


(* The counters that a session has read only grow. *)
CountersGrow ==
  /\ mem'.floor \in Nat /\ mem.floor <= mem'.floor
  /\ mem'.produced \in Nat /\ mem.produced <= mem'.produced
  /\ mem'.next_episode \in Nat /\ mem.next_episode <= mem'.next_episode
  /\ mem'.averaged_games \in Nat /\ mem.averaged_games <= mem'.averaged_games

(* An outcome stays true while the floor of deletions and the history do.  *)
LEMMA SampleFrame ==
  ASSUME NEW f, SoundSample(f), disk'.deleted = disk.deleted, disk'.metrics = disk.metrics,
         log' = log
  PROVE  SoundSample(f)'
<1>1. f.pc \in {"consume", "consumed"} =>
        IF f.kind = "rows" THEN f.row = log'[f.seq + 1]
        ELSE f.row.kind = "terminal" /\ f.row \in Range(log')
  BY DEF SoundSample
<1>2. f.out = "empty" => f.produced = 0 /\ f.key = None
  BY DEF SoundSample
<1>3. f.out = "missing" => f.floor < disk'.deleted
  BY DEF SoundSample
<1>4. f.out = "averages" => f.count >= f.seq /\ f.count <= disk'.metrics
  BY DEF SoundSample
<1>5. f.out = "no terminal" =>
        ~\A i \in 1..Len(log') : \E j \in 1..Len(log') :
            log'[j].game = log'[i].game /\ log'[j].kind = "terminal"
  BY DEF SoundSample
<1> QED BY <1>1, <1>2, <1>3, <1>4, <1>5 DEF SoundSample

(* What a session holds stays what it read while no row is written. *)
LEMMA SessionFrame ==
  ASSUME TypeOK, mem.up, NEW f \in SessionState, SessionInOrder(f), SoundSample(f),
         FilesSame, CountersGrow
  PROVE  SessionInOrder(f)' /\ SoundSample(f)'
<1>1. /\ mem.floor \in Nat /\ mem.produced \in Nat /\ mem.next_episode \in Nat
      /\ mem.averaged_games \in Nat
  BY DEF TypeOK, ProcessTypeOK
<1>2. f.floor \in Nat /\ f.seq \in Nat /\ (f.key \in RowKeys => f.key[1] \in Nat)
  BY DEF SessionState, RowKeys
<1>3. Began(f)' <=> Began(f)
  BY DEF FilesSame, Began
<1>4. SessionInOrder(f)'
  <2>1. f.pc \in Sampling => f.floor <= mem'.floor
    BY <1>1, <1>2 DEF SessionInOrder, CountersGrow
  <2>2. f.pc \in {"index", "first"} => f.seq < mem'.produced
    BY <1>1, <1>2 DEF SessionInOrder, CountersGrow
  <2>3. f.pc = "pick" => f.key[1] < mem'.next_episode
    BY <1>1, <1>2 DEF SessionInOrder, CountersGrow
  <2>4. f.pc = "hello" => f.seq <= mem'.averaged_games
    BY <1>1, <1>2 DEF SessionInOrder, CountersGrow
  <2>5. /\ disk'.index = disk.index /\ disk'.rows = disk.rows /\ disk'.episodes = disk.episodes
        /\ disk'.next_episode = disk.next_episode /\ disk'.deleted = disk.deleted /\ log' = log
    BY DEF FilesSame
  <2> QED BY <1>3, <2>1, <2>2, <2>3, <2>4, <2>5 DEF SessionInOrder
<1>5. SoundSample(f)'
  <2>1. disk'.deleted = disk.deleted /\ disk'.metrics = disk.metrics /\ log' = log
    BY DEF FilesSame
  <2> QED BY <2>1, SampleFrame
<1> QED BY <1>4, <1>5

(* The sessions that a step leaves alone are kept by what it does. *)
LEMMA SessionsFrame ==
  ASSUME TypeOK, mem.up, SessionsInOrder, SampleSound, FilesSame, CountersGrow,
         \A t \in Sessions : session'[t] = session[t] \/ session'[t] = NoSession
                               \/ (SessionInOrder(session[t])' /\ SoundSample(session[t])')
  PROVE  SessionsInOrder' /\ SampleSound'
<1> SUFFICES ASSUME NEW t \in Sessions
             PROVE  SessionInOrder(session[t])' /\ SoundSample(session[t])'
  BY DEF SessionsInOrder, SampleSound
<1>1. PICK f \in SessionState : f = session[t]
  BY DEF TypeOK
<1>2. SessionInOrder(f) /\ SoundSample(f)
  BY <1>1 DEF SessionsInOrder, SampleSound
<1>3. CASE session'[t] = session[t]
  <2>1. SessionInOrder(f)' /\ SoundSample(f)'
    BY <1>2, SessionFrame
  <2> QED BY <1>1, <1>3, <2>1
<1>4. CASE session'[t] = NoSession
  <2>1. SessionInOrder(NoSession)' /\ SoundSample(NoSession)'
    BY NoSessionSound, PTL
  <2> QED BY <1>4, <2>1
<1> QED BY <1>3, <1>4


-----------------------------------------------------------------------------
(* The counter of consumed rows.                                           *)

(* What a step of record_consumed leaves of the process. *)
ProcessSame ==
  /\ mem.up /\ mem'.up = TRUE /\ DOMAIN mem' = MemKeys /\ sink' = sink
  /\ mem'.next_episode = mem.next_episode /\ mem'.produced = mem.produced
  /\ mem'.completed = mem.completed /\ mem'.floor = mem.floor
  /\ mem'.averaged = mem.averaged /\ mem'.averaged_games = mem.averaged_games
  /\ mem'.contract = mem.contract /\ mem'.mode = mem.mode /\ mem'.identity = mem.identity

(* A step of the process that writes neither rows nor episodes keeps all   *)
(* that is not about the consumption and the sessions.                     *)
LEMMA ProcessFrame ==
  ASSUME ReplayInductive, FilesSame, BoundSame, ProcessSame, DOMAIN disk' = DiskKeys,
         disk'.consumed \in Nat, served' \in Nat, mem'.consumed \in Nat,
         session' \in [Sessions -> SessionState]
  PROVE  /\ TypeOK' /\ Structure' /\ PublishedInOrder' /\ StoredConforms' /\ ContractInOrder'
         /\ CountersGrow
<1>0. TypeOK /\ Structure /\ PublishedInOrder /\ StoredConforms /\ ContractInOrder
  BY DEF ReplayInductive
<1>1. TypeOK'
  <2>1. FilesTypeOK'
    BY <1>0 DEF TypeOK, FilesTypeOK, FilesSame
  <2>2. ProcessTypeOK'
    BY <1>0 DEF TypeOK, ProcessTypeOK, ProcessSame
  <2> QED BY <2>1, <2>2 DEF TypeOK
<1>2. Structure'
  BY <1>0, StructureSame
<1>3. PublishedInOrder'
  BY <1>0 DEF PublishedInOrder, FilesSame, ProcessSame
<1>4. StoredConforms'
  BY <1>0 DEF StoredConforms, FilesSame, BoundSame
<1>5. ContractInOrder'
  BY <1>0 DEF ContractInOrder, FilesSame, BoundSame, ProcessSame
<1>6. CountersGrow
  BY <1>0 DEF TypeOK, ProcessTypeOK, ProcessSame, CountersGrow
<1> QED BY <1>1, <1>2, <1>3, <1>4, <1>5, <1>6

(* The count is written under the lock, from the counter that the lock     *)
(* guards.                                                                 *)
LEMMA WriteConsumedKept ==
  ASSUME ReplayInductive, NEW s \in Sessions, WriteConsumed(s)
  PROVE  ReplayInductive'
<1>0. /\ TypeOK /\ SessionsInOrder /\ SampleSound /\ ConsumedExact /\ ConsumedInOrder
  BY DEF ReplayInductive
<1>1. mem.up /\ session[s].pc = "consume" /\ session[s] \in SessionState
  BY <1>0, BusyIsUp DEF WriteConsumed, TypeOK
<1>2. mem.consumed_lock = None /\ mem.consumed = disk.consumed /\ disk.consumed = served
  BY <1>0, <1>1 DEF WriteConsumed, ConsumedFree, ConsumedExact
<1>3. PICK n \in Nat : n = mem.consumed + 1
  BY <1>0, <1>1 DEF TypeOK, ProcessTypeOK
<1>4. FilesSame /\ BoundSame /\ DOMAIN disk' = DiskKeys /\ disk'.consumed = n
  BY <1>0, <1>3 DEF TypeOK, FilesTypeOK, WriteConsumed, DiskKeys, FilesSame, BoundSame, Batch
<1>5. ProcessSame /\ mem'.consumed = mem.consumed /\ mem'.consumed_lock = s
  BY <1>0, <1>1 DEF TypeOK, ProcessTypeOK, WriteConsumed, MemKeys, ProcessSame
<1>6. PICK g : g = [session[s] EXCEPT !.pc = "consumed", !.count = n]
  OBVIOUS
<1>7. session'[s] = g /\ session' = [session EXCEPT ![s] = g]
  BY <1>0, <1>3, <1>6 DEF TypeOK, WriteConsumed, Step, Batch
<1>8. g \in SessionState
  BY <1>1, <1>6 DEF SessionState
<1>9. /\ g.pc = "consumed" /\ g.count = n /\ g.kind = session[s].kind /\ g.out = session[s].out
      /\ g.row = session[s].row /\ g.seq = session[s].seq
  BY <1>1, <1>6 DEF SessionState
<1>10. session' \in [Sessions -> SessionState]
  BY <1>0, <1>7, <1>8 DEF TypeOK
<1>11. served' = n
  BY <1>2, <1>3 DEF WriteConsumed, Batch
<1>12. /\ TypeOK' /\ Structure' /\ PublishedInOrder' /\ StoredConforms' /\ ContractInOrder'
       /\ CountersGrow
  <2>1. mem'.consumed \in Nat
    BY <1>0, <1>1, <1>5 DEF TypeOK, ProcessTypeOK
  <2> QED BY <1>4, <1>5, <1>10, <1>11, <2>1, ProcessFrame
<1>13. SessionInOrder(session[s])' /\ SoundSample(session[s])'
  <2>1. PICK f \in SessionState : f = session[s]
    BY <1>1
  <2>2. SessionInOrder(f)' /\ SoundSample(f)'
    BY <1>0, <1>1, <1>4, <1>12, <2>1, SessionFrame DEF SessionsInOrder, SampleSound
  <2>3. SessionInOrder(g)'
    BY <1>1, <1>9, <2>1, <2>2 DEF SessionInOrder, Sampling
  <2>4. SoundSample(g)'
    <3>1. g.out = None
      BY <1>0, <1>1, <1>9 DEF SessionsInOrder, SessionInOrder
    <3>2. IF g.kind = "rows" THEN g.row = log'[g.seq + 1]
          ELSE g.row.kind = "terminal" /\ g.row \in Range(log')
      BY <1>1, <1>9, <2>1, <2>2 DEF SoundSample
    <3> QED BY <3>1, <3>2, NoneAssumption DEF SoundSample, Outcomes
  <2> QED BY <1>7, <2>3, <2>4
<1>14. \A t \in Sessions : t # s => session'[t] = session[t]
  BY <1>0, <1>7 DEF TypeOK
<1>15. SessionsInOrder' /\ SampleSound'
  BY <1>0, <1>1, <1>4, <1>12, <1>13, <1>14, SessionsFrame
<1>16. ConsumedExact'
  <2>1. mem.consumed \in Nat /\ mem.consumed <= n
    BY <1>0, <1>1, <1>3 DEF TypeOK, ProcessTypeOK
  <2>2. s # None
    BY NoneAssumption
  <2> QED BY <1>4, <1>5, <1>11, <2>1, <2>2 DEF ConsumedExact, ConsumedFree
<1>17. ConsumedInOrder'
  <2>1. \A t \in Sessions : session[t].pc # "consumed"
    BY <1>0, <1>2, NoneAssumption DEF ConsumedInOrder
  <2> QED BY <1>4, <1>5, <1>7, <1>9, <1>14, <2>1 DEF ConsumedInOrder
<1> QED BY <1>12, <1>15, <1>16, <1>17 DEF ReplayInductive

(* The consumption a session recorded becomes the one the backlog gate reads. *)
LEMMA PublishConsumedKept ==
  ASSUME ReplayInductive, NEW s \in Sessions, PublishConsumed(s)
  PROVE  ReplayInductive'
<1>0. /\ TypeOK /\ SessionsInOrder /\ SampleSound /\ ConsumedExact /\ ConsumedInOrder
  BY DEF ReplayInductive
<1>1. mem.up /\ session[s].pc = "consumed" /\ session[s] \in SessionState
  BY <1>0, BusyIsUp DEF PublishConsumed, TypeOK
<1>2. mem.consumed_lock = s /\ session[s].count = disk.consumed /\ disk.consumed = served
  BY <1>0, <1>1, NoneAssumption DEF ConsumedInOrder, ConsumedExact
<1>3. FilesSame /\ BoundSame /\ DOMAIN disk' = DiskKeys /\ disk'.consumed = disk.consumed
  BY <1>0 DEF TypeOK, FilesTypeOK, PublishConsumed, FilesSame, BoundSame
<1>4. ProcessSame /\ mem'.consumed = session[s].count /\ mem'.consumed_lock = None
  BY <1>0, <1>1 DEF TypeOK, ProcessTypeOK, PublishConsumed, MemKeys, ProcessSame
<1>5. PICK g : g = [NoSession EXCEPT !.pc = "done"]
  OBVIOUS
<1>6. session'[s] = g /\ session' = [session EXCEPT ![s] = g]
  BY <1>0, <1>5 DEF TypeOK, PublishConsumed, Step
<1>7. g \in SessionState /\ g.pc = "done" /\ g.out = None
  BY <1>5, NoSessionSound DEF SessionState, NoSession
<1>8. session' \in [Sessions -> SessionState]
  BY <1>0, <1>6, <1>7 DEF TypeOK
<1>9. disk.consumed \in Nat /\ served \in Nat /\ served' = served
  BY <1>0 DEF TypeOK, FilesTypeOK, PublishConsumed
<1>10. /\ TypeOK' /\ Structure' /\ PublishedInOrder' /\ StoredConforms' /\ ContractInOrder'
       /\ CountersGrow
  BY <1>2, <1>3, <1>4, <1>8, <1>9, ProcessFrame
<1>11. SessionInOrder(session[s])' /\ SoundSample(session[s])'
  <2>1. SessionInOrder(g)'
    BY <1>7 DEF SessionInOrder, Sampling
  <2>2. SoundSample(g)'
    BY <1>7, NoneAssumption DEF SoundSample, Outcomes
  <2> QED BY <1>6, <2>1, <2>2
<1>12. \A t \in Sessions : t # s => session'[t] = session[t]
  BY <1>0, <1>6 DEF TypeOK
<1>13. SessionsInOrder' /\ SampleSound'
  BY <1>0, <1>1, <1>3, <1>10, <1>11, <1>12, SessionsFrame
<1>14. ConsumedExact'
  BY <1>2, <1>3, <1>4, <1>9 DEF ConsumedExact, ConsumedFree
<1>15. ConsumedInOrder'
  <2>1. \A t \in Sessions : session'[t].pc # "consumed"
    BY <1>0, <1>2, <1>6, <1>7, <1>12 DEF ConsumedInOrder
  <2> QED BY <1>4, <2>1 DEF ConsumedInOrder
<1> QED BY <1>10, <1>13, <1>14, <1>15 DEF ReplayInductive


-----------------------------------------------------------------------------
(* The publication of the counters.                                        *)

(* A publication changes counters of the process and where the append      *)
(* stands, and nothing else.                                               *)
LEMMA PublicationStep ==
  ASSUME ReplayInductive, mem.up, sink'.pc \in {"idle"} \cup Appending, PublishedInOrder', CountersGrow,
         mem'.up = TRUE, DOMAIN mem' = MemKeys, mem'.completed \in Nat, mem'.averaged \in Nat,
         mem'.consumed = mem.consumed, mem'.consumed_lock = mem.consumed_lock,
         mem'.contract = mem.contract, mem'.mode = mem.mode, mem'.identity = mem.identity,
         disk' = disk, session' = session, games' = games, log' = log, served' = served
  PROVE  ReplayInductive'
<1>0. /\ TypeOK /\ Structure /\ SessionsInOrder /\ SampleSound /\ ConsumedExact
      /\ ConsumedInOrder /\ StoredConforms /\ ContractInOrder
  BY DEF ReplayInductive
<1>1. TypeOK'
  <2>1. FilesTypeOK'
    BY <1>0 DEF TypeOK, FilesTypeOK
  <2>2. ProcessTypeOK'
    BY <1>0 DEF TypeOK, ProcessTypeOK, CountersGrow
  <2>3. session' \in [Sessions -> SessionState]
    BY <1>0 DEF TypeOK
  <2> QED BY <2>1, <2>2, <2>3 DEF TypeOK
<1>2. FilesSame
  BY <1>0 DEF FilesSame, TypeOK, FilesTypeOK
<1>3. Structure'
  BY <1>0, <1>2, StructureSame
<1>4. SessionsInOrder' /\ SampleSound'
  BY <1>0, <1>2, SessionsFrame
<1>5. ConsumedExact' /\ ConsumedInOrder'
  BY <1>0 DEF ConsumedExact, ConsumedInOrder, ConsumedFree
<1>6. StoredConforms'
  BY <1>0 DEF StoredConforms
<1>7. ContractInOrder'
  BY <1>0 DEF ContractInOrder
<1> QED BY <1>1, <1>3, <1>4, <1>5, <1>6, <1>7 DEF ReplayInductive

(* What the counters are before a publication. *)
LEMMA CountersTyped ==
  ASSUME ReplayInductive, sink.pc # "idle"
  PROVE  /\ mem.up /\ DOMAIN mem = MemKeys
         /\ mem.next_episode \in Nat /\ mem.produced \in Nat /\ mem.completed \in Nat
         /\ mem.floor \in Nat /\ mem.averaged \in Nat /\ mem.averaged_games \in Nat
         /\ disk.next_episode \in Nat /\ disk.completed \in Nat /\ disk.metrics \in Nat
         /\ disk.retained \in Nat /\ disk.deleted \in Nat /\ disk.produced \in Nat
         /\ disk.produced = Len(log) /\ mem.contract # None
<1>1. TypeOK /\ Structure /\ PublishedInOrder
  BY DEF ReplayInductive
<1>2. mem.up
  BY <1>1 DEF PublishedInOrder
<1>3. disk.produced = Len(log) /\ Len(log) \in Nat
  BY <1>1 DEF Structure, CountersWhole, TypeOK, FilesTypeOK
<1>4. mem.contract # None
  BY <1>1, <1>2 DEF PublishedInOrder
<1> QED BY <1>1, <1>2, <1>3, <1>4 DEF TypeOK, FilesTypeOK, ProcessTypeOK

(* The episode counters are published after the batch is on disk. *)
LEMMA PublishEpisodesKept ==
  ASSUME ReplayInductive, PublishEpisodes
  PROVE  ReplayInductive'
<1>0. sink.pc = "committed" /\ TypeOK /\ Structure /\ PublishedInOrder
  BY DEF ReplayInductive, PublishEpisodes
<1>1. /\ mem'.next_episode = disk.next_episode /\ mem'.completed = disk.completed
      /\ mem'.produced = mem.produced /\ mem'.floor = mem.floor /\ mem'.up = TRUE
      /\ mem'.averaged = mem.averaged /\ mem'.averaged_games = mem.averaged_games
      /\ DOMAIN mem' = MemKeys /\ mem'.contract = mem.contract
      /\ mem'.consumed = mem.consumed /\ mem'.consumed_lock = mem.consumed_lock
      /\ mem'.mode = mem.mode /\ mem'.identity = mem.identity
  BY <1>0, CountersTyped DEF PublishEpisodes, MemKeys, TypeOK, ProcessTypeOK
<1>2. mem.next_episode <= disk.next_episode
  BY <1>0, CountersTyped DEF PublishedInOrder
<1>3. sink'.pc = "counted" /\ disk' = disk /\ session' = session
  BY DEF PublishEpisodes
<1>4. CountersGrow
  BY <1>0, <1>1, <1>2, CountersTyped DEF CountersGrow
<1>5. \A q \in DOMAIN disk.index : q < mem.produced => disk.index[q][1] < disk.next_episode
  <2> SUFFICES ASSUME NEW q \in DOMAIN disk.index PROVE disk.index[q][1] < disk.next_episode
    OBVIOUS
  <2>1. q \in Nat /\ q < Len(log)
    BY <1>0, CountersTyped DEF Structure, RowsWhole
  <2> QED BY <1>0, <2>1, IndexReads
<1>6. PublishedInOrder'
  BY <1>0, <1>1, <1>3, <1>5, CountersTyped DEF PublishedInOrder, Unpublished
<1>7. sink'.pc \in {"idle"} \cup Appending
  BY <1>3 DEF Appending, Unpublished
<1> QED BY <1>0, <1>1, <1>3, <1>4, <1>6, <1>7, CountersTyped, PublicationStep DEF PublishEpisodes

(* The produced count is published after the episode counters. *)
LEMMA PublishProducedKept ==
  ASSUME ReplayInductive, PublishProduced
  PROVE  ReplayInductive'
<1>0. sink.pc = "counted" /\ TypeOK /\ Structure /\ PublishedInOrder
  BY DEF ReplayInductive, PublishProduced
<1>1. /\ mem'.next_episode = mem.next_episode /\ mem'.completed = mem.completed
      /\ mem'.produced = disk.produced /\ mem'.floor = mem.floor /\ mem'.up = TRUE
      /\ mem'.averaged = mem.averaged /\ mem'.averaged_games = mem.averaged_games
      /\ DOMAIN mem' = MemKeys /\ mem'.contract = mem.contract
      /\ mem'.consumed = mem.consumed /\ mem'.consumed_lock = mem.consumed_lock
      /\ mem'.mode = mem.mode /\ mem'.identity = mem.identity
  BY <1>0, CountersTyped DEF PublishProduced, MemKeys, TypeOK, ProcessTypeOK
<1>2. mem.produced <= disk.produced
  BY <1>0, CountersTyped DEF PublishedInOrder
<1>3. sink'.pc = "produced" /\ disk' = disk /\ session' = session
  BY DEF PublishProduced
<1>4. CountersGrow
  BY <1>0, <1>1, <1>2, CountersTyped DEF CountersGrow
<1>5. \A q \in DOMAIN disk.index : disk.index[q][1] < mem.next_episode
  <2> SUFFICES ASSUME NEW q \in DOMAIN disk.index PROVE disk.index[q][1] < mem.next_episode
    OBVIOUS
  <2>1. q \in Nat /\ q < Len(log)
    BY <1>0, CountersTyped DEF Structure, RowsWhole
  <2>2. mem.next_episode = disk.next_episode
    BY <1>0, CountersTyped DEF PublishedInOrder
  <2> QED BY <1>0, <2>1, <2>2, IndexReads
<1>6. mem.floor < disk.produced \/ (mem.floor = 0 /\ disk.produced = 0)
  BY <1>0, <1>2, CountersTyped DEF PublishedInOrder
<1>7. PublishedInOrder'
  BY <1>0, <1>1, <1>3, <1>5, <1>6, CountersTyped DEF PublishedInOrder, Unpublished
<1>8. sink'.pc \in {"idle"} \cup Appending
  BY <1>3 DEF Appending, Unpublished
<1> QED BY <1>0, <1>1, <1>3, <1>4, <1>7, <1>8, CountersTyped, PublicationStep DEF PublishProduced

(* The averages are published with the games they hold. *)
LEMMA PublishAveragesKept ==
  ASSUME ReplayInductive, PublishAverages
  PROVE  ReplayInductive'
<1>0. sink.pc = "produced" /\ TypeOK /\ Structure /\ PublishedInOrder
  BY DEF ReplayInductive, PublishAverages
<1>1. /\ mem'.next_episode = mem.next_episode /\ mem'.completed = mem.completed
      /\ mem'.produced = mem.produced /\ mem'.floor = mem.floor /\ mem'.up = TRUE
      /\ mem'.averaged = disk.metrics /\ mem'.averaged_games = mem.averaged_games
      /\ DOMAIN mem' = MemKeys /\ mem'.contract = mem.contract
      /\ mem'.consumed = mem.consumed /\ mem'.consumed_lock = mem.consumed_lock
      /\ mem'.mode = mem.mode /\ mem'.identity = mem.identity
  BY <1>0, CountersTyped DEF PublishAverages, MemKeys, TypeOK, ProcessTypeOK
<1>2. mem.averaged_games <= mem.averaged /\ mem.averaged <= disk.metrics
  BY <1>0, CountersTyped DEF PublishedInOrder
<1>3. sink'.pc = "averaged" /\ disk' = disk /\ session' = session
  BY DEF PublishAverages
<1>4. CountersGrow
  BY <1>0, <1>1, CountersTyped DEF CountersGrow
<1>5. mem.averaged_games <= disk.metrics
  BY <1>0, <1>2, CountersTyped
<1>6. PublishedInOrder'
  BY <1>0, <1>1, <1>3, <1>5, CountersTyped DEF PublishedInOrder, Unpublished
<1>7. sink'.pc \in {"idle"} \cup Appending
  BY <1>3 DEF Appending, Unpublished
<1> QED BY <1>0, <1>1, <1>3, <1>4, <1>6, <1>7, CountersTyped, PublicationStep DEF PublishAverages

(* The count of averaged games is published last. *)
LEMMA PublishAveragedGamesKept ==
  ASSUME ReplayInductive, PublishAveragedGames
  PROVE  ReplayInductive'
<1>0. sink.pc = "averaged" /\ TypeOK /\ Structure /\ PublishedInOrder
  BY DEF ReplayInductive, PublishAveragedGames
<1>1. /\ mem'.next_episode = mem.next_episode /\ mem'.completed = mem.completed
      /\ mem'.produced = mem.produced /\ mem'.floor = mem.floor /\ mem'.up = TRUE
      /\ mem'.averaged = mem.averaged /\ mem'.averaged_games = disk.metrics
      /\ DOMAIN mem' = MemKeys /\ mem'.contract = mem.contract
      /\ mem'.consumed = mem.consumed /\ mem'.consumed_lock = mem.consumed_lock
      /\ mem'.mode = mem.mode /\ mem'.identity = mem.identity
  BY <1>0, CountersTyped DEF PublishAveragedGames, MemKeys, TypeOK, ProcessTypeOK
<1>2. mem.averaged_games <= mem.averaged /\ mem.averaged = disk.metrics
  BY <1>0, CountersTyped DEF PublishedInOrder
<1>3. sink'.pc = "retention" /\ disk' = disk /\ session' = session
  BY DEF PublishAveragedGames
<1>4. CountersGrow
  BY <1>0, <1>1, <1>2, CountersTyped DEF CountersGrow
<1>5. PublishedInOrder'
  BY <1>0, <1>1, <1>2, <1>3, CountersTyped DEF PublishedInOrder, Unpublished
<1>6. sink'.pc \in {"idle"} \cup Appending
  BY <1>3 DEF Appending
<1> QED BY <1>0, <1>1, <1>3, <1>4, <1>5, <1>6, CountersTyped, PublicationStep
     DEF PublishAveragedGames

(* The floor is published after the rows below the old one are gone. *)
LEMMA PublishFloorKept ==
  ASSUME ReplayInductive, PublishFloor
  PROVE  ReplayInductive'
<1>0. sink.pc = "floor" /\ TypeOK /\ Structure /\ PublishedInOrder
  BY DEF ReplayInductive, PublishFloor
<1>1. sink.floor = disk.retained /\ mem.floor = disk.deleted /\ disk.deleted <= disk.retained
  BY <1>0 DEF PublishedInOrder, Structure, RowsWhole
<1>2. /\ mem'.next_episode = mem.next_episode /\ mem'.completed = mem.completed
      /\ mem'.produced = mem.produced /\ mem'.floor = disk.retained /\ mem'.up = TRUE
      /\ mem'.averaged = mem.averaged /\ mem'.averaged_games = mem.averaged_games
      /\ DOMAIN mem' = MemKeys /\ mem'.contract = mem.contract
      /\ mem'.consumed = mem.consumed /\ mem'.consumed_lock = mem.consumed_lock
      /\ mem'.mode = mem.mode /\ mem'.identity = mem.identity
  BY <1>0, <1>1, CountersTyped DEF PublishFloor, MemKeys, TypeOK, ProcessTypeOK
<1>3. sink'.pc = "idle" /\ disk' = disk /\ session' = session
  BY DEF PublishFloor, Idle
<1>4. CountersGrow
  BY <1>0, <1>1, <1>2, CountersTyped DEF CountersGrow
<1>5. disk.retained < mem.produced \/ (disk.retained = 0 /\ mem.produced = 0)
  <2>1. mem.produced = disk.produced
    BY <1>0, CountersTyped DEF PublishedInOrder
  <2> QED BY <1>0, <2>1, CountersTyped DEF Structure, IndexInOrder
<1>6. PublishedInOrder'
  BY <1>0, <1>2, <1>3, <1>5, CountersTyped DEF PublishedInOrder, Unpublished
<1>7. sink'.pc \in {"idle"} \cup Appending
  BY <1>3
<1> QED BY <1>0, <1>2, <1>3, <1>4, <1>6, <1>7, CountersTyped, PublicationStep DEF PublishFloor


-----------------------------------------------------------------------------
(* Opening, binding and closing.                                           *)

(* Nothing of the files depends on the process: it may end at any time. *)
LEMMA ClosingStep ==
  ASSUME ReplayInductive, mem' = Closed, sink'.pc = "idle",
         session' = [s \in Sessions |-> NoSession], disk' = disk, log' = log, served' = served,
         games' \in Nat, games <= games'
  PROVE  ReplayInductive'
<1>0. TypeOK /\ Structure /\ ConsumedExact /\ StoredConforms /\ ContractInOrder
  BY DEF ReplayInductive
<1>1. ~mem'.up /\ mem'.up = FALSE
  BY DEF Closed
<1>2. TypeOK'
  <2>1. FilesTypeOK'
    BY <1>0 DEF TypeOK, FilesTypeOK
  <2>2. ProcessTypeOK'
    BY <1>1 DEF ProcessTypeOK
  <2>3. session' \in [Sessions -> SessionState]
    BY NoSessionSound
  <2> QED BY <2>1, <2>2, <2>3 DEF TypeOK
<1>3. FilesSame
  BY <1>0 DEF FilesSame, TypeOK, FilesTypeOK
<1>4. Structure'
  BY <1>0, <1>3, StructureSame
<1>5. PublishedInOrder'
  BY <1>1 DEF PublishedInOrder
<1>6. SessionsInOrder' /\ SampleSound'
  <2>1. SessionInOrder(NoSession)' /\ SoundSample(NoSession)'
    BY NoSessionSound, PTL
  <2> QED BY <2>1 DEF SessionsInOrder, SampleSound
<1>7. ConsumedExact' /\ ConsumedInOrder'
  BY <1>0, <1>1, NoSessionSound DEF ConsumedExact, ConsumedInOrder
<1>8. StoredConforms'
  BY <1>0 DEF StoredConforms
<1>9. ContractInOrder'
  BY <1>0, <1>1 DEF ContractInOrder
<1> QED BY <1>2, <1>4, <1>5, <1>6, <1>7, <1>8, <1>9 DEF ReplayInductive

(* A crash loses the process and its sessions; the disk is already whole. *)
LEMMA CrashKept ==
  ASSUME ReplayInductive, Crash
  PROVE  ReplayInductive'
<1>1. games \in Nat
  BY DEF ReplayInductive, TypeOK, FilesTypeOK
<1> QED BY <1>1, ClosingStep DEF Crash, Idle

(* The sequence numbers that open recovers from the last keys are those of *)
(* the history.                                                            *)
LEMMA OpenKept ==
  ASSUME ReplayInductive, open_with_retention
  PROVE  ReplayInductive'
<1>0. /\ TypeOK /\ Structure /\ PublishedInOrder /\ SessionsInOrder /\ SampleSound
      /\ ConsumedExact /\ ConsumedInOrder /\ StoredConforms /\ ContractInOrder
  BY DEF ReplayInductive
<1>1. /\ recover_next(disk.episodes) = disk.next_episode
      /\ recover_next(disk.index) = disk.produced /\ disk.produced = Len(log) /\ Len(log) \in Nat
  BY <1>0 DEF Structure, CountersWhole, TypeOK, FilesTypeOK
<1>2. /\ DOMAIN disk' = DiskKeys /\ BoundSame /\ disk'.consumed = disk.consumed
      /\ disk'.index = disk.index /\ disk'.rows = disk.rows /\ disk'.episodes = disk.episodes
      /\ disk'.next_episode = disk.next_episode /\ disk'.produced = disk.produced
      /\ disk'.completed = disk.completed /\ disk'.metrics = disk.metrics
      /\ disk'.retained = disk.retained /\ disk'.deleted = disk.deleted
  BY <1>0, <1>1 DEF TypeOK, FilesTypeOK, DiskKeys, BoundSame, open_with_retention
<1>3. log' = log /\ games' = games /\ served' = served /\ session' = session /\ sink' = sink
  BY DEF open_with_retention
<1>4. FilesSame
  BY <1>0, <1>2, <1>3 DEF FilesSame, TypeOK, FilesTypeOK
<1>5. /\ mem'.up = TRUE /\ mem'.contract = None /\ DOMAIN mem' = MemKeys
      /\ mem'.next_episode = disk.next_episode /\ mem'.produced = disk.produced
      /\ mem'.completed = disk.completed /\ mem'.consumed = disk.consumed
      /\ mem'.floor = disk.retained /\ mem'.mode = disk.mode /\ mem'.identity = disk.identity
      /\ mem'.consumed_lock = None /\ mem'.averaged = disk.metrics
      /\ mem'.averaged_games = disk.metrics
  BY <1>1 DEF open_with_retention, MemKeys
<1>6. sink.pc = "idle" /\ session = [s \in Sessions |-> NoSession]
  BY <1>0 DEF PublishedInOrder, open_with_retention
<1>7. TypeOK'
  <2>1. FilesTypeOK'
    BY <1>0, <1>2, <1>3 DEF TypeOK, FilesTypeOK
  <2>2. ProcessTypeOK'
    BY <1>0, <1>1, <1>3, <1>5, <1>6 DEF ProcessTypeOK, TypeOK, FilesTypeOK
  <2> QED BY <1>0, <1>3, <2>1, <2>2 DEF TypeOK
<1>8. Structure'
  BY <1>0, <1>4, StructureSame
<1>9. PublishedInOrder'
  <2>1. \A q \in DOMAIN disk.index : disk.index[q][1] < disk.next_episode
    <3> SUFFICES ASSUME NEW q \in DOMAIN disk.index PROVE disk.index[q][1] < disk.next_episode
      OBVIOUS
    <3>1. disk.deleted \in Nat
      BY <1>0 DEF TypeOK, FilesTypeOK
    <3>2. q \in Nat /\ q < Len(log)
      BY <1>0, <1>1, <3>1 DEF Structure, RowsWhole
    <3> QED BY <1>0, <3>2, IndexReads
  <2>2. disk.retained < disk.produced \/ (disk.retained = 0 /\ disk.produced = 0)
    BY <1>0, <1>1 DEF Structure, IndexInOrder
  <2>3. disk.next_episode \in Nat /\ disk.metrics \in Nat
    BY <1>0 DEF TypeOK, FilesTypeOK
  <2> QED BY <1>1, <1>2, <1>3, <1>5, <1>6, <2>1, <2>2, <2>3 DEF PublishedInOrder, Unpublished
<1>10. SessionsInOrder' /\ SampleSound'
  <2>1. SessionInOrder(NoSession)' /\ SoundSample(NoSession)'
    BY NoSessionSound, PTL
  <2> QED BY <1>3, <1>6, <2>1 DEF SessionsInOrder, SampleSound
<1>11. ConsumedExact' /\ ConsumedInOrder'
  <2>1. disk.consumed \in Nat
    BY <1>0 DEF TypeOK, FilesTypeOK
  <2> QED BY <1>0, <1>2, <1>3, <1>5, <1>6, <2>1, NoSessionSound
          DEF ConsumedExact, ConsumedInOrder
<1>12. StoredConforms'
  BY <1>0, <1>2 DEF StoredConforms, BoundSame
<1>13. ContractInOrder'
  BY <1>0, <1>2, <1>3, <1>5 DEF ContractInOrder, BoundSame
<1> QED BY <1>7, <1>8, <1>9, <1>10, <1>11, <1>12, <1>13 DEF ReplayInductive


(* A contract that is accepted is the one that every stored episode was    *)
(* produced under, and the one on disk afterwards.                         *)
LEMMA ContractAccepted ==
  ASSUME ReplayInductive, NEW c \in Contracts, mem.up, mem.contract = None, ensure_contract(c)
  PROVE  /\ WellFormed(c)
         /\ Bound(disk.mode, c.mode) = c.mode /\ Bound(disk.identity, c.identity) = c.identity
         /\ Bound(disk.schema, c.schema) = c.schema
         /\ Bound(disk.epsilon, c.epsilon) = c.epsilon /\ Bound(disk.scale, c.scale) = c.scale
         /\ \A e \in DOMAIN disk.episodes :
              LET r == disk.episodes[e]
              IN  /\ r.mode = c.mode /\ r.identity = c.identity /\ r.schema = c.schema
                  /\ r.epsilon = c.epsilon /\ r.scale = c.scale
<1>0. /\ TypeOK /\ Structure /\ PublishedInOrder /\ StoredConforms /\ ContractInOrder
  BY DEF ReplayInductive
<1>1. /\ mem.mode = disk.mode /\ mem.identity = disk.identity
      /\ mem.next_episode = disk.next_episode /\ mem.produced = disk.produced
  BY <1>0 DEF ContractInOrder, PublishedInOrder
<1>2. /\ WellFormed(c)
      /\ Binds(disk.schema, c.schema, "no default", mem.produced)
      /\ IF disk.mode # None THEN disk.mode = c.mode
         ELSE disk.next_episode = 0 \/ c.mode = "standard"
      /\ IF disk.identity # None THEN disk.identity = c.identity
         ELSE \A e \in DOMAIN disk.episodes : disk.episodes[e].identity = c.identity
      /\ Binds(disk.epsilon, c.epsilon, 0, mem.produced)
      /\ Binds(disk.scale, c.scale, 0, mem.produced)
  BY <1>1 DEF ensure_contract
<1>3. /\ Bound(disk.mode, c.mode) = c.mode /\ Bound(disk.identity, c.identity) = c.identity
      /\ Bound(disk.schema, c.schema) = c.schema
      /\ Bound(disk.epsilon, c.epsilon) = c.epsilon /\ Bound(disk.scale, c.scale) = c.scale
  BY <1>2 DEF Bound, Binds
<1>4. ASSUME NEW e \in DOMAIN disk.episodes
      PROVE  LET r == disk.episodes[e]
             IN  /\ r.mode = c.mode /\ r.identity = c.identity /\ r.schema = c.schema
                 /\ r.epsilon = c.epsilon /\ r.scale = c.scale
  <2> DEFINE r == disk.episodes[e]
  <2>1. Len(log) # 0 /\ mem.produced # 0 /\ disk.next_episode # 0
    <3>1. PICK q \in DOMAIN disk.index : disk.index[q] = <<e, 0>>
      BY <1>0 DEF Structure, EpisodesInOrder
    <3>2. Len(log) \in Nat /\ disk.deleted \in Nat /\ disk.produced = Len(log)
      BY <1>0 DEF TypeOK, FilesTypeOK, Structure, CountersWhole
    <3>3. q \in Nat /\ q < Len(log)
      BY <1>0, <3>2 DEF Structure, RowsWhole
    <3>4. e \in Nat /\ e < disk.next_episode
      BY <1>0, <3>1, <3>3, IndexReads
    <3> QED BY <1>1, <3>2, <3>3, <3>4
  <2>2. r.mode = c.mode
    BY <1>0, <1>2, <2>1 DEF StoredConforms
  <2>3. r.identity = c.identity
    BY <1>0, <1>2 DEF StoredConforms
  <2>4. r.schema = c.schema
    <3>1. disk.schema # None
      BY <1>0, <2>1 DEF ContractInOrder
    <3> QED BY <1>0, <1>2, <3>1 DEF StoredConforms, Binds
  <2>5. /\ IsSymmetric(c.mode) <=> (c.epsilon # None)
        /\ IsSymmetric(c.mode) <=> (c.scale # None)
    BY <1>2 DEF WellFormed
  <2>6. r.epsilon = c.epsilon
    <3>1. CASE disk.epsilon # None
      BY <1>0, <1>2, <3>1 DEF StoredConforms, Binds
    <3>2. CASE disk.epsilon = None
      <4>1. r.epsilon = IF IsSymmetric(r.mode) THEN 0 ELSE None
        BY <1>0, <3>2 DEF ContractInOrder
      <4>2. (c.epsilon # None /\ c.epsilon = 0) \/ c.epsilon = None
        BY <1>2, <2>1, <3>2 DEF Binds
      <4> QED BY <2>2, <2>5, <4>1, <4>2
    <3> QED BY <3>1, <3>2
  <2>7. r.scale = c.scale
    <3>1. CASE disk.scale # None
      BY <1>0, <1>2, <3>1 DEF StoredConforms, Binds
    <3>2. CASE disk.scale = None
      <4>1. r.scale = IF IsSymmetric(r.mode) THEN 0 ELSE None
        BY <1>0, <3>2 DEF ContractInOrder
      <4>2. (c.scale # None /\ c.scale = 0) \/ c.scale = None
        BY <1>2, <2>1, <3>2 DEF Binds
      <4> QED BY <2>2, <2>5, <4>1, <4>2
    <3> QED BY <3>1, <3>2
  <2> QED BY <2>2, <2>3, <2>4, <2>6, <2>7
<1> QED BY <1>2, <1>3, <1>4

(* Opening a store that conforms binds the missing parts of its contract, and refuses the others. *)
LEMMA BindKept ==
  ASSUME ReplayInductive, NEW c \in Contracts, BindContract(c)
  PROVE  ReplayInductive'
<1>0. /\ TypeOK /\ Structure /\ PublishedInOrder /\ SessionsInOrder /\ SampleSound
      /\ ConsumedExact /\ ConsumedInOrder /\ StoredConforms /\ ContractInOrder
  BY DEF ReplayInductive
<1>1. /\ mem.up /\ mem.contract = None /\ sink.pc = "idle" /\ sink' = sink /\ games' = games
      /\ log' = log /\ served' = served /\ games \in Nat
  BY <1>0 DEF BindContract, PublishedInOrder, TypeOK, FilesTypeOK
<1>2. CASE ~ensure_contract(c)
  BY <1>1, <1>2, ClosingStep DEF BindContract
<1>3. CASE ensure_contract(c)
  <2>1. /\ WellFormed(c)
        /\ \A e \in DOMAIN disk.episodes :
             LET r == disk.episodes[e]
             IN  /\ r.mode = c.mode /\ r.identity = c.identity /\ r.schema = c.schema
                 /\ r.epsilon = c.epsilon /\ r.scale = c.scale
    BY <1>1, <1>3, ContractAccepted
  <2>2. /\ DOMAIN disk' = DiskKeys /\ disk'.consumed = disk.consumed
        /\ disk'.index = disk.index /\ disk'.rows = disk.rows /\ disk'.episodes = disk.episodes
        /\ disk'.next_episode = disk.next_episode /\ disk'.produced = disk.produced
        /\ disk'.completed = disk.completed /\ disk'.metrics = disk.metrics
        /\ disk'.retained = disk.retained /\ disk'.deleted = disk.deleted
    BY <1>0, <1>3 DEF TypeOK, FilesTypeOK, DiskKeys, BindContract
  <2>3. /\ disk'.mode = Bound(disk.mode, c.mode)
        /\ disk'.identity = Bound(disk.identity, c.identity)
        /\ disk'.schema = Bound(disk.schema, c.schema)
        /\ disk'.epsilon = Bound(disk.epsilon, c.epsilon)
        /\ disk'.scale = Bound(disk.scale, c.scale)
    BY <1>0, <1>3 DEF TypeOK, FilesTypeOK, DiskKeys, BindContract
  <2>4. /\ disk'.mode = c.mode /\ disk'.identity = c.identity /\ disk'.schema = c.schema
        /\ disk'.epsilon = c.epsilon /\ disk'.scale = c.scale
    BY <1>1, <1>3, <2>3, ContractAccepted
  <2>5. /\ mem'.up = TRUE /\ DOMAIN mem' = MemKeys /\ mem'.contract = c /\ mem'.mode = c.mode
        /\ mem'.identity = c.identity
        /\ mem'.next_episode = mem.next_episode /\ mem'.produced = mem.produced
        /\ mem'.completed = mem.completed /\ mem'.floor = mem.floor
        /\ mem'.averaged = mem.averaged /\ mem'.averaged_games = mem.averaged_games
        /\ mem'.consumed = mem.consumed /\ mem'.consumed_lock = mem.consumed_lock
    BY <1>0, <1>1, <1>3 DEF TypeOK, ProcessTypeOK, MemKeys, BindContract
  <2>6. session' = session
    BY <1>3 DEF BindContract
  <2>7. FilesSame
    BY <1>1, <2>2 DEF FilesSame
  <2>8. TypeOK'
    <3>1. FilesTypeOK'
      BY <1>0, <1>1, <2>2 DEF TypeOK, FilesTypeOK
    <3>2. ProcessTypeOK'
      BY <1>0, <1>1, <2>5 DEF TypeOK, ProcessTypeOK
    <3> QED BY <1>0, <2>6, <3>1, <3>2 DEF TypeOK
  <2>9. Structure'
    BY <1>0, <2>7, StructureSame
  <2>10. PublishedInOrder'
    BY <1>0, <1>1, <2>2, <2>5 DEF PublishedInOrder
  <2>11. CountersGrow
    BY <1>0, <1>1, <2>5 DEF CountersGrow, TypeOK, ProcessTypeOK
  <2>12. SessionsInOrder' /\ SampleSound'
    BY <1>0, <1>1, <2>6, <2>7, <2>11, SessionsFrame
  <2>13. ConsumedExact' /\ ConsumedInOrder'
    BY <1>0, <1>1, <2>2, <2>5, <2>6 DEF ConsumedExact, ConsumedInOrder, ConsumedFree
  <2>14. StoredConforms'
    BY <2>1, <2>2, <2>4, ContractsAssumption, NoneAssumption DEF StoredConforms
  <2>15. ContractInOrder'
    <3>1. c # None /\ c.schema # None /\ c.mode \in Modes
      BY ContractsAssumption, NoneAssumption
    <3>2. /\ IsSymmetric(c.mode) <=> (c.epsilon # None)
          /\ IsSymmetric(c.mode) <=> (c.scale # None)
      BY <2>1 DEF WellFormed
    <3> QED BY <1>1, <2>1, <2>2, <2>4, <2>5, <3>1, <3>2 DEF ContractInOrder
  <2> QED BY <2>8, <2>9, <2>10, <2>12, <2>13, <2>14, <2>15 DEF ReplayInductive
<1> QED BY <1>2, <1>3


-----------------------------------------------------------------------------
(* Appending.                                                              *)

(* The episodes of one batch: what their rows are numbered from. *)
BatchOf(es) ==
  /\ Len(es) \in {1, 2}
  /\ \A i \in 1..Len(es) :
       /\ es[i].steps \in Nat /\ es[i].rows \in Nat \ {0}
       /\ es[i].rows \in {es[i].steps, es[i].steps + 1}
       /\ es[i].seat \in 1..2 /\ es[i].target \in (-2..2) \cup {None}
       /\ es[i].rows = es[i].steps => Len(es) = 1

(* A key of the batch, the one of its n-th row, and two of them. *)
KeyInBatch(next, es, n, k) ==
  /\ k \in RowKeys /\ k[1] \in next..(next + Len(es) - 1)
  /\ k[2] < es[k[1] - next + 1].rows /\ k[2] <= n
  /\ \A i \in 0..(es[k[1] - next + 1].rows - 1) :
       /\ n - k[2] + i \in 0..(BatchRows(es) - 1)
       /\ BatchKey(next, es, n - k[2] + i) = <<k[1], i>>

BatchKeys(next, es) == {BatchKey(next, es, n) : n \in 0..(BatchRows(es) - 1)}

KeysInOrder(k, l, distance) == k[1] <= l[1] /\ (k[1] = l[1] => l[2] - k[2] = distance)

(* The keys of a batch are in order, and those of an episode follow each   *)
(* other from 0 to its last row.                                           *)
LEMMA BatchOrder ==
  ASSUME NEW next \in Nat, NEW es, BatchOf(es)
  PROVE  /\ BatchRows(es) \in Nat \ {0} /\ BatchKey(next, es, 0) = <<next, 0>>
         /\ \A n \in 0..(BatchRows(es) - 1) :
              KeyInBatch(next, es, n, BatchKey(next, es, n))
         /\ \A n, m \in 0..(BatchRows(es) - 1) : n <= m =>
              KeysInOrder(BatchKey(next, es, n), BatchKey(next, es, m), m - n)
         /\ \A e \in next..(next + Len(es) - 1) : \A i \in 0..(es[e - next + 1].rows - 1) :
              <<e, i>> \in BatchKeys(next, es)
<1>1. PICK a \in Nat \ {0} : a = es[1].rows
  BY DEF BatchOf
<1>2. CASE Len(es) = 1
  <2>1. BatchRows(es) = a
    BY <1>1, <1>2 DEF BatchRows
  <2>2. \A n \in 0..(a - 1) : BatchKey(next, es, n) = <<next, n>>
    BY <1>1 DEF BatchKey
  <2>4. next + Len(es) - 1 = next
    BY <1>2
  <2>5. \A n \in 0..(BatchRows(es) - 1) :
          KeyInBatch(next, es, n, BatchKey(next, es, n))
    <3> SUFFICES ASSUME NEW n \in 0..(BatchRows(es) - 1)
                 PROVE  KeyInBatch(next, es, n, BatchKey(next, es, n))
      OBVIOUS
    <3>1. BatchKey(next, es, n) = <<next, n>>
      BY <2>1, <2>2
    <3>2. \A i \in 0..(BatchRows(es) - 1) : n - n + i \in 0..(BatchRows(es) - 1)
                                  /\ BatchKey(next, es, n - n + i) = <<next, i>>
      BY <2>1, <2>2
    <3>3. <<next, n>> \in RowKeys /\ next \in next..(next + Len(es) - 1)
      BY <2>1, <2>4 DEF RowKeys
    <3>4. PICK k \in RowKeys : k = BatchKey(next, es, n)
      BY <3>1, <3>3
    <3>5. k[1] = next /\ k[2] = n /\ k[1] - next + 1 = 1
      BY <3>1, <3>4
    <3>6. es[k[1] - next + 1].rows = BatchRows(es)
      BY <1>1, <2>1, <3>5
    <3>7. \A i \in 0..(es[k[1] - next + 1].rows - 1) :
            /\ n - k[2] + i \in 0..(BatchRows(es) - 1)
            /\ BatchKey(next, es, n - k[2] + i) = <<k[1], i>>
      BY <3>2, <3>5, <3>6
    <3>8. k[1] \in next..(next + Len(es) - 1) /\ k[2] < es[k[1] - next + 1].rows /\ k[2] <= n
      BY <2>1, <3>3, <3>5, <3>6
    <3> QED BY <3>4, <3>7, <3>8 DEF KeyInBatch
  <2>6. \A n, m \in 0..(BatchRows(es) - 1) : n <= m =>
          KeysInOrder(BatchKey(next, es, n), BatchKey(next, es, m), m - n)
    BY <2>1, <2>2 DEF KeysInOrder
  <2>7. \A e \in next..(next + Len(es) - 1) : \A i \in 0..(es[e - next + 1].rows - 1) :
          <<e, i>> \in BatchKeys(next, es)
    <3> SUFFICES ASSUME NEW e \in next..(next + Len(es) - 1), NEW i \in 0..(es[e - next + 1].rows - 1)
                 PROVE  <<e, i>> \in BatchKeys(next, es)
      OBVIOUS
    <3>0. e \in next..next
      BY <2>4
    <3>1. e = next /\ e - next + 1 = 1
      BY <3>0
    <3>2. i \in 0..(BatchRows(es) - 1)
      BY <1>1, <2>1, <3>1
    <3>3. BatchKey(next, es, i) = <<e, i>>
      BY <2>1, <2>2, <3>1, <3>2
    <3> QED BY <3>2, <3>3 DEF BatchKeys
  <2>8. BatchKey(next, es, 0) = <<next, 0>>
    BY <2>2
  <2> QED BY <2>1, <2>5, <2>6, <2>7, <2>8
<1>3. CASE Len(es) = 2
  <2>1. PICK b \in Nat \ {0} : b = es[2].rows
    BY <1>3 DEF BatchOf
  <2>2. BatchRows(es) = a + b
    BY <1>1, <1>3, <2>1 DEF BatchRows
  <2>10. next + Len(es) - 1 = next + 1
    BY <1>3
  <2>3. \A n \in 0..(a - 1) : BatchKey(next, es, n) = <<next, n>>
    BY <1>1 DEF BatchKey
  <2>4. \A n \in a..(a + b - 1) : BatchKey(next, es, n) = <<next + 1, n - a>>
    BY <1>1 DEF BatchKey
  <2>6. \A n \in 0..(BatchRows(es) - 1) :
          KeyInBatch(next, es, n, BatchKey(next, es, n))
    <3> SUFFICES ASSUME NEW n \in 0..(BatchRows(es) - 1)
                 PROVE  KeyInBatch(next, es, n, BatchKey(next, es, n))
      OBVIOUS
    <3>1. CASE n < a
      <4>1. BatchKey(next, es, n) = <<next, n>>
        BY <2>2, <2>10, <2>3, <3>1
      <4>2. \A i \in 0..(a - 1) : n - n + i \in 0..(BatchRows(es) - 1)
                                    /\ BatchKey(next, es, n - n + i) = <<next, i>>
        BY <2>2, <2>10, <2>3
      <4>3. <<next, n>> \in RowKeys /\ next \in next..(next + Len(es) - 1)
        BY <2>10 DEF RowKeys
      <4>4. PICK k \in RowKeys : k = BatchKey(next, es, n)
        BY <4>1, <4>3
      <4>5. k[1] = next /\ k[2] = n /\ k[1] - next + 1 = 1
        BY <4>1, <4>4
      <4>6. es[k[1] - next + 1].rows = a
        BY <1>1, <4>5
      <4>7. \A i \in 0..(es[k[1] - next + 1].rows - 1) :
              /\ n - k[2] + i \in 0..(BatchRows(es) - 1)
              /\ BatchKey(next, es, n - k[2] + i) = <<k[1], i>>
        BY <4>2, <4>5, <4>6
      <4>8. k[1] \in next..(next + Len(es) - 1) /\ k[2] < es[k[1] - next + 1].rows /\ k[2] <= n
        BY <3>1, <4>3, <4>5, <4>6
      <4> QED BY <4>4, <4>7, <4>8 DEF KeyInBatch
    <3>2. CASE a <= n
      <4>1. BatchKey(next, es, n) = <<next + 1, n - a>>
        BY <2>2, <2>10, <2>4, <3>2
      <4>2. \A i \in 0..(b - 1) : n - (n - a) + i \in a..(a + b - 1)
                                    /\ n - (n - a) + i - a = i
        OBVIOUS
      <4>3. \A i \in 0..(b - 1) : n - (n - a) + i \in 0..(BatchRows(es) - 1)
                                    /\ BatchKey(next, es, n - (n - a) + i) = <<next + 1, i>>
        BY <2>2, <2>10, <2>4, <4>2
      <4>4. <<next + 1, n - a>> \in RowKeys /\ next + 1 \in next..(next + Len(es) - 1)
        BY <2>10, <3>2 DEF RowKeys
      <4>5. PICK k \in RowKeys : k = BatchKey(next, es, n)
        BY <4>1, <4>4
      <4>6. k[1] = next + 1 /\ k[2] = n - a /\ k[1] - next + 1 = 2
        BY <4>1, <4>5
      <4>7. es[k[1] - next + 1].rows = b
        BY <2>1, <4>6
      <4>8. \A i \in 0..(es[k[1] - next + 1].rows - 1) :
              /\ n - k[2] + i \in 0..(BatchRows(es) - 1)
              /\ BatchKey(next, es, n - k[2] + i) = <<k[1], i>>
        BY <4>3, <4>6, <4>7
      <4>9. k[1] \in next..(next + Len(es) - 1) /\ k[2] < es[k[1] - next + 1].rows /\ k[2] <= n
        BY <2>2, <3>2, <4>4, <4>6, <4>7
      <4> QED BY <4>5, <4>8, <4>9 DEF KeyInBatch
    <3> QED BY <2>2, <2>10, <3>1, <3>2
  <2>7. \A n, m \in 0..(BatchRows(es) - 1) : n <= m =>
          KeysInOrder(BatchKey(next, es, n), BatchKey(next, es, m), m - n)
    <3> SUFFICES ASSUME NEW n \in 0..(BatchRows(es) - 1), NEW m \in 0..(BatchRows(es) - 1), n <= m
                 PROVE  KeysInOrder(BatchKey(next, es, n), BatchKey(next, es, m), m - n)
      OBVIOUS
    <3>1. CASE m < a
      BY <2>2, <2>10, <2>3, <3>1 DEF KeysInOrder
    <3>2. CASE n < a /\ a <= m
      BY <2>2, <2>10, <2>3, <2>4, <3>2 DEF KeysInOrder
    <3>3. CASE a <= n
      BY <2>2, <2>10, <2>4, <3>3 DEF KeysInOrder
    <3> QED BY <2>2, <2>10, <3>1, <3>2, <3>3
  <2>8. \A e \in next..(next + Len(es) - 1) : \A i \in 0..(es[e - next + 1].rows - 1) :
          <<e, i>> \in BatchKeys(next, es)
    <3> SUFFICES ASSUME NEW e \in next..(next + Len(es) - 1), NEW i \in 0..(es[e - next + 1].rows - 1)
                 PROVE  <<e, i>> \in BatchKeys(next, es)
      OBVIOUS
    <3>1. CASE e = next
      <4>0. e - next + 1 = 1
        BY <3>1
      <4>1. i \in 0..(a - 1)
        BY <1>1, <4>0
      <4>2. BatchKey(next, es, i) = <<e, i>>
        BY <2>3, <3>1, <4>1
      <4>3. i \in 0..(BatchRows(es) - 1)
        BY <2>2, <4>1
      <4> QED BY <4>2, <4>3 DEF BatchKeys
    <3>2. CASE e = next + 1
      <4>0. e - next + 1 = 2
        BY <3>2
      <4>1. i \in 0..(b - 1)
        BY <2>1, <4>0
      <4>2. a + i \in a..(a + b - 1) /\ a + i - a = i /\ a + i \in 0..(BatchRows(es) - 1)
        BY <2>2, <2>10, <4>1
      <4>3. BatchKey(next, es, a + i) = <<next + 1, a + i - a>>
        BY <2>4, <4>2
      <4>4. BatchKey(next, es, a + i) = <<e, i>>
        BY <3>2, <4>2, <4>3
      <4> QED BY <4>2, <4>4 DEF BatchKeys
    <3>0. e \in next..(next + 1)
      BY <2>10
    <3>3. e = next \/ e = next + 1
      BY <3>0
    <3> QED BY <3>1, <3>2, <3>3
  <2>9. BatchKey(next, es, 0) = <<next, 0>>
    BY <2>2, <2>10, <2>3
  <2> QED BY <2>2, <2>10, <2>6, <2>7, <2>8, <2>9, <2>10
<1> QED BY <1>2, <1>3 DEF BatchOf


(* The row that the batch holds under a key. *)
BatchRow(next, es, k) ==
  LET e == es[k[1] - next + 1]
  IN  [game |-> e.game, seat |-> e.seat, step |-> k[2],
       kind |-> IF k[2] < e.steps THEN "decision" ELSE "terminal", target |-> e.target]

(* What a batch counts, and what it leaves. *)
LEMMA StageFields ==
  ASSUME NEW d, NEW es, DOMAIN d = DiskKeys, NEW D, D = stage_episodes(d, es)
  PROVE  /\ DOMAIN D = DiskKeys
         /\ D.next_episode = d.next_episode + Len(es)
         /\ D.produced = d.produced + BatchRows(es)
         /\ D.completed = d.completed /\ D.stopped = d.stopped /\ D.consumed = d.consumed
         /\ D.retained = d.retained /\ D.deleted = d.deleted /\ D.metrics = d.metrics
         /\ D.mode = d.mode /\ D.identity = d.identity /\ D.schema = d.schema
         /\ D.epsilon = d.epsilon /\ D.scale = d.scale
BY DEF stage_episodes, DiskKeys

(* The rows, the index and the episodes of D are those of d and the batch. *)
Staged(d, D, es, next, n) ==
  /\ DOMAIN D.index = DOMAIN d.index \cup n..(n + BatchRows(es) - 1)
  /\ \A q \in DOMAIN d.index : (q \in Int /\ q < n) => D.index[q] = d.index[q]
  /\ \A i \in 0..(BatchRows(es) - 1) : D.index[n + i] = BatchKey(next, es, i)
  /\ DOMAIN D.episodes = DOMAIN d.episodes \cup next..(next + Len(es) - 1)
  /\ \A e \in DOMAIN d.episodes : (e \in Int /\ e < next) => D.episodes[e] = d.episodes[e]
  /\ \A e \in next..(next + Len(es) - 1) : D.episodes[e] = es[e - next + 1]
  /\ DOMAIN D.rows = DOMAIN d.rows \cup BatchKeys(next, es)
  /\ \A k \in DOMAIN d.rows : (k \in RowKeys /\ k[1] < next) => D.rows[k] = d.rows[k]
  /\ \A k \in BatchKeys(next, es) : D.rows[k] = BatchRow(next, es, k)
  /\ D.index = [q \in DOMAIN D.index |-> D.index[q]] /\ D.rows = [k \in DOMAIN D.rows |-> D.rows[k]]

(* stage_episodes writes exactly the batch, after what was there. *)
LEMMA StageReads ==
  ASSUME NEW d, NEW es, DOMAIN d = DiskKeys, BatchOf(es), NEW next \in Nat, NEW n \in Nat,
         d.next_episode = next, d.produced = n, NEW D, D = stage_episodes(d, es)
  PROVE  Staged(d, D, es, next, n)
<1>1. PICK R \in Nat \ {0} : R = BatchRows(es)
  BY BatchOrder
<1>2. PICK l \in Nat : l = Len(es)
  BY DEF BatchOf
<1>3. D.index = [q \in DOMAIN d.index \cup n..(n + R - 1) |->
                   IF q \in n..(n + R - 1) THEN BatchKey(next, es, q - n) ELSE d.index[q]]
  <2>1. D.index = [q \in DOMAIN d.index \cup d.produced..(d.produced + BatchRows(es) - 1) |->
                     IF q \in d.produced..(d.produced + BatchRows(es) - 1)
                     THEN BatchKey(d.next_episode, es, q - d.produced) ELSE d.index[q]]
    BY DEF stage_episodes, BatchKeys, BatchRow, DiskKeys
  <2> QED BY <1>1, <2>1
<1>4. D.episodes = [e \in DOMAIN d.episodes \cup next..(next + l - 1) |->
                      IF e \in next..(next + l - 1) THEN es[e - next + 1] ELSE d.episodes[e]]
  <2>1. D.episodes = [e \in DOMAIN d.episodes \cup d.next_episode..(d.next_episode + Len(es) - 1) |->
                        IF e \in d.next_episode..(d.next_episode + Len(es) - 1)
                        THEN es[e - d.next_episode + 1] ELSE d.episodes[e]]
    BY DEF stage_episodes, BatchKeys, BatchRow, DiskKeys
  <2> QED BY <1>2, <2>1
<1>5. D.rows = [k \in DOMAIN d.rows \cup BatchKeys(next, es) |->
                  IF k \in BatchKeys(next, es) THEN BatchRow(next, es, k) ELSE d.rows[k]]
  <2>1. D.rows = [k \in DOMAIN d.rows \cup BatchKeys(d.next_episode, es) |->
                    IF k \in BatchKeys(d.next_episode, es)
                    THEN BatchRow(d.next_episode, es, k) ELSE d.rows[k]]
    BY DEF stage_episodes, BatchKeys, BatchRow, DiskKeys
  <2> QED BY <2>1
<1>6. DOMAIN D.index = DOMAIN d.index \cup n..(n + R - 1)
  BY <1>3
<1>7. \A q \in DOMAIN d.index : (q \in Int /\ q < n) => D.index[q] = d.index[q]
  BY <1>3
<1>8. \A i \in 0..(R - 1) : D.index[n + i] = BatchKey(next, es, i)
  <2> SUFFICES ASSUME NEW i \in 0..(R - 1)
               PROVE  D.index[n + i] = BatchKey(next, es, i)
    OBVIOUS
  <2>1. n + i \in n..(n + R - 1) /\ n + i - n = i
    OBVIOUS
  <2> QED BY <1>3, <2>1
<1>9. DOMAIN D.episodes = DOMAIN d.episodes \cup next..(next + l - 1)
  BY <1>4
<1>10. \A e \in DOMAIN d.episodes : (e \in Int /\ e < next) => D.episodes[e] = d.episodes[e]
  BY <1>4
<1>11. \A e \in next..(next + l - 1) : D.episodes[e] = es[e - next + 1]
  BY <1>4
<1>12. DOMAIN D.rows = DOMAIN d.rows \cup BatchKeys(next, es)
  BY <1>5
<1>13. \A k \in BatchKeys(next, es) : D.rows[k] = BatchRow(next, es, k)
  BY <1>5
<1>14. \A k \in BatchKeys(next, es) : k[1] \in next..(next + Len(es) - 1)
  <2>1. \A i \in 0..(BatchRows(es) - 1) : KeyInBatch(next, es, i, BatchKey(next, es, i))
    BY BatchOrder
  <2> QED BY <2>1 DEF BatchKeys, KeyInBatch
<1>15. \A k \in DOMAIN d.rows : (k \in RowKeys /\ k[1] < next) => D.rows[k] = d.rows[k]
  <2> SUFFICES ASSUME NEW k \in DOMAIN d.rows, k \in RowKeys, k[1] < next
               PROVE  D.rows[k] = d.rows[k]
    OBVIOUS
  <2>1. k[1] \notin next..(next + l - 1)
    BY DEF RowKeys
  <2>2. k \notin BatchKeys(next, es)
    BY <1>2, <1>14, <2>1
  <2> QED BY <1>5, <2>2
<1>16. D.index = [q \in DOMAIN D.index |-> D.index[q]]
  BY <1>3
<1>17. D.rows = [k \in DOMAIN D.rows |-> D.rows[k]]
  BY <1>5
<1> QED BY <1>1, <1>2, <1>6, <1>7, <1>8, <1>9, <1>10, <1>11, <1>12, <1>13, <1>15, <1>16, <1>17
        DEF Staged


(* The files and the history after a batch of episodes. *)
Appended(es) ==
  LET n == Len(log)
      next == disk.next_episode
  IN  /\ DOMAIN disk' = DiskKeys
      /\ disk'.next_episode = next + Len(es) /\ disk'.produced = n + BatchRows(es)
      /\ disk'.consumed = disk.consumed /\ disk'.retained = disk.retained
      /\ disk'.deleted = disk.deleted /\ disk'.completed = disk.completed + 1
      /\ disk'.metrics \in Nat /\ disk.metrics <= disk'.metrics
      /\ DOMAIN disk'.index = DOMAIN disk.index \cup n..(n + BatchRows(es) - 1)
      /\ \A q \in DOMAIN disk.index : (q \in Int /\ q < n) => disk'.index[q] = disk.index[q]
      /\ \A i \in 0..(BatchRows(es) - 1) : disk'.index[n + i] = BatchKey(next, es, i)
      /\ DOMAIN disk'.episodes = DOMAIN disk.episodes \cup next..(next + Len(es) - 1)
      /\ \A e \in DOMAIN disk.episodes :
           (e \in Int /\ e < next) => disk'.episodes[e] = disk.episodes[e]
      /\ \A e \in next..(next + Len(es) - 1) : disk'.episodes[e] = es[e - next + 1]
      /\ DOMAIN disk'.rows = DOMAIN disk.rows \cup BatchKeys(next, es)
      /\ \A k \in DOMAIN disk.rows :
           (k \in RowKeys /\ k[1] < next) => disk'.rows[k] = disk.rows[k]
      /\ \A k \in BatchKeys(next, es) : disk'.rows[k] = BatchRow(next, es, k)
      /\ disk'.index = [q \in DOMAIN disk'.index |-> disk'.index[q]]
      /\ disk'.rows = [k \in DOMAIN disk'.rows |-> disk'.rows[k]]
      /\ log' \in Seq(Row) /\ Len(log') = n + BatchRows(es)
      /\ \A i \in 1..n : log'[i] = log[i]
      /\ \A i \in 0..(BatchRows(es) - 1) :
           log'[n + i + 1] = BatchRow(next, es, BatchKey(next, es, i))
      /\ games' = games + 1

(* The rows of a batch are rows. *)
LEMMA BatchRowTyped ==
  ASSUME NEW next \in Nat, NEW es, BatchOf(es), NEW game \in Nat,
         \A j \in 1..Len(es) : es[j].game = game, NEW k \in BatchKeys(next, es)
  PROVE  BatchRow(next, es, k) \in Row
<1>0. PICK n \in 0..(BatchRows(es) - 1) : k = BatchKey(next, es, n)
  BY DEF BatchKeys
<1>1. k \in RowKeys /\ k[1] \in next..(next + Len(es) - 1)
  <2>1. KeyInBatch(next, es, n, BatchKey(next, es, n))
    BY BatchOrder
  <2> QED BY <1>0, <2>1 DEF KeyInBatch
<1>2. PICK j \in 1..Len(es) : j = k[1] - next + 1
  BY <1>1 DEF BatchOf, RowKeys
<1>3. es[j].seat \in 1..2 /\ es[j].target \in (-2..2) \cup {None} /\ es[j].game = game
  BY DEF BatchOf
<1>4. k[2] \in Nat
  BY <1>1 DEF RowKeys
<1> QED BY <1>2, <1>3, <1>4 DEF BatchRow, Row

(* What a commit of a batch does to the disk, in the terms of Appended. *)
LEMMA CommitView ==
  ASSUME ReplayInductive, mem.up, sink.pc = "idle", NEW es, BatchOf(es), Commit(es),
         \A j \in 1..Len(es) : es[j].game = games
  PROVE  Appended(es) /\ BoundSame
<1>1. TypeOK /\ Structure /\ PublishedInOrder
  BY DEF ReplayInductive
<1>2. /\ mem.next_episode = disk.next_episode /\ mem.produced = Len(log)
      /\ mem.completed = disk.completed /\ mem.averaged_games = disk.metrics
  BY <1>1 DEF PublishedInOrder, Unpublished, Structure, CountersWhole
<1>3. /\ DOMAIN disk = DiskKeys /\ disk.next_episode \in Nat /\ Len(log) \in Nat
      /\ log \in Seq(Row) /\ games \in Nat /\ disk.metrics \in Nat
  BY <1>1, LogTyped DEF TypeOK, FilesTypeOK
<1>4. PICK d : d = [disk EXCEPT !.next_episode = mem.next_episode, !.produced = mem.produced]
  OBVIOUS
<1>5. /\ DOMAIN d = DiskKeys /\ d.next_episode = disk.next_episode /\ d.produced = Len(log)
      /\ d.index = disk.index /\ d.rows = disk.rows /\ d.episodes = disk.episodes
      /\ d.completed = disk.completed /\ d.consumed = disk.consumed
      /\ d.retained = disk.retained /\ d.deleted = disk.deleted
      /\ d.mode = disk.mode /\ d.identity = disk.identity /\ d.schema = disk.schema
      /\ d.epsilon = disk.epsilon /\ d.scale = disk.scale
  BY <1>2, <1>3, <1>4 DEF DiskKeys
<1>6. PICK D : D = stage_episodes(d, es)
  OBVIOUS
<1>7. /\ DOMAIN D = DiskKeys /\ D.next_episode = d.next_episode + Len(es)
      /\ D.produced = d.produced + BatchRows(es)
      /\ D.consumed = d.consumed /\ D.retained = d.retained /\ D.deleted = d.deleted
      /\ D.mode = d.mode /\ D.identity = d.identity /\ D.schema = d.schema
      /\ D.epsilon = d.epsilon /\ D.scale = d.scale
  BY <1>5, <1>6, StageFields
<1>8. disk' = [D EXCEPT !.completed = mem.completed + 1, !.metrics = metrics_next,
                        !.stopped = mem.stopped + (IF Head(es).stopped THEN 1 ELSE 0)]
  BY <1>4, <1>6 DEF Commit
<1>9. /\ DOMAIN disk' = DiskKeys /\ disk'.next_episode = D.next_episode
      /\ disk'.produced = D.produced /\ disk'.consumed = D.consumed
      /\ disk'.retained = D.retained /\ disk'.deleted = D.deleted
      /\ disk'.index = D.index /\ disk'.rows = D.rows /\ disk'.episodes = D.episodes
      /\ disk'.completed = mem.completed + 1 /\ disk'.metrics = metrics_next
      /\ disk'.mode = D.mode /\ disk'.identity = D.identity /\ disk'.schema = D.schema
      /\ disk'.epsilon = D.epsilon /\ disk'.scale = D.scale
  BY <1>7, <1>8 DEF DiskKeys
<1>10. metrics_next \in Nat /\ disk.metrics <= metrics_next
  BY <1>2, <1>3 DEF metrics_next
<1>11. PICK R \in Nat \ {0} : R = BatchRows(es)
  BY <1>3, BatchOrder
<1>12. D.produced - mem.produced = R
  BY <1>2, <1>3, <1>5, <1>7, <1>11
<1>13. log' = log \o [i \in 1..(D.produced - mem.produced) |->
                        D.rows[D.index[mem.produced + i - 1]]]
  BY <1>4, <1>6 DEF Commit
<1>14. log' = log \o [i \in 1..R |-> D.rows[D.index[Len(log) + i - 1]]]
  BY <1>2, <1>12, <1>13
<1>15. Staged(d, D, es, disk.next_episode, Len(log))
  BY <1>3, <1>5, <1>6, StageReads
<1>18. \A i \in 0..(R - 1) : BatchKey(disk.next_episode, es, i) \in BatchKeys(disk.next_episode, es)
  BY <1>11 DEF BatchKeys
<1>19. \A i \in 0..(R - 1) : D.rows[D.index[Len(log) + i]]
                               = BatchRow(disk.next_episode, es, BatchKey(disk.next_episode, es, i))
  BY <1>11, <1>15, <1>18 DEF Staged
<1>20. \A k \in BatchKeys(disk.next_episode, es) : BatchRow(disk.next_episode, es, k) \in Row
  BY <1>3, BatchRowTyped
<1>21. PICK new : new = [i \in 1..R |-> D.rows[D.index[Len(log) + i - 1]]]
  OBVIOUS
<1>22. \A i \in 1..R : Len(log) + i - 1 = Len(log) + (i - 1) /\ i - 1 \in 0..(R - 1)
  BY <1>3
<1>23. \A i \in 1..R : new[i] = D.rows[D.index[Len(log) + (i - 1)]] /\ new[i] \in Row
  BY <1>18, <1>19, <1>20, <1>21, <1>22
<1>24. new \in Seq(Row) /\ Len(new) = R
  <2>1. new \in [1..R -> Row]
    BY <1>21, <1>23
  <2> QED BY <2>1
<1>25. log' \in Seq(Row) /\ Len(log') = Len(log) + R
  BY <1>3, <1>14, <1>21, <1>24
<1>26. \A i \in 1..Len(log) : log'[i] = log[i]
  BY <1>3, <1>14, <1>21, <1>24
<1>27. \A i \in 1..R : log'[Len(log) + i] = new[i]
  BY <1>3, <1>14, <1>21, <1>24
<1>28. \A i \in 0..(R - 1) : log'[Len(log) + i + 1]
                               = BatchRow(disk.next_episode, es, BatchKey(disk.next_episode, es, i))
  <2> SUFFICES ASSUME NEW i \in 0..(R - 1)
               PROVE  log'[Len(log) + i + 1]
                        = BatchRow(disk.next_episode, es, BatchKey(disk.next_episode, es, i))
    OBVIOUS
  <2>1. i + 1 \in 1..R /\ Len(log) + i + 1 = Len(log) + (i + 1) /\ (i + 1) - 1 = i
    BY <1>3
  <2>2. log'[Len(log) + (i + 1)] = D.rows[D.index[Len(log) + i]]
    BY <1>23, <1>27, <2>1
  <2> QED BY <1>19, <2>1, <2>2
<1>29. games' = games + 1
  BY DEF Commit
<1>30. BoundSame
  BY <1>5, <1>7, <1>9 DEF BoundSame
<1>31. /\ DOMAIN disk' = DiskKeys
       /\ disk'.next_episode = disk.next_episode + Len(es) /\ disk'.produced = Len(log) + BatchRows(es)
       /\ disk'.consumed = disk.consumed /\ disk'.retained = disk.retained
       /\ disk'.deleted = disk.deleted /\ disk'.completed = disk.completed + 1
       /\ disk'.metrics \in Nat /\ disk.metrics <= disk'.metrics
  BY <1>2, <1>5, <1>7, <1>9, <1>10
<1> QED BY <1>5, <1>9, <1>11, <1>15, <1>25, <1>26, <1>28, <1>29, <1>30, <1>31 DEF Appended, Staged


(* What was on disk before a batch is there after it. *)
LEMMA FilesRead ==
  ASSUME TypeOK, Structure
  PROVE  /\ disk.next_episode \in Nat /\ Len(log) \in Nat /\ disk.deleted \in Nat
         /\ disk.deleted <= Len(log) /\ (Len(log) = 0 => disk.deleted = 0)
         /\ (Len(log) > 0 => disk.deleted < Len(log))
         /\ \A q \in DOMAIN disk.index :
              /\ q \in Nat /\ q < Len(log) /\ disk.deleted <= q
              /\ disk.index[q] \in RowKeys /\ disk.index[q][1] \in Nat /\ disk.index[q][2] \in Nat
              /\ disk.index[q][1] < disk.next_episode
              /\ disk.index[q] \in DOMAIN disk.rows /\ disk.rows[disk.index[q]] = log[q + 1]
         /\ \A e \in DOMAIN disk.episodes :
              e \in Int /\ e < disk.next_episode /\ disk.episodes[e].game < games
         /\ \A k \in DOMAIN disk.rows :
              /\ k \in RowKeys /\ k[1] < disk.next_episode /\ k[1] \in DOMAIN disk.episodes
              /\ k[2] \in 0..(disk.episodes[k[1]].rows - 1)
<1>1. RowsWhole /\ EpisodesWhole /\ IndexInOrder /\ EpisodesInOrder
  BY DEF Structure
<1>2. /\ disk.next_episode \in Nat /\ Len(log) \in Nat /\ disk.deleted \in Nat
      /\ disk.retained \in Nat /\ disk.deleted <= disk.retained
  BY <1>1, LogTyped DEF TypeOK, FilesTypeOK, RowsWhole
<1>3. /\ disk.deleted <= Len(log) /\ (Len(log) = 0 => disk.deleted = 0)
      /\ (Len(log) > 0 => disk.deleted < Len(log))
  BY <1>1, <1>2 DEF IndexInOrder
<1>4. \A q \in DOMAIN disk.index : q \in Nat /\ q < Len(log) /\ disk.deleted <= q
  BY <1>1, <1>2 DEF RowsWhole
<1>5. \A q \in DOMAIN disk.index :
        /\ disk.index[q] \in RowKeys /\ disk.index[q][1] \in Nat /\ disk.index[q][2] \in Nat
  BY DEF TypeOK, FilesTypeOK, RowKeys
<1>6. \A q \in DOMAIN disk.index :
        /\ disk.index[q][1] < disk.next_episode
        /\ disk.index[q] \in DOMAIN disk.rows /\ disk.rows[disk.index[q]] = log[q + 1]
  BY <1>4, IndexReads
<1>7. \A e \in DOMAIN disk.episodes : e \in Int /\ e < disk.next_episode
  <2>1. EpisodeAt(disk.deleted) \in Int
    <3>1. CASE disk.deleted = 0
      BY <3>1 DEF EpisodeAt
    <3>2. CASE disk.deleted # 0
      <4>1. disk.deleted \in DOMAIN disk.index
        BY <1>1, <1>2, <1>3, <3>2 DEF EpisodesWhole, FirstRowOfEpisode
      <4> QED BY <1>5, <3>2, <4>1 DEF EpisodeAt
    <3> QED BY <3>1, <3>2
  <2> QED BY <1>1, <1>2, <2>1 DEF EpisodesInOrder
<1>8. \A e \in DOMAIN disk.episodes : disk.episodes[e].game < games
  <2> SUFFICES ASSUME NEW e \in DOMAIN disk.episodes
               PROVE  disk.episodes[e].game < games
    OBVIOUS
  <2>1. PICK q \in DOMAIN disk.index : disk.index[q] = <<e, 0>>
    BY <1>1 DEF EpisodesInOrder
  <2>2. PICK k \in DOMAIN disk.rows : k = disk.index[q]
    BY <1>6
  <2>3. k[1] = e /\ disk.rows[k].game = disk.episodes[k[1]].game
    BY <1>1, <2>1, <2>2 DEF EpisodesInOrder
  <2>4. q + 1 \in 1..Len(log)
    BY <1>2, <1>4
  <2>5. log[q + 1].game < games
    BY <1>1, <2>4 DEF EpisodesInOrder
  <2> QED BY <1>6, <2>2, <2>3, <2>5
<1>9. \A k \in DOMAIN disk.rows :
        /\ k \in RowKeys /\ k[1] < disk.next_episode /\ k[1] \in DOMAIN disk.episodes
        /\ k[2] \in 0..(disk.episodes[k[1]].rows - 1)
  <2> SUFFICES ASSUME NEW k \in DOMAIN disk.rows
               PROVE  /\ k \in RowKeys /\ k[1] < disk.next_episode /\ k[1] \in DOMAIN disk.episodes
                      /\ k[2] \in 0..(disk.episodes[k[1]].rows - 1)
    OBVIOUS
  <2>1. PICK e \in DOMAIN disk.episodes : \E i \in 0..(disk.episodes[e].rows - 1) : k = <<e, i>>
    BY <1>1 DEF EpisodesWhole
  <2>2. k[1] = e /\ k[2] \in 0..(disk.episodes[e].rows - 1)
    BY <2>1
  <2> QED BY <1>7, <2>2 DEF TypeOK, FilesTypeOK
<1> QED BY <1>2, <1>3, <1>4, <1>5, <1>6, <1>7, <1>8, <1>9

(* What every read of the disk returns after a batch was appended. *)
LEMMA AppendedView ==
  ASSUME TypeOK, Structure, NEW es, BatchOf(es), Appended(es)
  PROVE  /\ DOMAIN disk'.index = disk.deleted..(Len(log) + BatchRows(es) - 1)
         /\ Len(log') = Len(log) + BatchRows(es) /\ BatchRows(es) \in Nat \ {0}
         /\ Len(es) \in {1, 2}
         /\ \A q \in DOMAIN disk.index : disk'.index[q] = disk.index[q]
         /\ \A e \in DOMAIN disk.episodes : disk'.episodes[e] = disk.episodes[e]
         /\ \A k \in DOMAIN disk.rows : disk'.rows[k] = disk.rows[k]
         /\ \A q \in Len(log)..(Len(log) + BatchRows(es) - 1) :
              /\ q - Len(log) \in 0..(BatchRows(es) - 1)
              /\ disk'.index[q] = BatchKey(disk.next_episode, es, q - Len(log))
              /\ disk'.index[q] \in BatchKeys(disk.next_episode, es)
              /\ log'[q + 1] = disk'.rows[disk'.index[q]]
<1>1. /\ disk.next_episode \in Nat /\ Len(log) \in Nat /\ disk.deleted \in Nat
      /\ disk.deleted <= Len(log)
  BY FilesRead
<1>2. PICK R \in Nat \ {0} : R = BatchRows(es)
  BY <1>1, BatchOrder
<1>3. Len(es) \in {1, 2}
  BY DEF BatchOf
<1>4. DOMAIN disk'.index = disk.deleted..(Len(log) + R - 1)
  <2>1. DOMAIN disk'.index = DOMAIN disk.index \cup Len(log)..(Len(log) + R - 1)
    BY <1>2 DEF Appended
  <2>2. DOMAIN disk.index = disk.deleted..(Len(log) - 1)
    BY DEF Structure, RowsWhole
  <2> QED BY <1>1, <2>1, <2>2
<1>5. \A q \in DOMAIN disk.index : disk'.index[q] = disk.index[q]
  BY FilesRead DEF Appended
<1>6. \A e \in DOMAIN disk.episodes : disk'.episodes[e] = disk.episodes[e]
  BY FilesRead DEF Appended
<1>7. \A k \in DOMAIN disk.rows : disk'.rows[k] = disk.rows[k]
  BY FilesRead DEF Appended
<1>8. Len(log') = Len(log) + R
  BY <1>2 DEF Appended
<1>9. \A q \in Len(log)..(Len(log) + R - 1) :
        /\ q - Len(log) \in 0..(R - 1)
        /\ disk'.index[q] = BatchKey(disk.next_episode, es, q - Len(log))
        /\ disk'.index[q] \in BatchKeys(disk.next_episode, es)
        /\ log'[q + 1] = disk'.rows[disk'.index[q]]
  <2> SUFFICES ASSUME NEW q \in Len(log)..(Len(log) + R - 1)
               PROVE  /\ q - Len(log) \in 0..(R - 1)
                      /\ disk'.index[q] = BatchKey(disk.next_episode, es, q - Len(log))
                      /\ disk'.index[q] \in BatchKeys(disk.next_episode, es)
                      /\ log'[q + 1] = disk'.rows[disk'.index[q]]
    OBVIOUS
  <2>1. PICK i \in 0..(R - 1) : i = q - Len(log)
    BY <1>1
  <2>2. q = Len(log) + i /\ q + 1 = Len(log) + i + 1
    BY <1>1, <2>1
  <2>3. disk'.index[q] = BatchKey(disk.next_episode, es, i)
    BY <1>2, <2>2 DEF Appended
  <2>4. BatchKey(disk.next_episode, es, i) \in BatchKeys(disk.next_episode, es)
    BY <1>2 DEF BatchKeys
  <2>5. log'[Len(log) + i + 1] = BatchRow(disk.next_episode, es, BatchKey(disk.next_episode, es, i))
    BY <1>2 DEF Appended
  <2>6. \A k \in BatchKeys(disk.next_episode, es) : disk'.rows[k] = BatchRow(disk.next_episode, es, k)
    BY DEF Appended
  <2> QED BY <2>1, <2>2, <2>3, <2>4, <2>5, <2>6
<1> QED BY <1>2, <1>3, <1>4, <1>5, <1>6, <1>7, <1>8, <1>9


(* The largest number of an interval is its upper end. *)
LEMMA MaxOfInterval ==
  ASSUME NEW a \in Int, NEW b \in Int, a <= b
  PROVE  Max(a..b) = b
<1>1. b \in a..b /\ \A y \in a..b : b >= y
  OBVIOUS
<1>2. Max(a..b) \in a..b /\ \A y \in a..b : Max(a..b) >= y
  BY <1>1 DEF Max
<1> QED BY <1>1, <1>2

(* After an append the index still covers the retained rows of the log, and no other row is on disk. *)
LEMMA AppendedRows ==
  ASSUME TypeOK, Structure, NEW es, BatchOf(es), Appended(es)
  PROVE  RowsWhole'
<1>1. RowsWhole
  BY DEF Structure
<1>2. disk'.deleted = disk.deleted /\ disk'.retained = disk.retained
  BY DEF Appended
<1>3. /\ DOMAIN disk'.index = disk.deleted..(Len(log) + BatchRows(es) - 1)
      /\ Len(log') = Len(log) + BatchRows(es) /\ BatchRows(es) \in Nat \ {0}
      /\ Len(log) \in Nat /\ disk.deleted \in Nat
      /\ DOMAIN disk.index = disk.deleted..(Len(log) - 1)
  BY <1>1, AppendedView, FilesRead DEF RowsWhole
<1>4. DOMAIN disk'.rows = DOMAIN disk.rows \cup BatchKeys(disk.next_episode, es)
  BY DEF Appended
<1>5. ASSUME NEW q \in DOMAIN disk'.index
      PROVE  /\ disk'.index[q] \in DOMAIN disk'.rows /\ disk'.rows[disk'.index[q]] = log'[q + 1]
  <2>1. CASE q < Len(log)
    <3>1. q \in DOMAIN disk.index
      BY <1>3, <2>1
    <3>2. PICK k \in DOMAIN disk.rows : k = disk.index[q]
      BY <3>1, FilesRead
    <3>3. disk'.index[q] = k /\ disk'.rows[k] = disk.rows[k] /\ disk.rows[k] = log[q + 1]
      BY <3>1, <3>2, AppendedView, FilesRead
    <3>4. q + 1 \in 1..Len(log)
      BY <1>3, <3>1
    <3>5. log'[q + 1] = log[q + 1]
      BY <3>4 DEF Appended
    <3> QED BY <1>4, <3>2, <3>3, <3>5
  <2>2. CASE q >= Len(log)
    <3>1. q \in Len(log)..(Len(log) + BatchRows(es) - 1)
      BY <1>3, <2>2
    <3> QED BY <1>4, <3>1, AppendedView
  <2> QED BY <1>3, <1>5, <2>1, <2>2
<1>6. Range(disk'.index) = DOMAIN disk'.rows
  <2>1. ASSUME NEW k \in DOMAIN disk'.rows
        PROVE  \E q \in DOMAIN disk'.index : disk'.index[q] = k
    <3>1. CASE k \in DOMAIN disk.rows
      <4>1. PICK q \in DOMAIN disk.index : disk.index[q] = k
        BY <1>1, <3>1 DEF RowsWhole, Range
      <4>2. q \in DOMAIN disk'.index
        BY <1>3
      <4> QED BY <4>1, <4>2, AppendedView
    <3>2. CASE k \in BatchKeys(disk.next_episode, es)
      <4>1. PICK i \in 0..(BatchRows(es) - 1) : k = BatchKey(disk.next_episode, es, i)
        BY <3>2 DEF BatchKeys
      <4>2. Len(log) + i \in DOMAIN disk'.index /\ disk'.index[Len(log) + i] = k
        BY <1>3, <4>1 DEF Appended
      <4> QED BY <4>2
    <3> QED BY <1>4, <2>1, <3>1, <3>2
  <2> QED BY <1>5, <2>1 DEF Range
<1> QED BY <1>1, <1>2, <1>3, <1>5, <1>6 DEF RowsWhole

(* After an append every episode on disk still has all of its rows. *)
LEMMA AppendedEpisodes ==
  ASSUME TypeOK, Structure, NEW es, BatchOf(es), Appended(es)
  PROVE  EpisodesWhole'
<1>1. EpisodesWhole
  BY DEF Structure
<1>2. disk'.deleted = disk.deleted /\ disk'.retained = disk.retained
  BY DEF Appended
<1>3. /\ DOMAIN disk'.rows = DOMAIN disk.rows \cup BatchKeys(disk.next_episode, es)
      /\ DOMAIN disk.index \subseteq DOMAIN disk'.index
      /\ DOMAIN disk'.episodes =
           DOMAIN disk.episodes \cup disk.next_episode..(disk.next_episode + Len(es) - 1)
      /\ disk.next_episode \in Nat
  BY FilesRead DEF Appended
<1>4. ASSUME NEW q, FirstRowOfEpisode(q)
      PROVE  FirstRowOfEpisode(q)'
  BY <1>3, <1>4, AppendedView DEF FirstRowOfEpisode
<1>5. FirstRowOfEpisode(disk.deleted)' /\ FirstRowOfEpisode(disk.retained)'
  BY <1>1, <1>2, <1>4 DEF EpisodesWhole, FirstRowOfEpisode
<1>6. ASSUME NEW k \in DOMAIN disk'.rows
      PROVE  \E e \in DOMAIN disk'.episodes : \E i \in 0..(disk'.episodes[e].rows - 1) : k = <<e, i>>
  <2>1. CASE k \in DOMAIN disk.rows
    <3>1. PICK e \in DOMAIN disk.episodes : \E i \in 0..(disk.episodes[e].rows - 1) : k = <<e, i>>
      BY <1>1, <2>1 DEF EpisodesWhole
    <3>2. disk'.episodes[e] = disk.episodes[e]
      BY AppendedView
    <3> QED BY <1>3, <3>1, <3>2
  <2>2. CASE k \in BatchKeys(disk.next_episode, es)
    <3>1. PICK n \in 0..(BatchRows(es) - 1) : k = BatchKey(disk.next_episode, es, n)
      BY <2>2 DEF BatchKeys
    <3>0. KeyInBatch(disk.next_episode, es, n, k)
      BY <1>3, <3>1, BatchOrder
    <3>2. PICK l \in RowKeys : l = k
      BY <3>0 DEF KeyInBatch
    <3>3. /\ l[1] \in disk.next_episode..(disk.next_episode + Len(es) - 1)
          /\ l[2] < es[l[1] - disk.next_episode + 1].rows
      BY <3>0, <3>2 DEF KeyInBatch
    <3>4. disk'.episodes[l[1]] = es[l[1] - disk.next_episode + 1]
      BY <3>3 DEF Appended
    <3>5. PICK j \in 1..Len(es) : j = l[1] - disk.next_episode + 1
      BY <1>3, <3>2, <3>3 DEF BatchOf, RowKeys
    <3>6. l = <<l[1], l[2]>> /\ l[2] \in Nat
      BY <3>2 DEF RowKeys
    <3>7. es[j].rows \in Nat
      BY DEF BatchOf
    <3>8. l[2] \in 0..(disk'.episodes[l[1]].rows - 1)
      BY <3>3, <3>4, <3>5, <3>6, <3>7
    <3> QED BY <1>3, <3>2, <3>3, <3>6, <3>8
  <2> QED BY <1>3, <1>6, <2>1, <2>2
<1>7. ASSUME NEW e \in DOMAIN disk'.episodes, NEW i \in 0..(disk'.episodes[e].rows - 1)
      PROVE  <<e, i>> \in DOMAIN disk'.rows
  <2>1. CASE e \in DOMAIN disk.episodes
    <3>1. i \in 0..(disk.episodes[e].rows - 1)
      BY <2>1, <1>7, AppendedView
    <3>2. <<e, i>> \in DOMAIN disk.rows
      BY <1>1, <2>1, <3>1 DEF EpisodesWhole
    <3> QED BY <1>3, <3>2
  <2>2. CASE e \in disk.next_episode..(disk.next_episode + Len(es) - 1)
    <3>1. disk'.episodes[e] = es[e - disk.next_episode + 1]
      BY <2>2 DEF Appended
    <3>2. i \in 0..(es[e - disk.next_episode + 1].rows - 1)
      BY <1>7, <3>1
    <3>3. <<e, i>> \in BatchKeys(disk.next_episode, es)
      BY <1>3, <2>2, <3>2, BatchOrder
    <3> QED BY <1>3, <3>3
  <2> QED BY <1>3, <1>7, <2>1, <2>2
<1>8. DOMAIN disk'.rows =
        UNION {{<<e, k>> : k \in 0..(disk'.episodes[e].rows - 1)} : e \in DOMAIN disk'.episodes}
  BY <1>6, <1>7
<1> QED BY <1>5, <1>8 DEF EpisodesWhole


(* The row that the batch puts at a sequence number belongs to the game that *)
(* is being admitted.                                                      *)
LEMMA AppendedLog ==
  ASSUME TypeOK, Structure, NEW es, BatchOf(es), Appended(es),
         \A j \in 1..Len(es) : es[j].game = games
  PROVE  /\ \A i \in 1..Len(log) : log'[i] = log[i] /\ log'[i].game < games
         /\ \A i \in (Len(log) + 1)..Len(log') : log'[i].game = games
         /\ Len(log') \in Nat /\ Len(log) < Len(log')
<1>1. Len(log) \in Nat /\ disk.next_episode \in Nat
  BY FilesRead
<1>2. PICK R \in Nat \ {0} : R = BatchRows(es) /\ Len(log') = Len(log) + R
  BY AppendedView
<1>3. \A i \in 1..Len(log) : log'[i] = log[i] /\ log'[i].game < games
  BY DEF Appended, Structure, EpisodesInOrder
<1>4. ASSUME NEW i \in (Len(log) + 1)..Len(log')
      PROVE  log'[i].game = games
  <2>0. i \in Int /\ Len(log) + 1 <= i /\ i <= Len(log) + R
    BY <1>1, <1>2, <1>4
  <2>1. PICK n \in 0..(R - 1) : n = i - Len(log) - 1 /\ i = Len(log) + n + 1
    <3>1. i - Len(log) - 1 \in 0..(R - 1) /\ i = Len(log) + (i - Len(log) - 1) + 1
      BY <1>1, <2>0
    <3> QED BY <3>1
  <2>2. PICK k : k = BatchKey(disk.next_episode, es, n)
    OBVIOUS
  <2>7. KeyInBatch(disk.next_episode, es, n, k)
    BY <1>1, <1>2, <2>2, BatchOrder
  <2>3. k \in RowKeys /\ k[1] \in disk.next_episode..(disk.next_episode + Len(es) - 1)
    BY <2>7 DEF KeyInBatch
  <2>4. PICK j \in 1..Len(es) : j = k[1] - disk.next_episode + 1
    BY <1>1, <2>3 DEF BatchOf, RowKeys
  <2>5. log'[i] = BatchRow(disk.next_episode, es, k)
    BY <1>2, <2>1, <2>2 DEF Appended
  <2>6. BatchRow(disk.next_episode, es, k).game = es[j].game
    BY <2>4 DEF BatchRow
  <2> QED BY <2>5, <2>6
<1> QED BY <1>1, <1>2, <1>3, <1>4

(* After an append the counters still agree with the rows and the episodes. *)
LEMMA AppendedCounters ==
  ASSUME TypeOK, Structure, NEW es, BatchOf(es), Appended(es),
         \A j \in 1..Len(es) : es[j].game = games
  PROVE  CountersWhole'
<1>1. RowsWhole /\ EpisodesWhole /\ CountersWhole /\ IndexInOrder /\ EpisodesInOrder
  BY DEF Structure
<1>2. /\ disk.next_episode \in Nat /\ Len(log) \in Nat /\ disk.deleted \in Nat
      /\ disk.deleted <= Len(log) /\ games \in Nat
  BY FilesRead DEF TypeOK, FilesTypeOK
<1>3. PICK R \in Nat \ {0} : R = BatchRows(es)
  BY AppendedView
<1>4. disk'.produced = Len(log') /\ Len(log') = Len(log) + R
  BY <1>3 DEF Appended
<1>5. recover_next(disk.index)' = Len(log')
  <2>1. DOMAIN disk'.index = disk.deleted..(Len(log) + R - 1)
    BY <1>3, AppendedView
  <2>2. Max(disk.deleted..(Len(log) + R - 1)) = Len(log) + R - 1
    BY <1>2, MaxOfInterval
  <2>3. disk.deleted \in DOMAIN disk'.index
    BY <1>2, <2>1
  <2>4. Max(DOMAIN disk'.index) = Len(log) + R - 1
    BY <2>1, <2>2
  <2> QED BY <1>2, <1>4, <2>3, <2>4 DEF recover_next
<1>6. recover_next(disk.episodes)' = disk'.next_episode
  <2>1. PICK a \in Int : a = EpisodeAt(disk.deleted) /\ a <= disk.next_episode
    <3>1. CASE disk.deleted = 0
      BY <1>2, <3>1 DEF EpisodeAt
    <3>2. CASE disk.deleted # 0
      <4>1. disk.deleted \in DOMAIN disk.index
        BY <1>1, <1>2, <3>2 DEF EpisodesWhole, FirstRowOfEpisode
      <4>2. disk.index[disk.deleted][1] \in Nat /\ disk.index[disk.deleted][1] < disk.next_episode
        BY <4>1, FilesRead
      <4> QED BY <1>2, <3>2, <4>2 DEF EpisodeAt
    <3> QED BY <3>1, <3>2
  <2>2. PICK l \in {1, 2} : l = Len(es)
    BY AppendedView
  <2>3. DOMAIN disk.episodes = a..(disk.next_episode - 1)
    BY <1>1, <2>1 DEF EpisodesInOrder
  <2>4. DOMAIN disk'.episodes = DOMAIN disk.episodes \cup disk.next_episode..(disk.next_episode + l - 1)
    BY <2>2 DEF Appended
  <2>5. DOMAIN disk'.episodes = a..(disk.next_episode + l - 1)
    BY <1>2, <2>1, <2>3, <2>4
  <2>6. Max(a..(disk.next_episode + l - 1)) = disk.next_episode + l - 1
    BY <1>2, <2>1, MaxOfInterval
  <2>7. disk.next_episode \in DOMAIN disk'.episodes
    BY <1>2, <2>1, <2>5
  <2>8. Max(DOMAIN disk'.episodes) = disk.next_episode + l - 1
    BY <2>5, <2>6
  <2>9. disk'.next_episode = disk.next_episode + l
    BY <2>2 DEF Appended
  <2> QED BY <1>2, <2>7, <2>8, <2>9 DEF recover_next
<1>7. disk'.completed = Cardinality({log'[i].game : i \in 1..Len(log')})
  <2> DEFINE S == {log[i].game : i \in 1..Len(log)}
  <2>1. {log'[i].game : i \in 1..Len(log')} = S \cup {games}
    <3>1. ASSUME NEW i \in 1..Len(log') PROVE log'[i].game \in S \cup {games}
      <4>1. CASE i \in 1..Len(log)
        BY <4>1, AppendedLog
      <4>2. CASE i \in (Len(log) + 1)..Len(log')
        BY <4>2, AppendedLog
      <4> QED BY <1>2, <4>1, <4>2, AppendedLog
    <3>2. ASSUME NEW i \in 1..Len(log)
          PROVE  i \in 1..Len(log') /\ log'[i].game = log[i].game
      BY <1>2, AppendedLog
    <3>3. Len(log') \in 1..Len(log') /\ log'[Len(log')].game = games
      <4>1. Len(log') \in (Len(log) + 1)..Len(log') /\ Len(log') \in 1..Len(log')
        BY <1>2, <1>4
      <4> QED BY <4>1, AppendedLog
    <3> QED BY <3>1, <3>2, <3>3
  <2>2. S \subseteq 0..games /\ games \notin S
    <3>1. \A i \in 1..Len(log) : log[i].game \in Nat /\ log[i].game < games
      BY <1>1, LogTyped DEF EpisodesInOrder
    <3> QED BY <1>2, <3>1
  <2>3. IsFiniteSet(S)
    <3>1. IsFiniteSet(0..games)
      BY <1>2, FS_Interval
    <3>2. S \in SUBSET (0..games)
      BY <2>2
    <3> HIDE DEF S
    <3> QED BY <3>1, <3>2, FS_Subset
  <2>4. Cardinality(S \cup {games}) = Cardinality(S) + 1
    BY <2>2, <2>3, FS_AddElement
  <2>5. disk.completed = Cardinality(S) /\ disk'.completed = disk.completed + 1
    BY <1>1 DEF CountersWhole, Appended
  <2> QED BY <2>1, <2>4, <2>5
<1> QED BY <1>4, <1>5, <1>6, <1>7 DEF CountersWhole


(* The keys that a batch writes. *)
KeyAppended(es, q, k) ==
  /\ k \in RowKeys /\ k[1] \in Nat /\ k[2] \in Nat
  /\ k[1] \in disk.next_episode..(disk.next_episode + Len(es) - 1)
  /\ k[2] < disk'.episodes[k[1]].rows
  /\ \A i \in 0..(disk'.episodes[k[1]].rows - 1) :
       /\ q - k[2] + i \in DOMAIN disk'.index
       /\ disk'.index[q - k[2] + i] = <<k[1], i>>

(* The key at an appended position lies in the batch, and its episode is contiguous around it. *)
LEMMA AppendedKeys ==
  ASSUME TypeOK, Structure, NEW es, BatchOf(es), Appended(es),
         NEW q \in Len(log)..(Len(log) + BatchRows(es) - 1)
  PROVE  KeyAppended(es, q, disk'.index[q])
<1>1. /\ disk.next_episode \in Nat /\ Len(log) \in Nat /\ disk.deleted \in Nat
      /\ disk.deleted <= Len(log)
  BY FilesRead
<1>2. PICK R \in Nat \ {0} : R = BatchRows(es)
  BY AppendedView
<1>3. PICK n \in 0..(R - 1) : n = q - Len(log)
  BY <1>2, AppendedView
<1>4. disk'.index[q] = BatchKey(disk.next_episode, es, n)
  BY <1>3, AppendedView
<1>12. KeyInBatch(disk.next_episode, es, n, disk'.index[q])
  <2>1. KeyInBatch(disk.next_episode, es, n, BatchKey(disk.next_episode, es, n))
    BY <1>1, <1>2, BatchOrder
  <2> QED BY <1>4, <2>1
<1>5. PICK k \in RowKeys : k = disk'.index[q]
  BY <1>12 DEF KeyInBatch
<1>6. k[1] \in Nat /\ k[2] \in Nat
  BY DEF RowKeys
<1>7. /\ k[1] \in disk.next_episode..(disk.next_episode + Len(es) - 1)
      /\ k[2] < es[k[1] - disk.next_episode + 1].rows /\ k[2] <= n
  BY <1>2, <1>5, <1>12 DEF KeyInBatch
<1>8. disk'.episodes[k[1]] = es[k[1] - disk.next_episode + 1]
  BY <1>7 DEF Appended
<1>9. \A i \in 0..(es[k[1] - disk.next_episode + 1].rows - 1) :
        n - k[2] + i \in 0..(R - 1) /\ BatchKey(disk.next_episode, es, n - k[2] + i) = <<k[1], i>>
  BY <1>2, <1>5, <1>12 DEF KeyInBatch
<1>10. DOMAIN disk'.index = disk.deleted..(Len(log) + R - 1)
  BY <1>2, AppendedView
<1>11. ASSUME NEW i \in 0..(disk'.episodes[k[1]].rows - 1)
       PROVE  q - k[2] + i \in DOMAIN disk'.index /\ disk'.index[q - k[2] + i] = <<k[1], i>>
  <2>1. PICK m \in 0..(R - 1) : m = n - k[2] + i
    BY <1>8, <1>9
  <2>2. BatchKey(disk.next_episode, es, m) = <<k[1], i>>
    BY <1>8, <1>9, <2>1
  <2>3. i \in Int
    OBVIOUS
  <2>4. q - k[2] + i = Len(log) + m
    BY <1>1, <1>3, <1>6, <2>1, <2>3
  <2>5. disk'.index[Len(log) + m] = BatchKey(disk.next_episode, es, m)
    BY <1>2 DEF Appended
  <2>6. Len(log) + m \in disk.deleted..(Len(log) + R - 1)
    BY <1>1
  <2> QED BY <1>10, <2>2, <2>4, <2>5, <2>6
<1> QED BY <1>5, <1>6, <1>7, <1>8, <1>11 DEF KeyAppended

(* After an append the index still lists each episode contiguously, in the order of the episodes. *)
LEMMA AppendedOrder ==
  ASSUME TypeOK, Structure, NEW es, BatchOf(es), Appended(es)
  PROVE  IndexInOrder'
<1>1. RowsWhole /\ EpisodesWhole /\ CountersWhole /\ IndexInOrder /\ EpisodesInOrder
  BY DEF Structure
<1>2. /\ disk.next_episode \in Nat /\ Len(log) \in Nat /\ disk.deleted \in Nat
      /\ disk.deleted <= Len(log) /\ disk.retained \in Nat
  BY FilesRead DEF TypeOK, FilesTypeOK
<1>3. PICK R \in Nat \ {0} : R = BatchRows(es)
  BY AppendedView
<1>4. /\ DOMAIN disk'.index = disk.deleted..(Len(log) + R - 1)
      /\ DOMAIN disk.index = disk.deleted..(Len(log) - 1)
  BY <1>1, <1>3, AppendedView DEF RowsWhole
<1>5. \A q \in DOMAIN disk'.index :
        (q \in DOMAIN disk.index /\ q < Len(log)) \/ (q \in Len(log)..(Len(log) + R - 1) /\ q >= Len(log))
  BY <1>2, <1>4
<1>6. ASSUME NEW q \in DOMAIN disk'.index, NEW r \in DOMAIN disk'.index, q <= r
      PROVE  /\ disk'.index[q][1] <= disk'.index[r][1]
             /\ disk'.index[q][1] = disk'.index[r][1] => disk'.index[r][2] - disk'.index[q][2] = r - q
  <2>0. q \in Int /\ r \in Int
    BY <1>2, <1>4
  <2>1. CASE r \in DOMAIN disk.index
    <3>1. q \in DOMAIN disk.index
      BY <1>2, <1>4, <1>6, <2>1
    <3>2. disk'.index[q] = disk.index[q] /\ disk'.index[r] = disk.index[r]
      BY <2>1, <3>1, AppendedView
    <3> QED BY <1>1, <1>6, <2>1, <3>1, <3>2 DEF IndexInOrder
  <2>2. CASE q \in DOMAIN disk.index /\ r \in Len(log)..(Len(log) + R - 1)
    <3>1. disk'.index[q] = disk.index[q] /\ disk.index[q][1] \in Nat /\ disk.index[q][1] < disk.next_episode
      BY <2>2, AppendedView, FilesRead
    <3>2. disk'.index[r][1] \in Nat /\ disk.next_episode <= disk'.index[r][1]
      BY <1>2, <1>3, <2>2, AppendedKeys DEF KeyAppended
    <3> QED BY <1>2, <3>1, <3>2
  <2>3. CASE q \in Len(log)..(Len(log) + R - 1) /\ r \in Len(log)..(Len(log) + R - 1)
    <3>1. PICK n \in 0..(R - 1) : n = q - Len(log)
      BY <1>3, <2>3, AppendedView
    <3>2. PICK m \in 0..(R - 1) : m = r - Len(log)
      BY <1>3, <2>3, AppendedView
    <3>5. disk'.index[q] = BatchKey(disk.next_episode, es, n)
      BY <1>3, <2>3, <3>1, AppendedView
    <3>6. disk'.index[r] = BatchKey(disk.next_episode, es, m)
      BY <1>3, <2>3, <3>2, AppendedView
    <3>3. n <= m /\ m - n = r - q
      BY <1>2, <1>6, <2>0, <3>1, <3>2
    <3>4. KeysInOrder(BatchKey(disk.next_episode, es, n), BatchKey(disk.next_episode, es, m), m - n)
      BY <1>2, <1>3, <3>3, BatchOrder
    <3> QED BY <3>3, <3>4, <3>5, <3>6 DEF KeysInOrder
  <2> QED BY <1>5, <2>1, <2>2, <2>3
<1>7. ASSUME NEW q \in DOMAIN disk'.index
      PROVE  LET e == disk'.index[q][1]
                 first == q - disk'.index[q][2]
             IN  /\ e \in DOMAIN disk'.episodes /\ disk'.index[q][2] < disk'.episodes[e].rows
                 /\ \A i \in 0..(disk'.episodes[e].rows - 1) :
                      first + i \in DOMAIN disk'.index /\ disk'.index[first + i] = <<e, i>>
  <2>1. CASE q \in DOMAIN disk.index
    <3>1. PICK k \in RowKeys : k = disk.index[q] /\ k = disk'.index[q]
      BY <2>1, AppendedView, FilesRead
    <3>2. k[1] \in DOMAIN disk.episodes /\ k[2] < disk.episodes[k[1]].rows
      BY <1>1, <2>1, <3>1 DEF IndexInOrder
    <3>3. \A i \in 0..(disk.episodes[k[1]].rows - 1) :
            q - k[2] + i \in DOMAIN disk.index /\ disk.index[q - k[2] + i] = <<k[1], i>>
      BY <1>1, <2>1, <3>1 DEF IndexInOrder
    <3>4. disk'.episodes[k[1]] = disk.episodes[k[1]] /\ k[1] \in DOMAIN disk'.episodes
      BY <3>2, AppendedView DEF Appended
    <3>5. ASSUME NEW i \in 0..(disk'.episodes[k[1]].rows - 1)
          PROVE  q - k[2] + i \in DOMAIN disk'.index /\ disk'.index[q - k[2] + i] = <<k[1], i>>
      <4>1. PICK r \in DOMAIN disk.index : r = q - k[2] + i /\ disk.index[r] = <<k[1], i>>
        BY <3>3, <3>4
      <4>2. r \in DOMAIN disk'.index
        BY <1>2, <1>4
      <4>3. disk'.index[r] = disk.index[r]
        BY AppendedView
      <4> QED BY <4>1, <4>2, <4>3
    <3> QED BY <3>1, <3>2, <3>4, <3>5
  <2>2. CASE q \in Len(log)..(Len(log) + R - 1)
    <3>0. KeyAppended(es, q, disk'.index[q])
      BY <1>3, <2>2, AppendedKeys
    <3>1. PICK k \in RowKeys : k = disk'.index[q]
      BY <3>0 DEF KeyAppended
    <3>2. /\ k[1] \in disk.next_episode..(disk.next_episode + Len(es) - 1)
          /\ k[2] < disk'.episodes[k[1]].rows
          /\ \A i \in 0..(disk'.episodes[k[1]].rows - 1) :
               /\ q - k[2] + i \in DOMAIN disk'.index
               /\ disk'.index[q - k[2] + i] = <<k[1], i>>
      BY <3>0, <3>1 DEF KeyAppended
    <3>3. k[1] \in DOMAIN disk'.episodes
      BY <3>2 DEF Appended
    <3> QED BY <3>1, <3>2, <3>3
  <2> QED BY <1>5, <2>1, <2>2
<1>8. ASSUME 0 \in DOMAIN disk'.index PROVE disk'.index[0] = <<0, 0>>
  <2>1. CASE Len(log) > 0
    <3>1. 0 \in DOMAIN disk.index
      BY <1>2, <1>4, <1>8, <2>1
    <3> QED BY <1>1, <3>1, AppendedView DEF IndexInOrder
  <2>2. CASE Len(log) = 0
    <3>1. disk.next_episode = 0 /\ 0 \in 0..(R - 1)
      BY <1>1, <2>2 DEF IndexInOrder
    <3>2. disk'.index[Len(log) + 0] = BatchKey(disk.next_episode, es, 0)
      BY <1>3, <3>1 DEF Appended
    <3>3. BatchKey(disk.next_episode, es, 0) = <<disk.next_episode, 0>>
      BY <1>2, BatchOrder
    <3> QED BY <2>2, <3>1, <3>2, <3>3
  <2> QED BY <1>2, <2>1, <2>2
<1>9. Len(log') # 0 /\ disk'.retained < Len(log')
  <2>1. Len(log') = Len(log) + R /\ disk'.retained = disk.retained
    BY <1>3 DEF Appended
  <2>2. disk.retained <= Len(log)
    BY <1>1, <1>2 DEF IndexInOrder
  <2> QED BY <1>2, <2>1, <2>2
<1> QED BY <1>6, <1>7, <1>8, <1>9 DEF IndexInOrder


(* The record of an appended episode, and its rows. *)
LEMMA AppendedRecords ==
  ASSUME TypeOK, Structure, NEW es, BatchOf(es), Appended(es),
         \A j \in 1..Len(es) : es[j].game = games,
         NEW e \in disk.next_episode..(disk.next_episode + Len(es) - 1)
  PROVE  \E j \in 1..Len(es) : e = disk.next_episode + j - 1 /\ disk'.episodes[e] = es[j]
<1>1. disk.next_episode \in Nat /\ Len(es) \in {1, 2}
  BY FilesRead DEF BatchOf
<1>2. PICK j \in 1..Len(es) : j = e - disk.next_episode + 1 /\ e = disk.next_episode + j - 1
  BY <1>1
<1>3. disk'.episodes[e] = es[e - disk.next_episode + 1]
  BY DEF Appended
<1> QED BY <1>2, <1>3

(* An appended row is a row of one episode of the batch, decisions before terminals. *)
LEMMA AppendedRowsRead ==
  ASSUME TypeOK, Structure, NEW es, BatchOf(es), Appended(es),
         NEW k \in BatchKeys(disk.next_episode, es)
  PROVE  \E j \in 1..Len(es) :
           /\ k[1] = disk.next_episode + j - 1 /\ disk'.episodes[k[1]] = es[j]
           /\ disk'.rows[k].game = es[j].game /\ k[2] \in Nat /\ k[2] < es[j].rows
           /\ disk'.rows[k].kind = IF k[2] < es[j].steps THEN "decision" ELSE "terminal"
<1>1. disk.next_episode \in Nat /\ Len(es) \in {1, 2}
  BY FilesRead DEF BatchOf
<1>2. PICK n \in 0..(BatchRows(es) - 1) : k = BatchKey(disk.next_episode, es, n)
  BY DEF BatchKeys
<1>3. KeyInBatch(disk.next_episode, es, n, k)
  BY <1>1, <1>2, BatchOrder
<1>4. /\ k \in RowKeys /\ k[1] \in disk.next_episode..(disk.next_episode + Len(es) - 1)
      /\ k[2] < es[k[1] - disk.next_episode + 1].rows
  BY <1>3 DEF KeyInBatch
<1>5. PICK j \in 1..Len(es) : j = k[1] - disk.next_episode + 1 /\ k[1] = disk.next_episode + j - 1
  <2>1. k[1] \in Int /\ k[2] \in Nat
    BY <1>4 DEF RowKeys
  <2>2. PICK e \in Int : e = k[1]
    BY <2>1
  <2>3. PICK next \in Nat : next = disk.next_episode
    BY <1>1
  <2>4. e \in next..(next + Len(es) - 1)
    BY <1>4, <2>2, <2>3
  <2>5. e - next + 1 \in 1..Len(es) /\ e = next + (e - next + 1) - 1
    BY <1>1, <2>4
  <2> QED BY <2>2, <2>3, <2>5
<1>6. disk'.episodes[k[1]] = es[j]
  BY <1>4, <1>5 DEF Appended
<1>7. disk'.rows[k] = BatchRow(disk.next_episode, es, k)
  BY DEF Appended
<1>8. /\ BatchRow(disk.next_episode, es, k).game = es[j].game
      /\ BatchRow(disk.next_episode, es, k).kind = IF k[2] < es[j].steps THEN "decision" ELSE "terminal"
  BY <1>5 DEF BatchRow
<1>9. k[2] \in Nat
  BY <1>4 DEF RowKeys
<1> QED BY <1>4, <1>5, <1>6, <1>7, <1>8, <1>9

(* The episodes on disk are the ones from the first row not yet deleted. *)
LEMMA DeletedEpisode ==
  ASSUME TypeOK, Structure
  PROVE  /\ EpisodeAt(disk.deleted) \in Nat /\ EpisodeAt(disk.deleted) <= disk.next_episode
         /\ DOMAIN disk.episodes = EpisodeAt(disk.deleted)..(disk.next_episode - 1)
         /\ disk.deleted # 0 => disk.deleted \in DOMAIN disk.index
<1>1. EpisodesWhole /\ EpisodesInOrder
  BY DEF Structure
<1>2. disk.next_episode \in Nat /\ disk.deleted \in Nat
  BY FilesRead
<1>3. disk.deleted # 0 => disk.deleted \in DOMAIN disk.index
  BY <1>1 DEF EpisodesWhole, FirstRowOfEpisode
<1>4. CASE disk.deleted = 0
  BY <1>1, <1>2, <1>4 DEF EpisodeAt, EpisodesInOrder
<1>5. CASE disk.deleted # 0
  <2>1. disk.index[disk.deleted][1] \in Nat /\ disk.index[disk.deleted][1] < disk.next_episode
    BY <1>3, <1>5, FilesRead
  <2>2. EpisodeAt(disk.deleted) = disk.index[disk.deleted][1]
    BY <1>5 DEF EpisodeAt
  <2> QED BY <1>1, <1>2, <1>3, <2>1, <2>2 DEF EpisodesInOrder
<1> QED BY <1>4, <1>5

(* After an append the episodes are still the latest ones, each with its rows and its game. *)
LEMMA AppendedGames ==
  ASSUME TypeOK, Structure, NEW es, BatchOf(es), Appended(es),
         \A j \in 1..Len(es) : es[j].game = games
  PROVE  EpisodesInOrder'
<1>1. RowsWhole /\ EpisodesWhole /\ CountersWhole /\ IndexInOrder /\ EpisodesInOrder
  BY DEF Structure
<1>2. /\ disk.next_episode \in Nat /\ Len(log) \in Nat /\ disk.deleted \in Nat
      /\ disk.deleted <= Len(log) /\ games \in Nat /\ Len(es) \in {1, 2}
  BY FilesRead DEF TypeOK, FilesTypeOK, BatchOf
<1>3. PICK R \in Nat \ {0} : R = BatchRows(es)
  BY AppendedView
<1>4. /\ DOMAIN disk'.index = disk.deleted..(Len(log) + R - 1)
      /\ DOMAIN disk.index = disk.deleted..(Len(log) - 1) /\ Len(log') = Len(log) + R
  BY <1>1, <1>3, AppendedView DEF RowsWhole
<1>5. DOMAIN disk'.episodes =
        DOMAIN disk.episodes \cup disk.next_episode..(disk.next_episode + Len(es) - 1)
  BY DEF Appended
<1>6. DOMAIN disk'.episodes = EpisodeAt(disk.deleted)'..(disk'.next_episode - 1)
  <2>1. EpisodeAt(disk.deleted)' = EpisodeAt(disk.deleted)
    <3>1. disk'.deleted = disk.deleted
      BY DEF Appended
    <3>2. disk.deleted # 0 => disk'.index[disk.deleted] = disk.index[disk.deleted]
      BY DeletedEpisode, AppendedView
    <3> QED BY <3>1, <3>2 DEF EpisodeAt
  <2>2. PICK a \in Nat : a = EpisodeAt(disk.deleted) /\ a <= disk.next_episode
    BY DeletedEpisode
  <2>3. DOMAIN disk.episodes = a..(disk.next_episode - 1)
    BY <2>2, DeletedEpisode
  <2>4. disk'.next_episode = disk.next_episode + Len(es)
    BY DEF Appended
  <2>5. DOMAIN disk'.episodes = a..(disk.next_episode + Len(es) - 1)
    BY <1>2, <1>5, <2>2, <2>3
  <2> QED BY <1>2, <2>1, <2>2, <2>4, <2>5
<1>7. ASSUME NEW e \in DOMAIN disk'.episodes
      PROVE  LET r == disk'.episodes[e]
             IN  /\ r.steps \in Nat /\ r.rows \in Nat \ {0} /\ r.rows \in {r.steps, r.steps + 1}
                 /\ \E q \in DOMAIN disk'.index : disk'.index[q] = <<e, 0>>
                 /\ r.rows = r.steps =>
                      \A i \in 1..Len(log') : log'[i].game = r.game => log'[i].kind # "terminal"
  <2>1. CASE e \in DOMAIN disk.episodes
    <3>1. PICK r : r = disk.episodes[e] /\ r = disk'.episodes[e]
      BY <2>1, AppendedView
    <3>2. r.steps \in Nat /\ r.rows \in Nat \ {0} /\ r.rows \in {r.steps, r.steps + 1}
      BY <1>1, <2>1, <3>1 DEF EpisodesInOrder
    <3>3. PICK q \in DOMAIN disk.index : disk.index[q] = <<e, 0>>
      BY <1>1, <2>1 DEF EpisodesInOrder
    <3>4. q \in DOMAIN disk'.index
      BY <1>2, <1>4
    <3>5. disk'.index[q] = <<e, 0>>
      BY <3>3, AppendedView
    <3>6. r.rows = r.steps =>
            \A i \in 1..Len(log) : log[i].game = r.game => log[i].kind # "terminal"
      BY <1>1, <2>1, <3>1 DEF EpisodesInOrder
    <3>7. r.game < games
      BY <2>1, <3>1, FilesRead
    <3>8. ASSUME r.rows = r.steps, NEW i \in 1..Len(log'), log'[i].game = r.game
          PROVE  log'[i].kind # "terminal"
      <4>1. i \notin (Len(log) + 1)..Len(log')
        <5>1. ASSUME i \in (Len(log) + 1)..Len(log') PROVE FALSE
          <6>1. log'[i].game = games
            BY <5>1, AppendedLog
          <6> QED BY <1>2, <3>7, <3>8, <6>1
        <5> QED BY <5>1
      <4>2. i \in 1..Len(log)
        BY <1>2, <1>4, <4>1
      <4> QED BY <3>6, <3>8, <4>2, AppendedLog
    <3> QED BY <3>1, <3>2, <3>4, <3>5, <3>8
  <2>2. CASE e \in disk.next_episode..(disk.next_episode + Len(es) - 1)
    <3>1. PICK j \in 1..Len(es) : e = disk.next_episode + j - 1 /\ disk'.episodes[e] = es[j]
      BY <2>2, AppendedRecords
    <3>2. /\ es[j].steps \in Nat /\ es[j].rows \in Nat \ {0}
          /\ es[j].rows \in {es[j].steps, es[j].steps + 1}
          /\ es[j].rows = es[j].steps => Len(es) = 1
      BY DEF BatchOf
    <3>3. \E q \in DOMAIN disk'.index : disk'.index[q] = <<e, 0>>
      <4>1. 0 \in 0..(disk'.episodes[e].rows - 1)
        BY <3>1, <3>2
      <4>2. <<e, 0>> \in DOMAIN disk'.rows
        <5>1. EpisodesWhole'
          BY AppendedEpisodes
        <5> QED BY <1>7, <4>1, <5>1 DEF EpisodesWhole
      <4>3. Range(disk'.index) = DOMAIN disk'.rows
        BY AppendedRows DEF RowsWhole
      <4> QED BY <4>2, <4>3 DEF Range
    <3>4. ASSUME es[j].rows = es[j].steps, NEW i \in 1..Len(log'), log'[i].game = es[j].game
          PROVE  log'[i].kind # "terminal"
      <4>1. i \notin 1..Len(log)
        <5>1. ASSUME i \in 1..Len(log) PROVE FALSE
          <6>1. log'[i].game < games /\ es[j].game = games
            BY <5>1, AppendedLog
          <6> QED BY <1>2, <3>4, <6>1
        <5> QED BY <5>1
      <4>2. PICK q \in Len(log)..(Len(log) + R - 1) : i = q + 1
        <5>1. i - 1 \in Len(log)..(Len(log) + R - 1) /\ i = (i - 1) + 1
          BY <1>2, <1>4, <4>1
        <5> QED BY <5>1
      <4>3. PICK k \in BatchKeys(disk.next_episode, es) : k = disk'.index[q] /\ log'[i] = disk'.rows[k]
        BY <1>3, <4>2, AppendedView
      <4>4. PICK l \in 1..Len(es) :
              /\ k[2] \in Nat /\ k[2] < es[l].rows
              /\ disk'.rows[k].kind = IF k[2] < es[l].steps THEN "decision" ELSE "terminal"
        BY AppendedRowsRead
      <4>6. Len(es) = 1
        BY <3>2, <3>4
      <4>7. l \in 1..1 /\ j \in 1..1
        BY <4>6
      <4>5. l = j
        BY <4>7
      <4> QED BY <3>4, <4>3, <4>4, <4>5
    <3> QED BY <3>1, <3>2, <3>3, <3>4
  <2> QED BY <1>5, <1>7, <2>1, <2>2
<1>8. ASSUME NEW k \in DOMAIN disk'.rows
      PROVE  LET r == disk'.episodes[k[1]]
             IN  /\ disk'.rows[k].game = r.game
                 /\ disk'.rows[k].kind = "terminal" <=> k[2] >= r.steps
  <2>1. CASE k \in DOMAIN disk.rows
    <3>1. disk'.rows[k] = disk.rows[k] /\ k[1] \in DOMAIN disk.episodes
      BY <2>1, AppendedView, FilesRead
    <3>2. disk'.episodes[k[1]] = disk.episodes[k[1]]
      BY <3>1, AppendedView
    <3> QED BY <1>1, <2>1, <3>1, <3>2 DEF EpisodesInOrder
  <2>2. CASE k \in BatchKeys(disk.next_episode, es)
    <3>1. PICK j \in 1..Len(es) :
            /\ disk'.episodes[k[1]] = es[j]
            /\ disk'.rows[k].game = es[j].game /\ k[2] \in Nat
            /\ disk'.rows[k].kind = IF k[2] < es[j].steps THEN "decision" ELSE "terminal"
      BY <2>2, AppendedRowsRead
    <3>2. es[j].steps \in Nat
      BY DEF BatchOf
    <3> QED BY <3>1, <3>2
  <2>3. DOMAIN disk'.rows = DOMAIN disk.rows \cup BatchKeys(disk.next_episode, es)
    BY DEF Appended
  <2> QED BY <1>8, <2>1, <2>2, <2>3
<1>9. ASSUME NEW i \in 1..Len(log') PROVE log'[i].game < games'
  <2>1. games' = games + 1
    BY DEF Appended
  <2>2. CASE i \in 1..Len(log)
    <3>1. log'[i].game < games /\ log'[i] = log[i] /\ log[i].game \in Nat
      BY <2>2, AppendedLog, LogTyped
    <3> QED BY <1>2, <2>1, <3>1
  <2>3. CASE i \in (Len(log) + 1)..Len(log')
    BY <1>2, <2>1, <2>3, AppendedLog
  <2> QED BY <1>2, <1>4, <2>2, <2>3
<1> QED BY <1>6, <1>7, <1>8, <1>9 DEF EpisodesInOrder


(* What a session holds is not touched by a batch: the rows it knows of are *)
(* older, and the game that the batch brings is a new one.                 *)
LEMMA AppendedSample ==
  ASSUME TypeOK, Structure, NEW es, BatchOf(es), Appended(es),
         \A j \in 1..Len(es) : es[j].game = games,
         NEW f \in SessionState, SoundSample(f), SessionInOrder(f)
  PROVE  SoundSample(f)'
<1>1. /\ f.seq \in Nat /\ f.count \in Nat /\ f.kind \in {"rows", "terminal"}
      /\ Len(log) \in Nat /\ disk.metrics \in Nat /\ games \in Nat
  BY FilesRead DEF SessionState, TypeOK, FilesTypeOK
<1>2. Len(log') \in Nat /\ Len(log) < Len(log') /\ \A i \in 1..Len(log) : log'[i] = log[i]
  BY AppendedLog
<1>3. ASSUME f.pc \in {"consume", "consumed"}, f.kind = "rows" PROVE f.row = log'[f.seq + 1]
  <2>1. f.seq < Len(log) /\ f.row = log[f.seq + 1]
    BY <1>3 DEF SessionInOrder, SoundSample
  <2>2. f.seq + 1 \in 1..Len(log)
    BY <1>1, <2>1
  <2> QED BY <1>2, <2>1, <2>2
<1>4. ASSUME f.pc \in {"consume", "consumed"}, f.kind # "rows"
      PROVE  f.row.kind = "terminal" /\ f.row \in Range(log')
  <2>1. f.row.kind = "terminal" /\ f.row \in Range(log)
    BY <1>4 DEF SoundSample
  <2>2. log \in Seq(Row) /\ log' \in Seq(Row)
    BY DEF TypeOK, FilesTypeOK, Appended
  <2>3. PICK i \in 1..Len(log) : f.row = log[i]
    BY <2>1, <2>2 DEF Range
  <2>4. i \in 1..Len(log') /\ f.row = log'[i]
    BY <1>1, <1>2, <2>3
  <2>5. i \in DOMAIN log'
    BY <2>2, <2>4
  <2> QED BY <2>1, <2>4, <2>5 DEF Range
<1>5. disk'.deleted = disk.deleted /\ disk'.metrics \in Nat /\ disk.metrics <= disk'.metrics
  BY DEF Appended
<1>6. f.out = "empty" => f.produced = 0 /\ f.key = None
  BY DEF SoundSample
<1>7. f.out = "missing" => f.floor < disk'.deleted
  BY <1>5 DEF SoundSample
<1>8. f.out = "averages" => f.count >= f.seq /\ f.count <= disk'.metrics
  BY <1>1, <1>5 DEF SoundSample
<1>9. ASSUME f.out = "no terminal"
      PROVE  ~\A i \in 1..Len(log') :
               \E j \in 1..Len(log') : log'[j].game = log'[i].game /\ log'[j].kind = "terminal"
  <2>1. PICK i \in 1..Len(log) :
          ~\E j \in 1..Len(log) : log[j].game = log[i].game /\ log[j].kind = "terminal"
    BY <1>9 DEF SoundSample
  <2>2. i \in 1..Len(log') /\ log'[i] = log[i] /\ log[i].game \in Nat /\ log[i].game < games
    BY <1>1, <1>2, AppendedLog, LogTyped
  <2>3. ASSUME NEW j \in 1..Len(log'), log'[j].game = log'[i].game, log'[j].kind = "terminal"
        PROVE  FALSE
    <3>1. j \in 1..Len(log) \/ j \in (Len(log) + 1)..Len(log')
      BY <1>1, <1>2
    <3>2. CASE j \in 1..Len(log)
      <4>1. log'[j] = log[j]
        BY <1>2, <3>2
      <4> QED BY <2>1, <2>2, <2>3, <3>2, <4>1
    <3>3. CASE j \in (Len(log) + 1)..Len(log')
      <4>1. log'[j].game = games
        BY <3>3, AppendedLog
      <4> QED BY <1>1, <2>2, <2>3, <4>1
    <3> QED BY <3>1, <3>2, <3>3
  <2> QED BY <2>2, <2>3
<1> QED BY <1>3, <1>4, <1>6, <1>7, <1>8, <1>9 DEF SoundSample

(* What a session has loaded so far stays in order over an append. *)
LEMMA AppendedSession ==
  ASSUME TypeOK, Structure, NEW es, BatchOf(es), Appended(es), mem' = mem,
         NEW f \in SessionState, SessionInOrder(f)
  PROVE  SessionInOrder(f)'
<1>1. /\ f.seq \in Nat /\ f.floor \in Nat /\ Len(log) \in Nat /\ disk.next_episode \in Nat
      /\ disk.deleted \in Nat /\ Len(es) \in {1, 2}
  BY FilesRead DEF SessionState, BatchOf
<1>2. PICK R \in Nat \ {0} : R = BatchRows(es) /\ Len(log') = Len(log) + R
  BY AppendedView
<1>3. /\ disk'.deleted = disk.deleted /\ disk'.next_episode = disk.next_episode + Len(es)
      /\ DOMAIN disk'.episodes =
           DOMAIN disk.episodes \cup disk.next_episode..(disk.next_episode + Len(es) - 1)
      /\ DOMAIN disk'.rows = DOMAIN disk.rows \cup BatchKeys(disk.next_episode, es)
      /\ \A i \in 1..Len(log) : log'[i] = log[i]
  BY DEF Appended
<1>4. \A q \in Nat : disk.deleted <= q /\ q < Len(log) =>
        q \in DOMAIN disk.index /\ disk'.index[q] = disk.index[q]
  BY IndexReads, AppendedView
<1>5. f.pc \in {"pick", "episode", "row"} => f.key \in RowKeys /\ f.key[1] < disk'.next_episode
  <2>1. ASSUME f.pc \in {"pick", "episode", "row"}
        PROVE  f.key \in RowKeys /\ f.key[1] < disk'.next_episode
    <3>1. f.key \in RowKeys /\ f.key[1] < disk.next_episode
      BY <2>1 DEF SessionInOrder
    <3>2. f.key[1] \in Nat
      BY <3>1 DEF RowKeys
    <3> QED BY <1>1, <1>3, <3>1, <3>2
  <2> QED BY <2>1
<1>6. Began(f) => Began(f)'
  <2>1. ASSUME Began(f), disk'.deleted <= f.floor
        PROVE  f.floor < Len(log') /\ disk'.index[f.floor][1] <= f.key[1]
    <3>1. f.floor < Len(log) /\ disk.index[f.floor][1] <= f.key[1]
      BY <1>3, <2>1 DEF Began
    <3>2. disk'.index[f.floor] = disk.index[f.floor]
      BY <1>1, <1>3, <1>4, <2>1, <3>1
    <3>3. f.floor < Len(log')
      BY <1>1, <1>2, <3>1
    <3> QED BY <3>1, <3>2, <3>3
  <2> QED BY <2>1 DEF Began
<1>7. ASSUME f.pc = "row", f.kind = "rows"
      PROVE  /\ f.floor <= f.seq /\ f.seq < Len(log')
             /\ disk'.deleted <= f.seq => disk'.index[f.seq] = f.key
             /\ f.key \in DOMAIN disk'.rows => disk'.rows[f.key] = log'[f.seq + 1]
  <2>1. /\ f.floor <= f.seq /\ f.seq < Len(log)
        /\ disk.deleted <= f.seq => disk.index[f.seq] = f.key
        /\ f.key \in DOMAIN disk.rows => disk.rows[f.key] = log[f.seq + 1]
        /\ f.key \in RowKeys /\ f.key[1] < disk.next_episode
    BY <1>7 DEF SessionInOrder
  <2>2. f.seq + 1 \in 1..Len(log) /\ f.seq < Len(log')
    BY <1>1, <1>2, <2>1
  <2>3. disk'.deleted <= f.seq => disk'.index[f.seq] = f.key
    BY <1>1, <1>3, <1>4, <2>1
  <2>4. ASSUME f.key \in DOMAIN disk'.rows PROVE disk'.rows[f.key] = log'[f.seq + 1]
    <3>1. f.key \in DOMAIN disk.rows
      <4>1. ASSUME f.key \in BatchKeys(disk.next_episode, es) PROVE FALSE
        <5>1. PICK j \in 1..Len(es) : f.key[1] = disk.next_episode + j - 1
          BY <4>1, AppendedRowsRead
        <5> QED BY <1>1, <2>1, <5>1
      <4> QED BY <1>3, <2>4, <4>1
    <3>2. disk'.rows[f.key] = disk.rows[f.key]
      BY <3>1, AppendedView
    <3> QED BY <1>3, <2>1, <2>2, <3>1, <3>2
  <2> QED BY <2>1, <2>2, <2>3, <2>4
<1>8. ASSUME f.pc = "row", f.kind = "terminal", f.key[1] \in DOMAIN disk'.episodes
      PROVE  /\ f.key[2] = disk'.episodes[f.key[1]].steps
             /\ disk'.episodes[f.key[1]].rows = f.key[2] + 1
  <2>1. f.key \in RowKeys /\ f.key[1] < disk.next_episode
    BY <1>8 DEF SessionInOrder
  <2>2. f.key[1] \in Nat
    BY <2>1 DEF RowKeys
  <2>3. f.key[1] \in DOMAIN disk.episodes
    BY <1>1, <1>3, <1>8, <2>1, <2>2
  <2>4. disk'.episodes[f.key[1]] = disk.episodes[f.key[1]]
    BY <2>3, AppendedView
  <2> QED BY <1>8, <2>3, <2>4 DEF SessionInOrder
<1>9. f.pc \in {"consume", "consumed"} /\ f.kind = "rows" => f.seq < Len(log')
  BY <1>1, <1>2 DEF SessionInOrder
<1> QED BY <1>5, <1>6, <1>7, <1>8, <1>9 DEF SessionInOrder


(* An append keeps the types of the files. *)
LEMMA AppendedTyped ==
  ASSUME TypeOK, Structure, NEW es, BatchOf(es), Appended(es), disk'.consumed \in Nat, served' \in Nat
  PROVE  FilesTypeOK'
<1>1. /\ disk.next_episode \in Nat /\ Len(log) \in Nat /\ disk.retained \in Nat
      /\ disk.deleted \in Nat /\ disk.completed \in Nat /\ games \in Nat /\ Len(es) \in {1, 2}
  BY FilesRead DEF TypeOK, FilesTypeOK, BatchOf
<1>2. RowsWhole'
  BY AppendedRows
<1>3. PICK R \in Nat \ {0} : R = BatchRows(es)
  BY AppendedView
<1>4. DOMAIN disk'.index = DOMAIN disk.index \cup Len(log)..(Len(log) + R - 1)
  BY <1>3 DEF Appended
<1>5. \A q \in DOMAIN disk'.index : disk'.index[q] \in RowKeys
  <2>1. \A q \in DOMAIN disk.index : disk'.index[q] \in RowKeys
    BY AppendedView, FilesRead
  <2>2. \A q \in Len(log)..(Len(log) + R - 1) : disk'.index[q] \in RowKeys
    BY <1>3, AppendedKeys DEF KeyAppended
  <2> QED BY <1>4, <2>1, <2>2
<1>6. disk'.index \in [DOMAIN disk'.index -> RowKeys]
  <2>1. disk'.index = [q \in DOMAIN disk'.index |-> disk'.index[q]]
    BY DEF Appended
  <2> QED BY <1>5, <2>1
<1>7. \A k \in DOMAIN disk'.rows : k \in RowKeys /\ disk'.rows[k] \in Row
  <2> SUFFICES ASSUME NEW k \in DOMAIN disk'.rows
               PROVE  k \in RowKeys /\ disk'.rows[k] \in Row
    OBVIOUS
  <2>1. PICK q \in DOMAIN disk'.index : disk'.index[q] = k
    BY <1>2 DEF RowsWhole, Range
  <2>2. disk'.rows[k] = log'[q + 1]
    BY <1>2, <2>1 DEF RowsWhole
  <2>6. disk'.deleted = disk.deleted /\ DOMAIN disk'.index = disk'.deleted..(Len(log') - 1)
    BY <1>2 DEF RowsWhole, Appended
  <2>7. Len(log') = Len(log) + R
    BY <1>3 DEF Appended
  <2>3. DOMAIN disk'.index = disk.deleted..(Len(log') - 1) /\ Len(log') \in Nat
    BY <1>1, <2>6, <2>7
  <2>4. q + 1 \in 1..Len(log')
    BY <1>1, <2>3
  <2>5. log' \in Seq(Row)
    BY DEF Appended
  <2> QED BY <1>5, <2>1, <2>2, <2>4, <2>5
<1>8. disk'.rows \in [DOMAIN disk'.rows -> Row]
  <2>1. disk'.rows = [k \in DOMAIN disk'.rows |-> disk'.rows[k]]
    BY DEF Appended
  <2> QED BY <1>7, <2>1
<1>9. /\ DOMAIN disk' = DiskKeys /\ disk'.next_episode \in Nat /\ disk'.retained \in Nat
      /\ disk'.deleted \in Nat /\ disk'.metrics \in Nat /\ disk'.completed \in Nat
      /\ games' \in Nat /\ log' \in Seq(Row)
  <2>1. /\ DOMAIN disk' = DiskKeys /\ disk'.next_episode = disk.next_episode + Len(es)
        /\ disk'.retained = disk.retained /\ disk'.deleted = disk.deleted
        /\ disk'.completed = disk.completed + 1 /\ disk'.metrics \in Nat
        /\ games' = games + 1 /\ log' \in Seq(Row)
    BY DEF Appended
  <2> QED BY <1>1, <2>1
<1>10. DOMAIN disk'.rows \subseteq RowKeys
  BY <1>7
<1> QED BY <1>6, <1>8, <1>9, <1>10 DEF FilesTypeOK

(* An episode of the contract that the process has bound. *)
UnderContract(e) ==
  LET c == mem.contract
  IN  /\ e.mode = c.mode /\ e.identity = c.identity /\ e.schema = c.schema
      /\ e.epsilon = c.epsilon /\ e.scale = c.scale

(* The batch of an append keeps the store whole. *)
LEMMA CommitKept ==
  ASSUME ReplayInductive, mem.up, sink.pc = "idle", mem.contract # None, NEW es, BatchOf(es),
         Commit(es), \A j \in 1..Len(es) : es[j].game = games /\ UnderContract(es[j])
  PROVE  ReplayInductive'
<1>1. /\ TypeOK /\ Structure /\ PublishedInOrder /\ SessionsInOrder /\ SampleSound
      /\ ConsumedExact /\ ConsumedInOrder /\ StoredConforms /\ ContractInOrder
  BY DEF ReplayInductive
<1>2. Appended(es) /\ BoundSame
  BY CommitView
<1>3. mem' = mem /\ session' = session /\ served' = served /\ sink' = [pc |-> "committed"]
  BY DEF Commit
<1>4. disk'.consumed = disk.consumed /\ disk.consumed \in Nat /\ served \in Nat
  BY <1>1, <1>2 DEF Appended, TypeOK, FilesTypeOK
<1>5. TypeOK'
  <2>1. FilesTypeOK'
    BY <1>1, <1>2, <1>3, <1>4, AppendedTyped
  <2>2. ProcessTypeOK'
    BY <1>1, <1>3 DEF TypeOK, ProcessTypeOK, Appending, Unpublished
  <2> QED BY <1>1, <1>3, <2>1, <2>2 DEF TypeOK
<1>6. Structure'
  BY <1>1, <1>2, AppendedRows, AppendedEpisodes, AppendedCounters, AppendedOrder, AppendedGames
     DEF Structure
<1>7. PublishedInOrder'
  <2>1. /\ mem.next_episode = disk.next_episode /\ mem.produced = disk.produced
        /\ mem.averaged = disk.metrics /\ mem.averaged_games = disk.metrics
        /\ mem.floor = disk.retained
        /\ mem.floor < mem.produced \/ (mem.floor = 0 /\ mem.produced = 0)
        /\ \A q \in DOMAIN disk.index : q < mem.produced => disk.index[q][1] < mem.next_episode
    BY <1>1 DEF PublishedInOrder, Unpublished
  <2>2. /\ disk.produced = Len(log) /\ Len(log) \in Nat /\ disk.next_episode \in Nat
        /\ disk.metrics \in Nat /\ Len(es) \in {1, 2}
    BY <1>1, FilesRead DEF Structure, CountersWhole, TypeOK, FilesTypeOK, BatchOf
  <2>3. PICK R \in Nat \ {0} : R = BatchRows(es)
    BY <1>1, <1>2, AppendedView
  <2>4. /\ disk'.produced = Len(log) + R /\ disk'.next_episode = disk.next_episode + Len(es)
        /\ disk'.retained = disk.retained /\ disk'.metrics \in Nat /\ disk.metrics <= disk'.metrics
    BY <1>2, <2>3 DEF Appended
  <2>5. mem.produced <= disk'.produced /\ mem.next_episode <= disk'.next_episode
    BY <2>1, <2>2, <2>4
  <2>6. ASSUME NEW q \in DOMAIN disk'.index, q < mem.produced
        PROVE  disk'.index[q][1] < mem.next_episode
    <3>1. /\ DOMAIN disk'.index = disk.deleted..(Len(log) + R - 1)
          /\ DOMAIN disk.index = disk.deleted..(Len(log) - 1) /\ disk.deleted \in Nat
      BY <1>1, <1>2, <2>3, AppendedView, FilesRead DEF Structure, RowsWhole
    <3>2. q \in DOMAIN disk.index
      BY <2>1, <2>2, <2>6, <3>1
    <3> QED BY <1>1, <1>2, <2>1, <2>6, <3>2, AppendedView
  <2>7. sink'.pc = "committed"
    BY <1>3
  <2> QED BY <1>3, <2>1, <2>2, <2>4, <2>5, <2>6, <2>7 DEF PublishedInOrder, Unpublished
<1>8. ASSUME NEW t \in Sessions PROVE SessionInOrder(session[t])' /\ SoundSample(session[t])'
  <2>1. PICK f \in SessionState : f = session[t]
    BY <1>1 DEF TypeOK
  <2>2. SessionInOrder(f) /\ SoundSample(f)
    BY <1>1, <2>1 DEF SessionsInOrder, SampleSound
  <2>3. SessionInOrder(f)'
    BY <1>1, <1>2, <1>3, <2>2, AppendedSession
  <2>4. SoundSample(f)'
    BY <1>1, <1>2, <2>2, AppendedSample
  <2>5. f = session'[t]
    BY <1>3, <2>1
  <2>6. SessionInOrder(session[t])'
    BY <2>3, <2>5 DEF SessionInOrder, Began
  <2>7. SoundSample(session[t])'
    BY <2>4, <2>5 DEF SoundSample
  <2> QED BY <2>6, <2>7
<1>9. SessionsInOrder' /\ SampleSound'
  BY <1>8 DEF SessionsInOrder, SampleSound
<1>10. ConsumedExact' /\ ConsumedInOrder'
  BY <1>1, <1>3, <1>4 DEF ConsumedExact, ConsumedInOrder, ConsumedFree
<1>11. /\ disk'.mode = disk.mode /\ disk'.identity = disk.identity /\ disk'.schema = disk.schema
       /\ disk'.epsilon = disk.epsilon /\ disk'.scale = disk.scale
  BY <1>2 DEF BoundSame
<1>12. PICK c \in Contracts :
         /\ c = mem.contract /\ WellFormed(c) /\ disk.mode = c.mode /\ disk.identity = c.identity
         /\ disk.schema = c.schema /\ disk.epsilon = c.epsilon /\ disk.scale = c.scale
         /\ mem.mode = c.mode /\ mem.identity = c.identity
  BY <1>1 DEF ContractInOrder
<1>13. c.mode \in Modes /\ c.schema # None
  BY ContractsAssumption
<1>14. /\ DOMAIN disk'.episodes =
            DOMAIN disk.episodes \cup disk.next_episode..(disk.next_episode + Len(es) - 1)
       /\ \A e \in DOMAIN disk.episodes : disk'.episodes[e] = disk.episodes[e]
  BY <1>1, <1>2, AppendedView DEF Appended
<1>15. ASSUME NEW e \in disk.next_episode..(disk.next_episode + Len(es) - 1)
       PROVE  /\ disk'.episodes[e].mode = c.mode /\ disk'.episodes[e].identity = c.identity
              /\ disk'.episodes[e].schema = c.schema /\ disk'.episodes[e].epsilon = c.epsilon
              /\ disk'.episodes[e].scale = c.scale
  BY <1>1, <1>2, <1>12, AppendedRecords DEF UnderContract
<1>16. StoredConforms'
  <2>1. ASSUME NEW e \in DOMAIN disk'.episodes
        PROVE  LET r == disk'.episodes[e]
               IN  /\ disk'.mode \in {None, r.mode} /\ (disk'.mode = None => r.mode = "standard")
                   /\ disk'.identity \in {None, r.identity}
                   /\ disk'.schema = r.schema
                   /\ disk'.epsilon # None => disk'.epsilon = r.epsilon
                   /\ disk'.scale # None => disk'.scale = r.scale
    <3>1. CASE e \in DOMAIN disk.episodes
      <4>1. disk'.episodes[e] = disk.episodes[e]
        BY <1>14, <3>1
      <4> QED BY <1>1, <1>11, <3>1, <4>1 DEF StoredConforms
    <3>2. CASE e \in disk.next_episode..(disk.next_episode + Len(es) - 1)
      <4>1. disk'.mode # None
        BY <1>11, <1>12, <1>13, NoneAssumption
      <4> QED BY <1>11, <1>12, <1>15, <3>2, <4>1
    <3> QED BY <1>14, <2>1, <3>1, <3>2
  <2> QED BY <2>1 DEF StoredConforms
<1>17. ContractInOrder'
  <2>1. ASSUME NEW e \in DOMAIN disk'.episodes
        PROVE  LET r == disk'.episodes[e]
               IN  /\ r.mode \in Modes
                   /\ disk'.epsilon = None => r.epsilon = IF IsSymmetric(r.mode) THEN 0 ELSE None
                   /\ disk'.scale = None => r.scale = IF IsSymmetric(r.mode) THEN 0 ELSE None
                   /\ ~IsSymmetric(r.mode) => disk'.epsilon = None /\ disk'.scale = None
    <3>1. CASE e \in DOMAIN disk.episodes
      <4>1. disk'.episodes[e] = disk.episodes[e]
        BY <1>14, <3>1
      <4> QED BY <1>1, <1>11, <3>1, <4>1 DEF ContractInOrder
    <3>2. CASE e \in disk.next_episode..(disk.next_episode + Len(es) - 1)
      <4>1. disk'.episodes[e].mode = c.mode /\ disk'.episodes[e].epsilon = c.epsilon
            /\ disk'.episodes[e].scale = c.scale
        BY <1>15, <3>2
      <4> QED BY <1>11, <1>12, <1>13, <4>1 DEF WellFormed
    <3> QED BY <1>14, <2>1, <3>1, <3>2
  <2>2. disk'.schema # None
    BY <1>11, <1>12, <1>13
  <2> QED BY <1>1, <1>3, <1>11, <1>12, <2>1, <2>2 DEF ContractInOrder
<1> QED BY <1>5, <1>6, <1>7, <1>9, <1>10, <1>16, <1>17 DEF ReplayInductive


(* A step that changes nothing keeps the invariant. *)
LEMMA StutterKept ==
  ASSUME ReplayInductive, UNCHANGED vars
  PROVE  ReplayInductive'
<1>1. /\ disk' = disk /\ mem' = mem /\ sink' = sink /\ session' = session
      /\ games' = games /\ log' = log /\ served' = served
  BY DEF vars
<1>2. /\ TypeOK /\ Structure /\ PublishedInOrder /\ SessionsInOrder /\ SampleSound
      /\ ConsumedExact /\ ConsumedInOrder /\ StoredConforms /\ ContractInOrder
  BY DEF ReplayInductive
<1>3. TypeOK'
  BY <1>1, <1>2 DEF TypeOK, FilesTypeOK, ProcessTypeOK
<1>4. Structure'
  BY <1>1, <1>2, StructureSame DEF FilesSame, TypeOK, FilesTypeOK
<1>5. PublishedInOrder'
  BY <1>1, <1>2 DEF PublishedInOrder
<1>6. SessionsInOrder'
  BY <1>1, <1>2 DEF SessionsInOrder, SessionInOrder, Began
<1>7. SampleSound'
  BY <1>1, <1>2 DEF SampleSound, SoundSample
<1>8. ConsumedExact' /\ ConsumedInOrder'
  BY <1>1, <1>2 DEF ConsumedExact, ConsumedInOrder, ConsumedFree
<1>9. StoredConforms' /\ ContractInOrder'
  BY <1>1, <1>2 DEF StoredConforms, ContractInOrder
<1> QED BY <1>3, <1>4, <1>5, <1>6, <1>7, <1>8, <1>9 DEF ReplayInductive

(* The target of a game is one of five values. *)
LEMMA TargetTyped ==
  ASSUME NEW a, NEW b, NEW c
  PROVE  symmetric_outcome_target(a, b, c) \in -2..2
BY DEF symmetric_outcome_target, Squash

(* Admitting a symmetric game appends both of its episodes in one batch. *)
LEMMA AdmitKept ==
  ASSUME ReplayInductive, NEW g \in Games, admit_symmetric(g[1], g[2])
  PROVE  ReplayInductive'
<1>1. /\ mem.up /\ mem.contract # None /\ sink.pc = "idle" /\ g[1].terminal /\ g[2].terminal
  BY DEF admit_symmetric
<1>2. games \in Nat
  BY DEF ReplayInductive, TypeOK, FilesTypeOK
<1>3. PICK t \in -2..2 : t = symmetric_outcome_target(g[1], g[2], mem.contract)
  BY TargetTyped
<1>4. PICK p : p = project_episode(g[1], 1, t, mem.contract)
  OBVIOUS
<1>5. PICK r : r = project_episode(g[2], 2, -t, mem.contract)
  OBVIOUS
<1>6. CASE UNCHANGED vars
  BY <1>6, StutterKept
<1>7. CASE Commit(<<p, r>>)
  <2>1. PICK es : es = <<p, r>>
    OBVIOUS
  <2>2. /\ Len(es) = 2 /\ es[1] = p /\ es[2] = r
    BY <2>1
  <2>3. g[1].steps \in Nat /\ g[2].steps \in Nat
    BY GamesAssumption
  <2>4. /\ p.game = games /\ p.seat = 1 /\ p.target = t /\ p.steps = g[1].steps
        /\ p.rows = g[1].steps + 1 /\ UnderContract(p)
    BY <1>1, <1>4 DEF project_episode, UnderContract
  <2>5. /\ r.game = games /\ r.seat = 2 /\ r.target = -t /\ r.steps = g[2].steps
        /\ r.rows = g[2].steps + 1 /\ UnderContract(r)
    BY <1>1, <1>5 DEF project_episode, UnderContract
  <2>6. -t \in -2..2
    OBVIOUS
  <2>7. \A j \in 1..Len(es) : j = 1 \/ j = 2
    BY <2>2
  <2>8. BatchOf(es)
    BY <2>2, <2>3, <2>4, <2>5, <2>6, <2>7 DEF BatchOf
  <2>9. \A j \in 1..Len(es) : es[j].game = games /\ UnderContract(es[j])
    BY <2>2, <2>4, <2>5, <2>7
  <2> QED BY <1>1, <1>7, <2>1, <2>8, <2>9, CommitKept
<1>8. CASE /\ mem' = Closed /\ games' = games + 1 /\ session' = [s \in Sessions |-> NoSession]
           /\ UNCHANGED <<disk, sink, opens, log, served>>
  BY <1>1, <1>2, <1>8, ClosingStep
<1> QED BY <1>3, <1>4, <1>5, <1>6, <1>7, <1>8 DEF admit_symmetric

(* Appending a standard episode keeps the invariant. *)
LEMMA AppendEpisodeKept ==
  ASSUME ReplayInductive, NEW a \in Examples, append_episode(a)
  PROVE  ReplayInductive'
<1>1. /\ mem.up /\ mem.contract # None /\ sink.pc = "idle" /\ ~a.terminal /\ a.steps = 1
  BY DEF append_episode
<1>2. PICK p : p = project_episode(a, 1, None, mem.contract)
  OBVIOUS
<1>3. Commit(<<p>>)
  BY <1>2 DEF append_episode
<1>4. PICK es : es = <<p>>
  OBVIOUS
<1>5. Len(es) = 1 /\ es[1] = p
  BY <1>4
<1>6. /\ p.game = games /\ p.seat = 1 /\ p.target = None /\ p.steps = 1
      /\ p.rows = 1 /\ UnderContract(p)
  BY <1>1, <1>2 DEF project_episode, UnderContract
<1>7. \A j \in 1..Len(es) : j = 1
  BY <1>5
<1>8. BatchOf(es)
  BY <1>5, <1>6, <1>7 DEF BatchOf
<1>9. \A j \in 1..Len(es) : es[j].game = games /\ UnderContract(es[j])
  BY <1>5, <1>6, <1>7
<1> QED BY <1>1, <1>3, <1>4, <1>8, <1>9, CommitKept


-----------------------------------------------------------------------------
(* Retention.                                                              *)

(* The episodes below the floor published the time before. *)
Below == EpisodeAt(disk.deleted)..(EpisodeAt(disk.retained) - 1)

(* A row is of such an episode exactly when it lies below that floor.      *)
LEMMA RowsBelow ==
  ASSUME TypeOK, Structure
  PROVE  /\ \A q \in DOMAIN disk.index : disk.index[q][1] \in Below <=> q < disk.retained
         /\ EpisodeAt(disk.retained) \in Nat
         /\ EpisodeAt(disk.deleted) <= EpisodeAt(disk.retained)
         /\ Len(log) > 0 => EpisodeAt(disk.retained) < disk.next_episode
<1>1. RowsWhole /\ EpisodesWhole /\ IndexInOrder
  BY DEF Structure
<1>2. /\ disk.deleted \in Nat /\ disk.retained \in Nat /\ disk.next_episode \in Nat /\ Len(log) \in Nat
      /\ disk.deleted <= disk.retained
  BY <1>1, FilesRead DEF TypeOK, FilesTypeOK, RowsWhole
<1>3. PICK a \in Nat : a = EpisodeAt(disk.deleted)
  BY DeletedEpisode
<1>4. \A q \in DOMAIN disk.index :
        q \in Nat /\ disk.index[q][1] \in Nat /\ disk.index[q][2] \in Nat
        /\ a <= disk.index[q][1] /\ disk.index[q][1] < disk.next_episode
  <2>1. \A q \in DOMAIN disk.index : disk.index[q][1] \in DOMAIN disk.episodes
    BY <1>1 DEF IndexInOrder
  <2>2. DOMAIN disk.episodes = a..(disk.next_episode - 1)
    BY <1>3, DeletedEpisode
  <2> QED BY <1>2, <2>1, <2>2, FilesRead
<1>5. CASE disk.retained = 0
  <2>1. disk.deleted = 0
    BY <1>2, <1>5
  <2>2. EpisodeAt(disk.retained) = 0 /\ EpisodeAt(disk.deleted) = 0
    BY <1>5, <2>1 DEF EpisodeAt
  <2>3. Below = 0..(0 - 1)
    BY <2>2 DEF Below
  <2>4. \A q \in DOMAIN disk.index : disk.index[q][1] \in Below <=> q < disk.retained
    BY <1>4, <1>5, <2>3
  <2>5. Len(log) > 0 => 0 < disk.next_episode
    <3>1. ASSUME Len(log) > 0 PROVE 0 < disk.next_episode
      <4>1. 0 \in DOMAIN disk.index
        BY <1>1, <1>2, <2>1, <3>1 DEF RowsWhole
      <4> QED BY <1>2, <1>4, <4>1
    <3> QED BY <3>1
  <2> QED BY <2>2, <2>4, <2>5
<1>6. CASE disk.retained # 0
  <2>1. disk.retained \in DOMAIN disk.index /\ disk.index[disk.retained][2] = 0
    BY <1>1, <1>6 DEF EpisodesWhole, FirstRowOfEpisode
  <2>2. PICK b \in Nat : b = disk.index[disk.retained][1] /\ b = EpisodeAt(disk.retained)
    BY <1>4, <1>6, <2>1 DEF EpisodeAt
  <2>3. a <= b /\ b < disk.next_episode
    BY <1>4, <2>1, <2>2
  <2>4. Below = a..(b - 1)
    BY <1>3, <2>2 DEF Below
  <2>5. ASSUME NEW q \in DOMAIN disk.index
        PROVE  disk.index[q][1] \in Below <=> q < disk.retained
    <3>1. CASE q < disk.retained
      <4>1. q <= disk.retained /\ q \in Nat
        BY <1>2, <1>4, <3>1
      <4>2. /\ disk.index[q][1] <= b
            /\ disk.index[q][1] = b => 0 - disk.index[q][2] = disk.retained - q
        BY <1>1, <2>1, <2>2, <4>1 DEF IndexInOrder
      <4>3. disk.index[q][1] < b
        BY <1>2, <1>4, <3>1, <4>1, <4>2
      <4> QED BY <1>4, <2>4, <3>1, <4>3
    <3>2. CASE ~(q < disk.retained)
      <4>1. disk.retained <= q
        BY <1>2, <1>4, <3>2
      <4>2. b <= disk.index[q][1]
        BY <1>1, <2>1, <2>2, <4>1 DEF IndexInOrder
      <4> QED BY <1>4, <2>4, <3>2, <4>2
    <3> QED BY <3>1, <3>2
  <2> QED BY <1>3, <2>2, <2>3, <2>5
<1> QED BY <1>2, <1>5, <1>6

(* What retention leaves of the files when it moves the floor. *)
Trimmed ==
  /\ DOMAIN disk' = DiskKeys
  /\ disk'.next_episode = disk.next_episode /\ disk'.produced = disk.produced
  /\ disk'.completed = disk.completed /\ disk'.consumed = disk.consumed
  /\ disk'.metrics = disk.metrics
  /\ disk'.deleted = disk.retained /\ disk'.retained \in Nat
  /\ disk.retained < disk'.retained /\ disk'.retained < Len(log)
  /\ disk'.retained \in DOMAIN disk.index /\ disk.index[disk'.retained][2] = 0
  /\ DOMAIN disk'.index = DOMAIN disk.index \ (disk.deleted..(disk.retained - 1))
  /\ \A q \in DOMAIN disk'.index : disk'.index[q] = disk.index[q]
  /\ DOMAIN disk'.rows = {k \in DOMAIN disk.rows : k[1] \notin Below}
  /\ \A k \in DOMAIN disk'.rows : disk'.rows[k] = disk.rows[k]
  /\ DOMAIN disk'.episodes = DOMAIN disk.episodes \ Below
  /\ \A e \in DOMAIN disk'.episodes : disk'.episodes[e] = disk.episodes[e]
  /\ disk'.index = [q \in DOMAIN disk'.index |-> disk'.index[q]]
  /\ disk'.rows = [k \in DOMAIN disk'.rows |-> disk'.rows[k]]
  /\ log' = log /\ games' = games

(* The new floor is the first row of the episode that holds the target.    *)
LEMMA NewFloorAligned ==
  ASSUME TypeOK, Structure, PublishedInOrder, mem.up, sink.pc = "retention", RetentionDue
  PROVE  /\ NewFloor \in Nat /\ NewFloor < Len(log)
         /\ NewFloor > mem.floor => NewFloor \in DOMAIN disk.index /\ disk.index[NewFloor][2] = 0
<1>1. RowsWhole /\ IndexInOrder /\ CountersWhole
  BY DEF Structure
<1>2. mem.floor = disk.retained /\ mem.produced = Len(log)
  BY <1>1 DEF PublishedInOrder, CountersWhole, Unpublished
<1>3. /\ Len(log) \in Nat /\ disk.deleted \in Nat /\ disk.retained \in Nat
      /\ disk.deleted <= disk.retained
  BY <1>1, FilesRead DEF TypeOK, FilesTypeOK, RowsWhole
<1>4. PICK r \in Nat \ {0} : r = Retain
  BY ReplayAssumption DEF RetentionDue
<1>5. r \div 4 \in Nat
  OBVIOUS
<1>6. Len(log) - disk.retained > r
  <2>1. Len(log) - disk.retained > r + r \div 4
    BY <1>2, <1>4 DEF RetentionDue
  <2> QED BY <1>3, <1>5, <2>1
<1>7. PICK t \in Nat : t = mem.produced - Retain /\ t < Len(log) /\ disk.retained < t
  <2>1. Len(log) - r \in Nat /\ Len(log) - r < Len(log) /\ disk.retained < Len(log) - r
    BY <1>3, <1>6
  <2>2. mem.produced - Retain = Len(log) - r
    BY <1>2, <1>4
  <2> QED BY <2>1, <2>2
<1>8. t \in DOMAIN disk.index
  BY <1>1, <1>3, <1>7 DEF RowsWhole
<1>9. PICK k \in RowKeys : k = disk.index[t]
  BY <1>8, FilesRead
<1>10. k[1] \in Nat /\ k[2] \in Nat
  BY DEF RowKeys
<1>11. NewFloor = t - k[2]
  BY <1>7, <1>9 DEF NewFloor
<1>12. PICK m \in Nat : m = disk.episodes[k[1]].rows /\ k[2] < m
  <2>1. k[1] \in DOMAIN disk.episodes /\ k[2] < disk.episodes[k[1]].rows
    BY <1>1, <1>8, <1>9 DEF IndexInOrder
  <2> QED BY <2>1 DEF Structure, EpisodesInOrder
<1>13. 0 \in 0..(m - 1)
  BY <1>10, <1>12
<1>14. t - k[2] + 0 \in DOMAIN disk.index /\ disk.index[t - k[2] + 0] = <<k[1], 0>>
  BY <1>1, <1>8, <1>9, <1>12, <1>13 DEF IndexInOrder
<1>15. t - k[2] + 0 = t - k[2]
  BY <1>7, <1>10
<1>16. NewFloor \in DOMAIN disk.index /\ disk.index[NewFloor] = <<k[1], 0>>
  BY <1>11, <1>14, <1>15
<1> QED BY <1>16, FilesRead

(* What enforcing retention does to the disk, in the terms of Trimmed. *)
LEMMA RetentionView ==
  ASSUME ReplayInductive, enforce_retention, RetentionDue, NewFloor > mem.floor
  PROVE  Trimmed /\ BoundSame /\ sink' = [pc |-> "floor", floor |-> disk'.retained]
<1>1. TypeOK /\ Structure /\ PublishedInOrder /\ mem.up /\ sink.pc = "retention"
  BY CountersTyped DEF ReplayInductive, enforce_retention
<1>2. mem.floor = disk.retained /\ DOMAIN disk = DiskKeys
  BY <1>1 DEF PublishedInOrder, TypeOK, FilesTypeOK
<1>3. PICK new \in Nat : new = NewFloor
  BY <1>1, NewFloorAligned
<1>4. /\ disk.retained < new /\ new < Len(log) /\ new \in DOMAIN disk.index /\ disk.index[new][2] = 0
  <2>1. disk.retained \in Nat /\ NewFloor \in Nat
    BY <1>1, <1>3 DEF TypeOK, FilesTypeOK
  <2> QED BY <1>1, <1>2, <1>3, <2>1, NewFloorAligned
<1>5. disk' = [disk EXCEPT
                 !.index = Restrict(@, DOMAIN disk.index \ (disk.deleted..(disk.retained - 1))),
                 !.rows = Restrict(@, {k \in DOMAIN disk.rows : k[1] \notin Below}),
                 !.episodes = Restrict(@, DOMAIN disk.episodes \ Below),
                 !.deleted = disk.retained,
                 !.retained = new]
  BY <1>2, <1>3 DEF enforce_retention, DeleteTo, Below
<1>6. /\ DOMAIN disk' = DiskKeys /\ disk'.next_episode = disk.next_episode
      /\ disk'.produced = disk.produced /\ disk'.completed = disk.completed
      /\ disk'.consumed = disk.consumed /\ disk'.metrics = disk.metrics
      /\ disk'.deleted = disk.retained /\ disk'.retained = new
      /\ disk'.mode = disk.mode /\ disk'.identity = disk.identity /\ disk'.schema = disk.schema
      /\ disk'.epsilon = disk.epsilon /\ disk'.scale = disk.scale
  BY <1>2, <1>5 DEF DiskKeys
<1>7. disk'.index = Restrict(disk.index, DOMAIN disk.index \ (disk.deleted..(disk.retained - 1)))
  BY <1>2, <1>5 DEF DiskKeys
<1>8. disk'.rows = Restrict(disk.rows, {k \in DOMAIN disk.rows : k[1] \notin Below})
  BY <1>2, <1>5 DEF DiskKeys
<1>9. disk'.episodes = Restrict(disk.episodes, DOMAIN disk.episodes \ Below)
  BY <1>2, <1>5 DEF DiskKeys
<1>10. /\ DOMAIN disk'.index = DOMAIN disk.index \ (disk.deleted..(disk.retained - 1))
       /\ \A q \in DOMAIN disk'.index : disk'.index[q] = disk.index[q]
       /\ disk'.index = [q \in DOMAIN disk'.index |-> disk'.index[q]]
  BY <1>7 DEF Restrict
<1>11. /\ DOMAIN disk'.rows = {k \in DOMAIN disk.rows : k[1] \notin Below}
       /\ \A k \in DOMAIN disk'.rows : disk'.rows[k] = disk.rows[k]
       /\ disk'.rows = [k \in DOMAIN disk'.rows |-> disk'.rows[k]]
  BY <1>8 DEF Restrict
<1>12. /\ DOMAIN disk'.episodes = DOMAIN disk.episodes \ Below
       /\ \A e \in DOMAIN disk'.episodes : disk'.episodes[e] = disk.episodes[e]
  BY <1>9 DEF Restrict
<1>13. sink' = [pc |-> "floor", floor |-> new] /\ log' = log /\ games' = games
  BY <1>3 DEF enforce_retention
<1> QED BY <1>3, <1>4, <1>6, <1>10, <1>11, <1>12, <1>13 DEF Trimmed, BoundSame


(* What every read of the disk returns after retention. *)
LEMMA TrimmedView ==
  ASSUME TypeOK, Structure, Trimmed
  PROVE  /\ disk.retained \in Nat /\ disk.deleted \in Nat /\ disk.deleted <= disk.retained
         /\ Len(log) \in Nat /\ disk.retained < Len(log)
         /\ DOMAIN disk'.index = disk.retained..(Len(log) - 1)
         /\ DOMAIN disk.index = disk.deleted..(Len(log) - 1)
         /\ \A q \in DOMAIN disk'.index :
              /\ q \in DOMAIN disk.index /\ disk'.index[q] = disk.index[q]
              /\ disk.index[q][1] \notin Below /\ disk.index[q] \in DOMAIN disk'.rows
              /\ disk.index[q][1] \in DOMAIN disk'.episodes
         /\ \A q \in DOMAIN disk.index : disk.index[q][1] \notin Below => q \in DOMAIN disk'.index
<1>1. RowsWhole /\ IndexInOrder
  BY DEF Structure
<1>2. /\ disk.retained \in Nat /\ disk.deleted \in Nat /\ disk.deleted <= disk.retained
      /\ Len(log) \in Nat
  BY <1>1, FilesRead DEF TypeOK, FilesTypeOK, RowsWhole
<1>3. disk.retained < Len(log)
  BY <1>2 DEF Trimmed
<1>4. DOMAIN disk.index = disk.deleted..(Len(log) - 1)
  BY <1>1 DEF RowsWhole
<1>5. DOMAIN disk'.index = disk.retained..(Len(log) - 1)
  <2>1. DOMAIN disk'.index = DOMAIN disk.index \ (disk.deleted..(disk.retained - 1))
    BY DEF Trimmed
  <2> QED BY <1>2, <1>3, <1>4, <2>1
<1>6. ASSUME NEW q \in DOMAIN disk'.index
      PROVE  /\ q \in DOMAIN disk.index /\ disk'.index[q] = disk.index[q]
             /\ disk.index[q][1] \notin Below /\ disk.index[q] \in DOMAIN disk'.rows
             /\ disk.index[q][1] \in DOMAIN disk'.episodes
  <2>1. q \in DOMAIN disk.index /\ ~(q < disk.retained)
    BY <1>2, <1>4, <1>5
  <2>2. disk.index[q][1] \notin Below
    BY <2>1, RowsBelow
  <2>3. disk.index[q] \in DOMAIN disk.rows /\ disk.index[q][1] \in DOMAIN disk.episodes
    BY <1>1, <2>1 DEF RowsWhole, IndexInOrder
  <2> QED BY <2>1, <2>2, <2>3 DEF Trimmed
<1>7. ASSUME NEW q \in DOMAIN disk.index, disk.index[q][1] \notin Below
      PROVE  q \in DOMAIN disk'.index
  <2>1. ~(q < disk.retained)
    BY <1>7, RowsBelow
  <2> QED BY <1>2, <1>4, <1>5, <2>1
<1> QED BY <1>2, <1>3, <1>4, <1>5, <1>6, <1>7

(* Retention deletes only rows below the old floor, with the episodes that own them. *)
LEMMA TrimmedWhole ==
  ASSUME TypeOK, Structure, Trimmed
  PROVE  RowsWhole' /\ EpisodesWhole' /\ CountersWhole'
<1>1. RowsWhole /\ EpisodesWhole /\ CountersWhole /\ IndexInOrder /\ EpisodesInOrder
  BY DEF Structure
<1>2. /\ disk'.deleted = disk.retained /\ disk.retained < disk'.retained /\ disk'.retained \in Nat
      /\ disk'.retained < Len(log) /\ log' = log /\ disk.index[disk'.retained][2] = 0
      /\ disk'.retained \in DOMAIN disk.index
  BY DEF Trimmed
<1>3. /\ disk.retained \in Nat /\ Len(log) \in Nat /\ disk.retained < Len(log)
      /\ DOMAIN disk'.index = disk.retained..(Len(log) - 1)
  BY TrimmedView
<1>4. RowsWhole'
  <2>1. ASSUME NEW q \in DOMAIN disk'.index
        PROVE  disk'.index[q] \in DOMAIN disk'.rows /\ disk'.rows[disk'.index[q]] = log'[q + 1]
    <3>1. PICK k : k = disk.index[q]
      OBVIOUS
    <3>2. q \in DOMAIN disk.index /\ disk'.index[q] = k /\ k \in DOMAIN disk'.rows
      BY <3>1, TrimmedView
    <3>3. disk'.rows[k] = disk.rows[k]
      BY <3>2 DEF Trimmed
    <3>4. disk.rows[k] = log[q + 1]
      BY <1>1, <3>1, <3>2 DEF RowsWhole
    <3> QED BY <1>2, <3>2, <3>3, <3>4
  <2>2. ASSUME NEW k \in DOMAIN disk'.rows
        PROVE  \E q \in DOMAIN disk'.index : disk'.index[q] = k
    <3>1. k \in DOMAIN disk.rows /\ k[1] \notin Below
      BY DEF Trimmed
    <3>2. PICK q \in DOMAIN disk.index : disk.index[q] = k
      BY <1>1, <3>1 DEF RowsWhole, Range
    <3> QED BY <3>1, <3>2, TrimmedView
  <2>3. Range(disk'.index) = DOMAIN disk'.rows
    BY <2>1, <2>2 DEF Range
  <2>4. disk'.deleted <= disk'.retained
    BY <1>2, <1>3
  <2> QED BY <1>2, <1>3, <2>1, <2>3, <2>4 DEF RowsWhole
<1>5. EpisodesWhole'
  <2>1. FirstRowOfEpisode(disk.deleted)'
    <3>1. CASE disk.retained = 0
      BY <1>2, <3>1 DEF FirstRowOfEpisode
    <3>2. CASE disk.retained # 0
      <4>1. disk.index[disk.retained][2] = 0
        BY <1>1, <3>2 DEF EpisodesWhole, FirstRowOfEpisode
      <4>2. disk.retained \in DOMAIN disk'.index
        BY <1>3
      <4> QED BY <1>2, <4>1, <4>2, TrimmedView DEF FirstRowOfEpisode
    <3> QED BY <3>1, <3>2
  <2>2. FirstRowOfEpisode(disk.retained)'
    <3>1. disk'.retained \in DOMAIN disk'.index
      BY <1>2, <1>3
    <3> QED BY <1>2, <3>1, TrimmedView DEF FirstRowOfEpisode
  <2>3. ASSUME NEW k \in DOMAIN disk'.rows
        PROVE  \E e \in DOMAIN disk'.episodes : \E i \in 0..(disk'.episodes[e].rows - 1) : k = <<e, i>>
    <3>1. k \in DOMAIN disk.rows /\ k[1] \notin Below
      BY DEF Trimmed
    <3>2. PICK e \in DOMAIN disk.episodes : \E i \in 0..(disk.episodes[e].rows - 1) : k = <<e, i>>
      BY <1>1, <3>1 DEF EpisodesWhole
    <3>3. k[1] = e
      BY <3>2
    <3>4. e \in DOMAIN disk'.episodes /\ disk'.episodes[e] = disk.episodes[e]
      BY <3>1, <3>3 DEF Trimmed
    <3> QED BY <3>2, <3>4
  <2>4. ASSUME NEW e \in DOMAIN disk'.episodes, NEW i \in 0..(disk'.episodes[e].rows - 1)
        PROVE  <<e, i>> \in DOMAIN disk'.rows
    <3>1. e \in DOMAIN disk.episodes /\ e \notin Below /\ disk'.episodes[e] = disk.episodes[e]
      BY DEF Trimmed
    <3>2. <<e, i>> \in DOMAIN disk.rows
      BY <1>1, <2>4, <3>1 DEF EpisodesWhole
    <3> QED BY <3>1, <3>2 DEF Trimmed
  <2>5. DOMAIN disk'.rows =
          UNION {{<<e, k>> : k \in 0..(disk'.episodes[e].rows - 1)} : e \in DOMAIN disk'.episodes}
    BY <2>3, <2>4
  <2> QED BY <2>1, <2>2, <2>5 DEF EpisodesWhole
<1>6. CountersWhole'
  <2>1. disk'.produced = Len(log') /\ disk'.completed = Cardinality({log'[i].game : i \in 1..Len(log')})
    BY <1>1, <1>2 DEF CountersWhole, Trimmed
  <2>2. recover_next(disk.index)' = Len(log')
    <3>1. Max(disk.retained..(Len(log) - 1)) = Len(log) - 1
      BY <1>3, MaxOfInterval
    <3>2. Max(DOMAIN disk'.index) = Len(log) - 1
      BY <1>3, <3>1
    <3>3. disk.retained \in DOMAIN disk'.index
      BY <1>3
    <3> QED BY <1>2, <1>3, <3>2, <3>3 DEF recover_next
  <2>3. recover_next(disk.episodes)' = disk'.next_episode
    <3>1. PICK b \in Nat : b = EpisodeAt(disk.retained) /\ b < disk.next_episode
      BY <1>3, RowsBelow
    <3>2. PICK a \in Nat : a = EpisodeAt(disk.deleted) /\ a <= b
      BY <3>1, RowsBelow, DeletedEpisode
    <3>3. DOMAIN disk'.episodes = (a..(disk.next_episode - 1)) \ (a..(b - 1))
      BY <3>1, <3>2, DeletedEpisode DEF Trimmed, Below
    <3>4. disk.next_episode \in Nat /\ disk'.next_episode = disk.next_episode
      BY DEF TypeOK, FilesTypeOK, Trimmed
    <3>5. DOMAIN disk'.episodes = b..(disk.next_episode - 1)
      BY <3>1, <3>2, <3>3, <3>4
    <3>6. Max(b..(disk.next_episode - 1)) = disk.next_episode - 1
      BY <3>1, <3>4, MaxOfInterval
    <3>7. Max(DOMAIN disk'.episodes) = disk.next_episode - 1
      BY <3>5, <3>6
    <3>8. b \in DOMAIN disk'.episodes
      BY <3>1, <3>4, <3>5
    <3> QED BY <3>4, <3>7, <3>8 DEF recover_next
  <2> QED BY <2>1, <2>2, <2>3 DEF CountersWhole
<1> QED BY <1>4, <1>5, <1>6


(* After retention the rows left and the episodes left are still in order. *)
LEMMA TrimmedOrder ==
  ASSUME TypeOK, Structure, Trimmed
  PROVE  IndexInOrder' /\ EpisodesInOrder'
<1>1. RowsWhole /\ EpisodesWhole /\ CountersWhole /\ IndexInOrder /\ EpisodesInOrder
  BY DEF Structure
<1>2. /\ disk'.deleted = disk.retained /\ disk'.retained < Len(log) /\ log' = log
      /\ disk'.next_episode = disk.next_episode /\ games' = games
  BY DEF Trimmed
<1>3. /\ disk.retained \in Nat /\ Len(log) \in Nat /\ disk.retained < Len(log)
      /\ DOMAIN disk'.index = disk.retained..(Len(log) - 1) /\ disk.next_episode \in Nat
  BY TrimmedView, FilesRead
<1>4. \A q \in DOMAIN disk'.index : q \in DOMAIN disk.index /\ disk'.index[q] = disk.index[q]
  BY TrimmedView
<1>5. \A e \in DOMAIN disk'.episodes :
        e \in DOMAIN disk.episodes /\ e \notin Below /\ disk'.episodes[e] = disk.episodes[e]
  BY DEF Trimmed
<1>6. IndexInOrder'
  <2>1. ASSUME NEW q \in DOMAIN disk'.index, NEW r \in DOMAIN disk'.index, q <= r
        PROVE  /\ disk'.index[q][1] <= disk'.index[r][1]
               /\ disk'.index[q][1] = disk'.index[r][1] =>
                    disk'.index[r][2] - disk'.index[q][2] = r - q
    BY <1>1, <1>4, <2>1 DEF IndexInOrder
  <2>2. ASSUME NEW q \in DOMAIN disk'.index
        PROVE  LET e == disk'.index[q][1]
                   first == q - disk'.index[q][2]
               IN  /\ e \in DOMAIN disk'.episodes /\ disk'.index[q][2] < disk'.episodes[e].rows
                   /\ \A i \in 0..(disk'.episodes[e].rows - 1) :
                        first + i \in DOMAIN disk'.index /\ disk'.index[first + i] = <<e, i>>
    <3>1. PICK k \in RowKeys : k = disk.index[q] /\ k = disk'.index[q]
      BY <1>4, FilesRead
    <3>2. q \in DOMAIN disk.index /\ k[1] \notin Below /\ k[1] \in DOMAIN disk'.episodes
      BY <3>1, TrimmedView
    <3>3. disk'.episodes[k[1]] = disk.episodes[k[1]] /\ k[1] \in DOMAIN disk.episodes
      BY <1>5, <3>2
    <3>4. k[2] < disk.episodes[k[1]].rows
      BY <1>1, <3>1, <3>2 DEF IndexInOrder
    <3>5. \A i \in 0..(disk.episodes[k[1]].rows - 1) :
            q - k[2] + i \in DOMAIN disk.index /\ disk.index[q - k[2] + i] = <<k[1], i>>
      BY <1>1, <3>1, <3>2 DEF IndexInOrder
    <3>6. ASSUME NEW i \in 0..(disk'.episodes[k[1]].rows - 1)
          PROVE  q - k[2] + i \in DOMAIN disk'.index /\ disk'.index[q - k[2] + i] = <<k[1], i>>
      <4>1. PICK r \in DOMAIN disk.index : r = q - k[2] + i /\ disk.index[r] = <<k[1], i>>
        BY <3>3, <3>5
      <4>2. disk.index[r][1] \notin Below
        BY <3>2, <4>1
      <4>3. r \in DOMAIN disk'.index
        BY <4>2, TrimmedView
      <4> QED BY <1>4, <4>1, <4>3
    <3> QED BY <3>1, <3>2, <3>3, <3>4, <3>6
  <2>3. 0 \in DOMAIN disk'.index => disk'.index[0] = <<0, 0>>
    BY <1>1, <1>4 DEF IndexInOrder
  <2>4. Len(log') # 0 /\ disk'.retained < Len(log')
    BY <1>2, <1>3
  <2> QED BY <2>1, <2>2, <2>3, <2>4 DEF IndexInOrder
<1>7. EpisodesInOrder'
  <2>1. DOMAIN disk'.episodes = EpisodeAt(disk.deleted)'..(disk'.next_episode - 1)
    <3>1. PICK b \in Nat : b = EpisodeAt(disk.retained) /\ b < disk.next_episode
      BY <1>3, RowsBelow
    <3>2. PICK a \in Nat : a = EpisodeAt(disk.deleted) /\ a <= b
      BY <3>1, RowsBelow, DeletedEpisode
    <3>3. DOMAIN disk'.episodes = (a..(disk.next_episode - 1)) \ (a..(b - 1))
      BY <3>1, <3>2, DeletedEpisode DEF Trimmed, Below
    <3>4. DOMAIN disk'.episodes = b..(disk.next_episode - 1)
      BY <1>3, <3>1, <3>2, <3>3
    <3>5. EpisodeAt(disk.deleted)' = b
      <4>1. disk.retained \in DOMAIN disk'.index
        BY <1>3
      <4>2. disk'.index[disk.retained] = disk.index[disk.retained]
        BY <1>4, <4>1
      <4> QED BY <1>2, <3>1, <4>2 DEF EpisodeAt
    <3> QED BY <1>2, <3>4, <3>5
  <2>2. ASSUME NEW e \in DOMAIN disk'.episodes
        PROVE  LET r == disk'.episodes[e]
               IN  /\ r.steps \in Nat /\ r.rows \in Nat \ {0} /\ r.rows \in {r.steps, r.steps + 1}
                   /\ \E q \in DOMAIN disk'.index : disk'.index[q] = <<e, 0>>
                   /\ r.rows = r.steps =>
                        \A i \in 1..Len(log') : log'[i].game = r.game => log'[i].kind # "terminal"
    <3>1. PICK r : r = disk.episodes[e] /\ r = disk'.episodes[e]
      BY <1>5
    <3>2. e \in DOMAIN disk.episodes /\ e \notin Below
      BY <1>5
    <3>3. /\ r.steps \in Nat /\ r.rows \in Nat \ {0} /\ r.rows \in {r.steps, r.steps + 1}
          /\ r.rows = r.steps =>
               \A i \in 1..Len(log) : log[i].game = r.game => log[i].kind # "terminal"
      BY <1>1, <3>1, <3>2 DEF EpisodesInOrder
    <3>4. PICK q \in DOMAIN disk.index : disk.index[q] = <<e, 0>>
      BY <1>1, <3>2 DEF EpisodesInOrder
    <3>5. q \in DOMAIN disk'.index /\ disk'.index[q] = <<e, 0>>
      <4>1. disk.index[q][1] \notin Below
        BY <3>2, <3>4
      <4>2. q \in DOMAIN disk'.index
        BY <4>1, TrimmedView
      <4> QED BY <1>4, <3>4, <4>2
    <3> QED BY <1>2, <3>1, <3>3, <3>5
  <2>3. ASSUME NEW k \in DOMAIN disk'.rows
        PROVE  LET r == disk'.episodes[k[1]]
               IN  /\ disk'.rows[k].game = r.game
                   /\ disk'.rows[k].kind = "terminal" <=> k[2] >= r.steps
    <3>1. k \in DOMAIN disk.rows /\ k[1] \notin Below /\ disk'.rows[k] = disk.rows[k]
      BY DEF Trimmed
    <3>2. k[1] \in DOMAIN disk.episodes
      BY <3>1, FilesRead
    <3>3. disk'.episodes[k[1]] = disk.episodes[k[1]]
      BY <3>1, <3>2 DEF Trimmed
    <3> QED BY <1>1, <3>1, <3>3 DEF EpisodesInOrder
  <2>4. \A i \in 1..Len(log') : log'[i].game < games'
    BY <1>1, <1>2 DEF EpisodesInOrder
  <2> QED BY <2>1, <2>2, <2>3, <2>4 DEF EpisodesInOrder
<1> QED BY <1>6, <1>7

(* Retention keeps the types of the files. *)
LEMMA TrimmedTyped ==
  ASSUME TypeOK, Structure, Trimmed, served' = served
  PROVE  FilesTypeOK'
<1>1. FilesTypeOK
  BY DEF TypeOK
<1>2. disk'.index \in [DOMAIN disk'.index -> RowKeys]
  <2>1. \A q \in DOMAIN disk'.index : disk'.index[q] \in RowKeys
    BY TrimmedView, FilesRead
  <2>2. disk'.index = [q \in DOMAIN disk'.index |-> disk'.index[q]]
    BY DEF Trimmed
  <2> QED BY <2>1, <2>2
<1>3. DOMAIN disk'.rows \subseteq RowKeys /\ disk'.rows \in [DOMAIN disk'.rows -> Row]
  <2>1. DOMAIN disk'.rows \subseteq DOMAIN disk.rows
    BY DEF Trimmed
  <2>2. \A k \in DOMAIN disk'.rows : disk'.rows[k] = disk.rows[k]
    BY DEF Trimmed
  <2>3. \A k \in DOMAIN disk.rows : disk.rows[k] \in Row
    BY <1>1 DEF FilesTypeOK
  <2>4. \A k \in DOMAIN disk'.rows : disk'.rows[k] \in Row
    BY <2>1, <2>2, <2>3
  <2>5. disk'.rows = [k \in DOMAIN disk'.rows |-> disk'.rows[k]]
    BY DEF Trimmed
  <2>6. disk'.rows \in [DOMAIN disk'.rows -> Row]
    BY <2>4, <2>5
  <2> QED BY <1>1, <2>1, <2>6 DEF FilesTypeOK
<1>4. /\ DOMAIN disk' = DiskKeys /\ disk'.next_episode = disk.next_episode
      /\ disk'.retained \in Nat /\ disk'.deleted = disk.retained /\ disk'.metrics = disk.metrics
      /\ disk'.consumed = disk.consumed /\ disk'.completed = disk.completed
      /\ games' = games /\ log' = log
  BY DEF Trimmed
<1> QED BY <1>1, <1>2, <1>3, <1>4 DEF FilesTypeOK

(* A session that misses what was deleted had loaded an older floor.       *)
LEMMA TrimmedSession ==
  ASSUME TypeOK, Structure, Trimmed, mem' = mem, NEW f \in SessionState,
         SessionInOrder(f), SoundSample(f)
  PROVE  SessionInOrder(f)' /\ SoundSample(f)'
<1>1. /\ disk.retained \in Nat /\ disk.deleted \in Nat /\ disk.deleted <= disk.retained
      /\ Len(log) \in Nat /\ DOMAIN disk'.index = disk.retained..(Len(log) - 1)
      /\ f.floor \in Nat /\ f.seq \in Nat
  BY TrimmedView DEF SessionState
<1>2. /\ disk'.deleted = disk.retained /\ log' = log /\ disk'.next_episode = disk.next_episode
      /\ disk'.metrics = disk.metrics
  BY DEF Trimmed
<1>3. \A q \in Nat : disk'.deleted <= q /\ q < Len(log) =>
        q \in DOMAIN disk'.index /\ disk'.index[q] = disk.index[q] /\ disk.deleted <= q
  BY <1>1, <1>2, TrimmedView
<1>4. Began(f) => Began(f)'
  <2>1. ASSUME Began(f), disk'.deleted <= f.floor
        PROVE  f.floor < Len(log') /\ disk'.index[f.floor][1] <= f.key[1]
    <3>1. disk.deleted <= f.floor
      BY <1>1, <1>2, <2>1
    <3>2. f.floor < Len(log) /\ disk.index[f.floor][1] <= f.key[1]
      BY <2>1, <3>1 DEF Began
    <3> QED BY <1>1, <1>2, <1>3, <2>1, <3>2
  <2> QED BY <2>1 DEF Began
<1>5. ASSUME f.pc = "row", f.kind = "rows"
      PROVE  /\ f.floor <= f.seq /\ f.seq < Len(log')
             /\ disk'.deleted <= f.seq => disk'.index[f.seq] = f.key
             /\ f.key \in DOMAIN disk'.rows => disk'.rows[f.key] = log'[f.seq + 1]
  <2>1. /\ f.floor <= f.seq /\ f.seq < Len(log)
        /\ disk.deleted <= f.seq => disk.index[f.seq] = f.key
        /\ f.key \in DOMAIN disk.rows => disk.rows[f.key] = log[f.seq + 1]
    BY <1>5 DEF SessionInOrder
  <2>2. disk'.deleted <= f.seq => disk'.index[f.seq] = f.key
    BY <1>1, <1>3, <2>1
  <2>3. f.key \in DOMAIN disk'.rows =>
          f.key \in DOMAIN disk.rows /\ disk'.rows[f.key] = disk.rows[f.key]
    BY DEF Trimmed
  <2> QED BY <1>2, <2>1, <2>2, <2>3
<1>6. ASSUME f.pc = "row", f.kind = "terminal", f.key[1] \in DOMAIN disk'.episodes
      PROVE  /\ f.key[2] = disk'.episodes[f.key[1]].steps
             /\ disk'.episodes[f.key[1]].rows = f.key[2] + 1
  <2>1. f.key[1] \in DOMAIN disk.episodes /\ disk'.episodes[f.key[1]] = disk.episodes[f.key[1]]
    BY <1>6 DEF Trimmed
  <2> QED BY <1>6, <2>1 DEF SessionInOrder
<1>7. SessionInOrder(f)'
  BY <1>2, <1>4, <1>5, <1>6 DEF SessionInOrder
<1>8. SoundSample(f)'
  <2>1. f.pc \in {"consume", "consumed"} =>
          IF f.kind = "rows" THEN f.row = log'[f.seq + 1]
          ELSE f.row.kind = "terminal" /\ f.row \in Range(log')
    BY <1>2 DEF SoundSample
  <2>2. f.out = "empty" => f.produced = 0 /\ f.key = None
    BY DEF SoundSample
  <2>3. f.out = "missing" => f.floor < disk'.deleted
    BY <1>1, <1>2 DEF SoundSample
  <2>4. f.out = "averages" => f.count >= f.seq /\ f.count <= disk'.metrics
    BY <1>2 DEF SoundSample
  <2>5. f.out = "no terminal" => ~\A i \in 1..Len(log') :
          \E j \in 1..Len(log') : log'[j].game = log'[i].game /\ log'[j].kind = "terminal"
    BY <1>2 DEF SoundSample
  <2> QED BY <2>1, <2>2, <2>3, <2>4, <2>5 DEF SoundSample
<1> QED BY <1>7, <1>8


(* Enforcing retention keeps the invariant, whether or not the floor moves. *)
LEMMA RetentionKept ==
  ASSUME ReplayInductive, enforce_retention
  PROVE  ReplayInductive'
<1>1. /\ TypeOK /\ Structure /\ PublishedInOrder /\ SessionsInOrder /\ SampleSound
      /\ ConsumedExact /\ ConsumedInOrder /\ StoredConforms /\ ContractInOrder
  BY DEF ReplayInductive
<1>2. /\ sink.pc = "retention" /\ mem' = mem /\ session' = session /\ games' = games
      /\ log' = log /\ served' = served
  BY DEF enforce_retention
<1>3. /\ mem.up /\ DOMAIN mem = MemKeys /\ mem.contract # None
      /\ mem.next_episode \in Nat /\ mem.produced \in Nat /\ mem.completed \in Nat
      /\ mem.floor \in Nat /\ mem.averaged \in Nat /\ mem.averaged_games \in Nat
  BY <1>2, CountersTyped
<1>4. /\ mem.next_episode = disk.next_episode /\ mem.completed = disk.completed
      /\ mem.produced = disk.produced /\ mem.averaged = disk.metrics
      /\ mem.averaged_games = disk.metrics /\ mem.floor = disk.retained
      /\ mem.floor < mem.produced \/ (mem.floor = 0 /\ mem.produced = 0)
      /\ \A q \in DOMAIN disk.index : q < mem.produced => disk.index[q][1] < mem.next_episode
  BY <1>1, <1>2, <1>3 DEF PublishedInOrder, Unpublished
<1>5. CASE ~(RetentionDue /\ NewFloor > mem.floor)
  <2>1. sink'.pc = "idle" /\ disk' = disk
    BY <1>5 DEF enforce_retention, Idle
  <2>2. PublishedInOrder'
    BY <1>2, <1>3, <1>4, <2>1 DEF PublishedInOrder, Unpublished
  <2>3. CountersGrow
    BY <1>2, <1>3 DEF CountersGrow
  <2>4. mem'.up = TRUE
    BY <1>1, <1>2, <1>3 DEF TypeOK, ProcessTypeOK
  <2> QED BY <1>2, <1>3, <2>1, <2>2, <2>3, <2>4, PublicationStep
<1>6. CASE RetentionDue /\ NewFloor > mem.floor
  <2>1. Trimmed /\ BoundSame /\ sink' = [pc |-> "floor", floor |-> disk'.retained]
    BY <1>6, RetentionView
  <2>2. sink'.pc = "floor" /\ sink'.floor = disk'.retained
    BY <2>1
  <2>3. TypeOK'
    <3>1. FilesTypeOK'
      BY <1>1, <1>2, <2>1, TrimmedTyped
    <3>2. ProcessTypeOK'
      BY <1>1, <1>2, <2>2 DEF TypeOK, ProcessTypeOK, Appending
    <3> QED BY <1>1, <1>2, <3>1, <3>2 DEF TypeOK
  <2>4. Structure'
    BY <1>1, <2>1, TrimmedWhole, TrimmedOrder DEF Structure
  <2>5. /\ disk'.next_episode = disk.next_episode /\ disk'.completed = disk.completed
        /\ disk'.produced = disk.produced /\ disk'.metrics = disk.metrics
        /\ disk'.deleted = disk.retained /\ disk'.consumed = disk.consumed
    BY <2>1 DEF Trimmed
  <2>6. PublishedInOrder'
    <3>1. \A q \in DOMAIN disk'.index : q \in DOMAIN disk.index /\ disk'.index[q] = disk.index[q]
      BY <1>1, <2>1, TrimmedView
    <3>2. \A q \in DOMAIN disk'.index : q < mem.produced => disk'.index[q][1] < mem.next_episode
      BY <1>4, <3>1
    <3> QED BY <1>2, <1>3, <1>4, <2>2, <2>5, <3>2 DEF PublishedInOrder, Unpublished
  <2>7. ASSUME NEW t \in Sessions PROVE SessionInOrder(session[t])' /\ SoundSample(session[t])'
    <3>1. PICK f \in SessionState : f = session[t]
      BY <1>1 DEF TypeOK
    <3>2. SessionInOrder(f) /\ SoundSample(f)
      BY <1>1, <3>1 DEF SessionsInOrder, SampleSound
    <3>3. SessionInOrder(f)' /\ SoundSample(f)'
      BY <1>1, <1>2, <2>1, <3>2, TrimmedSession
    <3>4. f = session'[t]
      BY <1>2, <3>1
    <3>5. SessionInOrder(session[t])'
      BY <3>3, <3>4 DEF SessionInOrder, Began
    <3>6. SoundSample(session[t])'
      BY <3>3, <3>4 DEF SoundSample
    <3> QED BY <3>5, <3>6
  <2>8. SessionsInOrder' /\ SampleSound'
    BY <2>7 DEF SessionsInOrder, SampleSound
  <2>9. ConsumedExact' /\ ConsumedInOrder'
    BY <1>1, <1>2, <2>5 DEF ConsumedExact, ConsumedInOrder, ConsumedFree
  <2>10. /\ disk'.mode = disk.mode /\ disk'.identity = disk.identity /\ disk'.schema = disk.schema
         /\ disk'.epsilon = disk.epsilon /\ disk'.scale = disk.scale
    BY <2>1 DEF BoundSame
  <2>11. \A e \in DOMAIN disk'.episodes :
           e \in DOMAIN disk.episodes /\ disk'.episodes[e] = disk.episodes[e]
    BY <2>1 DEF Trimmed
  <2>12. StoredConforms'
    BY <1>1, <2>10, <2>11 DEF StoredConforms
  <2>13. ContractInOrder'
    BY <1>1, <1>2, <2>10, <2>11 DEF ContractInOrder
  <2> QED BY <2>3, <2>4, <2>6, <2>8, <2>9, <2>12, <2>13 DEF ReplayInductive
<1> QED BY <1>5, <1>6

-----------------------------------------------------------------------------
(* Every step keeps the store, the process and the sessions in order.      *)
LEMMA NextKept ==
  ASSUME ReplayInductive, Next
  PROVE  ReplayInductive'
<1>1. CASE open_with_retention
  BY <1>1, OpenKept
<1>2. CASE \E c \in Contracts : BindContract(c)
  BY <1>2, BindKept
<1>3. CASE Crash
  BY <1>3, CrashKept
<1>4. CASE AppendGame
  <2>1. CASE \E g \in Games : admit_symmetric(g[1], g[2])
    BY <2>1, AdmitKept
  <2>2. CASE \E a \in Examples : append_episode(a)
    BY <2>2, AppendEpisodeKept
  <2>3. CASE PublishEpisodes \/ PublishProduced \/ PublishAverages \/ PublishAveragedGames
    BY <2>3, PublishEpisodesKept, PublishProducedKept, PublishAveragesKept, PublishAveragedGamesKept
  <2>4. CASE enforce_retention \/ PublishFloor
    BY <2>4, RetentionKept, PublishFloorKept
  <2> QED BY <1>4, <2>1, <2>2, <2>3, <2>4 DEF AppendGame
<1>5. CASE \E s \in Sessions : Sample(s)
  <2>1. PICK s \in Sessions : Sample(s)
    BY <1>5
  <2>2. CASE \E kind \in {"rows", "terminal"}, w \in Windows : LoadFloor(s, kind, w)
    BY <2>2, LoadFloorKept
  <2>3. CASE LoadProduced(s) \/ ReadIndex(s) \/ ReadRow(s) \/ FirstEpisode(s)
    BY <2>3, LoadProducedKept, ReadIndexKept, ReadRowKept, FirstEpisodeKept
  <2>4. CASE PickEpisode(s) \/ ReadEpisode(s) \/ WriteConsumed(s) \/ PublishConsumed(s)
    BY <2>4, PickEpisodeKept, ReadEpisodeKept, WriteConsumedKept, PublishConsumedKept
  <2>5. CASE HelloGames(s) \/ HelloAverages(s) \/ Reply(s)
    BY <2>5, HelloGamesKept, HelloAveragesKept, ReplyKept
  <2> QED BY <2>1, <2>2, <2>3, <2>4, <2>5 DEF Sample
<1> QED BY <1>1, <1>2, <1>3, <1>4, <1>5 DEF Next


-----------------------------------------------------------------------------
(* The stores that a process can find.                                     *)

(* What a closed process and idle sessions have in order. *)
LEMMA InitialProcess ==
  ASSUME Init, FilesTypeOK, Structure, StoredConforms,
         disk.consumed = 0, disk.schema = None => Len(log) = 0,
         \A e \in DOMAIN disk.episodes :
           LET r == disk.episodes[e]
           IN  /\ r.mode \in Modes
               /\ disk.epsilon = None => r.epsilon = IF IsSymmetric(r.mode) THEN 0 ELSE None
               /\ disk.scale = None => r.scale = IF IsSymmetric(r.mode) THEN 0 ELSE None
               /\ ~IsSymmetric(r.mode) => disk.epsilon = None /\ disk.scale = None
  PROVE  ReplayInductive
<1>1. /\ mem = Closed /\ sink = Idle /\ session = [s \in Sessions |-> NoSession] /\ served = 0
  BY DEF Init
<1>2. mem.up = FALSE /\ sink.pc = "idle"
  BY <1>1 DEF Closed, Idle
<1>3. \A s \in Sessions : session[s] = NoSession
  BY <1>1
<1>4. TypeOK
  <2>1. session \in [Sessions -> SessionState]
    BY <1>1, NoSessionSound
  <2>2. ProcessTypeOK
    BY <1>1, <1>2 DEF ProcessTypeOK
  <2> QED BY <2>1, <2>2 DEF TypeOK
<1>5. PublishedInOrder
  BY <1>1, <1>2 DEF PublishedInOrder
<1>6. SessionsInOrder /\ SampleSound
  BY <1>3, NoSessionSound DEF SessionsInOrder, SampleSound
<1>7. ConsumedExact
  BY <1>1, <1>2 DEF ConsumedExact
<1>8. ConsumedInOrder
  BY <1>2, <1>3, NoSessionSound DEF ConsumedInOrder
<1>9. ContractInOrder
  BY <1>2 DEF ContractInOrder
<1> QED BY <1>4, <1>5, <1>6, <1>7, <1>8, <1>9 DEF ReplayInductive

(* A new store is whole. *)
LEMMA EmptyWhole ==
  ASSUME Init, disk = EmptyDisk
  PROVE  ReplayInductive
<1>1. /\ DOMAIN disk = DiskKeys /\ disk.index = <<>> /\ disk.rows = <<>> /\ disk.episodes = <<>>
      /\ disk.next_episode = 0 /\ disk.produced = 0 /\ disk.completed = 0 /\ disk.consumed = 0
      /\ disk.retained = 0 /\ disk.deleted = 0 /\ disk.metrics = 0
  BY DEF EmptyDisk, DiskKeys
<1>2. DOMAIN disk.index = {} /\ DOMAIN disk.rows = {} /\ DOMAIN disk.episodes = {}
  BY <1>1
<1>3. log \in Seq(Row) /\ Len(log) = 0
  <2>1. log = [i \in 1..0 |-> disk.rows[disk.index[i - 1]]]
    BY <1>1 DEF Init
  <2>2. log \in [1..0 -> Row]
    BY <2>1
  <2> QED BY <2>2
<1>4. games = 0 /\ served = 0
  BY <1>1 DEF Init
<1>5. FilesTypeOK
  <2>1. disk.index \in [DOMAIN disk.index -> RowKeys]
    BY <1>1, <1>2
  <2>2. disk.rows \in [DOMAIN disk.rows -> Row] /\ DOMAIN disk.rows \subseteq RowKeys
    BY <1>1, <1>2
  <2> QED BY <1>1, <1>3, <1>4, <2>1, <2>2 DEF FilesTypeOK
<1>6. RowsWhole
  <2>1. DOMAIN disk.index = disk.deleted..(Len(log) - 1)
    BY <1>1, <1>2, <1>3
  <2>2. Range(disk.index) = DOMAIN disk.rows
    BY <1>2 DEF Range
  <2> QED BY <1>1, <1>2, <2>1, <2>2 DEF RowsWhole
<1>7. EpisodesWhole
  BY <1>1, <1>2 DEF EpisodesWhole, FirstRowOfEpisode
<1>8. CountersWhole
  <2>1. {log[i].game : i \in 1..Len(log)} = {}
    BY <1>3
  <2>2. Cardinality({log[i].game : i \in 1..Len(log)}) = 0
    BY <2>1, FS_EmptySet
  <2> QED BY <1>1, <1>2, <1>3, <2>2 DEF CountersWhole, recover_next
<1>9. IndexInOrder
  BY <1>1, <1>2, <1>3 DEF IndexInOrder
<1>10. EpisodesInOrder
  BY <1>1, <1>2, <1>3 DEF EpisodesInOrder, EpisodeAt
<1> QED BY <1>1, <1>2, <1>3, <1>5, <1>6, <1>7, <1>8, <1>9, <1>10, InitialProcess
        DEF Structure, StoredConforms

(* A store of an older build: what its batch held, read by its keys. *)
LegacyBatch(c) ==
  IF IsSymmetric(c.mode) THEN <<LegacyEpisode(c, 1), LegacyEpisode(c, 2)>>
  ELSE <<LegacyEpisode(c, 1)>>

(* The one game an earlier session left is a batch like every other. *)
LEMMA LegacyBatchOf ==
  ASSUME NEW c \in Contracts
  PROVE  /\ BatchOf(LegacyBatch(c))
         /\ \A j \in 1..Len(LegacyBatch(c)) :
              LET r == LegacyBatch(c)[j]
              IN  /\ r.game = 0 /\ r.mode = c.mode /\ r.identity = c.identity /\ r.schema = c.schema
                  /\ r.epsilon = IF IsSymmetric(c.mode) THEN 0 ELSE None
                  /\ r.scale = IF IsSymmetric(c.mode) THEN 0 ELSE None
<1>1. PICK p : p = LegacyEpisode(c, 1)
  OBVIOUS
<1>2. PICK r : r = LegacyEpisode(c, 2)
  OBVIOUS
<1>3. /\ p.game = 0 /\ p.seat = 1 /\ p.steps = 1 /\ p.target = IF IsSymmetric(c.mode) THEN 0 ELSE None
      /\ p.rows = IF IsSymmetric(c.mode) THEN 2 ELSE 1
      /\ p.mode = c.mode /\ p.identity = c.identity /\ p.schema = c.schema
      /\ p.epsilon = IF IsSymmetric(c.mode) THEN 0 ELSE None
      /\ p.scale = IF IsSymmetric(c.mode) THEN 0 ELSE None
  BY <1>1 DEF LegacyEpisode
<1>4. /\ r.game = 0 /\ r.seat = 2 /\ r.steps = 1 /\ r.target = IF IsSymmetric(c.mode) THEN 0 ELSE None
      /\ r.rows = IF IsSymmetric(c.mode) THEN 2 ELSE 1
      /\ r.mode = c.mode /\ r.identity = c.identity /\ r.schema = c.schema
      /\ r.epsilon = IF IsSymmetric(c.mode) THEN 0 ELSE None
      /\ r.scale = IF IsSymmetric(c.mode) THEN 0 ELSE None
  BY <1>2 DEF LegacyEpisode
<1>5. PICK es : es = LegacyBatch(c)
  OBVIOUS
<1>6. CASE IsSymmetric(c.mode)
  <2>1. es = <<p, r>>
    BY <1>1, <1>2, <1>5, <1>6 DEF LegacyBatch
  <2>2. Len(es) = 2 /\ es[1] = p /\ es[2] = r
    BY <2>1
  <2>3. \A j \in 1..Len(es) : j = 1 \/ j = 2
    BY <2>2
  <2>4. BatchOf(es)
    BY <1>3, <1>4, <1>6, <2>2, <2>3 DEF BatchOf
  <2> QED BY <1>3, <1>4, <1>5, <2>2, <2>3, <2>4
<1>7. CASE ~IsSymmetric(c.mode)
  <2>1. es = <<p>>
    BY <1>1, <1>5, <1>7 DEF LegacyBatch
  <2>2. Len(es) = 1 /\ es[1] = p
    BY <2>1
  <2>3. \A j \in 1..Len(es) : j = 1
    BY <2>2
  <2>4. BatchOf(es)
    BY <1>3, <1>7, <2>2, <2>3 DEF BatchOf
  <2> QED BY <1>3, <1>5, <2>2, <2>3, <2>4
<1> QED BY <1>6, <1>7

\* An earlier session's store holds exactly the one batch es, from position and episode 0.
Found(es) ==
  /\ DOMAIN disk.index = 0..(BatchRows(es) - 1)
  /\ \A i \in 0..(BatchRows(es) - 1) : disk.index[i] = BatchKey(0, es, i)
  /\ DOMAIN disk.episodes = 0..(Len(es) - 1)
  /\ \A e \in 0..(Len(es) - 1) : disk.episodes[e] = es[e + 1]
  /\ DOMAIN disk.rows = BatchKeys(0, es)
  /\ \A k \in BatchKeys(0, es) : disk.rows[k] = BatchRow(0, es, k)
  /\ disk.index = [q \in DOMAIN disk.index |-> disk.index[q]]
  /\ disk.rows = [k \in DOMAIN disk.rows |-> disk.rows[k]]

(* What every read of the disk of an earlier session returns. *)
LEMMA LegacyView ==
  ASSUME Init, NEW c \in Contracts, disk = Legacy(c), NEW es, es = LegacyBatch(c)
  PROVE  /\ DOMAIN disk = DiskKeys /\ disk.next_episode = Len(es) /\ disk.produced = BatchRows(es)
         /\ disk.completed = 1 /\ disk.consumed = 0 /\ disk.retained = 0 /\ disk.deleted = 0
         /\ disk.metrics = 0 /\ disk.mode = (IF IsSymmetric(c.mode) THEN c.mode ELSE None)
         /\ disk.identity = None /\ disk.schema = c.schema
         /\ disk.epsilon = None /\ disk.scale = None
         /\ Found(es)
<1>1. PICK d : d = EmptyDisk
  OBVIOUS
<1>2. /\ DOMAIN d = DiskKeys /\ d.index = <<>> /\ d.rows = <<>> /\ d.episodes = <<>>
      /\ d.next_episode = 0 /\ d.produced = 0 /\ d.completed = 0 /\ d.consumed = 0
      /\ d.retained = 0 /\ d.deleted = 0 /\ d.metrics = 0
      /\ d.identity = None /\ d.epsilon = None /\ d.scale = None
  BY <1>1 DEF EmptyDisk, DiskKeys
<1>3. DOMAIN d.index = {} /\ DOMAIN d.rows = {} /\ DOMAIN d.episodes = {}
  BY <1>2
<1>4. PICK D : D = stage_episodes(d, es)
  OBVIOUS
<1>5. BatchOf(es)
  BY LegacyBatchOf
<1>6. /\ DOMAIN D = DiskKeys /\ D.next_episode = d.next_episode + Len(es)
      /\ D.produced = d.produced + BatchRows(es)
      /\ D.completed = d.completed /\ D.consumed = d.consumed /\ D.retained = d.retained
      /\ D.deleted = d.deleted /\ D.metrics = d.metrics /\ D.identity = d.identity
      /\ D.epsilon = d.epsilon /\ D.scale = d.scale
  BY <1>2, <1>4, StageFields
<1>7. Staged(d, D, es, 0, 0)
  BY <1>2, <1>4, <1>5, StageReads
<1>8. disk = [D EXCEPT !.mode = IF IsSymmetric(c.mode) THEN c.mode ELSE None,
                       !.completed = 1, !.schema = c.schema]
  BY <1>1, <1>4 DEF Legacy, LegacyBatch
<1>9. /\ DOMAIN disk = DiskKeys /\ disk.next_episode = D.next_episode /\ disk.produced = D.produced
      /\ disk.completed = 1 /\ disk.consumed = D.consumed /\ disk.retained = D.retained
      /\ disk.deleted = D.deleted /\ disk.metrics = D.metrics /\ disk.identity = D.identity
      /\ disk.mode = (IF IsSymmetric(c.mode) THEN c.mode ELSE None) /\ disk.schema = c.schema
      /\ disk.epsilon = D.epsilon /\ disk.scale = D.scale
      /\ disk.index = D.index /\ disk.rows = D.rows /\ disk.episodes = D.episodes
  BY <1>6, <1>8 DEF DiskKeys
<1>10. PICK R \in Nat \ {0} : R = BatchRows(es)
  BY <1>5, BatchOrder
<1>11. PICK l \in {1, 2} : l = Len(es)
  BY <1>5 DEF BatchOf
<1>12. DOMAIN D.index = {} \cup 0..(0 + R - 1) /\ \A i \in 0..(R - 1) : D.index[0 + i] = BatchKey(0, es, i)
  BY <1>3, <1>7, <1>10 DEF Staged
<1>13. DOMAIN disk.index = 0..(R - 1) /\ \A i \in 0..(R - 1) : disk.index[i] = BatchKey(0, es, i)
  <2>1. 0 + R - 1 = R - 1 /\ \A i \in 0..(R - 1) : 0 + i = i
    OBVIOUS
  <2> QED BY <1>9, <1>12, <2>1
<1>14. /\ DOMAIN D.episodes = {} \cup 0..(0 + l - 1)
       /\ \A e \in 0..(0 + l - 1) : D.episodes[e] = es[e - 0 + 1]
  BY <1>3, <1>7, <1>11 DEF Staged
<1>15. DOMAIN disk.episodes = 0..(l - 1) /\ \A e \in 0..(l - 1) : disk.episodes[e] = es[e + 1]
  <2>1. 0 + l - 1 = l - 1 /\ \A e \in 0..(l - 1) : e - 0 + 1 = e + 1
    OBVIOUS
  <2> QED BY <1>9, <1>14, <2>1
<1>16. /\ DOMAIN disk.rows = BatchKeys(0, es)
       /\ \A k \in BatchKeys(0, es) : disk.rows[k] = BatchRow(0, es, k)
       /\ disk.index = [q \in DOMAIN disk.index |-> disk.index[q]]
       /\ disk.rows = [k \in DOMAIN disk.rows |-> disk.rows[k]]
  BY <1>3, <1>7, <1>9 DEF Staged
<1>17. disk.next_episode = l /\ disk.produced = R
  BY <1>2, <1>6, <1>9, <1>10, <1>11
<1>18. /\ disk.consumed = 0 /\ disk.retained = 0 /\ disk.deleted = 0 /\ disk.metrics = 0
       /\ disk.identity = None /\ disk.epsilon = None /\ disk.scale = None
  BY <1>2, <1>6, <1>9
<1>19. Found(es)
  BY <1>10, <1>11, <1>13, <1>15, <1>16 DEF Found
<1> QED BY <1>9, <1>10, <1>11, <1>17, <1>18, <1>19


(* The store of an earlier session is whole. *)
LEMMA LegacyWhole ==
  ASSUME Init, NEW c \in Contracts, disk = Legacy(c)
  PROVE  ReplayInductive
<1>1. PICK es : es = LegacyBatch(c)
  OBVIOUS
<1>2. BatchOf(es)
  BY <1>1, LegacyBatchOf
<1>3. PICK R \in Nat \ {0} : R = BatchRows(es)
  BY <1>2, BatchOrder
<1>4. PICK l \in {1, 2} : l = Len(es)
  BY <1>2 DEF BatchOf
<1>5. /\ DOMAIN disk = DiskKeys /\ disk.next_episode = l /\ disk.produced = R
      /\ disk.completed = 1 /\ disk.consumed = 0 /\ disk.retained = 0 /\ disk.deleted = 0
      /\ disk.metrics = 0 /\ disk.mode = (IF IsSymmetric(c.mode) THEN c.mode ELSE None)
      /\ disk.identity = None /\ disk.schema = c.schema
      /\ disk.epsilon = None /\ disk.scale = None /\ Found(es)
  BY <1>1, <1>3, <1>4, LegacyView
<1>6. DOMAIN disk.index = 0..(R - 1) /\ \A i \in 0..(R - 1) : disk.index[i] = BatchKey(0, es, i)
  BY <1>3, <1>5 DEF Found
<1>7. DOMAIN disk.episodes = 0..(l - 1) /\ \A e \in 0..(l - 1) : disk.episodes[e] = es[e + 1]
  BY <1>4, <1>5 DEF Found
<1>8. /\ DOMAIN disk.rows = BatchKeys(0, es)
      /\ \A k \in BatchKeys(0, es) : disk.rows[k] = BatchRow(0, es, k)
      /\ disk.index = [q \in DOMAIN disk.index |-> disk.index[q]]
      /\ disk.rows = [k \in DOMAIN disk.rows |-> disk.rows[k]]
  BY <1>5 DEF Found
<1>9. \A j \in 1..l : /\ es[j].game = 0 /\ es[j].mode = c.mode /\ es[j].identity = c.identity
                      /\ es[j].schema = c.schema
                      /\ es[j].epsilon = IF IsSymmetric(c.mode) THEN 0 ELSE None
                      /\ es[j].scale = IF IsSymmetric(c.mode) THEN 0 ELSE None
  BY <1>1, <1>4, LegacyBatchOf
<1>10. \A q \in 0..(R - 1) : KeyInBatch(0, es, q, disk.index[q]) /\ disk.index[q] \in BatchKeys(0, es)
  <2>1. \A q \in 0..(R - 1) : KeyInBatch(0, es, q, BatchKey(0, es, q))
    BY <1>2, <1>3, BatchOrder
  <2> QED BY <1>3, <1>6, <2>1 DEF BatchKeys
<1>11. \A k \in BatchKeys(0, es) : \E q \in 0..(R - 1) : disk.index[q] = k
  BY <1>3, <1>6 DEF BatchKeys
<1>12. ASSUME NEW k \in BatchKeys(0, es)
       PROVE  /\ k \in RowKeys /\ k[1] \in 0..(l - 1) /\ k[2] \in Nat
              /\ k[2] < disk.episodes[k[1]].rows /\ BatchRow(0, es, k) \in Row
              /\ disk.rows[k].game = 0 /\ disk.rows[k].game = disk.episodes[k[1]].game
              /\ disk.rows[k].kind = IF k[2] < disk.episodes[k[1]].steps THEN "decision" ELSE "terminal"
  <2>1. PICK q \in 0..(R - 1) : disk.index[q] = k
    BY <1>11
  <2>2. /\ k \in RowKeys /\ k[1] \in 0..(0 + Len(es) - 1) /\ k[2] < es[k[1] - 0 + 1].rows
    BY <1>10, <2>1 DEF KeyInBatch
  <2>3. PICK e \in 0..(l - 1) : e = k[1]
    BY <1>4, <2>2
  <2>4. PICK j \in 1..l : j = k[1] - 0 + 1 /\ j = e + 1
    <3>1. e + 1 \in 1..l /\ e - 0 + 1 = e + 1
      OBVIOUS
    <3> QED BY <2>3, <3>1
  <2>5. disk.episodes[k[1]] = es[j]
    BY <1>7, <2>3, <2>4
  <2>6. /\ BatchRow(0, es, k).game = es[j].game
        /\ BatchRow(0, es, k).kind = IF k[2] < es[j].steps THEN "decision" ELSE "terminal"
    BY <2>4 DEF BatchRow
  <2>7. BatchRow(0, es, k) \in Row
    BY <1>2, <1>4, <1>9, BatchRowTyped
  <2>8. k[2] \in Nat
    BY <2>2 DEF RowKeys
  <2> QED BY <1>8, <1>9, <2>2, <2>3, <2>4, <2>5, <2>6, <2>7, <2>8
<1>13. log \in Seq(Row) /\ Len(log) = R /\ \A q \in 0..(R - 1) : log[q + 1] = disk.rows[disk.index[q]]
  <2>1. log = [i \in 1..R |-> disk.rows[disk.index[i - 1]]]
    BY <1>5 DEF Init
  <2>2. ASSUME NEW i \in 1..R PROVE disk.rows[disk.index[i - 1]] \in Row
    <3>1. i - 1 \in 0..(R - 1)
      OBVIOUS
    <3>2. PICK k \in BatchKeys(0, es) : k = disk.index[i - 1]
      BY <1>10, <3>1
    <3> QED BY <1>8, <1>12, <3>2
  <2>3. log \in [1..R -> Row]
    BY <2>1, <2>2
  <2>4. log \in Seq(Row) /\ Len(log) = R
    BY <2>3
  <2>5. \A q \in 0..(R - 1) : q + 1 \in 1..R /\ (q + 1) - 1 = q
    OBVIOUS
  <2> QED BY <2>1, <2>4, <2>5
<1>14. games = 1 /\ served = 0
  BY <1>5 DEF Init
<1>15. \A i \in 1..R : log[i].game = 0
  <2> SUFFICES ASSUME NEW i \in 1..R PROVE log[i].game = 0
    OBVIOUS
  <2>1. PICK q \in 0..(R - 1) : i = q + 1
    <3>1. i - 1 \in 0..(R - 1) /\ i = (i - 1) + 1
      OBVIOUS
    <3> QED BY <3>1
  <2>2. PICK k \in BatchKeys(0, es) : k = disk.index[q]
    BY <1>10, <2>1
  <2>3. log[i] = disk.rows[k]
    BY <1>13, <2>1, <2>2
  <2> QED BY <1>12, <2>2, <2>3
<1>16. FilesTypeOK
  <2>1. \A q \in DOMAIN disk.index : disk.index[q] \in RowKeys
    BY <1>6, <1>10, <1>12
  <2>2. disk.index \in [DOMAIN disk.index -> RowKeys]
    BY <1>8, <2>1
  <2>3. \A k \in DOMAIN disk.rows : k \in RowKeys /\ disk.rows[k] \in Row
    BY <1>8, <1>12
  <2>4. DOMAIN disk.rows \subseteq RowKeys /\ disk.rows \in [DOMAIN disk.rows -> Row]
    BY <1>8, <2>3
  <2> QED BY <1>5, <1>13, <1>14, <2>2, <2>4 DEF FilesTypeOK
<1>17. RowsWhole
  <2>1. DOMAIN disk.index = disk.deleted..(Len(log) - 1)
    BY <1>5, <1>6, <1>13
  <2>2. \A q \in DOMAIN disk.index :
          disk.index[q] \in DOMAIN disk.rows /\ disk.rows[disk.index[q]] = log[q + 1]
    BY <1>6, <1>8, <1>10, <1>13
  <2>3. Range(disk.index) = DOMAIN disk.rows
    BY <1>6, <1>8, <1>10, <1>11 DEF Range
  <2> QED BY <1>5, <2>1, <2>2, <2>3 DEF RowsWhole
<1>18. EpisodesWhole
  <2>1. ASSUME NEW k \in DOMAIN disk.rows
        PROVE  \E e \in DOMAIN disk.episodes : \E i \in 0..(disk.episodes[e].rows - 1) : k = <<e, i>>
    <3>1. k \in RowKeys /\ k[1] \in DOMAIN disk.episodes /\ k[2] \in Nat /\ k[2] < disk.episodes[k[1]].rows
      BY <1>7, <1>8, <1>12
    <3>2. k = <<k[1], k[2]>>
      BY <3>1 DEF RowKeys
    <3>3. disk.episodes[k[1]].rows \in Nat
      <4>1. PICK e \in 0..(l - 1) : e = k[1]
        BY <1>7, <3>1
      <4>2. e + 1 \in 1..Len(es) /\ disk.episodes[e] = es[e + 1]
        BY <1>4, <1>7
      <4> QED BY <1>2, <4>1, <4>2 DEF BatchOf
    <3>4. k[2] \in 0..(disk.episodes[k[1]].rows - 1)
      BY <3>1, <3>3
    <3> QED BY <3>1, <3>2, <3>4
  <2>2. ASSUME NEW e \in DOMAIN disk.episodes, NEW i \in 0..(disk.episodes[e].rows - 1)
        PROVE  <<e, i>> \in DOMAIN disk.rows
    <3>1. e \in 0..(l - 1) /\ e - 0 + 1 = e + 1 /\ 0 + Len(es) - 1 = l - 1
      BY <1>4, <1>7
    <3>2. e \in 0..(0 + Len(es) - 1) /\ i \in 0..(es[e - 0 + 1].rows - 1)
      BY <1>7, <2>2, <3>1
    <3>3. 0 \in Nat
      OBVIOUS
    <3>4. <<e, i>> \in BatchKeys(0, es)
      BY <1>2, <3>2, <3>3, BatchOrder
    <3> QED BY <1>8, <3>4
  <2>3. DOMAIN disk.rows =
          UNION {{<<e, k>> : k \in 0..(disk.episodes[e].rows - 1)} : e \in DOMAIN disk.episodes}
    BY <2>1, <2>2
  <2> QED BY <1>5, <2>3 DEF EpisodesWhole, FirstRowOfEpisode
<1>19. CountersWhole
  <2>1. recover_next(disk.index) = R
    <3>1. Max(0..(R - 1)) = R - 1
      BY MaxOfInterval
    <3>2. 0 \in 0..(R - 1)
      OBVIOUS
    <3> QED BY <1>6, <3>1, <3>2 DEF recover_next
  <2>2. recover_next(disk.episodes) = l
    <3>1. Max(0..(l - 1)) = l - 1
      BY MaxOfInterval
    <3>2. 0 \in 0..(l - 1)
      OBVIOUS
    <3> QED BY <1>7, <3>1, <3>2 DEF recover_next
  <2>3. {log[i].game : i \in 1..Len(log)} = {0}
    <3>1. 1 \in 1..R
      OBVIOUS
    <3> QED BY <1>13, <1>15, <3>1
  <2>4. Cardinality({log[i].game : i \in 1..Len(log)}) = 1
    BY <2>3, FS_Singleton
  <2> QED BY <1>5, <1>13, <2>1, <2>2, <2>4 DEF CountersWhole
<1>20. IndexInOrder
  <2>1. ASSUME NEW q \in DOMAIN disk.index, NEW r \in DOMAIN disk.index, q <= r
        PROVE  /\ disk.index[q][1] <= disk.index[r][1]
               /\ disk.index[q][1] = disk.index[r][1] => disk.index[r][2] - disk.index[q][2] = r - q
    <3>1. KeysInOrder(BatchKey(0, es, q), BatchKey(0, es, r), r - q)
      BY <1>2, <1>3, <1>6, <2>1, BatchOrder
    <3>2. disk.index[q] = BatchKey(0, es, q) /\ disk.index[r] = BatchKey(0, es, r)
      BY <1>6
    <3> QED BY <3>1, <3>2 DEF KeysInOrder
  <2>2. ASSUME NEW q \in DOMAIN disk.index
        PROVE  LET e == disk.index[q][1]
                   first == q - disk.index[q][2]
               IN  /\ e \in DOMAIN disk.episodes /\ disk.index[q][2] < disk.episodes[e].rows
                   /\ \A i \in 0..(disk.episodes[e].rows - 1) :
                        first + i \in DOMAIN disk.index /\ disk.index[first + i] = <<e, i>>
    <3>1. PICK k \in BatchKeys(0, es) : k = disk.index[q] /\ KeyInBatch(0, es, q, k)
      BY <1>6, <1>10
    <3>2. k[1] \in DOMAIN disk.episodes /\ k[2] < disk.episodes[k[1]].rows
      BY <1>7, <1>12
    <3>3. \A i \in 0..(es[k[1] - 0 + 1].rows - 1) :
            q - k[2] + i \in 0..(R - 1) /\ BatchKey(0, es, q - k[2] + i) = <<k[1], i>>
      BY <1>3, <3>1 DEF KeyInBatch
    <3>4. disk.episodes[k[1]] = es[k[1] - 0 + 1]
      <4>1. PICK e \in 0..(l - 1) : e = k[1]
        BY <1>7, <3>2
      <4>2. e - 0 + 1 = e + 1
        OBVIOUS
      <4> QED BY <1>7, <4>1, <4>2
    <3>5. ASSUME NEW i \in 0..(disk.episodes[k[1]].rows - 1)
          PROVE  q - k[2] + i \in DOMAIN disk.index /\ disk.index[q - k[2] + i] = <<k[1], i>>
      <4>1. PICK m \in 0..(R - 1) : m = q - k[2] + i /\ BatchKey(0, es, m) = <<k[1], i>>
        BY <3>3, <3>4
      <4> QED BY <1>6, <4>1
    <3> QED BY <3>1, <3>2, <3>5
  <2>3. disk.index[0] = <<0, 0>>
    <3>1. 0 \in 0..(R - 1) /\ 0 \in Nat
      OBVIOUS
    <3>2. BatchKey(0, es, 0) = <<0, 0>>
      BY <1>2, <3>1, BatchOrder
    <3> QED BY <1>6, <3>1, <3>2
  <2> QED BY <1>5, <1>13, <2>1, <2>2, <2>3 DEF IndexInOrder
<1>21. EpisodesInOrder
  <2>1. DOMAIN disk.episodes = EpisodeAt(disk.deleted)..(disk.next_episode - 1)
    BY <1>5, <1>7 DEF EpisodeAt
  <2>2. ASSUME NEW e \in DOMAIN disk.episodes
        PROVE  LET r == disk.episodes[e]
               IN  /\ r.steps \in Nat /\ r.rows \in Nat \ {0} /\ r.rows \in {r.steps, r.steps + 1}
                   /\ \E q \in DOMAIN disk.index : disk.index[q] = <<e, 0>>
                   /\ r.rows = r.steps =>
                        \A i \in 1..Len(log) : log[i].game = r.game => log[i].kind # "terminal"
    <3>1. PICK j \in 1..l : j = e + 1 /\ disk.episodes[e] = es[j]
      <4>1. e \in 0..(l - 1)
        BY <1>7
      <4>2. e + 1 \in 1..l
        BY <4>1
      <4> QED BY <1>7, <4>2
    <3>2. /\ es[j].steps \in Nat /\ es[j].rows \in Nat \ {0}
          /\ es[j].rows \in {es[j].steps, es[j].steps + 1} /\ (es[j].rows = es[j].steps => l = 1)
      BY <1>2, <1>4 DEF BatchOf
    <3>3. \E q \in DOMAIN disk.index : disk.index[q] = <<e, 0>>
      <4>1. 0 \in 0..(disk.episodes[e].rows - 1)
        BY <3>1, <3>2
      <4>2. <<e, 0>> \in DOMAIN disk.rows
        BY <1>18, <2>2, <4>1 DEF EpisodesWhole
      <4> QED BY <1>17, <4>2 DEF RowsWhole, Range
    <3>4. ASSUME es[j].rows = es[j].steps, NEW i \in 1..Len(log)
          PROVE  log[i].kind # "terminal"
      <4>1. PICK q \in 0..(R - 1) : i = q + 1
        <5>1. i - 1 \in 0..(R - 1) /\ i = (i - 1) + 1
          BY <1>13
        <5> QED BY <5>1
      <4>2. PICK k \in BatchKeys(0, es) : k = disk.index[q] /\ log[i] = disk.rows[k]
        BY <1>10, <1>13, <4>1
      <4>3. k[1] \in 0..(l - 1) /\ l = 1 /\ e \in 0..(l - 1)
        BY <1>7, <1>12, <3>2, <3>4
      <4>4. k[1] = e
        BY <4>3
      <4>5. /\ k[2] < es[j].rows
            /\ disk.rows[k].kind = IF k[2] < es[j].steps THEN "decision" ELSE "terminal"
        BY <1>12, <3>1, <4>4
      <4> QED BY <3>4, <4>2, <4>5
    <3> QED BY <3>1, <3>2, <3>3, <3>4
  <2>3. ASSUME NEW k \in DOMAIN disk.rows
        PROVE  LET r == disk.episodes[k[1]]
               IN  /\ disk.rows[k].game = r.game /\ (disk.rows[k].kind = "terminal" <=> k[2] >= r.steps)
    <3>1. /\ disk.rows[k].game = disk.episodes[k[1]].game /\ k[2] \in Nat /\ k[1] \in 0..(l - 1)
          /\ disk.rows[k].kind = IF k[2] < disk.episodes[k[1]].steps THEN "decision" ELSE "terminal"
      BY <1>8, <1>12
    <3>2. disk.episodes[k[1]].steps \in Nat
      BY <1>7, <2>2, <3>1
    <3> QED BY <3>1, <3>2
  <2>4. \A i \in 1..Len(log) : log[i].game < games
    BY <1>13, <1>14, <1>15
  <2> QED BY <2>1, <2>2, <2>3, <2>4 DEF EpisodesInOrder
<1>22. ASSUME NEW e \in DOMAIN disk.episodes
       PROVE  LET r == disk.episodes[e]
              IN  /\ r.mode = c.mode /\ r.identity = c.identity /\ r.schema = c.schema
                  /\ r.epsilon = IF IsSymmetric(c.mode) THEN 0 ELSE None
                  /\ r.scale = IF IsSymmetric(c.mode) THEN 0 ELSE None
  <2>1. e + 1 \in 1..l /\ disk.episodes[e] = es[e + 1]
    BY <1>7
  <2> QED BY <1>9, <2>1
<1>23. c.mode \in Modes /\ c.schema # None
  BY ContractsAssumption
<1>24. StoredConforms
  <2>1. ~IsSymmetric(c.mode) => c.mode = "standard"
    BY <1>23 DEF Modes, IsSymmetric
  <2>2. IsSymmetric(c.mode) => c.mode # None
    BY <1>23, NoneAssumption
  <2> QED BY <1>5, <1>22, <2>1, <2>2 DEF StoredConforms
<1>25. Structure
  BY <1>17, <1>18, <1>19, <1>20, <1>21 DEF Structure
<1> QED BY <1>5, <1>16, <1>22, <1>23, <1>24, <1>25, InitialProcess

-----------------------------------------------------------------------------
(* The store is whole and in order in every state: what is on disk, what   *)
(* the process has published of it and what every session has read.        *)
THEOREM ReplayInvariant == Spec => []ReplayInductive
<1>1. Init => ReplayInductive
  <2>1. ASSUME Init PROVE disk = EmptyDisk \/ \E c \in Contracts : disk = Legacy(c)
    BY <2>1 DEF Init
  <2> QED BY <2>1, EmptyWhole, LegacyWhole
<1>2. ReplayInductive /\ [Next]_vars => ReplayInductive'
  BY NextKept, StutterKept
<1> QED BY <1>1, <1>2, PTL DEF Spec

(* At every instant of an append, of retention and of the recording of     *)
(* consumption, and so after a crash at any of them, the store is whole    *)
(* and its counters are those of what was appended and served.             *)
THEOREM StoreStaysWhole == Spec => []StoreConsistent
<1>1. ReplayInductive => StoreConsistent
  <2> SUFFICES ASSUME ReplayInductive PROVE StoreConsistent
    OBVIOUS
  <2>1. TypeOK /\ Structure /\ PublishedInOrder /\ ConsumedExact
    BY DEF ReplayInductive
  <2>2. RowsWhole /\ EpisodesWhole /\ CountersWhole
    BY <2>1 DEF Structure
  <2>3. disk.deleted \in Nat /\ disk.retained \in Nat /\ disk.deleted <= disk.retained
    BY <2>1, <2>2 DEF TypeOK, FilesTypeOK, RowsWhole
  <2>4. mem.up => mem.floor <= disk.retained /\ disk.deleted <= mem.floor
    BY <2>1, <2>3 DEF PublishedInOrder
  <2>5. mem.up =>
          /\ mem.produced <= disk.produced /\ mem.next_episode <= disk.next_episode
          /\ sink.pc = "idle" =>
               /\ mem.produced = disk.produced /\ mem.next_episode = disk.next_episode
               /\ mem.completed = disk.completed /\ mem.floor = disk.retained
               /\ mem.averaged = disk.metrics /\ mem.averaged_games = disk.metrics
    BY <2>1 DEF PublishedInOrder, Unpublished
  <2>6. StoreWhole
    BY <2>2, <2>4, <2>5 DEF StoreWhole
  <2> QED BY <2>1, <2>6 DEF StoreConsistent
<1> QED BY <1>1, ReplayInvariant, PTL

(* A session that reads without a lock, while batches are written, floors  *)
(* rise and rows are deleted, gets the row of its sequence number or an    *)
(* answer that is true.                                                    *)
THEOREM SamplesSound == Spec => []SampleSound
BY ReplayInvariant, PTL DEF ReplayInductive

(* Whatever contracts the processes ask for, one after the other, an       *)
(* episode on disk was produced under what the store is bound to.          *)
THEOREM StoredUnderContract == Spec => []StoredConforms
BY ReplayInvariant, PTL DEF ReplayInductive
=============================================================================
