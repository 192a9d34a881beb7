------------------------- MODULE CheckpointsProofs -------------------------
(***************************************************************************)
(* Proofs about Checkpoints, for any number of steps and runs, all publish *)
(* and pin intervals and every retention: whatever filesystem operation    *)
(* the trainer dies before, the pointers on disk stay good.                *)
(***************************************************************************)
EXTENDS Checkpoints, FiniteSetTheorems, WellFoundedInduction, TLAPS

-----------------------------------------------------------------------------
(* A set of natural numbers that is not empty has a least element. *)
LEMMA LeastOfNat ==
  ASSUME NEW S, S \subseteq Nat, S # {}
  PROVE  \E m \in S : \A n \in S : m <= n
<1> DEFINE Below == {p \in Nat \X Nat : p[1] < p[2]}
<1>1. IsWellFoundedOn(Below, Nat)
  BY NatLessThanWellFounded, Zenon DEF OpToRel
<1> HIDE DEF Below
<1>2. PICK x \in S : \A y \in S : ~(<<y, x>> \in Below)
  BY <1>1, WFMin
<1>3. \A y \in S : ~(y < x)
  BY <1>2 DEF Below
<1> QED BY <1>3

(* A finite one also has a greatest: among the counterexamples none is the   *)
(* smallest.                                                                 *)
LEMMA GreatestOfNat ==
  ASSUME NEW S, S \subseteq Nat, IsFiniteSet(S), S # {}
  PROVE  \E m \in S : \A n \in S : n <= m
<1> DEFINE Open(T) == T # {} /\ IsFiniteSet(T) /\ ~(\E m \in T : \A n \in T : n <= m)
           Sizes == {c \in Nat : \E T \in SUBSET Nat : Open(T) /\ Cardinality(T) = c}
<1> SUFFICES ASSUME Open(S) PROVE FALSE
  OBVIOUS
<1>1. Cardinality(S) \in Nat
  BY FS_CardinalityType
<1>2. Cardinality(S) \in Sizes
  BY <1>1
<1>3. PICK c \in Sizes : \A d \in Sizes : c <= d
  <2>1. Sizes \subseteq Nat
    OBVIOUS
  <2> HIDE DEF Sizes
  <2> QED BY <1>2, <2>1, LeastOfNat
<1>4. PICK T \in SUBSET Nat : Open(T) /\ Cardinality(T) = c
  BY <1>3
<1>5. PICK x : x \in T
  BY <1>4
<1>6. IsFiniteSet(T \ {x}) /\ Cardinality(T \ {x}) = c - 1 /\ c \in Nat
  BY <1>3, <1>4, <1>5, FS_RemoveElement, FS_CardinalityType
<1>7. Cardinality(T \ {x}) \in Nat
  BY <1>6, FS_CardinalityType
<1>8. ~Open(T \ {x})
  <2> SUFFICES ASSUME Open(T \ {x}) PROVE FALSE
    OBVIOUS
  <2>1. c - 1 \in Sizes
    BY <1>4, <1>6, <1>7
  <2> HIDE DEF Sizes, Open
  <2> QED BY <1>3, <1>6, <2>1
<1>9. CASE T \ {x} = {}
  <2>1. T = {x}
    BY <1>5, <1>9
  <2> QED BY <1>4, <2>1
<1>10. CASE T \ {x} # {}
  <2>1. PICK m \in T \ {x} : \A n \in T \ {x} : n <= m
    BY <1>6, <1>8, <1>10
  <2>2. CASE x <= m
    BY <1>4, <1>5, <2>1, <2>2
  <2>3. CASE ~(x <= m)
    <3>1. \A n \in T : n <= x
      BY <1>4, <1>5, <2>1, <2>3
    <3> QED BY <1>4, <1>5, <3>1
  <2> QED BY <2>2, <2>3
<1> QED BY <1>9, <1>10

-----------------------------------------------------------------------------
(* The next directory, as a function of the directories that are there.      *)

NextAfter(D) == Max({k + 1 : k \in D} \cup {0})

(* _next_version_dir is past every directory, by one. *)
LEMMA NextIsPast ==
  ASSUME NEW D, D \subseteq Nat, IsFiniteSet(D)
  PROVE  /\ NextAfter(D) \in Nat
         /\ \A k \in D : k < NextAfter(D)
         /\ NextAfter(D) # 0 => NextAfter(D) - 1 \in D
<1> DEFINE E == {k + 1 : k \in D} \cup {0}
<1>1. E \subseteq Nat /\ 0 \in E
  OBVIOUS
<1>2. \E x \in E : \A y \in E : x >= y
  <2>1. CASE D = {}
    BY <2>1
  <2>2. CASE D # {}
    <3>1. PICK m \in D : \A n \in D : n <= m
      BY <2>2, GreatestOfNat
    <3>2. m + 1 \in E /\ \A y \in E : m + 1 >= y
      BY <3>1
    <3> QED BY <3>2
  <2> QED BY <2>1, <2>2
<1>3. NextAfter(D) \in E /\ \A y \in E : NextAfter(D) >= y
  BY <1>2 DEF NextAfter, Max
<1> QED BY <1>3

(* It does not change as long as the last directory stays. *)
LEMMA NextIsKept ==
  ASSUME NEW D, D \subseteq Nat, IsFiniteSet(D),
         NEW F, F \subseteq D,
         \A k \in D : \E j \in F : k <= j
  PROVE  NextAfter(F) = NextAfter(D)
<1>1. IsFiniteSet(F) /\ F \subseteq Nat
  BY FS_Subset
<1>2. /\ NextAfter(F) \in Nat /\ \A k \in F : k < NextAfter(F)
      /\ NextAfter(F) # 0 => NextAfter(F) - 1 \in F
  BY <1>1, NextIsPast
<1>3. /\ NextAfter(D) \in Nat /\ \A k \in D : k < NextAfter(D)
      /\ NextAfter(D) # 0 => NextAfter(D) - 1 \in D
  BY NextIsPast
<1> QED BY <1>2, <1>3

(* The directory that BuryVersion takes is the oldest of the removals. *)
LEMMA OldestRemoval ==
  ASSUME NEW S, S \subseteq Nat, S # {}
  PROVE  Min(S) \in S
<1>1. \E x \in S : \A y \in S : x =< y
  BY LeastOfNat
<1> QED BY <1>1 DEF Min

(* The step of the next publication is ahead of step and within the run, and *)
(* no milestone lies between: a milestone is due.                            *)
LEMMA NextPublicationStep ==
  ASSUME NEW step \in 0..TotalSteps, step # TotalSteps
  PROVE  /\ NextPublication(step) \in (step + 1)..TotalSteps
         /\ \A n \in (step + 1)..(NextPublication(step) - 1) :
              permanent_checkpoint_pointers(n) = {}
<1> DEFINE S == {s \in (step + 1)..TotalSteps : checkpoint_due(s)} \cup {TotalSteps}
<1>1. S \subseteq (step + 1)..TotalSteps /\ S # {} /\ S \subseteq Nat
  BY StepsAssumption
<1>2. \E x \in S : \A y \in S : x =< y
  <2> HIDE DEF S
  <2> QED BY <1>1, LeastOfNat
<1>3. NextPublication(step) \in S /\ \A y \in S : NextPublication(step) =< y
  BY <1>2, Zenon DEF NextPublication, Min
<1>4. ASSUME NEW n \in (step + 1)..(NextPublication(step) - 1)
      PROVE  permanent_checkpoint_pointers(n) = {}
  <2>1. n \notin S /\ n \in (step + 1)..TotalSteps
    BY <1>1, <1>3, <1>4, StepsAssumption
  <2>2. ~checkpoint_due(n)
    BY <2>1
  <2> HIDE DEF S
  <2> QED BY <2>1, <2>2, StepsAssumption DEF checkpoint_due, permanent_checkpoint_pointers
<1> QED BY <1>1, <1>3, <1>4

-----------------------------------------------------------------------------
(* What the parts of the state say.                                          *)

(* The trainer is off, publishes or prunes. *)
LEMMA Phases ==
  /\ \A pc \in {"tmp", "fill", "rename", "pin", "latest"} : pc \in Publishing /\ pc \notin Pruning
  /\ \A pc \in {"prune", "sweep", "bury", "erase", "train"} : pc \in Pruning /\ pc \notin Publishing
  BY DEF Publishing, Pruning

(* The directory that is next is not there yet. *)
LEMMA NextDir ==
  ASSUME TypeOK
  PROVE  /\ _next_version_dir \in Nat
         /\ _next_version_dir \notin DOMAIN versions
         /\ _next_version_dir = NextAfter(DOMAIN versions)
<1>1. _next_version_dir = NextAfter(DOMAIN versions)
  BY DEF _next_version_dir, NextAfter
<1>2. DOMAIN versions \subseteq Nat /\ IsFiniteSet(DOMAIN versions)
  BY DEF TypeOK
<1>3. NextAfter(DOMAIN versions) \in Nat /\ \A k \in DOMAIN versions : k < NextAfter(DOMAIN versions)
  BY <1>2, NextIsPast
<1> QED BY <1>1, <1>2, <1>3

(* What the trainer publishes are weights of its step and its lineage. *)
LEMMA LearnedType ==
  ASSUME TypeOK
  PROVE  /\ Learned \in Weights
         /\ Learned.step = trainer.step /\ trainer.step \in Nat
         /\ trainer.step > 0 => Learned.lineage = trainer.lineage
         /\ trainer.dir \in Nat
         /\ _write_checkpoint_pointer \in Pointer
         /\ _write_checkpoint_pointer.dir = trainer.dir
         /\ _write_checkpoint_pointer.tmp = FALSE
         /\ _write_checkpoint_pointer.weights = Learned
<1>1. trainer.step \in Nat /\ trainer.runs \in Nat /\ trainer.lineage \in Nat /\ trainer.dir \in Nat
  BY StepsAssumption DEF TypeOK, TrainerState
<1>2. Learned \in Weights /\ Learned.step = trainer.step
      /\ (trainer.step > 0 => Learned.lineage = trainer.lineage)
  BY <1>1 DEF Learned, Seeded, Weights
<1> QED BY <1>1, <1>2 DEF _write_checkpoint_pointer, Pointer

(* The files decide what is newest, named, next and resolved. *)
LEMMA SameFiles ==
  ASSUME UNCHANGED <<retain, versions, latest, promoted, pinned>>
  PROVE  /\ Newest' = Newest /\ Named' = Named /\ Pointers' = Pointers
         /\ TrainerPointers' = TrainerPointers
         /\ _next_version_dir' = _next_version_dir
         /\ \A p : Resolves(p)' <=> Resolves(p)
<1>1. Newest' = Newest
  BY DEF Newest
<1>2. TrainerPointers' = TrainerPointers /\ Pointers' = Pointers
  BY DEF Pointers, TrainerPointers
<1>3. Named' = Named
  BY <1>2 DEF Named
<1>4. _next_version_dir' = _next_version_dir
  BY DEF _next_version_dir
<1>5. \A p : Resolves(p)' <=> Resolves(p)
  BY DEF Resolves
<1> QED BY <1>1, <1>2, <1>3, <1>4, <1>5

(* A step of the training process alone that marks no directory leaves what  *)
(* is said of the files.                                                     *)
LEMMA TrainerOnly ==
  ASSUME CheckpointsInductive, UNCHANGED <<retain, disk>>,
         trainer' \in TrainerState, trainer'.removals \subseteq trainer.removals,
         trainer'.error # "rename", trainer'.error = "pointer" => doomed # {}
  PROVE  /\ TypeOK' /\ PointersResolve' /\ MilestonesPinned' /\ PromotionUnderWay'
         /\ \A p \in TrainerPointers' : p.dir \notin trainer'.removals
         /\ DOMAIN tmps' \subseteq {_next_version_dir'}
<1>0. /\ UNCHANGED <<retain, versions, tmps, tombstones, latest, pinned>>
      /\ UNCHANGED <<promoted, chosen, doomed, promotions>>
  BY DEF disk, operator
<1>1. TypeOK'
  BY <1>0 DEF CheckpointsInductive, TypeOK
<1>2. Pointers' = Pointers /\ TrainerPointers' = TrainerPointers
      /\ \A p : Resolves(p)' <=> Resolves(p)
  BY <1>0, SameFiles
<1>3. PointersResolve'
  BY <1>0, <1>2 DEF CheckpointsInductive, PointersResolve
<1>4. MilestonesPinned'
  BY <1>0 DEF CheckpointsInductive, MilestonesPinned
<1>5. PromotionUnderWay'
  BY <1>0, <1>2 DEF CheckpointsInductive, PromotionUnderWay
<1>6. \A p \in TrainerPointers' : p.dir \notin trainer'.removals
  BY <1>2 DEF CheckpointsInductive, PruneUnderWay
<1>7. DOMAIN tmps' \subseteq {_next_version_dir'}
  BY <1>0, SameFiles DEF CheckpointsInductive, DiskBounded
<1> QED BY <1>1, <1>3, <1>4, <1>5, <1>6, <1>7

(* An empty directory has the inductive invariant. *)
LEMMA CheckpointsStart == Init => CheckpointsInductive
<1> SUFFICES ASSUME Init PROVE CheckpointsInductive
  OBVIOUS
<1>1. versions = <<>> \/ DOMAIN versions = {}
  BY DEF Init
<1>2. /\ DOMAIN versions = {} /\ DOMAIN tmps = {} /\ DOMAIN pinned = {} /\ tombstones = {}
      /\ latest = NoPointer /\ retain \in Nat
      /\ promoted = [a \in Aliases |-> NoPointer] /\ chosen = [a \in Aliases |-> NoPointer]
      /\ trainer = Stopped(0, "none")
  BY StepsAssumption DEF Init
<1>3. TypeOK
  <2>1. latest \in Pointer /\ promoted \in [Aliases -> Pointer] /\ chosen \in [Aliases -> Pointer]
    BY <1>2 DEF NoPointer, Pointer
  <2>2. versions \in [DOMAIN versions -> Weights]
        /\ tmps \in [DOMAIN tmps -> [weights : Weights, whole : BOOLEAN]]
        /\ pinned \in [DOMAIN pinned -> Pointer]
    BY <1>2 DEF Init
  <2>3. IsFiniteSet(DOMAIN versions)
    BY <1>2, FS_EmptySet
  <2>4. trainer \in TrainerState
    BY <1>2, StepsAssumption DEF Stopped, TrainerState
  <2> QED BY <1>2, <2>1, <2>2, <2>3, <2>4 DEF TypeOK
<1>4. PointersResolve
  BY <1>2 DEF PointersResolve, Pointers, TrainerPointers, Stopped
<1>5. MilestonesPinned
  BY <1>2 DEF MilestonesPinned, NoPointer, NoWeights
<1>6. DiskBounded
  BY <1>2 DEF DiskBounded, Stopped
<1>7. PublicationUnderWay /\ PruneUnderWay /\ PromotionUnderWay /\ RunUnderWay
  BY <1>2 DEF PublicationUnderWay, PruneUnderWay, PromotionUnderWay, RunUnderWay, Stopped,
              Publishing, Pruning
<1> QED BY <1>3, <1>4, <1>5, <1>6, <1>7 DEF CheckpointsInductive

-----------------------------------------------------------------------------
(* Steps of the training process that touch no file.                         *)

(* A resumed run continues a lineage whose milestones are all pinned. *)
LEMMA ResumeStep == ASSUME CheckpointsInductive, Resume PROVE CheckpointsInductive'
<1> USE DEF CheckpointsInductive
<1>1. latest.weights \in Weights
  BY DEF Resume, Resolves, TypeOK
<1>0. /\ trainer \in TrainerState /\ trainer.runs + 1 \in Nat
      /\ latest.weights.step \in 0..TotalSteps /\ latest.weights.lineage \in Nat
  BY <1>1, StepsAssumption DEF TypeOK, TrainerState, Weights, Resume
<1>2. /\ trainer'.pc = "prune" /\ trainer'.error = "none" /\ trainer'.step = latest.weights.step
      /\ trainer'.lineage = IF latest.weights = Seeded THEN trainer.runs + 1 ELSE latest.weights.lineage
      /\ trainer' \in TrainerState /\ trainer'.removals = trainer.removals
  BY <1>0, Phases DEF Resume, TrainerState
<1>3. /\ TypeOK' /\ PointersResolve' /\ MilestonesPinned' /\ PromotionUnderWay'
      /\ \A p \in TrainerPointers' : p.dir \notin trainer'.removals
      /\ DOMAIN tmps' \subseteq {_next_version_dir'}
  BY <1>2, TrainerOnly DEF Resume
<1>4. RunUnderWay'
  <2>1. ASSUME NEW n \in 1..trainer'.step, permanent_checkpoint_pointers(n) # {}
        PROVE  n \in DOMAIN pinned /\ pinned[n].weights.step = n
               /\ pinned[n].weights.lineage = trainer'.lineage
    BY <1>1, <1>2, <2>1 DEF MilestonesPinned, Seeded, Weights
  <2> QED BY <1>2, <2>1 DEF RunUnderWay, Passed, Resume, disk, operator, Publishing, permanent_checkpoint_pointers
<1>5. DiskBounded' /\ PublicationUnderWay' /\ PruneUnderWay'
  BY <1>2, <1>3 DEF DiskBounded, PublicationUnderWay, PruneUnderWay, Resume
<1> QED BY <1>3, <1>4, <1>5

(* A fresh run is before its step 0, and nothing lies behind it. *)
LEMMA StartFreshStep == ASSUME CheckpointsInductive, StartFresh PROVE CheckpointsInductive'
<1> USE DEF CheckpointsInductive
<1>0. trainer \in TrainerState /\ trainer.runs + 1 \in Nat /\ 0 \in 0..TotalSteps
  BY StepsAssumption DEF TypeOK, TrainerState
<1>1. /\ trainer'.pc = "tmp" /\ trainer'.step = 0 /\ trainer'.error = "none"
      /\ trainer' \in TrainerState /\ trainer'.removals = trainer.removals
  BY <1>0, Phases DEF StartFresh, TrainerState
<1>2. /\ TypeOK' /\ PointersResolve' /\ MilestonesPinned' /\ PromotionUnderWay'
      /\ \A p \in TrainerPointers' : p.dir \notin trainer'.removals
      /\ DOMAIN tmps' \subseteq {_next_version_dir'}
  BY <1>1, TrainerOnly DEF StartFresh
<1>3. DiskBounded' /\ PublicationUnderWay' /\ PruneUnderWay' /\ RunUnderWay'
  BY <1>1, <1>2 DEF DiskBounded, PublicationUnderWay, PruneUnderWay, RunUnderWay, Passed, Pruning,
                    StartFresh
<1> QED BY <1>2, <1>3

(* A trainer that stops, at its end, by an error or killed, holds nothing. *)
LEMMA StoppedStep ==
  ASSUME CheckpointsInductive, UNCHANGED <<retain, disk>>,
         NEW error \in {"none", "pointer"}, error = "pointer" => doomed # {},
         trainer' = Stopped(trainer.runs, error)
  PROVE  CheckpointsInductive'
<1> USE DEF CheckpointsInductive
<1>1. /\ trainer'.pc = "off" /\ trainer'.error = error /\ trainer'.removals = {}
      /\ trainer' \in TrainerState
  BY StepsAssumption DEF Stopped, TypeOK, TrainerState
<1>2. /\ TypeOK' /\ PointersResolve' /\ MilestonesPinned' /\ PromotionUnderWay'
      /\ \A p \in TrainerPointers' : p.dir \notin trainer'.removals
      /\ DOMAIN tmps' \subseteq {_next_version_dir'}
  BY <1>1, TrainerOnly
<1>3. DiskBounded' /\ PublicationUnderWay' /\ PruneUnderWay' /\ RunUnderWay'
  BY <1>1, <1>2 DEF DiskBounded, PublicationUnderWay, PruneUnderWay, RunUnderWay, Publishing, Pruning
<1> QED BY <1>2, <1>3

(* Between two publications no milestone is passed. *)
LEMMA TrainStep == ASSUME CheckpointsInductive, Train PROVE CheckpointsInductive'
<1> USE DEF CheckpointsInductive
<1>1. CASE trainer.step = TotalSteps
  BY <1>1, StoppedStep DEF Train
<1>2. CASE trainer.step # TotalSteps
  <2>1. trainer \in TrainerState /\ trainer.step \in 0..TotalSteps /\ trainer.pc = "train"
    BY DEF TypeOK, Train, TrainerState
  <2>2. /\ NextPublication(trainer.step) \in (trainer.step + 1)..TotalSteps
        /\ \A n \in (trainer.step + 1)..(NextPublication(trainer.step) - 1) :
              permanent_checkpoint_pointers(n) = {}
    BY <1>2, <2>1, NextPublicationStep
  <2>3. /\ trainer'.pc = "tmp" /\ trainer'.step = NextPublication(trainer.step)
        /\ trainer'.lineage = trainer.lineage /\ trainer'.error = trainer.error
        /\ trainer'.removals = trainer.removals
        /\ trainer' = [trainer EXCEPT !.pc = "tmp", !.named = {},
                                      !.step = NextPublication(trainer.step)]
    BY <1>2, <2>1 DEF Train, TrainerState
  <2>4. trainer.error # "rename" /\ (trainer.error = "pointer" => doomed # {})
        /\ NextPublication(trainer.step) \in 0..TotalSteps
    BY <2>1, <2>2, StepsAssumption DEF PointersResolve
  <2>5. trainer' \in TrainerState
    BY <2>1, <2>3, <2>4, Phases DEF TrainerState
  <2>6. /\ TypeOK' /\ PointersResolve' /\ MilestonesPinned' /\ PromotionUnderWay'
        /\ \A p \in TrainerPointers' : p.dir \notin trainer'.removals
        /\ DOMAIN tmps' \subseteq {_next_version_dir'}
    BY <2>3, <2>4, <2>5, TrainerOnly DEF Train
  <2>7. RunUnderWay'
    <3>1. ASSUME NEW n \in 1..(trainer'.step - 1), permanent_checkpoint_pointers(n) # {}
          PROVE  n \in DOMAIN pinned /\ pinned[n].weights.step = n
                 /\ pinned[n].weights.lineage = trainer.lineage
      <4>1. n \in 1..trainer.step
        BY <2>1, <2>2, <2>3, <3>1
      <4>2. Passed = trainer.step
        BY <2>1 DEF Passed
      <4> QED BY <2>1, <3>1, <4>1, <4>2 DEF RunUnderWay
    <3>2. latest'.weights.step < trainer'.step
      BY <2>1, <2>2, <2>3 DEF RunUnderWay, Train, disk, operator, Pruning
    <3> QED BY <2>3, <3>1, <3>2 DEF RunUnderWay, Passed, Train, disk, operator, Pruning,
                 permanent_checkpoint_pointers
  <2>8. DiskBounded' /\ PublicationUnderWay' /\ PruneUnderWay'
    BY <2>1, <2>3, <2>6 DEF DiskBounded, PublicationUnderWay, PruneUnderWay
  <2> QED BY <2>6, <2>7, <2>8
<1> QED BY <1>1, <1>2

(* A scan that finds every pointer good marks what is neither new nor named: *)
(* the newest directory is kept, so every removal has a newer one that stays. *)
LEMMA PruneScanStep == ASSUME CheckpointsInductive, PruneScan PROVE CheckpointsInductive'
<1> USE DEF CheckpointsInductive
<1>0. /\ trainer \in TrainerState /\ trainer.pc = "prune" /\ trainer.removals = {}
      /\ UNCHANGED <<retain, versions, tmps, tombstones, latest, pinned>>
      /\ UNCHANGED <<promoted, chosen, promotions>>
      /\ trainer.error # "rename" /\ (trainer.error = "pointer" => doomed # {})
  BY DEF PruneScan, TypeOK, PointersResolve, PruneUnderWay
<1>1. CASE retain = 0
  <2>1. trainer' = [trainer EXCEPT !.pc = "train"] /\ UNCHANGED <<retain, disk>>
    BY <1>0, <1>1 DEF PruneScan, disk, operator
  <2>2. /\ trainer' \in TrainerState /\ trainer'.pc = "train" /\ trainer'.error = trainer.error
        /\ trainer'.step = trainer.step /\ trainer'.lineage = trainer.lineage
        /\ trainer'.removals = trainer.removals
    BY <1>0, <2>1, Phases DEF TrainerState
  <2>3. /\ TypeOK' /\ PointersResolve' /\ MilestonesPinned' /\ PromotionUnderWay'
        /\ \A p \in TrainerPointers' : p.dir \notin trainer'.removals
        /\ DOMAIN tmps' \subseteq {_next_version_dir'}
    BY <1>0, <2>1, <2>2, TrainerOnly
  <2>4. RunUnderWay'
    BY <1>0, <2>2, Phases DEF RunUnderWay, Passed, permanent_checkpoint_pointers
  <2>5. DiskBounded' /\ PublicationUnderWay' /\ PruneUnderWay'
    BY <1>0, <1>1, <2>2, <2>3 DEF DiskBounded, PublicationUnderWay, PruneUnderWay
  <2> QED BY <2>3, <2>4, <2>5
<1>2. CASE retain > 0 /\ \A p \in Pointers : _checkpoint_pointer_target(p)
  <2> DEFINE R == DOMAIN versions \ Protected
             C == {chosen[a] : a \in Aliases}
  <2>1. /\ trainer' = [trainer EXCEPT !.pc = "sweep", !.named = Named, !.removals = R]
        /\ doomed' = doomed \cup Leaving(C, trainer'.removals)
    BY <1>2 DEF PruneScan, _checkpoint_pointer_target
  <2>2. R \in SUBSET Nat /\ Named \in SUBSET Int
    <3>1. Pointers \subseteq Pointer
      BY DEF Pointers, TrainerPointers, TypeOK
    <3> QED BY <3>1 DEF TypeOK, Named, Pointer
  <2>3. /\ trainer' \in TrainerState /\ trainer'.error = trainer.error /\ trainer'.pc = "sweep"
        /\ trainer'.step = trainer.step /\ trainer'.lineage = trainer.lineage
        /\ trainer'.removals = R /\ trainer'.named = Named
    <3> HIDE DEF R, C
    <3> QED BY <1>0, <2>1, <2>2, Phases DEF TrainerState
  <2>4. /\ Newest' = Newest /\ Pointers' = Pointers /\ TrainerPointers' = TrainerPointers
        /\ _next_version_dir' = _next_version_dir
        /\ \A p : Resolves(p)' <=> Resolves(p)
    BY <1>0, SameFiles
  <2> HIDE DEF C
  <2>5. TypeOK' /\ MilestonesPinned'
    BY <1>0, <2>3 DEF TypeOK, MilestonesPinned
  <2>6. PointersResolve'
    BY <1>0, <2>1, <2>3, <2>4 DEF PointersResolve
  <2>7. RunUnderWay'
    BY <1>0, <2>3, Phases DEF RunUnderWay, Passed, permanent_checkpoint_pointers
  <2>8. ASSUME NEW k \in R PROVE \E j \in DOMAIN versions \ R : k < j
    <3>1. DOMAIN versions \subseteq Nat /\ IsFiniteSet(DOMAIN versions) /\ k \in DOMAIN versions
          /\ retain \in Nat
      BY DEF TypeOK
    <3>2. PICK m \in DOMAIN versions : \A n \in DOMAIN versions : n <= m
      BY <3>1, GreatestOfNat
    <3>3. {j \in DOMAIN versions : j > m} = {}
      BY <3>1, <3>2
    <3>4. m \in Newest
      BY <1>2, <3>1, <3>3, FS_EmptySet DEF Newest
    <3>5. m \notin R /\ k # m /\ m \in Nat /\ k \in Nat /\ k <= m
      BY <3>1, <3>2, <3>4 DEF Protected
    <3> QED BY <3>2, <3>5
  <2>9. R \subseteq DOMAIN versions \ Named /\ DOMAIN versions \ R \subseteq Newest \cup Named
    BY DEF Protected
  <2>10. \A p \in Pointers : p.dir \in Named /\ p.dir \notin R /\ Resolves(p)
    <3>1. \A p \in Pointers : ~p.tmp /\ Resolves(p)
      BY <1>2 DEF _checkpoint_pointer_target, Resolves
    <3> QED BY <2>9, <3>1 DEF Named
  <2> HIDE DEF R
  <2>11. PruneUnderWay'
    <3>1. \A p \in TrainerPointers' : p.dir \notin trainer'.removals
      BY <2>3, <2>4, <2>10 DEF Pointers
    <3> QED BY <1>0, <1>2, <2>3, <2>4, <2>8, <2>9, <3>1 DEF PruneUnderWay
  <2>12. PromotionUnderWay'
    <3> SUFFICES ASSUME NEW a \in Aliases, NEW p \in {promoted[a], chosen[a]},
                        p \notin doomed', p # NoPointer
                 PROVE  Resolves(p) /\ p.dir \notin R
      BY <1>0, <2>3, <2>4 DEF PromotionUnderWay
    <3>1. CASE p = promoted[a]
      BY <2>10, <3>1 DEF Pointers
    <3>2. CASE p = chosen[a]
      <4>1. p \in C /\ p \notin doomed /\ p \notin Leaving(C, R)
        BY <2>1, <2>3, <3>2 DEF C
      <4> QED BY <4>1 DEF PromotionUnderWay, Leaving
    <3> QED BY <3>1, <3>2
  <2>13. DiskBounded' /\ PublicationUnderWay'
    BY <1>0, <2>3, <2>4 DEF DiskBounded, PublicationUnderWay
  <2> QED BY <2>5, <2>6, <2>7, <2>11, <2>12, <2>13
<1>3. CASE retain > 0 /\ \E p \in Pointers : ~_checkpoint_pointer_target(p)
  <2>1. trainer' = Stopped(trainer.runs, "pointer") /\ UNCHANGED <<retain, disk>>
    BY <1>0, <1>3 DEF PruneScan, disk, operator
  <2>2. doomed # {}
    <3>1. PICK p \in Pointers : ~_checkpoint_pointer_target(p)
      BY <1>3
    <3>2. ~Resolves(p)
      BY <3>1 DEF _checkpoint_pointer_target, Resolves
    <3> QED BY <3>2 DEF PointersResolve
  <2> QED BY <2>1, <2>2, StoppedStep
<1>4. retain = 0 \/ retain > 0
  BY DEF TypeOK
<1> QED BY <1>1, <1>2, <1>3, <1>4

(* Old tombstones are gone before anything is buried. *)
LEMMA SweptStep == ASSUME CheckpointsInductive, Swept PROVE CheckpointsInductive'
<1> USE DEF CheckpointsInductive
<1>0. /\ trainer \in TrainerState /\ trainer.pc = "sweep" /\ UNCHANGED <<retain, disk>>
      /\ trainer.error # "rename" /\ (trainer.error = "pointer" => doomed # {})
      /\ tombstones = {}
  BY DEF Swept, TypeOK, PointersResolve
<1> DEFINE pc == IF trainer.removals = {} THEN "train" ELSE "bury"
<1>1. pc \in Pruning /\ pc \notin Publishing /\ pc \in {"train", "bury"}
      /\ (pc = "bury" => trainer.removals # {}) /\ (pc = "train" => trainer.removals = {})
  BY Phases
<1>2. trainer' = [trainer EXCEPT !.pc = pc]
  BY DEF Swept, AfterSweep
<1> HIDE DEF pc
<1>3. /\ trainer' \in TrainerState /\ trainer'.error = trainer.error /\ trainer'.pc = pc
      /\ trainer'.step = trainer.step /\ trainer'.lineage = trainer.lineage
      /\ trainer'.removals = trainer.removals /\ trainer'.named = trainer.named
  BY <1>0, <1>1, <1>2 DEF TrainerState
<1>4. /\ TypeOK' /\ PointersResolve' /\ MilestonesPinned' /\ PromotionUnderWay'
      /\ \A p \in TrainerPointers' : p.dir \notin trainer'.removals
      /\ DOMAIN tmps' \subseteq {_next_version_dir'}
  BY <1>0, <1>3, TrainerOnly
<1>5. RunUnderWay'
  BY <1>0, <1>1, <1>3, Phases DEF RunUnderWay, Passed, disk, operator, permanent_checkpoint_pointers
<1>6. /\ Newest' = Newest /\ Named' = Named /\ versions' = versions /\ retain' = retain
      /\ tombstones' = {}
  BY <1>0, SameFiles DEF disk, operator
<1>7. PruneUnderWay'
  BY <1>0, <1>1, <1>3, <1>4, <1>6 DEF PruneUnderWay
<1>8. DiskBounded'
  BY <1>0, <1>1, <1>3, <1>4, <1>6 DEF DiskBounded, PruneUnderWay
<1>9. PublicationUnderWay'
  BY <1>1, <1>3 DEF PublicationUnderWay
<1> QED BY <1>4, <1>5, <1>7, <1>8, <1>9

-----------------------------------------------------------------------------
(* Steps of a publication.                                                   *)

(* A step that changes only the unfinished directories and the phase of the  *)
(* publication leaves what is said of pointers and milestones.               *)
LEMMA TmpsOnly ==
  ASSUME CheckpointsInductive,
         UNCHANGED <<retain, versions, tombstones, latest, pinned, operator>>,
         DOMAIN tmps' \subseteq {_next_version_dir},
         tmps' \in [DOMAIN tmps' -> [weights : Weights, whole : BOOLEAN]],
         trainer.pc \in {"tmp", "fill"}, trainer'.pc \in {"tmp", "fill", "rename"},
         trainer' \in TrainerState,
         trainer'.step = trainer.step, trainer'.lineage = trainer.lineage,
         trainer'.error = trainer.error, trainer'.removals = trainer.removals
  PROVE  /\ TypeOK' /\ PointersResolve' /\ MilestonesPinned' /\ DiskBounded'
         /\ PruneUnderWay' /\ PromotionUnderWay' /\ RunUnderWay'
<1> USE DEF CheckpointsInductive, operator
<1>1. /\ Newest' = Newest /\ Pointers' = Pointers /\ TrainerPointers' = TrainerPointers
      /\ _next_version_dir' = _next_version_dir
      /\ \A p : Resolves(p)' <=> Resolves(p)
  BY SameFiles
<1>2. TypeOK'
  BY DEF TypeOK
<1>3. PointersResolve'
  BY <1>1 DEF PointersResolve
<1>4. MilestonesPinned'
  BY DEF MilestonesPinned
<1>5. DiskBounded'
  BY <1>1 DEF DiskBounded
<1>6. PruneUnderWay' /\ PromotionUnderWay'
  BY <1>1 DEF PruneUnderWay, PromotionUnderWay
<1>7. RunUnderWay'
  BY Phases DEF RunUnderWay, Passed, permanent_checkpoint_pointers
<1> QED BY <1>2, <1>3, <1>4, <1>5, <1>6, <1>7

(* A leftover is removed. *)
LEMMA RemoveStaleTmpStep == ASSUME CheckpointsInductive, RemoveStaleTmp PROVE CheckpointsInductive'
<1> USE DEF CheckpointsInductive
<1>1. DOMAIN tmps' \subseteq {_next_version_dir}
      /\ tmps' \in [DOMAIN tmps' -> [weights : Weights, whole : BOOLEAN]]
  BY DEF RemoveStaleTmp, Remove, DiskBounded, TypeOK
<1>2. /\ TypeOK' /\ PointersResolve' /\ MilestonesPinned' /\ DiskBounded'
      /\ PruneUnderWay' /\ PromotionUnderWay' /\ RunUnderWay'
  BY <1>1, TmpsOnly DEF RemoveStaleTmp, TypeOK
<1>3. PublicationUnderWay'
  BY DEF RemoveStaleTmp, PublicationUnderWay
<1> QED BY <1>2, <1>3

(* The unfinished directory is the one that is next. *)
LEMMA MakeTmpStep == ASSUME CheckpointsInductive, MakeTmp PROVE CheckpointsInductive'
<1> USE DEF CheckpointsInductive
<1>0. /\ trainer \in TrainerState /\ trainer.pc = "tmp" /\ _next_version_dir \in Nat
      /\ Learned \in Weights
  BY NextDir, LearnedType DEF MakeTmp, TypeOK
<1>1. /\ trainer' \in TrainerState /\ trainer'.pc = "fill" /\ trainer'.dir = _next_version_dir
      /\ trainer'.step = trainer.step /\ trainer'.lineage = trainer.lineage
      /\ trainer'.runs = trainer.runs /\ trainer'.error = trainer.error
      /\ trainer'.removals = trainer.removals
  BY <1>0, Phases DEF MakeTmp, TrainerState
<1>2. DOMAIN tmps' = {_next_version_dir}
      /\ tmps'[_next_version_dir] = [weights |-> Learned, whole |-> FALSE]
  BY DEF MakeTmp, Put, DiskBounded, TypeOK
<1>3. tmps' \in [DOMAIN tmps' -> [weights : Weights, whole : BOOLEAN]]
  BY <1>0, <1>2 DEF MakeTmp, Put, TypeOK
<1>4. /\ TypeOK' /\ PointersResolve' /\ MilestonesPinned' /\ DiskBounded'
      /\ PruneUnderWay' /\ PromotionUnderWay' /\ RunUnderWay'
  BY <1>0, <1>1, <1>2, <1>3, TmpsOnly DEF MakeTmp
<1>5. _next_version_dir' = _next_version_dir /\ Learned' = Learned
  BY <1>1 DEF MakeTmp, _next_version_dir, Learned
<1>6. PublicationUnderWay'
  BY <1>1, <1>2, <1>5 DEF PublicationUnderWay
<1> QED BY <1>4, <1>6

(* The weights are complete and still those of this step. *)
LEMMA FillTmpStep == ASSUME CheckpointsInductive, FillTmp PROVE CheckpointsInductive'
<1> USE DEF CheckpointsInductive
<1>0. /\ trainer \in TrainerState /\ trainer.pc = "fill" /\ trainer.dir = _next_version_dir
      /\ trainer.dir \in DOMAIN tmps /\ tmps[trainer.dir].weights = Learned
      /\ tmps \in [DOMAIN tmps -> [weights : Weights, whole : BOOLEAN]]
  BY DEF FillTmp, TypeOK, PublicationUnderWay
<1>1. /\ trainer' \in TrainerState /\ trainer'.pc = "rename" /\ trainer'.dir = trainer.dir
      /\ trainer'.step = trainer.step /\ trainer'.lineage = trainer.lineage
      /\ trainer'.runs = trainer.runs /\ trainer'.error = trainer.error
      /\ trainer'.removals = trainer.removals
  BY <1>0, Phases DEF FillTmp, TrainerState
<1>2. /\ DOMAIN tmps' = DOMAIN tmps
      /\ tmps' \in [DOMAIN tmps' -> [weights : Weights, whole : BOOLEAN]]
      /\ tmps'[trainer.dir].weights = Learned
  BY <1>0 DEF FillTmp
<1>3. /\ TypeOK' /\ PointersResolve' /\ MilestonesPinned' /\ DiskBounded'
      /\ PruneUnderWay' /\ PromotionUnderWay' /\ RunUnderWay'
  BY <1>0, <1>1, <1>2, TmpsOnly DEF FillTmp, DiskBounded
<1>4. _next_version_dir' = _next_version_dir /\ Learned' = Learned
  BY <1>1 DEF FillTmp, _next_version_dir, Learned
<1>5. PublicationUnderWay'
  BY <1>0, <1>1, <1>2, <1>4 DEF PublicationUnderWay
<1> QED BY <1>3, <1>5

(* The new name was free, so no directory that a pointer names is replaced. *)
LEMMA RenameTmpStep == ASSUME CheckpointsInductive, RenameTmp PROVE CheckpointsInductive'
<1> USE DEF CheckpointsInductive, operator
<1>0. /\ trainer \in TrainerState /\ trainer.pc = "rename" /\ trainer.dir = _next_version_dir
      /\ trainer.dir \in DOMAIN tmps /\ tmps[trainer.dir].weights = Learned
      /\ trainer.dir \notin DOMAIN versions /\ trainer.dir \in Nat
      /\ Learned \in Weights
      /\ UNCHANGED <<retain, tombstones, latest, pinned, operator, reader>>
  BY NextDir, LearnedType DEF RenameTmp, TypeOK, PublicationUnderWay
<1>1. /\ trainer' \in TrainerState /\ trainer'.pc = "pin" /\ trainer'.dir = trainer.dir
      /\ trainer'.step = trainer.step /\ trainer'.lineage = trainer.lineage
      /\ trainer'.runs = trainer.runs /\ trainer'.error = trainer.error
      /\ trainer'.removals = trainer.removals
  BY <1>0, Phases DEF RenameTmp, TrainerState
<1>2. /\ DOMAIN versions' = DOMAIN versions \cup {trainer.dir}
      /\ versions'[trainer.dir] = Learned
      /\ \A k \in DOMAIN versions : versions'[k] = versions[k]
      /\ versions' \in [DOMAIN versions' -> Weights]
  BY <1>0 DEF RenameTmp, Put, TypeOK
<1>3. DOMAIN tmps' = {} /\ tmps' \in [DOMAIN tmps' -> [weights : Weights, whole : BOOLEAN]]
  BY <1>0 DEF RenameTmp, Remove, DiskBounded
<1>4. TypeOK'
  <2>1. DOMAIN versions' \subseteq Nat /\ IsFiniteSet(DOMAIN versions')
    BY <1>0, <1>2, FS_AddElement DEF TypeOK
  <2> QED BY <1>0, <1>1, <1>2, <1>3, <2>1 DEF TypeOK
<1>5. Pointers' = Pointers /\ TrainerPointers' = TrainerPointers
  BY <1>0 DEF Pointers, TrainerPointers
<1>6. ASSUME NEW p, Resolves(p) PROVE Resolves(p)'
  BY <1>2, <1>6 DEF Resolves
<1>7. PointersResolve'
  BY <1>0, <1>1, <1>5, <1>6 DEF PointersResolve
<1>8. MilestonesPinned'
  BY <1>0 DEF MilestonesPinned
<1>9. DiskBounded' /\ PruneUnderWay' /\ PromotionUnderWay'
  BY <1>0, <1>1, <1>3, <1>5, <1>6 DEF DiskBounded, PruneUnderWay, PromotionUnderWay
<1>10. Learned' = Learned
  BY <1>1 DEF Learned
<1>11. PublicationUnderWay'
  BY <1>1, <1>2, <1>10 DEF PublicationUnderWay
<1>12. RunUnderWay'
  BY <1>0, <1>1, Phases DEF RunUnderWay, Passed, permanent_checkpoint_pointers
<1> QED BY <1>4, <1>7, <1>8, <1>9, <1>11, <1>12

(* A milestone behind latest.json keeps its weights: the trainer is past it. *)
LEMMA WritePinnedStep == ASSUME CheckpointsInductive, WritePinned PROVE CheckpointsInductive'
<1> USE DEF CheckpointsInductive, operator
<1> DEFINE P == _write_checkpoint_pointer
           G == DOMAIN pinned \cup permanent_checkpoint_pointers(trainer.step)
<1>0. /\ trainer \in TrainerState /\ trainer.pc = "pin" /\ trainer.step \in Nat
      /\ trainer.dir \in DOMAIN versions /\ versions[trainer.dir] = Learned
      /\ Learned.step = trainer.step
      /\ trainer.step > 0 => Learned.lineage = trainer.lineage
      /\ P \in Pointer /\ P.dir = trainer.dir /\ P.tmp = FALSE /\ P.weights = Learned
      /\ UNCHANGED <<retain, versions, tmps, tombstones, latest, operator, reader>>
  BY LearnedType DEF WritePinned, TypeOK, PublicationUnderWay
<1>1. /\ trainer' \in TrainerState /\ trainer'.pc = "latest" /\ trainer'.dir = trainer.dir
      /\ trainer'.step = trainer.step /\ trainer'.lineage = trainer.lineage
      /\ trainer'.runs = trainer.runs /\ trainer'.error = trainer.error
      /\ trainer'.removals = trainer.removals
  BY <1>0, Phases DEF WritePinned, TrainerState
<1>2. permanent_checkpoint_pointers(trainer.step) \subseteq {trainer.step}
  BY DEF permanent_checkpoint_pointers
<1>3. /\ DOMAIN pinned' = G /\ G \subseteq Nat
      /\ \A n \in G : n = trainer.step => pinned'[n] = P
      /\ \A n \in DOMAIN pinned : n # trainer.step => pinned'[n] = pinned[n]
      /\ pinned' \in [G -> Pointer]
  <2> HIDE DEF P
  <2>1. pinned' = [n \in G |-> IF n = trainer.step THEN P ELSE pinned[n]]
    BY DEF WritePinned, P
  <2> QED BY <1>0, <1>2, <2>1 DEF TypeOK
<1> HIDE DEF P
<1>4. TypeOK'
  BY <1>0, <1>1, <1>3 DEF TypeOK
<1>5. \A p : Resolves(p)' <=> Resolves(p)
  BY <1>0 DEF Resolves
<1>6. PointersResolve'
  <2>1. Resolves(P)
    BY <1>0 DEF Resolves
  <2>2. /\ \A p \in TrainerPointers' : p \in TrainerPointers \/ p = P
        /\ \A p \in Pointers' : p \in Pointers \/ p = P
    BY <1>0, <1>2, <1>3 DEF Pointers, TrainerPointers
  <2> QED BY <1>0, <1>1, <1>5, <2>1, <2>2 DEF PointersResolve
<1>7. MilestonesPinned'
  <2> SUFFICES ASSUME NEW n \in 1..latest.weights.step, permanent_checkpoint_pointers(n) # {}
               PROVE  /\ n \in DOMAIN pinned' /\ pinned'[n].weights.step = n
                      /\ pinned'[n].weights.lineage = latest.weights.lineage
    BY <1>0 DEF MilestonesPinned, permanent_checkpoint_pointers
  <2>1. n \in DOMAIN pinned /\ pinned[n].weights.step = n
        /\ pinned[n].weights.lineage = latest.weights.lineage
    BY DEF MilestonesPinned
  <2>2. CASE n # trainer.step
    BY <1>3, <2>1, <2>2
  <2>3. CASE n = trainer.step
    <3>1. latest.weights.step < trainer.step
      BY <1>0, <2>3, Phases DEF RunUnderWay
    <3>2. latest.weights.step \in Nat \cup {-1}
      BY DEF TypeOK, Pointer, Weights, NoWeights
    <3> QED BY <1>0, <2>3, <3>1, <3>2
  <2> QED BY <2>2, <2>3
<1>8. DiskBounded' /\ PruneUnderWay' /\ PromotionUnderWay'
  <2>1. _next_version_dir' = _next_version_dir
    BY <1>0 DEF _next_version_dir
  <2>2. trainer'.removals = {}
    BY <1>0, <1>1 DEF PruneUnderWay
  <2> QED BY <1>0, <1>1, <1>5, <2>1, <2>2 DEF DiskBounded, PruneUnderWay, PromotionUnderWay
<1>9. Learned' = Learned
  BY <1>1 DEF Learned
<1>10. PublicationUnderWay'
  BY <1>0, <1>1, <1>9 DEF PublicationUnderWay
<1>11. RunUnderWay'
  <2>1. ASSUME NEW n \in 1..trainer.step, permanent_checkpoint_pointers(n) # {}
        PROVE  n \in DOMAIN pinned' /\ pinned'[n].weights.step = n
               /\ pinned'[n].weights.lineage = trainer.lineage
    <3>1. CASE n = trainer.step
      <4>1. n \in G
        BY <2>1, <3>1 DEF permanent_checkpoint_pointers
      <4> QED BY <1>0, <1>3, <2>1, <3>1, <4>1
    <3>2. CASE n # trainer.step
      <4>1. n \in 1..Passed
        BY <1>0, <2>1, <3>2 DEF Passed
      <4>2. n \in DOMAIN pinned /\ pinned[n].weights.step = n
            /\ pinned[n].weights.lineage = trainer.lineage
        BY <1>0, <2>1, <4>1 DEF RunUnderWay
      <4> QED BY <1>3, <3>2, <4>2
    <3> QED BY <3>1, <3>2
  <2> QED BY <1>0, <1>1, <2>1, Phases DEF RunUnderWay, Passed, permanent_checkpoint_pointers
<1> QED BY <1>4, <1>6, <1>7, <1>8, <1>10, <1>11

(* latest.json advances to a step whose milestones are all pinned. *)
LEMMA WriteLatestStep == ASSUME CheckpointsInductive, WriteLatest PROVE CheckpointsInductive'
<1> USE DEF CheckpointsInductive, operator
<1>0. /\ trainer \in TrainerState /\ trainer.pc = "latest" /\ trainer.step \in Nat
      /\ trainer.dir \in DOMAIN versions /\ versions[trainer.dir] = Learned
      /\ Learned.step = trainer.step
      /\ trainer.step > 0 => Learned.lineage = trainer.lineage
      /\ latest' \in Pointer /\ latest'.dir = trainer.dir /\ latest'.tmp = FALSE
      /\ latest'.weights = Learned
      /\ UNCHANGED <<retain, versions, tmps, tombstones, pinned, operator, reader>>
  BY LearnedType DEF WriteLatest, TypeOK, PublicationUnderWay
<1>1. /\ trainer' \in TrainerState /\ trainer'.pc = "prune" /\ trainer'.dir = trainer.dir
      /\ trainer'.step = trainer.step /\ trainer'.lineage = trainer.lineage
      /\ trainer'.runs = trainer.runs /\ trainer'.error = trainer.error
      /\ trainer'.removals = trainer.removals
  BY <1>0, Phases DEF WriteLatest, TrainerState
<1>2. TypeOK'
  BY <1>0, <1>1 DEF TypeOK
<1>3. PointersResolve'
  <2>1. \A p : Resolves(p)' <=> Resolves(p)
    BY <1>0 DEF Resolves
  <2>2. Resolves(latest')
    BY <1>0 DEF Resolves
  <2>3. /\ \A p \in TrainerPointers' : p \in TrainerPointers \/ p = latest'
        /\ \A p \in Pointers' : p \in Pointers \/ p = latest'
    BY <1>0 DEF Pointers, TrainerPointers
  <2> QED BY <1>0, <1>1, <2>1, <2>2, <2>3 DEF PointersResolve
<1>4. \A n \in 1..trainer.step :
        permanent_checkpoint_pointers(n) # {} =>
          n \in DOMAIN pinned /\ pinned[n].weights.step = n
          /\ pinned[n].weights.lineage = trainer.lineage
  BY <1>0 DEF RunUnderWay, Passed
<1>5. MilestonesPinned'
  BY <1>0, <1>4 DEF MilestonesPinned, permanent_checkpoint_pointers
<1>6. DiskBounded' /\ PruneUnderWay' /\ PromotionUnderWay' /\ PublicationUnderWay'
  <2>1. _next_version_dir' = _next_version_dir /\ \A p : Resolves(p)' <=> Resolves(p)
    BY <1>0 DEF _next_version_dir, Resolves
  <2>2. trainer'.removals = {}
    BY <1>0, <1>1 DEF PruneUnderWay
  <2> QED BY <1>0, <1>1, <2>1, <2>2
          DEF DiskBounded, PruneUnderWay, PromotionUnderWay, PublicationUnderWay
<1>7. RunUnderWay'
  BY <1>0, <1>1, <1>4, Phases DEF RunUnderWay, Passed, permanent_checkpoint_pointers
<1> QED BY <1>2, <1>3, <1>5, <1>6, <1>7

-----------------------------------------------------------------------------
(* Steps of a prune.                                                         *)

(* Sweeping concerns tombstones only. *)
LEMMA SweepTombstoneStep == ASSUME CheckpointsInductive, SweepTombstone PROVE CheckpointsInductive'
<1> USE DEF CheckpointsInductive
<1>0. /\ trainer.pc = "sweep" /\ tombstones' \subseteq tombstones
      /\ UNCHANGED <<retain, versions, tmps, latest, pinned, trainer, reader>>
      /\ UNCHANGED <<promoted, chosen, doomed, promotions>>
  BY DEF SweepTombstone, operator
<1>1. /\ Newest' = Newest /\ TrainerPointers' = TrainerPointers /\ Pointers' = Pointers
      /\ _next_version_dir' = _next_version_dir
      /\ \A p : Resolves(p)' <=> Resolves(p)
  BY <1>0, SameFiles
<1>2. TypeOK' /\ PointersResolve'
  BY <1>0, <1>1 DEF TypeOK, PointersResolve
<1>3. MilestonesPinned' /\ RunUnderWay'
  BY <1>0 DEF MilestonesPinned, RunUnderWay, Passed, permanent_checkpoint_pointers
<1>4. DiskBounded' /\ PublicationUnderWay' /\ PruneUnderWay' /\ PromotionUnderWay'
  BY <1>0, <1>1 DEF DiskBounded, PublicationUnderWay, PruneUnderWay, PromotionUnderWay
<1> QED BY <1>2, <1>3, <1>4

(* The last tombstone is erased and the run trains on. *)
LEMMA EraseTombstoneStep == ASSUME CheckpointsInductive, EraseTombstone PROVE CheckpointsInductive'
<1> USE DEF CheckpointsInductive, operator
<1>0. PICK k \in tombstones :
        /\ tombstones' = tombstones \ {k}
        /\ trainer' = [trainer EXCEPT !.pc = IF tombstones = {k} THEN "train" ELSE "erase"]
  BY DEF EraseTombstone
<1> DEFINE pc == IF tombstones = {k} THEN "train" ELSE "erase"
<1>1. /\ trainer \in TrainerState /\ trainer.pc = "erase" /\ trainer.removals = {}
      /\ UNCHANGED <<retain, versions, tmps, latest, pinned, operator, reader>>
      /\ pc \in Pruning /\ pc \in {"train", "erase"} /\ (pc = "train" => tombstones' = {})
  BY <1>0, Phases DEF EraseTombstone, TypeOK, PruneUnderWay
<1> HIDE DEF pc
<1>2. /\ trainer' \in TrainerState /\ trainer'.pc = pc /\ trainer'.removals = {}
      /\ trainer'.named = trainer.named
      /\ trainer'.step = trainer.step /\ trainer'.lineage = trainer.lineage
      /\ trainer'.error = trainer.error
  BY <1>0, <1>1 DEF TrainerState, pc
<1>3. /\ Newest' = Newest /\ TrainerPointers' = TrainerPointers /\ Pointers' = Pointers
      /\ _next_version_dir' = _next_version_dir
      /\ \A p : Resolves(p)' <=> Resolves(p)
  BY <1>1, SameFiles
<1>4. TypeOK'
  BY <1>0, <1>1, <1>2 DEF TypeOK
<1>5. PointersResolve' /\ MilestonesPinned'
  BY <1>1, <1>2, <1>3 DEF PointersResolve, MilestonesPinned
<1>6. DiskBounded'
  BY <1>1, <1>2, <1>3 DEF DiskBounded, PruneUnderWay
<1>7. PruneUnderWay' /\ PromotionUnderWay' /\ PublicationUnderWay'
  BY <1>1, <1>2, <1>3 DEF PruneUnderWay, PromotionUnderWay, PublicationUnderWay
<1>8. RunUnderWay'
  BY <1>1, <1>2, Phases DEF RunUnderWay, Passed, permanent_checkpoint_pointers
<1> QED BY <1>4, <1>5, <1>6, <1>7, <1>8

(* The oldest removal is neither named nor the last directory, and no        *)
(* tombstone has its name: the pointers and the next directory stay as they  *)
(* are, and what was among the newest still is.                              *)
LEMMA BuryVersionStep == ASSUME CheckpointsInductive, BuryVersion PROVE CheckpointsInductive'
<1> USE DEF CheckpointsInductive, operator
<1> DEFINE k == Min(trainer.removals)
           rest == trainer.removals \ {k}
           pc == IF rest = {} THEN "erase" ELSE "bury"
<1>0. /\ trainer \in TrainerState /\ trainer.pc = "bury" /\ retain > 0
      /\ trainer.removals \subseteq Nat /\ trainer.removals # {}
      /\ trainer.removals \subseteq DOMAIN versions
      /\ trainer.removals \cap tombstones = {}
      /\ UNCHANGED <<retain, tmps, latest, pinned, operator, reader>>
  BY DEF BuryVersion, TypeOK, TrainerState, PruneUnderWay
<1>1. k \in trainer.removals
  BY <1>0, OldestRemoval
<1>2. k \notin tombstones /\ k \in DOMAIN versions /\ k \in Nat
  BY <1>0, <1>1
<1>3. /\ versions' = Remove(versions, {k})
      /\ tombstones' = tombstones \cup {k}
      /\ trainer' = [trainer EXCEPT !.removals = rest, !.pc = pc]
  BY <1>2 DEF BuryVersion
<1>4. /\ pc \in Pruning /\ pc \in {"erase", "bury"} /\ rest \in SUBSET Nat
      /\ (pc = "erase" => rest = {}) /\ (pc = "bury" => rest # {})
  BY <1>0, Phases
<1> HIDE DEF pc, k
<1>5. /\ trainer' \in TrainerState /\ trainer'.pc = pc /\ trainer'.removals = rest
      /\ trainer'.named = trainer.named
      /\ trainer'.step = trainer.step /\ trainer'.lineage = trainer.lineage
      /\ trainer'.error = trainer.error
  <2> HIDE DEF rest
  <2> QED BY <1>0, <1>3, <1>4 DEF TrainerState
<1>6. /\ DOMAIN versions' = DOMAIN versions \ {k}
      /\ \A j \in DOMAIN versions' : versions'[j] = versions[j]
      /\ versions' \in [DOMAIN versions' -> Weights]
  BY <1>3 DEF Remove, TypeOK
<1>7. DOMAIN versions \subseteq Nat /\ IsFiniteSet(DOMAIN versions)
      /\ IsFiniteSet(DOMAIN versions') /\ DOMAIN versions' \subseteq Nat
  BY <1>6, FS_RemoveElement DEF TypeOK
<1>8. TypeOK'
  BY <1>0, <1>2, <1>3, <1>5, <1>6, <1>7 DEF TypeOK
<1>9. Pointers' = Pointers /\ TrainerPointers' = TrainerPointers
  BY <1>0 DEF Pointers, TrainerPointers
<1>10. PointersResolve' /\ PromotionUnderWay' /\ \A p \in TrainerPointers' : p.dir \notin rest
  <2>1. ASSUME NEW p, Resolves(p), p.dir \notin trainer.removals
        PROVE  Resolves(p)' /\ p.dir \notin rest
    BY <1>1, <1>6, <2>1 DEF Resolves
  <2>2. \A p \in TrainerPointers : Resolves(p) /\ p.dir \notin trainer.removals
    BY DEF PointersResolve, PruneUnderWay
  <2>3. ASSUME NEW p \in Pointers, p \notin doomed
        PROVE  Resolves(p) /\ p.dir \notin trainer.removals
    BY <2>2, <2>3 DEF Pointers, PromotionUnderWay
  <2>4. PointersResolve'
    BY <1>0, <1>5, <1>9, <2>1, <2>2, <2>3 DEF PointersResolve
  <2>5. PromotionUnderWay'
    BY <1>0, <1>5, <2>1 DEF PromotionUnderWay
  <2> QED BY <1>9, <2>1, <2>2, <2>4, <2>5
<1>11. MilestonesPinned'
  BY <1>0 DEF MilestonesPinned
<1>12. RunUnderWay'
  BY <1>0, <1>4, <1>5, Phases DEF RunUnderWay, Passed, permanent_checkpoint_pointers
<1>13. \A x \in trainer.removals : \E j \in DOMAIN versions \ trainer.removals : x < j
  BY <1>0 DEF PruneUnderWay
<1>14. _next_version_dir' = _next_version_dir
  <2>1. \A x \in DOMAIN versions : \E j \in DOMAIN versions' : x <= j
    BY <1>1, <1>6, <1>7, <1>13
  <2>2. NextAfter(DOMAIN versions') = NextAfter(DOMAIN versions)
    BY <1>6, <1>7, <2>1, NextIsKept
  <2> QED BY <2>2 DEF _next_version_dir, NextAfter
<1>15. DiskBounded'
  BY <1>0, <1>4, <1>5, <1>14 DEF DiskBounded
<1>16. PublicationUnderWay'
  BY <1>4, <1>5 DEF PublicationUnderWay
<1>17. ASSUME NEW x \in Newest, x # k PROVE x \in Newest'
  <2> DEFINE A == {j \in DOMAIN versions : j > x}
             B == {j \in DOMAIN versions' : j > x}
  <2>1. B \subseteq A /\ A \subseteq DOMAIN versions
    BY <1>6
  <2>2. IsFiniteSet(A)
    BY <1>7, <2>1, FS_Subset
  <2>3. IsFiniteSet(B) /\ Cardinality(B) <= Cardinality(A)
    BY <2>1, <2>2, FS_Subset
  <2>4. Cardinality(A) \in Nat /\ Cardinality(B) \in Nat
    BY <2>2, <2>3, FS_CardinalityType
  <2>5. x \in DOMAIN versions /\ Cardinality(A) < retain
    BY <1>17 DEF Newest
  <2>6. x \in DOMAIN versions' /\ Cardinality(B) < retain'
    <3> HIDE DEF A, B
    <3>1. retain' = retain /\ retain \in Nat
      BY <1>0 DEF TypeOK
    <3> QED BY <1>6, <1>17, <2>3, <2>4, <2>5, <3>1
  <2> QED BY <2>6 DEF Newest
<1>18. PruneUnderWay'
  <2>1. rest \subseteq DOMAIN versions'
    BY <1>0, <1>6
  <2>2. DOMAIN versions' \ rest = DOMAIN versions \ trainer.removals
    BY <1>1, <1>6
  <2>3. DOMAIN versions \ trainer.removals \subseteq Newest \cup trainer.named
    BY <1>0 DEF PruneUnderWay
  <2>4. DOMAIN versions' \ rest \subseteq Newest' \cup trainer'.named
    BY <1>1, <1>5, <1>17, <2>2, <2>3
  <2>5. \A x \in rest : \E j \in DOMAIN versions' \ rest : x < j
    BY <1>13, <2>2
  <2>6. rest \cap tombstones' = {}
    BY <1>0, <1>3
  <2> HIDE DEF rest
  <2> QED BY <1>0, <1>4, <1>5, <1>10, <2>1, <2>4, <2>5, <2>6 DEF PruneUnderWay
<1> QED BY <1>8, <1>10, <1>11, <1>12, <1>15, <1>16, <1>18

-----------------------------------------------------------------------------
(* The operator and the evaluator.                                           *)

(* What a promotion chooses is there with the model it names; it may go only *)
(* if it is unfinished or the prune under way has marked it.                 *)
LEMMA PromoteStep ==
  ASSUME CheckpointsInductive, NEW alias \in Aliases, NEW weights,
         promote_checkpoint_pointer(alias, weights)
  PROVE  CheckpointsInductive'
<1> USE DEF CheckpointsInductive
<1>0. PICK p \in PromoteTargets :
        /\ chosen' = [chosen EXCEPT ![alias] = p]
        /\ doomed' = doomed \cup Leaving({p}, trainer.removals)
  BY DEF promote_checkpoint_pointer
<1>1. UNCHANGED <<retain, versions, tmps, tombstones, latest, pinned, promoted, trainer, reader>>
  BY DEF promote_checkpoint_pointer
<1>2. p \in Pointer /\ (p.tmp \/ Resolves(p))
  <2>1. CASE \E k \in DOMAIN versions : p = [dir |-> k, tmp |-> FALSE, weights |-> versions[k]]
    <3>1. PICK k \in DOMAIN versions : p = [dir |-> k, tmp |-> FALSE, weights |-> versions[k]]
      BY <2>1
    <3>2. k \in Nat /\ versions[k] \in Weights
      BY DEF TypeOK
    <3> QED BY <3>1, <3>2 DEF Pointer, Resolves
  <2>2. CASE \E k \in DOMAIN tmps : p = [dir |-> k, tmp |-> TRUE, weights |-> tmps[k].weights]
    <3>1. PICK k \in DOMAIN tmps : p = [dir |-> k, tmp |-> TRUE, weights |-> tmps[k].weights]
      BY <2>2
    <3>2. k \in Nat
      BY NextDir DEF DiskBounded
    <3>3. tmps[k] \in [weights : Weights, whole : BOOLEAN]
      BY DEF TypeOK
    <3> QED BY <3>1, <3>2, <3>3 DEF Pointer
  <2> QED BY <1>0, <2>1, <2>2 DEF PromoteTargets
<1>3. p \notin doomed' => Resolves(p) /\ p.dir \notin trainer.removals
  BY <1>0, <1>2 DEF Leaving
<1>4. chosen' \in [Aliases -> Pointer] /\ doomed \subseteq doomed'
      /\ \A a \in Aliases : chosen'[a] \in {p, chosen[a]}
  BY <1>0, <1>2 DEF TypeOK
<1>5. TypeOK' /\ MilestonesPinned'
  BY <1>1, <1>4 DEF TypeOK, MilestonesPinned
<1>6. /\ Newest' = Newest /\ TrainerPointers' = TrainerPointers /\ Pointers' = Pointers
      /\ _next_version_dir' = _next_version_dir
      /\ \A q : Resolves(q)' <=> Resolves(q)
  BY <1>1, SameFiles
<1>7. PointersResolve'
  BY <1>1, <1>4, <1>6 DEF PointersResolve
<1>8. PromotionUnderWay'
  BY <1>1, <1>3, <1>4, <1>6 DEF PromotionUnderWay
<1>9. DiskBounded' /\ PruneUnderWay'
  BY <1>1, <1>6 DEF DiskBounded, PruneUnderWay
<1>10. PublicationUnderWay' /\ RunUnderWay'
  BY <1>1, <1>6 DEF PublicationUnderWay, Learned, RunUnderWay, Passed, permanent_checkpoint_pointers
<1> QED BY <1>5, <1>7, <1>8, <1>9, <1>10

(* What was chosen becomes a name that the next scan finds. *)
LEMMA WritePromotedStep ==
  ASSUME CheckpointsInductive, NEW alias \in Aliases, WritePromoted(alias)
  PROVE  CheckpointsInductive'
<1> USE DEF CheckpointsInductive
<1>1. /\ UNCHANGED <<retain, versions, tmps, tombstones, latest, pinned, doomed, trainer, reader>>
      /\ promoted' = [promoted EXCEPT ![alias] = chosen[alias]]
      /\ chosen' = [chosen EXCEPT ![alias] = NoPointer]
  BY DEF WritePromoted
<1>2. NoPointer \in Pointer
  BY DEF NoPointer, Pointer
<1>3. /\ promoted' \in [Aliases -> Pointer] /\ chosen' \in [Aliases -> Pointer]
      /\ \A a \in Aliases : /\ chosen'[a] \in {NoPointer, chosen[a]}
                            /\ promoted'[a] \in {promoted[a], chosen[a]}
  BY <1>1, <1>2 DEF TypeOK
<1>4. TypeOK' /\ MilestonesPinned'
  BY <1>1, <1>3 DEF TypeOK, MilestonesPinned
<1>5. /\ Newest' = Newest /\ TrainerPointers' = TrainerPointers
      /\ _next_version_dir' = _next_version_dir
      /\ \A q : Resolves(q)' <=> Resolves(q)
  BY <1>1 DEF Newest, TrainerPointers, _next_version_dir, Resolves
<1>6. PromotionUnderWay'
  BY <1>1, <1>3, <1>5 DEF PromotionUnderWay
<1>7. PointersResolve'
  <2>1. \A p \in Pointers' : p \in TrainerPointers \/ (p # NoPointer /\ \E a \in Aliases : p = promoted'[a])
    BY <1>5 DEF Pointers
  <2> QED BY <1>1, <1>5, <1>6, <2>1 DEF PointersResolve, PromotionUnderWay
<1>8. DiskBounded' /\ PruneUnderWay'
  BY <1>1, <1>5 DEF DiskBounded, PruneUnderWay
<1>9. PublicationUnderWay' /\ RunUnderWay'
  BY <1>1, <1>5 DEF PublicationUnderWay, Learned, RunUnderWay, Passed, permanent_checkpoint_pointers
<1> QED BY <1>4, <1>6, <1>7, <1>8, <1>9

(* The evaluator only reads. *)
LEMMA ReadingStep ==
  ASSUME CheckpointsInductive, UNCHANGED <<retain, disk, trainer>>
  PROVE  CheckpointsInductive'
<1> USE DEF CheckpointsInductive
<1>0. UNCHANGED <<retain, versions, tmps, tombstones, latest, pinned, promoted, chosen, doomed,
                  promotions, trainer>>
  BY DEF disk, operator
<1>1. /\ Newest' = Newest /\ TrainerPointers' = TrainerPointers /\ Pointers' = Pointers
      /\ _next_version_dir' = _next_version_dir
      /\ \A p : Resolves(p)' <=> Resolves(p)
  BY <1>0, SameFiles
<1>2. TypeOK' /\ PointersResolve'
  BY <1>0, <1>1 DEF TypeOK, PointersResolve
<1>3. MilestonesPinned' /\ RunUnderWay'
  BY <1>0 DEF MilestonesPinned, RunUnderWay, Passed, permanent_checkpoint_pointers
<1>4. DiskBounded' /\ PublicationUnderWay' /\ PruneUnderWay' /\ PromotionUnderWay'
  BY <1>0, <1>1 DEF DiskBounded, PublicationUnderWay, PruneUnderWay, PromotionUnderWay, Learned
<1> QED BY <1>2, <1>3, <1>4

-----------------------------------------------------------------------------
(* Every step keeps the inductive invariant. *)
LEMMA CheckpointsStep == CheckpointsInductive /\ [Next]_vars => CheckpointsInductive'
<1> SUFFICES ASSUME CheckpointsInductive, [Next]_vars PROVE CheckpointsInductive'
  OBVIOUS
<1>1. CASE UNCHANGED vars
  BY <1>1, ReadingStep DEF vars, disk
<1>2. CASE Resume \/ StartFresh
  BY <1>2, ResumeStep, StartFreshStep
<1>3. CASE TrainerStep
  BY <1>3, RemoveStaleTmpStep, MakeTmpStep, FillTmpStep, RenameTmpStep, WritePinnedStep,
     WriteLatestStep, PruneScanStep, SweepTombstoneStep, SweptStep, BuryVersionStep,
     EraseTombstoneStep, TrainStep DEF TrainerStep
<1>4. CASE Crash
  BY <1>4, StoppedStep DEF Crash
<1>5. CASE \E a \in Aliases : \E k \in DOMAIN versions : promote_checkpoint_pointer(a, versions[k])
  BY <1>5, PromoteStep
<1>6. CASE \E a \in Aliases : ensure_checkpoint_pointer(a) \/ WritePromoted(a)
  BY <1>6, PromoteStep, WritePromotedStep DEF ensure_checkpoint_pointer
<1>7. CASE StartReader \/ ReaderStep \/ StopReader
  BY <1>7, ReadingStep
     DEF StartReader, ReaderStep, StopReader, ReadPointer, ReadVersion, _build_slot
<1> QED BY <1>1, <1>2, <1>3, <1>4, <1>5, <1>6, <1>7 DEF Next

(* The inductive invariant holds in every reachable state. *)
LEMMA CheckpointsInvariant == Spec => []CheckpointsInductive
<1>1. Init => CheckpointsInductive
  BY CheckpointsStart
<1>2. CheckpointsInductive /\ [Next]_vars => CheckpointsInductive'
  BY CheckpointsStep
<1> QED BY <1>1, <1>2, PTL DEF Spec

(* publish_checkpoint and prune_checkpoints may be cut off before any of     *)
(* their filesystem operations, and promotions run beside them: latest.json  *)
(* and every step_n.json always name a complete directory with the weights   *)
(* they promise, and so do best.json and arena.json, unless the promotion    *)
(* took an unfinished directory or overlapped the prune that removed its     *)
(* target.  A prune stops training in those cases only, and none meets the   *)
(* tombstone of another.                                                     *)
THEOREM PointersStayGood == Spec => []PointersResolve
<1>1. CheckpointsInductive => PointersResolve
  BY DEF CheckpointsInductive
<1> QED BY <1>1, CheckpointsInvariant, PTL

(* publish_checkpoint never lets latest.json pass a milestone that is not    *)
(* archived by the weights of its own lineage, however often the trainer is  *)
(* killed, resumed or started afresh.                                        *)
THEOREM MilestonesStayPinned == Spec => []MilestonesPinned
<1>1. CheckpointsInductive => MilestonesPinned
  BY DEF CheckpointsInductive
<1> QED BY <1>1, CheckpointsInvariant, PTL

(* prune_checkpoints leaves only the newest generations and those it found   *)
(* named when training goes on, and at most one unfinished directory is on disk.        *)
THEOREM RetentionHolds == Spec => []DiskBounded
<1>1. CheckpointsInductive => DiskBounded
  BY DEF CheckpointsInductive
<1> QED BY <1>1, CheckpointsInvariant, PTL
=============================================================================
