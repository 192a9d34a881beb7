---------------------------- MODULE Checkpoints ----------------------------
(***************************************************************************)
(* The checkpoint directory of a training run and the two processes that   *)
(* share it without a lock: the trainer, which publishes generations and   *)
(* prunes old ones (gz/checkpoints/publish.py, trainer/driver.py), and an  *)
(* evaluator that polls latest.json and loads what it names                *)
(* (gz/checkpoints/source.py, evaluator/backends.py).  An operator may at  *)
(* any time name a generation best.json or arena.json.                     *)
(*                                                                         *)
(* A step is one filesystem operation that another process, or a restart   *)
(* after a crash, can observe.  os.replace is atomic.  The trainer may be  *)
(* killed between any two of them; what a power failure does to            *)
(* directory entries that were not yet flushed is not modelled.            *)
(*                                                                         *)
(* A directory version_k is its manifest and its weights.  Weights are     *)
(* named by the training step they were published for, the run that        *)
(* trained them and the lineage, the first of the runs that resumed one    *)
(* another; those of step 0 depend on the configured seed only, so every   *)
(* fresh run publishes the same ones.                                      *)
(***************************************************************************)
EXTENDS Integers, FiniteSets, FiniteSetsExt

CONSTANTS
    TotalSteps,      \* trainer.total_steps
    PublishInterval, \* trainer.publish_interval
    PinInterval,     \* trainer.permanent_checkpoint_interval, 0: none
    Retains,         \* the values of trainer.checkpoint_retain to check
    Aliases,         \* the names an operator gives: best.json, arena.json
    MaxCommands      \* bound: how many runs and promotions are started

ASSUME StepsAssumption ==
    /\ TotalSteps \in Nat \ {0}
    /\ PublishInterval \in Nat \ {0}
    /\ PinInterval \in Nat
    /\ Retains \subseteq Nat
    /\ MaxCommands \in Nat \ {0}

VARIABLES
    retain,     \* checkpoint_retain of this directory's runs
    versions,   \* the directories version_k: k -> weights
    tmps,       \* the directories version_k.tmp: k -> [weights, whole]
    tombstones, \* the directories .version_k.prune
    latest,     \* latest.json
    pinned,     \* the files step_n.json: n -> pointer
    promoted,   \* best.json and arena.json
    chosen,     \* what a promotion under way will write: alias -> pointer
    doomed,     \* history: the pointers promoted of a directory about to go
    promotions, \* how many promotions were begun
    trainer,    \* the training process
    reader      \* the evaluator's loader

operator == <<promoted, chosen, doomed, promotions>>
disk == <<versions, tmps, tombstones, latest, pinned, operator>>
vars == <<retain, disk, trainer, reader>>

Seeded == [step |-> 0, run |-> 0, lineage |-> 0]

NoWeights == [step |-> -1, run |-> 0, lineage |-> 0]

NoPointer == [dir |-> -1, tmp |-> FALSE, weights |-> NoWeights]

\* The weights the trainer publishes at its current step.
Learned ==
    IF trainer.step = 0 THEN Seeded
    ELSE [step |-> trainer.step, run |-> trainer.runs, lineage |-> trainer.lineage]

\* What was started so far; bounded.
Commands == trainer.runs + promotions

Put(f, k, v) == [x \in DOMAIN f \cup {k} |-> IF x = k THEN v ELSE f[x]]

Remove(f, S) == [x \in DOMAIN f \ S |-> f[x]]

-----------------------------------------------------------------------------

checkpoint_due(step) ==
    /\ step > 0
    /\ \/ step % PublishInterval = 0
       \/ PinInterval > 0 /\ step % PinInterval = 0

permanent_checkpoint_pointers(step) ==
    IF step > 0 /\ PinInterval > 0 /\ step % PinInterval = 0 THEN {step} ELSE {}

\* The step of the next publication after step: the next one that is due,
\* or the last step of the run.
NextPublication(step) ==
    Min({s \in (step + 1)..TotalSteps : checkpoint_due(s)} \cup {TotalSteps})

_next_version_dir == Max({k + 1 : k \in DOMAIN versions} \cup {0})

Stopped(runs, error) ==
    [pc |-> "off", runs |-> runs, step |-> 0, lineage |-> 0, dir |-> 0, removals |-> {},
     named |-> {}, error |-> error]

\* An evaluator that has not been started.
ReaderOff == [pc |-> "off", pointer |-> NoPointer, active |-> NoWeights, rejected |-> {}]

Init ==
    /\ retain \in Retains
    /\ versions = [k \in {} |-> NoWeights]
    /\ tmps = [k \in {} |-> [weights |-> NoWeights, whole |-> FALSE]]
    /\ tombstones = {}
    /\ latest = NoPointer
    /\ pinned = [n \in {} |-> NoPointer]
    /\ promoted = [a \in Aliases |-> NoPointer]
    /\ chosen = [a \in Aliases |-> NoPointer]
    /\ doomed = {}
    /\ promotions = 0
    /\ trainer = Stopped(0, "none")
    /\ reader = ReaderOff

-----------------------------------------------------------------------------
(* resolve_version, and the comparison that follows it: the manifest of    *)
(* the directory a pointer names, the weights file, its hash and the model *)
(* version.                                                                *)

Resolves(pointer) ==
    /\ ~pointer.tmp
    /\ pointer.dir \in DOMAIN versions
    /\ versions[pointer.dir] = pointer.weights

-----------------------------------------------------------------------------
(* The trainer.                                                            *)

\* _prepare_run with resume: continue from latest.json, unless the run is
\* already complete.  The run then prunes before it trains.
Resume ==
    /\ trainer.pc = "off"
    /\ Commands < MaxCommands
    /\ Resolves(latest)
    /\ latest.weights.step < TotalSteps
    /\ trainer' = [trainer EXCEPT !.pc = "prune", !.runs = @ + 1, !.error = "none",
                                  !.step = latest.weights.step,
                                  !.lineage = IF latest.weights = Seeded THEN trainer.runs + 1
                                              ELSE latest.weights.lineage]
    /\ UNCHANGED <<retain, disk, reader>>

\* _prepare_run without resume: the freshly initialised weights are
\* published as step 0 of this directory, whatever it already holds.
StartFresh ==
    /\ trainer.pc = "off"
    /\ Commands < MaxCommands
    /\ trainer' = [trainer EXCEPT !.pc = "tmp", !.runs = @ + 1, !.error = "none", !.step = 0,
                                  !.lineage = trainer.runs + 1]
    /\ UNCHANGED <<retain, disk, reader>>

\* publish_checkpoint: a leftover of an interrupted publication goes first.
RemoveStaleTmp ==
    /\ trainer.pc = "tmp"
    /\ _next_version_dir \in DOMAIN tmps
    /\ tmps' = Remove(tmps, {_next_version_dir})
    /\ UNCHANGED <<retain, versions, tombstones, latest, pinned, operator, trainer, reader>>

MakeTmp ==
    /\ trainer.pc = "tmp"
    /\ _next_version_dir \notin DOMAIN tmps
    /\ tmps' = Put(tmps, _next_version_dir,
                   [weights |-> Learned, whole |-> FALSE])
    /\ trainer' = [trainer EXCEPT !.pc = "fill", !.dir = _next_version_dir]
    /\ UNCHANGED <<retain, versions, tombstones, latest, pinned, operator, reader>>

\* The weights and then the manifest that carries their hash.
FillTmp ==
    /\ trainer.pc = "fill"
    /\ tmps' = [tmps EXCEPT ![trainer.dir].whole = TRUE]
    /\ trainer' = [trainer EXCEPT !.pc = "rename"]
    /\ UNCHANGED <<retain, versions, tombstones, latest, pinned, operator, reader>>

RenameTmp ==
    /\ trainer.pc = "rename"
    /\ versions' = Put(versions, trainer.dir, tmps[trainer.dir].weights)
    /\ tmps' = Remove(tmps, {trainer.dir})
    /\ trainer' = [trainer EXCEPT !.pc = "pin"]
    /\ UNCHANGED <<retain, tombstones, latest, pinned, operator, reader>>

_write_checkpoint_pointer ==
    [dir |-> trainer.dir, tmp |-> FALSE, weights |-> Learned]

\* Mutant: latest.json advances before the archival names are written.
WritePinned_LatestFirst ==
    /\ trainer.pc = "pin"
    /\ IF latest # _write_checkpoint_pointer
       THEN latest' = _write_checkpoint_pointer /\ UNCHANGED <<pinned, trainer>>
       ELSE /\ pinned' = [n \in DOMAIN pinned \cup permanent_checkpoint_pointers(trainer.step) |->
                            IF n = trainer.step THEN _write_checkpoint_pointer ELSE pinned[n]]
            /\ trainer' = [trainer EXCEPT !.pc = "latest"]
            /\ UNCHANGED latest
    /\ UNCHANGED <<retain, versions, tmps, tombstones, operator, reader>>

\* The archival names are written before latest.json advances.
WritePinned ==
    /\ trainer.pc = "pin"
    /\ pinned' = [n \in DOMAIN pinned \cup permanent_checkpoint_pointers(trainer.step) |->
                    IF n = trainer.step THEN _write_checkpoint_pointer ELSE pinned[n]]
    /\ trainer' = [trainer EXCEPT !.pc = "latest"]
    /\ UNCHANGED <<retain, versions, tmps, tombstones, latest, operator, reader>>

WriteLatest ==
    /\ trainer.pc = "latest"
    /\ latest' = _write_checkpoint_pointer
    /\ trainer' = [trainer EXCEPT !.pc = "prune"]
    /\ UNCHANGED <<retain, versions, tmps, tombstones, pinned, operator, reader>>

\* prune_checkpoints, what it keeps: the newest generations and every one
\* that a pointer names.
Newest == {k \in DOMAIN versions : Cardinality({j \in DOMAIN versions : j > k}) < retain}

TrainerPointers == ({latest} \ {NoPointer}) \cup {pinned[n] : n \in DOMAIN pinned}

Pointers == TrainerPointers \cup ({promoted[a] : a \in Aliases} \ {NoPointer})

Named == {p.dir : p \in {q \in Pointers : ~q.tmp}}

\* Mutant: the archival pointers protect nothing.
Protected_NoArchive == Newest \cup {p.dir : p \in {latest} \cup {promoted[a] : a \in Aliases}}

Protected == Newest \cup Named

\* Whether a pointer names a directory of the scan, with the model it names.
_checkpoint_pointer_target(pointer) ==
    /\ ~pointer.tmp /\ pointer.dir \in DOMAIN versions
    /\ pointer.weights = versions[pointer.dir]

\* The pointers whose directory may go before or after they are written: an
\* unfinished one, or one that the prune under way removes.
Leaving(pointers, removals) == {p \in pointers : p.tmp \/ p.dir \in removals}

\* The scan of the directories and the pointers.  A pointer whose target is
\* missing or is another model stops the trainer before anything is deleted.
PruneScan ==
    /\ trainer.pc = "prune"
    /\ \/ /\ retain = 0
          /\ trainer' = [trainer EXCEPT !.pc = "train"]
          /\ UNCHANGED doomed
       \/ /\ retain > 0
          /\ \A p \in Pointers : _checkpoint_pointer_target(p)
          /\ trainer' = [trainer EXCEPT !.pc = "sweep", !.named = Named,
                                        !.removals = DOMAIN versions \ Protected]
          /\ doomed' = doomed \cup Leaving({chosen[a] : a \in Aliases}, trainer'.removals)
       \/ /\ retain > 0
          /\ \E p \in Pointers : ~_checkpoint_pointer_target(p)
          /\ trainer' = Stopped(trainer.runs, "pointer")
          /\ UNCHANGED doomed
    /\ UNCHANGED <<retain, versions, tmps, tombstones, latest, pinned,
                   promoted, chosen, promotions, reader>>

\* _remove_prune_tombstones: what an interrupted prune left behind.
SweepTombstone ==
    /\ trainer.pc = "sweep"
    /\ tombstones # {}
    /\ \E k \in tombstones : tombstones' = tombstones \ {k}
    /\ UNCHANGED <<retain, versions, tmps, latest, pinned, operator, trainer, reader>>

AfterSweep == [trainer EXCEPT !.pc = IF trainer.removals = {} THEN "train" ELSE "bury"]

\* Mutant: with nothing to remove, prune returns before it sweeps.
Swept_EarlyReturn ==
    /\ trainer.pc = "sweep"
    /\ tombstones = {} \/ trainer.removals = {}
    /\ trainer' = AfterSweep
    /\ UNCHANGED <<retain, disk, reader>>

Swept ==
    /\ trainer.pc = "sweep"
    /\ tombstones = {}
    /\ trainer' = AfterSweep
    /\ UNCHANGED <<retain, disk, reader>>

\* The oldest removal is renamed out of the way; renaming onto a directory
\* that is not empty is an error.
BuryVersion ==
    /\ trainer.pc = "bury"
    /\ LET k    == Min(trainer.removals)
           rest == trainer.removals \ {k} IN
         IF k \in tombstones
         THEN /\ trainer' = Stopped(trainer.runs, "rename")
              /\ UNCHANGED <<versions, tombstones>>
         ELSE /\ versions' = Remove(versions, {k})
              /\ tombstones' = tombstones \cup {k}
              /\ trainer' = [trainer EXCEPT !.removals = rest,
                                            !.pc = IF rest = {} THEN "erase" ELSE "bury"]
    /\ UNCHANGED <<retain, tmps, latest, pinned, operator, reader>>

EraseTombstone ==
    /\ trainer.pc = "erase"
    /\ \E k \in tombstones :
         /\ tombstones' = tombstones \ {k}
         /\ trainer' = [trainer EXCEPT !.pc = IF tombstones = {k} THEN "train" ELSE "erase"]
    /\ UNCHANGED <<retain, versions, tmps, latest, pinned, operator, reader>>

\* _publish is called for the next step that is due; after the last one
\* the run is over.
Train ==
    /\ trainer.pc = "train"
    /\ trainer' = IF trainer.step = TotalSteps
                  THEN Stopped(trainer.runs, "none")
                  ELSE [trainer EXCEPT !.pc = "tmp", !.named = {},
                                       !.step = NextPublication(trainer.step)]
    /\ UNCHANGED <<retain, disk, reader>>

\* The training process dies between two filesystem operations.
Crash ==
    /\ trainer.pc # "off"
    /\ trainer' = Stopped(trainer.runs, "none")
    /\ UNCHANGED <<retain, disk, reader>>

TrainerStep ==
    \/ RemoveStaleTmp \/ MakeTmp \/ FillTmp \/ RenameTmp
    \/ WritePinned \/ WriteLatest
    \/ PruneScan \/ SweepTombstone \/ Swept \/ BuryVersion \/ EraseTombstone
    \/ Train

-----------------------------------------------------------------------------
(* The operator.                                                           *)

\* The directories promote_checkpoint_pointer considers: every name that
\* begins with version_ and holds a manifest, the unfinished ones included.
PromoteTargets ==
    {[dir |-> k, tmp |-> FALSE, weights |-> versions[k]] : k \in DOMAIN versions}
    \cup {[dir |-> k, tmp |-> TRUE, weights |-> tmps[k].weights] :
            k \in {j \in DOMAIN tmps : tmps[j].whole}}

\* The operator names a model: its directory is looked up.  Nothing keeps
\* promote_checkpoint_pointer from running beside the trainer.
promote_checkpoint_pointer(alias, weights) ==
    /\ Commands < MaxCommands
    /\ promotions' = promotions + 1
    /\ \E p \in PromoteTargets :
         /\ p.weights = weights
         /\ chosen' = [chosen EXCEPT ![alias] = p]
         /\ doomed' = doomed \cup Leaving({p}, trainer.removals)
    /\ UNCHANGED <<retain, versions, tmps, tombstones, latest, pinned, promoted, trainer, reader>>

\* The pointer is written, whatever has happened to the directory since.  A
\* promotion that is killed before is one that never comes to this, or that
\* the next one replaces.
WritePromoted(alias) ==
    /\ chosen[alias] # NoPointer
    /\ promoted' = [promoted EXCEPT ![alias] = chosen[alias]]
    /\ chosen' = [chosen EXCEPT ![alias] = NoPointer]
    /\ UNCHANGED <<retain, versions, tmps, tombstones, latest, pinned, doomed, promotions,
                   trainer, reader>>

\* An absent alias becomes the generation that latest.json names.  (One that
\* a publication or a prune overtakes here does what a promotion of the older
\* model does.)
ensure_checkpoint_pointer(alias) ==
    /\ promoted[alias] = NoPointer
    /\ Resolves(latest)
    /\ promote_checkpoint_pointer(alias, latest.weights)

-----------------------------------------------------------------------------
(* The evaluator's loader.                                                 *)

\* The evaluator is started: its constructor resolves latest.json.
StartReader ==
    /\ reader.pc = "off"
    /\ latest # NoPointer
    /\ reader' = [reader EXCEPT !.pc = "pointer", !.pointer = latest]
    /\ UNCHANGED <<retain, disk, trainer>>

\* _poll_once: resolve_latest, its first read.
ReadPointer ==
    /\ reader.pc = "idle"
    /\ reader' = [reader EXCEPT !.pc = "pointer", !.pointer = latest]
    /\ UNCHANGED <<retain, disk, trainer>>

\* Mutant: an error ends the loader thread.
ReaderError_Uncaught ==
    IF reader.active = NoWeights THEN ReaderOff
    ELSE [reader EXCEPT !.pc = "dead", !.pointer = NoPointer]

\* The loader logs an error and polls again; in the constructor it ends the
\* evaluator.
ReaderError == IF reader.active = NoWeights THEN ReaderOff ELSE [reader EXCEPT !.pc = "idle", !.pointer = NoPointer]

\* The other reads of resolve_latest.  A model that is resident or was
\* rejected is left alone.
ReadVersion ==
    /\ reader.pc = "pointer"
    /\ reader' =
         IF ~Resolves(reader.pointer) THEN ReaderError
         ELSE IF reader.pointer.weights \in reader.rejected \cup {reader.active}
              THEN [reader EXCEPT !.pc = "idle", !.pointer = NoPointer]
              ELSE [reader EXCEPT !.pc = "build"]
    /\ UNCHANGED <<retain, disk, trainer>>

\* A build that failed: the version is rejected for the evaluator's life.
Rejected == [ReaderError EXCEPT !.rejected =
               IF reader.active = NoWeights THEN {} ELSE @ \cup {reader.pointer.weights}]

\* _build_slot reads the weights file again.
_build_slot ==
    /\ reader.pc = "build"
    /\ reader' =
         IF Resolves(reader.pointer)
         THEN [reader EXCEPT !.pc = "idle", !.pointer = NoPointer,
                             !.active = reader.pointer.weights]
         ELSE Rejected
    /\ UNCHANGED <<retain, disk, trainer>>

\* The evaluator is stopped, by the run it belongs to or by hand.
StopReader ==
    /\ reader.pc # "off"
    /\ reader' = ReaderOff
    /\ UNCHANGED <<retain, disk, trainer>>

ReaderStep == ReadPointer \/ ReadVersion \/ _build_slot

Next ==
    \/ Resume
    \/ StartFresh
    \/ TrainerStep
    \/ Crash
    \/ \E a \in Aliases :
         \/ \E k \in DOMAIN versions : promote_checkpoint_pointer(a, versions[k])
         \/ ensure_checkpoint_pointer(a)
         \/ WritePromoted(a)
    \/ StartReader \/ ReaderStep \/ StopReader

\* A process that is alive takes its next step; nothing makes an operator
\* start, stop or promote anything, and no crash has to happen.
Fairness == WF_vars(TrainerStep) /\ WF_vars(ReaderStep)

Spec == Init /\ [][Next]_vars /\ Fairness

-----------------------------------------------------------------------------
(* Properties.                                                             *)

\* At every instant, a crash in the middle of a publication or of a prune
\* included, latest.json and every step_n.json name a complete directory with
\* the weights they promise, so that a restart finds them.  So do best.json and
\* arena.json, and prune_checkpoints accepts them, unless the promotion took an
\* unfinished version_k.tmp or a prune had the directory marked for removal
\* while the promotion was under way.  Nor does a prune fail on a tombstone
\* that an interrupted one left.
PointersResolve ==
    /\ \A p \in TrainerPointers \cup (Pointers \ doomed) : Resolves(p)
    /\ trainer.error # "rename"
    /\ trainer.error = "pointer" => doomed # {}

\* Every milestone at or before the step of latest.json is pinned, by the
\* weights of the lineage that latest.json continues: publish_checkpoint
\* writes the archival names first, so a crash between the two can neither
\* lose a milestone nor leave the abandoned attempt's weights under its name.
MilestonesPinned ==
    \A n \in 1..latest.weights.step :
      permanent_checkpoint_pointers(n) # {} =>
        /\ n \in DOMAIN pinned
        /\ pinned[n].weights.step = n
        /\ pinned[n].weights.lineage = latest.weights.lineage

\* While the trainer trains, a positive retention holds: what an earlier,
\* interrupted prune left is gone and no other generation than the newest
\* and those that the prune found named is on disk.  Interrupted publications never pile up:
\* the only leftover is the one the next publication replaces.
DiskBounded ==
    /\ retain > 0 /\ trainer.pc = "train" =>
         /\ tombstones = {}
         /\ DOMAIN versions \subseteq Newest \cup trainer.named
    /\ DOMAIN tmps \subseteq {_next_version_dir}

\* An evaluator that keeps running comes to serve the newest published
\* model, however its reads interleave with publications and prunes.  The
\* exception is a step 0 that it rejected because it was pruned while being
\* loaded and that another fresh run published again: _poll_once never
\* reconsiders a rejected model version.
NewestLoaded ==
    []<>(\/ reader.pc = "off"
         \/ reader.active = latest.weights
         \/ latest.weights = Seeded /\ Seeded \in reader.rejected)

-----------------------------------------------------------------------------
(* Why it is so: the parts of an inductive invariant.                      *)

Publishing == {"tmp", "fill", "rename", "pin", "latest"}
Pruning == {"prune", "sweep", "bury", "erase", "train"}

Weights == [step : Nat, run : Nat, lineage : Nat]
Pointer == [dir : Nat \cup {-1}, tmp : BOOLEAN, weights : Weights \cup {NoWeights}]
TrainerState ==
    [pc : {"off"} \cup Publishing \cup Pruning, runs : Nat, step : 0..TotalSteps, lineage : Nat,
     dir : Nat, removals : SUBSET Nat, named : SUBSET Int, error : {"none", "pointer", "rename"}]

\* The types of the files and of the training process.
TypeOK ==
    /\ retain \in Nat
    /\ DOMAIN versions \subseteq Nat /\ IsFiniteSet(DOMAIN versions)
    /\ versions \in [DOMAIN versions -> Weights]
    /\ tmps \in [DOMAIN tmps -> [weights : Weights, whole : BOOLEAN]]
    /\ tombstones \subseteq Nat
    /\ latest \in Pointer
    /\ DOMAIN pinned \subseteq Nat /\ pinned \in [DOMAIN pinned -> Pointer]
    /\ promoted \in [Aliases -> Pointer] /\ chosen \in [Aliases -> Pointer]
    /\ trainer \in TrainerState

\* A publication fills the directory that is next, and once it is renamed it
\* holds the weights that the pointers will name.
PublicationUnderWay ==
    /\ trainer.pc \in {"fill", "rename"} =>
         /\ trainer.dir = _next_version_dir
         /\ trainer.dir \in DOMAIN tmps /\ tmps[trainer.dir].weights = Learned
    /\ trainer.pc \in {"pin", "latest"} =>
         trainer.dir \in DOMAIN versions /\ versions[trainer.dir] = Learned

\* A prune removes nothing that the trainer named, keeps the newest directory,
\* and leaves nothing else behind than what it found named.
PruneUnderWay ==
    /\ \A p \in TrainerPointers : p.dir \notin trainer.removals
    /\ trainer.pc \in {"sweep", "bury", "erase"} =>
         /\ retain > 0
         /\ trainer.removals \subseteq DOMAIN versions
         /\ DOMAIN versions \ trainer.removals \subseteq Newest \cup trainer.named
         /\ \A k \in trainer.removals : \E j \in DOMAIN versions \ trainer.removals : k < j
    /\ trainer.pc = "bury" => trainer.removals # {} /\ trainer.removals \cap tombstones = {}
    /\ trainer.pc \notin {"sweep", "bury"} => trainer.removals = {}

\* What a promotion has chosen or written is there, and stays, unless it is
\* one of the doomed.
PromotionUnderWay ==
    \A a \in Aliases : \A p \in {promoted[a], chosen[a]} :
      p \notin doomed \cup {NoPointer} => Resolves(p) /\ p.dir \notin trainer.removals

\* The milestones that the running trainer has passed are pinned by its
\* lineage, and latest.json is behind a publication and level after it.
Passed ==
    IF trainer.pc \in {"tmp", "fill", "rename", "pin"} THEN trainer.step - 1 ELSE trainer.step

RunUnderWay ==
    /\ trainer.pc # "off" =>
         \A n \in 1..Passed :
           permanent_checkpoint_pointers(n) # {} =>
             /\ n \in DOMAIN pinned
             /\ pinned[n].weights.step = n
             /\ pinned[n].weights.lineage = trainer.lineage
    /\ trainer.pc \in Publishing /\ trainer.step > 0 => latest.weights.step < trainer.step
    /\ trainer.pc \in Pruning => latest.weights.step = trainer.step

CheckpointsInductive ==
    /\ TypeOK /\ PointersResolve /\ MilestonesPinned /\ DiskBounded
    /\ PublicationUnderWay /\ PruneUnderWay /\ PromotionUnderWay /\ RunUnderWay
=============================================================================
