---------------------------- MODULE ModelServing ----------------------------
(***************************************************************************)
(* Serving a changing model to self-play: the lanes that lease a model     *)
(* generation per episode (gz-orchestrator/src/leases.rs, lanes/lane.rs),  *)
(* the thread that batches their evaluations (lanes/batcher.rs), the       *)
(* client of the evaluator process (gz-eval-service/src/process.rs), and   *)
(* the Python evaluator: its serving thread (python/gz/evaluator/server.py *)
(* and backends.py) and the thread that loads new checkpoints.             *)
(*                                                                         *)
(* Client and evaluator share nothing but a FIFO stream in each direction. *)
(* The evaluator swaps models when an EVAL frame arrives; the client hears *)
(* of it in the replies, and says with a MODEL_RELEASE frame that it will  *)
(* not ask for a generation again.                                         *)
(*                                                                         *)
(* A model version is the number of its checkpoint.  An episode stands for *)
(* its rows; a reply is resumed in the step that routes it.  Errors of     *)
(* either side, which end the run, are recorded in fault.                  *)
(***************************************************************************)
EXTENDS Integers, Sequences, SequencesExt, FiniteSets

CONSTANTS
  Episodes,       \* worker slots: each plays one episode after the other
  MaxEvals,       \* evals_per_worker
  MaxBatch,       \* batch_capacity
  Depth,          \* EVAL_PIPELINE_DEPTH and PIPELINE_DEPTH
  MaxResident,    \* max_resident_model_generations, of both sides
  MaxVersion      \* bound: checkpoints the trainer publishes

ASSUME ServingAssumption ==
  /\ IsFiniteSet(Episodes)
  /\ {MaxEvals, MaxBatch, Depth} \subseteq Nat \ {0}
  /\ MaxResident \in Nat /\ MaxResident >= 2
  /\ MaxVersion \in Nat \ {0}

VARIABLES
  \* lanes
  lease,        \* lease[e]: the generation the episode of slot e holds, or None
  outstanding,  \* outstanding[e]: the tokens of its evaluations without a reply
  running,      \* some lane holds the sending end of the intake channel
  intake,       \* the bounded channel from the lanes to the batcher
  \* ModelLeaseRegistry
  current,
  users,        \* users[g], for the registered generations g
  releasable,
  \* batcher and ProcessBackend
  pc,
  batch,
  deferred,
  inFlight,
  reported,     \* ProcessBackend.model_generation
  \* the stream
  toServer,
  toClient,
  \* TorchBackend
  resident,     \* resident[v]: generation id of a model version that is held
  active,
  nextGeneration,
  launched,     \* pending of _serve_connection
  pending,      \* loaded version that waits for the next EVAL frame, or 0
  adopting,     \* version that is being warmed up, or 0
  loader,       \* the loader thread: where it is, and the version at hand
  rejected,     \* _logged_rejections
  published,    \* the latest checkpoint on disk
  fault         \* first error of the client or the evaluator

laneVars == <<lease, outstanding, running>>
registryVars == <<current, users, releasable>>
batcherVars == <<pc, batch, deferred, inFlight, reported>>
loaderVars == <<loader, rejected, published>>
serverVars == <<resident, active, nextGeneration, launched, pending, adopting>>
vars == <<laneVars, intake, registryVars, batcherVars, toServer, toClient,
          serverVars, loaderVars, fault>>

Versions == 1..MaxVersion
Generation(i, v) == [id |-> i, version |-> v]
Generations == [id : Versions, version : Versions]
None == Generation(0, 0)
Registered == DOMAIN users
Resident == {Generation(resident[v], v) : v \in DOMAIN resident}

Token == 1..MaxEvals
Job(e, t, g) == [episode |-> e, token |-> t, model |-> g]
Jobs == [episode : Episodes, token : Token, model : Generations]
EvalFrame(g) == [type |-> "EVAL", model |-> g]
ReleaseFrame(g) == [type |-> "MODEL_RELEASE", model |-> g]

IntakeCapacity == Cardinality(Episodes) * MaxEvals

TypeOK ==
  /\ lease \in [Episodes -> Generations \cup {None}]
  /\ outstanding \in [Episodes -> SUBSET Token]
  /\ running \in BOOLEAN
  /\ current \in Generations /\ Registered \subseteq Generations
  /\ users \in [Registered -> 0..Cardinality(Episodes)]
  /\ releasable \in Seq(Generations) /\ IsInjective(releasable)
  /\ pc \in {"top", "fill", "release", "submit", "ended"}
  /\ {intake, batch, deferred} \subseteq Seq(Jobs)
  /\ inFlight \in Seq([jobs : Seq(Jobs), model : Generations])
  /\ Len(intake) <= IntakeCapacity /\ Len(batch) <= MaxBatch
  /\ Len(deferred) <= IntakeCapacity /\ Len(inFlight) <= Depth
  /\ reported \in Generations
  /\ toServer \in Seq([type : {"EVAL", "MODEL_RELEASE"}, model : Generations])
  /\ toClient \in Seq([version : Versions, active : Generations])
  /\ launched \in Seq(Versions)
  /\ Len(toClient) <= Depth /\ Len(launched) <= Depth
  /\ DOMAIN resident \subseteq Versions /\ resident \in [DOMAIN resident -> Versions]
  /\ active \in Generations /\ nextGeneration \in 2..(MaxVersion + 1)
  /\ {pending, adopting} \subseteq 0..MaxVersion
  /\ loader \in [at : {"idle", "resolved", "loading"}, version : 0..MaxVersion]
  /\ rejected \subseteq Versions /\ published \in Versions

Init ==
  /\ lease = [e \in Episodes |-> None]
  /\ outstanding = [e \in Episodes |-> {}]
  /\ running = TRUE /\ intake = <<>>
  /\ current = Generation(1, 1)
  /\ users = [g \in {Generation(1, 1)} |-> 0]
  /\ releasable = <<>>
  /\ pc = "top" /\ batch = <<>> /\ deferred = <<>> /\ inFlight = <<>>
  /\ reported = Generation(1, 1)
  /\ toServer = <<>> /\ toClient = <<>>
  /\ resident = [v \in {1} |-> 1]
  /\ active = Generation(1, 1) /\ nextGeneration = 2
  /\ launched = <<>> /\ pending = 0 /\ adopting = 0
  /\ loader = [at |-> "idle", version |-> 0]
  /\ rejected = {} /\ published = 1
  /\ fault = "none"

Fail(what) == fault' = IF fault = "none" THEN what ELSE fault

-----------------------------------------------------------------------------
(* ModelLeaseRegistry *)

QueueRelease(g) ==
  releasable' = IF g \in Range(releasable) THEN releasable ELSE Append(releasable, g)

AcquireCurrent(e) ==
  \/ /\ current \in Registered
     /\ users' = [users EXCEPT ![current] = @ + 1]
     /\ lease' = [lease EXCEPT ![e] = current]
     /\ UNCHANGED fault
  \/ /\ current \notin Registered
     /\ Fail("current model generation is registered")
     /\ UNCHANGED <<users, lease>>

(* Mutant: the last user of a superseded generation leaves unnoticed. *)
DropLeaseQuietly(g) ==
  /\ users' = [h \in Registered |-> IF h = g THEN users[h] - 1 ELSE users[h]]
  /\ UNCHANGED releasable

DropLease(g) ==
  /\ users' = [h \in Registered |-> IF h = g THEN users[h] - 1 ELSE users[h]]
  /\ IF g \in Registered /\ users[g] = 1 /\ current # g
     THEN QueueRelease(g) ELSE UNCHANGED releasable

PublishError(g) ==
  IF \E h \in Registered : h.id = g.id /\ h.version # g.version
  THEN "model generation id changed version"
  ELSE IF \E h \in Registered : h.version = g.version /\ h.id # g.id
  THEN "model version has multiple resident generations"
  ELSE IF g \notin Registered /\ Cardinality(Registered) >= MaxResident
  THEN "too many resident model generations"
  ELSE "none"

(* Mutant: a superseded generation is released while episodes hold it. *)
PublishReleasingUsed(g) ==
  /\ g # current => QueueRelease(current)
  /\ g = current => UNCHANGED releasable
  /\ current' = g
  /\ users' = [h \in Registered \cup {g} |-> IF h \in Registered THEN users[h] ELSE 0]
  /\ UNCHANGED fault

Publish(g) ==
  \/ g = current /\ UNCHANGED <<registryVars, fault>>
  \/ /\ g # current /\ PublishError(g) # "none"
     /\ Fail(PublishError(g))
     /\ UNCHANGED registryVars
  \/ /\ g # current /\ PublishError(g) = "none"
     /\ users' = [h \in Registered \cup {g} |-> IF h \in Registered THEN users[h] ELSE 0]
     /\ current' = g
     /\ IF current \in Registered /\ users[current] = 0
        THEN QueueRelease(current) ELSE UNCHANGED releasable
     /\ UNCHANGED fault

(* release_releasable_models: take_releasable, and a frame for each. *)
TakeReleasable ==
  /\ releasable' = <<>>
  /\ users' = [g \in Registered \ Range(releasable) |-> users[g]]
  /\ IF reported \in Range(releasable)
     THEN Fail("cannot release the active model generation") ELSE UNCHANGED fault
  /\ UNCHANGED current

ReleaseFrames == [i \in DOMAIN releasable |-> ReleaseFrame(releasable[i])]

-----------------------------------------------------------------------------
(* Lanes *)

(* An episode is admitted: it leases the current generation. *)
Admit(e) ==
  /\ running /\ lease[e] = None
  /\ AcquireCurrent(e)
  /\ UNCHANGED <<outstanding, running, intake, current, releasable, batcherVars,
                 toServer, toClient, serverVars, loaderVars>>

(* send_featurized_parked: an evaluation goes to the batcher, for the leased *)
(* generation; its token is that of no other evaluation of the episode that  *)
(* waits.                                                                    *)
SendEval(e) ==
  /\ lease[e] # None
  /\ Len(intake) < IntakeCapacity
  /\ \E t \in Token \ outstanding[e] :
       /\ intake' = Append(intake, Job(e, t, lease[e]))
       /\ outstanding' = [outstanding EXCEPT ![e] = @ \cup {t}]
  /\ UNCHANGED <<lease, running, registryVars, batcherVars, toServer, toClient,
                 serverVars, loaderVars, fault>>

(* complete: a task completes only when all its evaluations were resumed. *)
CompleteEpisode(e) ==
  /\ lease[e] # None /\ outstanding[e] = {}
  /\ DropLease(lease[e])
  /\ lease' = [lease EXCEPT ![e] = None]
  /\ UNCHANGED <<outstanding, running, intake, current, batcherVars, toServer,
                 toClient, serverVars, loaderVars, fault>>

(* The root sources are exhausted and the lanes return. *)
LanesReturn ==
  /\ running /\ \A e \in Episodes : lease[e] = None
  /\ running' = FALSE
  /\ UNCHANGED <<lease, outstanding, intake, registryVars, batcherVars, toServer,
                 toClient, serverVars, loaderVars, fault>>

-----------------------------------------------------------------------------
(* run_featurized_batcher *)

IntakeClosed == ~running /\ intake = <<>>

(* The elements of s at the places in S, in their order. *)
Rank(S, i) == Cardinality({k \in S : k <= i})
Pick(s, S) == [n \in 1..Cardinality(S) |-> s[CHOOSE i \in S : Rank(S, i) = n]]

(* The deferred jobs of the model of the first one, as many as fit. *)
Matching == {i \in DOMAIN deferred : deferred[i].model = deferred[1].model}
Chosen == {i \in Matching : Rank(Matching, i) <= MaxBatch}
Taken == Pick(deferred, Chosen)
Kept == Pick(deferred, DOMAIN deferred \ Chosen)

(* The head of the loop: models are released, the batch begins. *)
BatcherTop ==
  /\ pc = "top"
  /\ TakeReleasable
  /\ toServer' = toServer \o ReleaseFrames
  /\ IF IntakeClosed /\ inFlight = <<>> /\ deferred = <<>>
     THEN /\ pc' = "ended"
          /\ UNCHANGED <<batch, deferred>>
     ELSE IF Len(inFlight) < Depth
     THEN /\ pc' = "fill"
          /\ batch' = IF deferred = <<>> THEN <<>> ELSE Taken
          /\ deferred' = IF deferred = <<>> THEN <<>> ELSE Kept
     ELSE /\ pc' = "submit" /\ batch' = <<>>
          /\ UNCHANGED deferred
  /\ UNCHANGED <<laneVars, intake, inFlight, reported, toClient, serverVars, loaderVars>>

(* A job arrives in the flush window: it joins the batch, or is deferred. *)
FillReceive ==
  /\ pc = "fill" /\ Len(batch) < MaxBatch /\ intake # <<>>
  /\ intake' = Tail(intake)
  /\ IF batch = <<>> \/ Head(intake).model = batch[1].model
     THEN /\ batch' = Append(batch, Head(intake))
          /\ UNCHANGED <<pc, deferred>>
     ELSE /\ deferred' = Append(deferred, Head(intake))
          /\ pc' = IF Len(deferred') >= MaxBatch THEN "submit" ELSE "fill"
          /\ UNCHANGED batch
  /\ UNCHANGED <<laneVars, registryVars, inFlight, reported, toServer, toClient,
                 serverVars, loaderVars, fault>>

(* The batch is full, the intake closed, or the window elapsed with an idle  *)
(* backend.                                                                  *)
FillEnds ==
  /\ pc = "fill"
  /\ \/ Len(batch) >= MaxBatch
     \/ IntakeClosed
     \/ batch # <<>> /\ inFlight = <<>> /\ intake = <<>>
  /\ pc' = "submit"
  /\ UNCHANGED <<laneVars, intake, registryVars, batch, deferred, inFlight, reported,
                 toServer, toClient, serverVars, loaderVars, fault>>

(* drain_oldest, once its reply is there; every job of the batch is routed.  *)
DrainOldest(next) ==
  /\ inFlight # <<>> /\ toClient # <<>>
  /\ toClient' = Tail(toClient)
  /\ inFlight' = Tail(inFlight)
  /\ reported' = Head(toClient).active
  /\ pc' = next
  /\ IF Head(toClient).version # Head(inFlight).model.version
     THEN /\ Fail("model version mismatch")
          /\ UNCHANGED <<registryVars, outstanding>>
     ELSE /\ Publish(Head(toClient).active)
          /\ outstanding' = [e \in Episodes |-> {t \in outstanding[e] :
               ~\E j \in Range(Head(inFlight).jobs) : j.episode = e /\ j.token = t}]
  /\ UNCHANGED <<lease, running, intake, batch, deferred, toServer, serverVars, loaderVars>>

(* The window elapsed while the backend holds work. *)
FillDrains ==
  /\ pc = "fill" /\ Len(batch) < MaxBatch /\ ~IntakeClosed
  /\ DrainOldest("release")

(* The end of drain_oldest in the window. *)
FillReleases ==
  /\ pc = "release"
  /\ TakeReleasable
  /\ toServer' = toServer \o ReleaseFrames
  /\ pc' = "fill"
  /\ UNCHANGED <<laneVars, intake, batch, deferred, inFlight, reported, toClient,
                 serverVars, loaderVars>>

MustDrain == Len(inFlight) >= Depth \/ (batch = <<>> /\ inFlight # <<>>)

(* The batch is sent, after another round of releases.  It drains next when  *)
(* the pipeline is full, or when nothing was collected.                      *)
Submit ==
  /\ pc = "submit" /\ batch # <<>>
  /\ IF \A i \in DOMAIN batch : batch[i].model = batch[1].model
     THEN TakeReleasable
     ELSE Fail("mixed model generations in eval batch") /\ UNCHANGED registryVars
  /\ toServer' = Append(toServer \o ReleaseFrames, EvalFrame(batch[1].model))
  /\ inFlight' = Append(inFlight, [jobs |-> batch, model |-> batch[1].model])
  /\ batch' = <<>>
  /\ pc' = IF Len(inFlight') >= Depth THEN "submit" ELSE "top"
  /\ UNCHANGED <<laneVars, intake, deferred, reported, toClient, serverVars, loaderVars>>

TailDrains ==
  /\ pc = "submit" /\ batch = <<>>
  /\ \/ MustDrain /\ DrainOldest("top")
     \/ /\ ~MustDrain /\ pc' = "top"
        /\ UNCHANGED <<laneVars, intake, registryVars, batch, deferred, inFlight,
                       reported, toServer, toClient, serverVars, loaderVars, fault>>

-----------------------------------------------------------------------------
(* The serving thread: _serve_connection *)

Reads == toServer # <<>> /\ (launched = <<>> \/ Len(launched) < Depth)

(* _flush_oldest, unless the next request is on the wire and there is room.  *)
Flush ==
  /\ adopting = 0 /\ launched # <<>> /\ ~Reads
  /\ toClient' = Append(toClient, [version |-> Head(launched), active |-> active])
  /\ launched' = Tail(launched)
  /\ UNCHANGED <<laneVars, intake, registryVars, batcherVars, toServer, resident, active,
                 nextGeneration, pending, adopting, loaderVars, fault>>

(* stage and launch, for the version the frame names. *)
Stage(held) ==
  LET v == Head(toServer).model.version
  IN /\ toServer' = Tail(toServer)
     /\ IF v \in held
        THEN launched' = Append(launched, v) /\ UNCHANGED fault
        ELSE Fail("requested model version is unavailable") /\ UNCHANGED launched

(* An EVAL frame: it is staged, after a pending swap. *)
ServeEval ==
  /\ adopting = 0 /\ Reads /\ Head(toServer).type = "EVAL"
  /\ \/ /\ pending = 0
        /\ Stage(DOMAIN resident)
        /\ UNCHANGED <<pending, adopting>>
     \/ /\ pending # 0
        /\ adopting' = pending /\ pending' = 0
        /\ UNCHANGED <<toServer, launched, fault>>
  /\ UNCHANGED <<laneVars, intake, registryVars, batcherVars, toClient, resident, active,
                 nextGeneration, loaderVars>>

(* The warm-up of the new model ends: it is adopted, or refused for good.    *)
Adopt ==
  /\ adopting # 0
  /\ adopting' = 0
  /\ \/ /\ Stage(DOMAIN resident \cup {adopting})
        /\ active' = Generation(nextGeneration, adopting)
        /\ nextGeneration' = nextGeneration + 1
        /\ resident' = [v \in DOMAIN resident \cup {adopting} |->
                          IF v = adopting THEN nextGeneration ELSE resident[v]]
        /\ UNCHANGED rejected
     \/ /\ Stage(DOMAIN resident)
        /\ rejected' = rejected \cup {adopting}
        /\ UNCHANGED <<active, nextGeneration, resident>>
  /\ UNCHANGED <<laneVars, intake, registryVars, batcherVars, toClient, pending, loader,
                 published>>

(* A MODEL_RELEASE frame. *)
ServeRelease ==
  /\ adopting = 0 /\ Reads /\ Head(toServer).type = "MODEL_RELEASE"
  /\ toServer' = Tail(toServer)
  /\ LET g == Head(toServer).model
     IN IF g.id = active.id
        THEN Fail("cannot release the active model generation") /\ UNCHANGED resident
        ELSE IF g \notin Resident
        THEN Fail("unknown model generation") /\ UNCHANGED resident
        ELSE /\ resident' = [v \in DOMAIN resident \ {g.version} |-> resident[v]]
             /\ UNCHANGED fault
  /\ UNCHANGED <<laneVars, intake, registryVars, batcherVars, toClient, active,
                 nextGeneration, launched, pending, adopting, loaderVars>>

-----------------------------------------------------------------------------
(* The loader thread: _poll_once, and the trainer that publishes. *)

Occupied ==
  Cardinality(DOMAIN resident) + (IF pending # 0 THEN 1 ELSE 0)
    + (IF loader.at = "loading" THEN 1 ELSE 0) + (IF adopting # 0 THEN 1 ELSE 0)

(* Mutant: one place too many is kept free. *)
HasRoomToSpare(v) ==
  /\ v \notin DOMAIN resident /\ v \notin {pending, adopting} /\ v \notin rejected
  /\ Occupied + 1 < MaxResident

MayLoad(v) ==
  /\ v \notin DOMAIN resident /\ v \notin {pending, adopting} /\ v \notin rejected
  /\ Occupied < MaxResident

ResolveLatest ==
  /\ loader.at = "idle"
  /\ loader' = [at |-> "resolved", version |-> published]
  /\ UNCHANGED <<laneVars, intake, registryVars, batcherVars, toServer, toClient,
                 serverVars, rejected, published, fault>>

ClaimSlot ==
  /\ loader.at = "resolved"
  /\ loader' = IF MayLoad(loader.version)
               THEN [loader EXCEPT !.at = "loading"]
               ELSE [at |-> "idle", version |-> 0]
  /\ UNCHANGED <<laneVars, intake, registryVars, batcherVars, toServer, toClient,
                 serverVars, rejected, published, fault>>

(* The weights are built, or the checkpoint is refused for good. *)
Load ==
  /\ loader.at = "loading"
  /\ loader' = [at |-> "idle", version |-> 0]
  /\ \/ pending' = loader.version /\ UNCHANGED rejected
     \/ rejected' = rejected \cup {loader.version} /\ UNCHANGED pending
  /\ UNCHANGED <<laneVars, intake, registryVars, batcherVars, toServer, toClient,
                 resident, active, nextGeneration, launched, adopting, published, fault>>

TrainerPublishes ==
  /\ published < MaxVersion
  /\ published' = published + 1
  /\ UNCHANGED <<laneVars, intake, registryVars, batcherVars, toServer, toClient,
                 serverVars, loader, rejected, fault>>

-----------------------------------------------------------------------------
Batcher ==
  BatcherTop \/ FillReceive \/ FillEnds \/ FillDrains \/ FillReleases \/ Submit \/ TailDrains
Server == Flush \/ ServeEval \/ Adopt \/ ServeRelease
Loader == ResolveLatest \/ ClaimSlot \/ Load

Next ==
  \/ \E e \in Episodes : Admit(e) \/ SendEval(e) \/ CompleteEpisode(e)
  \/ LanesReturn
  \/ Batcher \/ Server \/ Loader
  \/ TrainerPublishes

Spec == Init /\ [][Next]_vars

(* Fairness: every thread runs, and an episode is finite but does evaluate. *)
Fairness ==
  /\ WF_vars(Batcher) /\ WF_vars(Server) /\ WF_vars(Loader)
  /\ \A e \in Episodes :
       WF_vars(Admit(e)) /\ SF_vars(SendEval(e)) /\ SF_vars(CompleteEpisode(e))

FairSpec == Spec /\ Fairness

-----------------------------------------------------------------------------
Queued ==
  LET waiting == UNION {Range(inFlight[i].jobs) : i \in DOMAIN inFlight}
  IN Range(intake) \cup Range(batch) \cup Range(deferred) \cup waiting

(* No order of swaps, releases and requests makes either side fail: the      *)
(* evaluator holds every version it is asked for, is never told to release   *)
(* its active or an unknown generation, and never announces a generation the *)
(* registry has no room for.                                                 *)
NoFault == fault = "none"

(* From the moment an evaluation is queued until its reply is routed it is   *)
(* for the generation its episode leased, and that generation stays          *)
(* registered with the client and resident in the evaluator.  None that the  *)
(* episode waits for is lost on the way.                                     *)
LeasePinsModel ==
  /\ \A e \in Episodes : lease[e] # None => lease[e] \in Registered \cap Resident
  /\ \A j \in Queued : j.model = lease[j.episode]
  /\ \A e \in Episodes, t \in Token :
       t \in outstanding[e] <=> \E j \in Queued : j.episode = e /\ j.token = t

(* The memory of the evaluator is bounded whatever the loader and the        *)
(* serving thread interleave: models held, loading, loaded and warming up    *)
(* never exceed the configured number.                                       *)
ResidentBounded == Occupied <= MaxResident

(* A checkpoint that stays the latest is served in the end, or refused,      *)
(* although old generations must first be given up by their episodes.        *)
LatestServed ==
  \A v \in Versions :
    published = v ~> active.version = v \/ v \in rejected \/ published # v \/ ~running

(* gz-eval-service/src/backend.rs: a generation that is not active is        *)
(* released after its final episode and in-flight request are gone.          *)
SupersededReleased ==
  \A v \in Versions :
    (v \in DOMAIN resident /\ active.version # v) ~> (v \notin DOMAIN resident)

(* The two sides agree on the models: nothing fails, what an episode leased   *)
(* stays loaded, and the memory stays bounded.                                *)
ModelsPinned == TypeOK /\ NoFault /\ LeasePinsModel /\ ResidentBounded

-----------------------------------------------------------------------------
(* Why it is so *)

(* The registry counts the episodes that hold a generation; what waits for   *)
(* its release is held by nobody and will not be leased again.               *)
RegistryInOrder ==
  /\ current \in Registered /\ reported = current
  /\ \A g \in Registered : users[g] = Cardinality({e \in Episodes : lease[e] = g})
  /\ \A g \in Range(releasable) : g \in Registered /\ g # current /\ users[g] = 0

(* A job is in one place only, and so is its token; a batch is for one model.  *)
JobsInOrder ==
  /\ IsInjective(intake) /\ IsInjective(deferred)
  /\ Range(intake) \cap (Range(batch) \cup Range(deferred)) = {}
  /\ Range(batch) \cap Range(deferred) = {}
  /\ \A k \in DOMAIN inFlight :
       /\ Range(inFlight[k].jobs) \cap (Range(intake) \cup Range(batch) \cup Range(deferred)) = {}
       /\ \A n \in DOMAIN inFlight :
            n # k => Range(inFlight[k].jobs) \cap Range(inFlight[n].jobs) = {}
       /\ inFlight[k].jobs # <<>>
       /\ \A j \in Range(inFlight[k].jobs) : j.model = inFlight[k].model
  /\ \A i \in DOMAIN batch : batch[i].model = batch[1].model
  /\ pc = "top" => batch = <<>>
  /\ pc \in {"fill", "release"} \/ batch # <<>> => Len(inFlight) < Depth

(* Every batch in flight is a reply, a launched batch or an EVAL frame, in   *)
(* this order: the streams are FIFO and so is the evaluator.  A model that   *)
(* warms up keeps an EVAL frame waiting.                                     *)
EvalPlaces == {i \in DOMAIN toServer : toServer[i].type = "EVAL"}
StreamsInOrder ==
  /\ Len(inFlight) = Len(toClient) + Len(launched) + Cardinality(EvalPlaces)
  /\ \A i \in DOMAIN toClient : toClient[i].version = inFlight[i].model.version
  /\ \A i \in DOMAIN launched : launched[i] = inFlight[Len(toClient) + i].model.version
  /\ \A i \in EvalPlaces :
       toServer[i].model = inFlight[Len(toClient) + Len(launched) + Rank(EvalPlaces, i)].model
  /\ adopting # 0 => 1 \in EvalPlaces

(* Later generations have later versions.  What the client knows of, was     *)
(* told of, or has asked to release is resident; it asks once, after the     *)
(* generation was superseded, and announcements reach it in order.           *)
ReleasePlaces == {i \in DOMAIN toServer : toServer[i].type = "MODEL_RELEASE"}
GenerationsInOrder ==
  /\ \A v, w \in DOMAIN resident : v < w => resident[v] < resident[w]
  /\ active \in Resident /\ active.id = nextGeneration - 1 /\ active.id <= active.version
  /\ \A v \in DOMAIN resident : v <= active.version
  /\ \A g \in Registered : g \in Resident /\ g.version <= current.version
  /\ \A i \in ReleasePlaces :
       /\ toServer[i].model \in Resident \ Registered
       /\ toServer[i].model.version < current.version
       /\ \A k \in ReleasePlaces : toServer[k].model = toServer[i].model => k = i
  /\ \A i \in DOMAIN toClient :
       /\ toClient[i].active \in Resident /\ current.version <= toClient[i].active.version
       /\ \A k \in DOMAIN toClient :
            i < k => toClient[i].active.version <= toClient[k].active.version

(* A version is loaded once: the loader goes on only with one later than all *)
(* that it or the serving thread has.                                        *)
LoaderInOrder ==
  /\ \A v \in DOMAIN resident \cup {pending, adopting, loader.version} : v <= published
  /\ loader.at # "idle" =>
       /\ loader.version \in Versions
       /\ \A v \in DOMAIN resident \cup {pending, adopting} : v <= loader.version
  /\ loader.at = "loading" => loader.version \notin {active.version, pending, adopting}
  /\ adopting # 0 => adopting > active.version
  /\ pending # 0 => pending > active.version /\ pending > adopting

(* The inductive invariant of the proofs. *)
ServingInOrder ==
  /\ ModelsPinned /\ RegistryInOrder /\ JobsInOrder /\ StreamsInOrder
  /\ GenerationsInOrder /\ LoaderInOrder
=============================================================================
