# A TLA+ development for graphzero

graphzero trains a policy/value network by self-play on graph rewriting: lanes of
workers search, a Python process evaluates positions in batches, a fleet of agents
measures the graphs a search ends in, a replay store feeds a trainer, and the trainer
publishes checkpoints that the evaluator adopts while it runs. The parts are threads,
processes and machines that share little and fail separately. This directory models the
protocols between them, the searches and the rewriting they drive, checks the models
with TLC and proves the coordinator, the receipt ledger, the checkpoints, the trainer,
the replay store, the lanes, the admission schedule and the serving of models with TLAPS.

## Inventory

| Part | State | Operations | Talks to | What makes it correct |
|---|---|---|---|---|
| Coordinator (`gz-measure-service/src/coordinator.rs`) | agents, jobs, queue, leases, artifacts, receipts; one mutex | connect, events, fetch, submit, enqueue, cancel, drain, reap | agents (stream + RPCs), callers (oneshot) | one lease per job, one commit per job, reports of current leases only, credits, reference counts, progress |
| Receipt ledger (`receipt.rs`) | map and append-only file | commit, open | coordinator | a committed report survives a crash and never changes |
| Agent (`agent.rs`, `gz-measure-agent/src/main.rs`) | session, active leases, report files, detached threads | run_session, process_lease, recovery | coordinator, backend | a report is kept until it is settled; slots come back |
| Compiler backend (`gz-measure-agent/src/compiler.rs`) | pool of engine slots, prepared-state caches | checkout, prepare, sample, report | agent's threads, engines | no slot lost or shared; a pair is sampled fairly |
| Model leases, batcher (`gz-orchestrator/src/leases.rs`, `lanes/batcher.rs`) | registry, pipeline of batches | acquire, publish, release, collect, submit, drain | lanes, evaluator | a model stays while an episode uses it; batches do not mix models |
| Evaluator (`python/gz/evaluator`) | resident models, launched batches, loader thread | eval, swap, release, poll | batcher (stream), checkpoints | bounded memory, leased models stay, new models are served |
| Lanes and pool (`lanes/lane.rs`, `pool.rs`) | workers, parked work, tokens | drive, resume, complete | batcher, gateway, sink | replies go to the work that waits for them; bounded channels do not deadlock |
| Admission (`admission.rs`) | pressure counters, waiting lanes | request, reserve, finish | lanes, batcher | reservations balance; pacing delays episodes and never stops them |
| Gateway (`measurement.rs`) | in-flight measurements | submit, reply | lanes, coordinator | every measurement is answered once |
| Search (`gz-search`) | trees, waves, handles, traces | poll, resume, release; beam and greedy calls | pool, engines | budget, true trees, elected actions were searched, handles balance, episodes end |
| Replay projection (`lanes/projection.rs`) | none | rows of two finished traces | search, store | a row shows the position that was decided on |
| Engines (`gz-engine-whittle`) | arenas of graphs and candidates, caches, circuits | expand, apply, release, sample a root | search | no use after release, no leak; a rewrite keeps what a circuit computes |
| Measurer, replay store (`gz-measurer`, `gz-replay`, `gz-cli` serve) | rows, episodes, counters, floors, contract | open, bind, append, retire, sample, consume | sink, trainer | counters match records; a sample is a row that was appended under the bound contract |
| Trainer (`python/gz/trainer`) | step, prefetch queue, child, pending publication | gate, sample, train, publish, stop | store, checkpoints, self-play | limits on reuse and backlog, batches in order, no gate waits for another for ever |
| Checkpoints (`python/gz/checkpoints`) | version directories, pointers, tombstones | publish, promote, prune, read | trainer, evaluator | pointers resolve after any crash; the newest is served |

Hard to test: the coordinator's handlers interleave under one mutex with clocks and
streams that end at any time; RPCs overtake events; threads of aborted sessions go on;
an append is torn; the client of the evaluator hears of a swap only through replies; the
threads of a run block on each other's bounded channels and end in any order; the
admission schedule reads counters that a batcher updates in two steps; a store is sampled
without a lock while it is appended to and pruned; three gates of trainer and self-play
face each other; files are renamed while another process reads them; a search tree
outlives the decision it was grown for; slots of an arena are reused at once; a wrong
rewrite rule changes what a circuit computes and no reward shows it.
`PROJECT.json` lists each hazard at its line with the properties that would catch it.

## Modules

**Coordinator** models `coordinator.rs`. A critical section that loops (expiry,
scheduling, detaching a session, reconciling recoveries) is a sequence of steps with
`lock` saying where it is; no other action is enabled meanwhile, exactly as with the
mutex. Sessions and leases are numbered in the order they are created. Time is `ttl`, a
countdown per lease that `Tick` decreases; `Overdue` are those at zero. Commands wait in a
bounded channel per session. A report is its lease, its origin session and its outcome.
**MeasureJobs** is what callers may rely on: grant, accept, revoke, commit once, withdraw.
`KeepsPromise` is the refinement, with the holder of a job being its lease or, between
sessions, the lease that may be recovered. `MCCoordinator` gives the constants that a
configuration file cannot express, and `View`, which hides history that no action reads.

**ReceiptLedger** models `receipt.rs` at the granularity of records: a file is a sequence
of whole, torn and merged records. A write that fails leaves a torn record in the middle.

**MeasureAgent** models `agent.rs` and the reconnect loop. The coordinator is open: it
may offer any fresh lease, cancel, drain, or end the stream at any time. Tasks are
aborted with their session; the threads of `spawn_blocking` (`measuring`, `writing`,
`removing`) are not. The event channel is its length; a send needs room.

**CompilerBackend** models what those threads call: the stack of engine slots behind a
condition variable, the cache of every lane of a slot and the states its engine retains,
the alternating order of samples, and the report. `MCMeasureAgent` follows either side of
the agent's process in a behaviour, the runtime with one slot or with two; there are more
calls than engine slots, as there are after a session was aborted.

**ModelServing** composes registry, lanes, batcher, client, the Python serving thread and
its loader thread. The stream is FIFO in both directions, so batch numbers are left out.
A model generation is its number and version, as in the code. An evaluation is a job with
its episode, its token and the generation it is for; it is followed from the intake, over
the batch or the deferred jobs, into the batch in flight that its reply answers. Errors,
which end the run in the code, are recorded in `fault`.

**SelfplayLanes** composes the threads of `run_featurized_with_replay_inner`: lanes with
their pools, one batcher, the measurement gateway and the replay sink, and every channel
between them with the capacity the code computes. A step is one channel operation or one
poll of a task; counting a job and sending it are separate steps. An episode is any number
of waves of evaluations and then one measurement; tokens start again at zero with each
episode, as in the code. Admission may grant any number of idle slots: which is Admission's
business. The batcher submits and drains in any order: its own rules are ModelServing's.
A thread that fails drops its ends of the channels and sets `closed` (the sink does not).

**Admission** models the schedule of `admission.rs` with the part of the lane loop that uses
it. Numbers are abstracted to what decides: `known` (there is a capacity estimate), `due`
(the gap has passed), `work` and `busy` (what the totals gained since the last sample; a
second of busy time is `"long"`). The queue of lanes is kept as it is, with `queued`, `order`
and `total`. The batcher publishes its two totals in two steps (`PublishOrder`). Without
smoothing each lane has a pacer of its own: one episode per stagger, or as many as fit with a
stagger of zero; `next` is its deadline in ticks from now.

**GumbelSchedule** is the sequential-halving schedule both Gumbel searches follow.

**SymmetricSearch** models a symmetric episode (`gumbel/symmetric`): two actors rewrite the
same root in turn; a decision is a tree search whose simulations run in waves, with
preflighted first visits, passes, masked actions, blocked and retired players and the reuse
of subtrees; then the pair is measured and projected into rows. A graph is its hash. Where
the code takes the best score, the model takes any action that could have it. The pool
answers Expand and Apply inline, so these are one step; evaluations are parked.

**WhittleArena** models the arenas and caches of `engine.rs` as operators on one engine
value: slots, reference counts, free lists, candidate batches, transitions. Release builds
have no generation check, so a handle is its slot: a stale handle names what lives there now.

**MctsEpisode** models the single-agent search (`mcts/` with the PUCT and Gumbel strategies,
episodes, handle partition after a move) over a WhittleArena, one turn of `run_episode`'s
loop per step. Both strategies set `predicted_horizon` to false (`gumbel/task/root.rs:62`,
`puct/task.rs:114`), so no node is terminal. **BaselineSearch** models beam and greedy search over a WhittleArena, one
layer or step at a time, with ties broken as the code breaks them.

**WhittleRules** models circuits (`graph.rs`: validation, compaction, reachability), all 44
rules of `rules.rs` with the matches they report and the nodes they append and redirect,
and the generator of roots (a truth table written as a sum of products and walked away from
by random rewrites). What a circuit computes is a recursive function of its node, which is
the reference the rules are compared with.

`MCSearch` puts the four together: a behaviour is one episode or one circuit of one kind,
the others are over before they began.

**ReplayStore** models opening, binding to a contract, appending (one atomic batch, then
counters published one by one), retention with its two floors, sampling and consumption by
sessions that take no lock, and the averages, with a crash between any two steps.
`MCReplayStore` gives contracts and games.

**Trainer** models `driver.py`, `sampling.py`, `sampler.py` and the supervision of the
child: main loop, prefetch thread, gates, requests that fail before or after they are
recorded, lagged publication, shutdown. The store is its counters and publishing is one
step. A request for more rows than the service serves (`--serve-max-batch` is the policy
batch) is rejected, a publication may fail before or after the checkpoint is there, and the
join of the prefetch thread may give up. `MCTrainer` gives five configurations.

**Checkpoints** models one checkpoint directory, the trainer that publishes and prunes in
it and the evaluator that reads it; a step is one file operation that others can observe,
and the trainer may be killed before any of them and started again, resuming or afresh. An
operator promotes generations to `best.json` and `arena.json` beside it at any time: a
promotion looks its directory up in one step and writes the pointer in another. The history
`doomed` records the promotions whose directory was unfinished, or marked by a prune under
way, while they were chosen or still to be written.

Definitions marked *Mutant* are not used by any specification. They are plausible
mistakes, kept to show that the properties notice them.

## Runs

| Run | Properties and what they show |
|---|---|
| coordinator_reassign | `Inductive`, `LeaseConsistent`, `CommittedIsFinal`, `KeepsPromise` (refinement of MeasureJobs), `LeaseIdentityKept` (leases and receipts agree with the record of what was granted): two agents, one job, all orders of offer, expiry, re-offer, recovery, cancellation, report and restart with a durable ledger |
| coordinator_recover | `RecoveryConsistent`, `ResourcesAccounted` (`CreditBounded`, `ArtifactAccounting`, `LeasedArtifactsPresent`): one agent with two slots, two jobs that share a subject |
| coordinator_liveness | `NoJobLeftBehind`: the lock is released, assignable work is assigned, leases of vanished agents come back |
| ledger_errors | `Durable`, `NeverOverwritten`: crashes at any point and I/O errors; receipts are on disk, an answer never changes, and without an error nothing committed is lost |
| agent_session | `RuntimeSound`, `ReportKept`, `BackendSound`, `NothingHangs`: three sessions with one slot and with two on a bounded channel, with crashes, and three measure calls on two engine slots; reports are kept until settled, slots and retained states are neither lost nor shared, samples of a pair alternate, every lease and call ends |
| serving | `ModelsPinned`, `LatestServed`, `SupersededReleased`: hot swaps with two resident models and four checkpoints |
| lanes | `TrafficExact`, `SuccessIsComplete`, `RunEnds`: two lanes, batcher, gateway, sink, and one failure anywhere; replies reach the work that waits, no send ever waits for room, the counter is exact, a successful run has had every game settled, stored or dropped with an Ok answer, and none twice, every run ends |
| admission | `ScheduleConsistent`, `EveryLaneFinishes`: two lanes, with smoothing, with a fixed stagger and with neither; a gate that closes, a source that fails or ends at any time |
| search | `TreeSound`, `ReferencesSound`, `ElectionsSound`, `ProjectionMatchesSearch`, `BaselinesSound`, `RewritesSound`, `SearchEnds`: every kind of search over systems that branch, turn back, reject and dead-end, for every choice of scores and, in the baselines, of rewards; and the circuits that the rules rewrite |
| replay | `StoreConsistent`, `SampleSound`, `StoredConforms`: games appended and retired while two sessions sample, crashes, reopening under other contracts |
| trainer | `BatchesInOrder`, `PaceBounded`, `PublishedExact`, `RunEnds`: five configurations, failing requests and publications, a dying child; every run ends, its prefetch thread included |
| checkpoints | `PointersResolve`, `MilestonesPinned`, `DiskBounded`, `NewestLoaded`: publications, prunes and fresh runs interrupted anywhere, promotions of two aliases beside them |

The comment above each property names its parts.

### Bounds

Coordinator: two agents are enough for a job to move and come back; two leases per job
distinguish current from stale, three a recovered one from both; two sessions per agent
distinguish a superseded session. Queue, channel, artifact and receipt capacities are one or
two so that each of them fills. `View` drops only counters that are functions of what remains
or that no action reads, so states it identifies have the same successors.
ReceiptLedger: two I/O errors, since one may hide the other.
MeasureAgent: three sessions, so that a thread of the first may act in the second and leave
something for the third; two leases on one slot, so that a report of the session and one that
a thread left behind exceed the slots and lock the agent out, and on two slots, so that two
tasks and the loop compete for the channel. CompilerBackend: a cache of one state, so that every call evicts.
ModelServing: four checkpoints with two resident models fill the memory while a swap is
under way, and a fourth waits for room; a pipeline depth of two distinguishes "room" from
"full" (the code has three).
SelfplayLanes: one lane has two roots, so that its slot and its tokens are reused; a wave has
one or two evaluations, so that one slot waits for two replies; one failure reaches every
error path, since what follows is shutdown.
Admission: two lanes, two workers each, two roots together, so that both may go to one lane
or one to each, and the second is paced by the estimate of the first; a stagger of two ticks,
so that the second lane's offset is one.
Search: three graphs; steps, simulations and considered actions from two to four, so that
halving has two rounds, a budget ends in the middle of one, and a subtree is reused after it
was reached by a pass. With reuse the systems that branch are left to the configurations
listed in `MCSmallCases`. Circuits: arities zero to three and one or two rewrites; sources
were chosen so that each rule applies, in both orders of operands where it distinguishes
them, and so that capacities are exceeded.
ReplayStore: three games of two rows with retention of one game, so that retention runs twice
while a sample is under way; two openings. Trainer: totals of three and four steps, so that
publication lags past the end and a batch is prefetched that is never used. Checkpoints:
three commands, each a run or a promotion, so that an interrupted fresh run follows an
interrupted resumed one, or two promotions overlap one run; two aliases, so that one may
dangle while the other holds.

### Fairness

Coordinator: steps of a critical section, and the periodic `reap_expired` task, run; time
passes. Agents need not cooperate. MeasureAgent: tasks, threads and the transport run, and
waiters of the bounded channel are served in turn (tokio's semaphore is a queue), hence
strong fairness of task steps. CompilerBackend: every call is a thread that runs; a wakeup
may go to a call that does not get the slot. ModelServing: every thread runs; an episode is
finite but evaluates; the trainer and the end of the lanes need not happen. SelfplayLanes:
every thread runs and blocking sends are served; backend, coordinator and store answer, with
a result or an error, and admission does not refuse for ever. Admission: lanes go round,
episodes end, the gate opens again, batches are accounted and time passes, but going round
takes a lane that waits for nothing less than a tick (`Runnable`). Search: the driver
keeps polling until the episode is over (`<>[]AllOver \/ []<><<MCNext>>`), nothing is assumed
of which step is taken. Trainer: the main thread, the prefetch thread and self-play go on;
failures need not happen. Checkpoints: trainer and reader go on; kills need not happen.

## What the code does otherwise

`findings` in `PROJECT.json` quotes each of these with its lines. Where a property would
fail, it is stated with the hypothesis that the code does not ensure, and that hypothesis is
the finding:

* `CrashSafe` needs `ioErrors = 0`: a failed write leaves part of a record in the ledger, and
  what is appended after it is lost or makes the file unreadable.
* `ReportsAccounted` does not count `stray` reports, those written by threads of an aborted
  session: with them there can be more reports than slots, and no session opens again.
* `SupersededReleased` holds for two resident models; with more, a generation may be adopted
  and superseded between two replies, and is never released.
* `EveryLaneFinishes` is checked with `Barren = FALSE`: a first episode without evaluations
  leaves every lane waiting for an estimate.
* `FailsOnlyAtDeadEnd` allows the visit-ledger error of a root that is masked entirely, and
  `ElectionsSearched` the cases of tree reuse in which an action is elected that was never
  simulated.
* `ProjectionMatchesSearch` allows that the terminal row shows a blocked player as active.
* `RewritesSound` ignores circuits from the rewrite on that made them cyclic (a complement
  inverse over a node that depends on the constant it replaces), and the generator that
  panics when it may draw no exception term.
* `SampleSound` allows a missing row after two cycles of retention.
* `SuccessIsComplete` counts a dropped game as settled: the sink answers Ok with status
  `Dropped` for a game that has no rows, the lane does not look at the status, and a
  successful run may have stored fewer games than it had roots, which its summary says.
* `RunEnds` of the trainer is stated for `Roomy` configurations, which `_validate` does not
  require. It says that a run ends, not that it succeeds: `_validate` also accepts a value
  batch larger than the policy batch, with which every run fails at its first value batch.
* `PointersResolve` makes an exception of the `doomed` promotions, those of an unfinished
  directory and those that overlap the prune of their directory; the pointer they leave ends
  training at the next prune. `NewestLoaded` excepts a step 0 that was rejected once and
  published again.

Other behaviours are modelled as the code has them and asserted by nothing. A report that
the agent marks retriable is committed like any other (`submit_report`). The agent ignores
`CancelLease`, so a cancelled measurement runs to its end and keeps its slot after the
coordinator has given its credit away (`agent.rs:355`). `connect` makes a session visible
before it sends the Welcome (`coordinator.rs:754`), so a drain or a cancellation can come
first, which the agent answers by reconnecting. `can_admit` counts live jobs and receipts
together (`receipt.rs:66`), so a live job finds room in the in-memory ledger; the instances
have no more jobs than receipts, so nothing checks it. The gateway waits for every
measurement it has begun (`measurement.rs:95`): a coordinator that never answers holds the
run for ever, which the fairness excludes. A lane at the front of the admission queue gives
up its place whenever it asks, also when it gets nothing. A lane other than the first whose
rounds take longer than the stagger is pushed back by its offset each time it asks
(`admission.rs:588`), so it gets a new episode only when it has none left to work on. The
factoring and consensus-removal loops of `rules.rs` (362-366, 599-617, 744-762) skip both
orders when a gate's operands are equal, so those candidates are never offered. A failed
reconnect of the sampler raises whatever `reconnect_limit` says (`sampler.py:159`).
`run_root` never releases the handles it created.

## Proofs

A component's theorems are in a module of their own that extends it. Each proof module has
one lemma per action or group of actions, with a step for each conjunct the action can
disturb, and ends in the temporal theorems. The inductive invariant is stated in the
component's module, with the parts that were only needed for the proof under "Why it is
so", and TLC checked it before it was proved.

**CoordinatorProofs**, for every set of devices and jobs, every number of slots and every
capacity: `TypeOK`, `LeaseConsistent`, `QueueConsistent`, `CommittedIsFinal` and
`RecoveryConsistent` are invariants. None is inductive alone. `Inductive` adds
`SessionsConsistent` (whose session a stream is, and that a device points at its own) and
`IdentityConsistent` (lease numbers in use were issued, and no two jobs share one). The
second is what excludes that a stale lease number is taken for a current one. The
refinement (`PromiseKept`) maps every step to a step of MeasureJobs or to a stutter:
`CoreStep` says what a step may do to the state, the lease and the claim of one job, and
one lemma per kind of step (grant, accept, revoke, withdraw, commit) maps it.
`LeasesKeepIdentity` follows from the record of grants, `granted`, which no action but an
offer extends: `GrantsRecorded` adds that a number in it was issued, so a new one is fresh, and
expiry, loss, recovery and commit hand leases on without touching what was recorded of them.
`ResourcesSound`
proves `ResourcesAccounted` on top of it, from `Accounted`: credit is bounded because an
agent being seated has none until its Hello is reconciled, and the leases it has got back
and those it still asks for fit its slots together (`SeatingBounded`); the artifact store is
exact because a job enters and leaves the map only with its references. References and
bytes are counted as sets (a place in the list of a live job's subjects, a byte of an
artifact), so that sums are cardinalities of disjoint unions and need no induction. The
assumptions are those of `Coordinator`: finite sets, capacities that are numbers, and
markers for "none" that are no device and no outcome.

**ReceiptLedgerProofs**, for every number of jobs, reports, pieces of a record and I/O
errors: `Durable` and `NeverOverwritten`. That an acknowledged report is found again needs
to know that the file has one record per job (`FileWhole`), which needs to know that the
record being appended is the last, is not synced, and is for a job without a receipt
(`AppendUnderWay`).

**CheckpointsProofs**, for every retention, number of steps, interval of milestones and
number of runs: `PointersResolve`, `MilestonesPinned` and `DiskBounded`. A pointer resolves
because a prune decides from names it has read and renames later: `PruneUnderWay` keeps the
set it still has to remove apart from every name and below a directory that stays, so that
the directory of the next publication is fresh (`PublicationUnderWay`); `PromotionUnderWay`
says that what a promotion has chosen or written resolves and is not to be removed, unless it
is doomed; `RunUnderWay` says
which milestones the running trainer has passed at each step of a publication. The newest
and the next directory are maxima of finite sets; that they exist is proved by a least
counterexample (`GreatestOfNat`), which needs no induction rule.

**TrainerProofs**, for every configuration the validation accepts, with no bound on steps,
batch sizes, prefetch depth, rows of a game or retries: `BatchesInOrder`, `PublishedExact`,
`ReuseBounded` and `PaceBounded`. `QueueInOrder` counts the distance of the two threads and
identifies the content of the queue with it; the reuse limit holds for a step that is
trained because it held for that step when the other thread passed the gate
(`RowsPaid`); `PublishedInOrder` accounts for the publication that waits on the other side
of the gate; the backlog's overshoot is the games in flight (`FlightCounted`), which
assumes that the rows of a game have a greatest value (`GamesAssumption`; episodes are
bounded by `max_steps`). `PaceStaysBounded` has the hypothesis that a resumed run finds a
store within its limit: the driver does not establish it, since nothing stops a user from
resuming with a smaller `max_row_backlog`.

**ReplayStoreProofs**, for every retention, every set of games, contracts and sessions and
any number of crashes and openings: `StoreConsistent`, `SampleSound` and `StoredConforms`.
None is inductive. `IndexInOrder` says that the index lists the rows episode after episode
without a gap, which is why a floor that is moved back to the first row of an episode cuts
none, and why deleting ranges of row keys deletes a range of sequence numbers;
`EpisodesInOrder` that the episodes on disk are those from the deleted floor on, each of
them with the rows its steps call for. `PublishedInOrder` gives the order in which the
counters of the process catch up with the disk. `SessionsInOrder` is what makes a sample
without a lock sound: the key a session holds was the key of its sequence number, and is
still unless the number is below the deleted floor, and keys are never used twice.
`ConsumedInOrder` is the lock of the consumption counter, and `ContractInOrder` says that
what is not bound on disk has the value older builds used, so that binding it later does
not contradict an episode. An append and a retention are reduced to what they do to the
reads of the disk (`Appended`, `Trimmed`), and each part of the invariant is proved from
that. Assumed: a contract has one of the three modes and a schema, a game has a number of
decisions, and the marker for "none" is none of the values it stands beside; the store found at the
first opening is empty or holds the game of an older build.

**SelfplayLanesProofs**, for all numbers of lanes, workers, roots, evaluations, batches
in flight and faults: `SuccessIsComplete` and `TrafficExact`.

For the first, `LaneAccounted` says that the episodes a lane has begun are exactly
those that are settled, wait to be settled or are played, and `GamesAwaited` that a game in
the channel to the sink is the first of those its lane has completed, and the only one of
that lane; hence an answer of the sink is always for the game that the lane drops on
receiving it. Nothing is needed about evaluations and measurements: a slot keeps its
episode whatever replies arrive, so that a lost or a wrong reply can stop a run and cannot
make it succeed with a game missing. `LaneExact` keeps the games that are settled, completed
and played apart, so that none is settled twice. That admission numbers the episodes without a gap is
counted with cardinalities (`FirstPlaces`), by injection and pigeonhole.

For the second the invariant is `TrafficParts`, of which `TrafficExact` states the parts that
TLC checks as well (`TrafficSound`); none of them holds by itself. The seven
places where a job may be (`Stages`: with its lane, in the intake, in a batch, being routed,
in the gateway's channel, in a task, in a reply) are disjoint parts of one set, `UnderWay`.
Each step moves jobs from one place to another (`JobsMove`), adds what a lane takes from its
pool (`TakeMoves`), or drops what a thread held (`JobsGo`, `JobsShrink`); what the pool says
of jobs (`Awaiting`) then changes only where a slot does. A slot waits for the rest of one
wave or for one measurement (`OneWork`), so token modulo `EvalsPerWorker` tells its jobs
apart, and an injection into lanes, slots and places bounds the jobs of all lanes by the
intake's capacity, those of one lane by the capacity of its replies, and the measurements by
the number of workers (`AllJobsFew`, `LaneJobsFew`, `MeasureJobsFew`). A job about to be sent
is one of those and not yet in the channel, hence there is room (`RoomEverywhere`): a lane
never waits for the batcher while the batcher waits for that lane. That nothing awaited is
missing is claimed while no thread has failed; the drop of a reply to a lane that has ended
is harmless because a lane is done only with an empty pool (`NobodyWaits`). The counter is at
least the jobs counted, even after failures (`PressureCovers`), so the saturating subtraction
in `complete_current_batch` never saturates (`AccountPressure`), and equal to them while none
has happened. That taking jobs in the order of slots and tokens yields each of them once is
`InOrderHolds`.

**AdmissionProofs**, for all numbers of lanes, workers, roots, closings and faults, every
stagger, and whether or not episodes may end without an evaluation: `ScheduleConsistent`. It
is not inductive. `GrantsInOrder` is what a lane may rely on between its request and its
report, which are two critical sections with other lanes in between: its grant is for one
episode, its other idle workers still wait, and the flag says whether there are any, so that
giving back an unused grant never counts a worker twice or queues a lane twice.
`FlagsInOrder` keeps a lane that others take for waiting in the queue. `BootstrapInOrder`
says that before the first episode has begun there is nothing to estimate from, and that a
bootstrap grant is the only one there is; a second bootstrap is possible only when the first
was not used. Each operation on the queue has a lemma that says what it does to a queue as a
value (`Changed`); the total is the cardinality of the set of waiting workers (`Waiters`),
and the first lane that waits exists because a set of numbers has a least element
(`LeastOfNat`). When episodes may end without an evaluation the balance is only an
inequality: `admission.rs` keeps the reservation of such an episode.

**ModelServingProofs**, for every number of episodes, evaluations and checkpoints, every
capacity of a batch, depth of the pipeline and number of resident models from two:
`ModelsPinned`. Registry and evaluator never speak at the same time, so none of its parts
holds by itself. `RegistryInOrder`: the users of a generation are the episodes that hold it,
and what waits for its release has none and is not current, so no new episode takes it.
`JobsInOrder`: a job is in one place, and a batch is for one model. `StreamsInOrder`: the
batches in flight are, in their order, the replies under way, the launched batches and the
EVAL frames, so a reply always answers the oldest one, and a request is always for a model
that some episode still leases. `GenerationsInOrder`: a release under way is of a generation
that the registry gave up, older than the current one and named once, and announcements
reach the client in the order of adoption; so the evaluator is never told to release its
active or an unknown generation, and what the registry knows is always resident, which
leaves room there for the next one (`RoomToPublish`). `LoaderInOrder`: the loader goes on
only with a version later than all that are held, waiting or warming up, which keeps the
ids of generations in the order of their versions. `ServingInOrder` is the conjunction, and
inductive. The place of a request among the EVAL frames is its rank, the number of EVAL
frames up to it; lemmas say what appending a frame and reading one do to ranks, and that
`Pick` takes exactly the jobs at the places it is given, each once.

Only model-checked:

- liveness under fairness, which is outside the prover;
- the agent's runtime and its backend (`RuntimeSound`, `BackendSound`, `ReportKept`);
- the searches and the rewriting, whose statements are about recursive functions: the value
  of a circuit, the halving schedule, backing up a value.

## Plan

1. Done: Coordinator, MeasureJobs, ReceiptLedger, MeasureAgent, CompilerBackend,
   ModelServing, SelfplayLanes, Admission, the searches, the Whittle engine, ReplayStore,
   Trainer, Checkpoints; proofs of Coordinator with its refinement, ReceiptLedger,
   Checkpoints, Trainer, ReplayStore, SelfplayLanes, Admission and ModelServing.
2. Theorems next: `RuntimeSound` and `BackendSound` of the agent.
3. A composition of Coordinator and MeasureAgent, so that the agent's open coordinator is
   discharged against the real one.

## Not modelled

Byte formats (frames, protobuf, features, outputs, artifacts), TLS and enrollment, the
network and its tensor arithmetic, statistics and logging, argument parsing and the wiring of
the command line, the adapter of the external compiler engine, distillation's labels and the
inventory and smoke-test tools: pure data or I/O, without an order of steps to get wrong. In
the modelled parts: socket timeouts and process management of the evaluator client, CUDA
staging buffers, rates and durations of admission,
more than one backend, scores and values of a search (any choice), power failures that lose
directory entries.
