--------------------------- MODULE SelfplayLanes ---------------------------
(***************************************************************************)
(* The threads of a self-play run and the channels between them: the lanes *)
(* with their worker pools, the evaluation batcher, the measurement        *)
(* gateway and the replay sink (lanes/mod.rs, lanes/lane.rs, pool.rs,      *)
(* measurement.rs, lanes/replay_sink.rs).                                  *)
(*                                                                         *)
(* Every thread works until its own end: a lane returns when its roots are *)
(* exhausted and its pool is empty, the others when the lanes have dropped *)
(* their senders.  A thread that fails sets `closed' on the way out (the   *)
(* sink does not), and the lanes look at it when they start a round and    *)
(* when they wait for replies.                                             *)
(*                                                                         *)
(* Abstractions.  An episode is a number of waves of evaluations followed  *)
(* by one measurement of the pair; which and how many is a choice.         *)
(* Admission pacing and the replay gate choose any limit.  The batcher     *)
(* chooses when to submit and when to drain (ModelServing has that logic,  *)
(* and the models); there is one backend.                                  *)
(***************************************************************************)
EXTENDS Integers, Sequences, FiniteSets, SequencesExt

CONSTANTS
    Lanes,           \* the lanes of the run
    Workers,         \* workers_per_lane
    EvalsPerWorker,  \* min(max_considered_actions, simulations)
    Roots,           \* how many roots the source of each lane has
    MaxWaves,        \* bound: waves of evaluations in one episode
    MaxBatch,        \* max_batch
    Depth,           \* EVAL_PIPELINE_DEPTH
    RemoteMeasure,   \* whether measurements go through the gateway
    MaxFaults        \* bound: failures of engines, backend, store, agents

ASSUME LanesAssumption == IsFiniteSet(Lanes) /\ Lanes # {}
ASSUME SizesAssumption ==
    /\ {Workers, EvalsPerWorker, MaxBatch, Depth} \subseteq Nat \ {0}
    /\ MaxFaults \in Nat
    /\ {Roots, MaxWaves} \subseteq [Lanes -> Nat]
    /\ RemoteMeasure \in BOOLEAN

VARIABLES
    phase,      \* where each lane is in its round
    slots,      \* the worker pool of each lane
    outbox,     \* jobs that the lane has taken from the pool to send
    completed,  \* episodes that drive returned, to be appended
    admitted,   \* next_episode_id, counted from the lane's first
    exhausted,  \* roots_exhausted
    intake,     \* channel of evaluation jobs
    inFlight,   \* submitted batches, oldest first
    routing,    \* jobs of the received batch whose replies are unsent
    received,   \* size of the received batch, 0 when there is none
    batcher,    \* state of the batcher thread
    outstanding,\* EvalPressure.outstanding
    replies,    \* channel of replies, per lane
    measures,   \* channel of measurement jobs
    tasks,      \* measurements the gateway waits for
    gateway,    \* state of the gateway thread
    games,      \* channel of replay jobs
    ack,        \* what the sink has answered each lane
    appended,   \* episodes of each lane in the store
    dropped,    \* episodes of each lane that the measurer refused, and counted
    sink,       \* state of the sink thread
    closed,     \* pipeline_closed
    faults      \* failures so far

laneVars == <<phase, slots, outbox, completed, admitted, exhausted>>
batchVars == <<inFlight, routing, received, batcher>>
gatewayVars == <<tasks, gateway>>
sinkVars == <<appended, dropped, sink>>
channels == <<intake, replies, measures, games, ack, outstanding>>
vars == <<laneVars, batchVars, gatewayVars, sinkVars, channels, closed, faults>>

Slot == 1..Workers
Idle == [state |-> "idle"]

\* Sizes of the channels.
WorkerCapacity == Cardinality(Lanes) * Workers
IntakeCapacity == WorkerCapacity * EvalsPerWorker

ReplyCapacity == Workers * EvalsPerWorker

\* The number of leaves that one wave of a root search evaluates together.
WaveSizes == 1..EvalsPerWorker

Ended == {"done", "failed"}
LaneEnded(l) == phase[l] \in Ended
LanesEnded == \A l \in Lanes : LaneEnded(l)
AllEnded == LanesEnded /\ {batcher, gateway, sink} \subseteq Ended

\* available_learner_slots: the pool is as large as the number of workers.
IdleSlots(l) == {w \in Slot : slots[l][w].state = "idle"}
Running(l) == {w \in Slot : slots[l][w].state = "running"}
Parked(l) == {w \in Slot : slots[l][w].state = "parked"}
Active(l) == Running(l) \cup Parked(l)
First(S) == CHOOSE w \in S : \A v \in S : w <= v

\* The job of slot w of lane l with token t.
JobOf(l, w, t) ==
    [lane |-> l, slot |-> w, token |-> t, episode |-> slots[l][w].episode, kind |-> slots[l][w].kind]

\* The slots that are parked with work of kind k, and what they have not sent.
ParkedWith(l, k) == {w \in Parked(l) : slots[l][w].kind = k}
UnsentJobs(l, k) == UNION {{JobOf(l, w, t) : t \in slots[l][w].unsent} : w \in ParkedWith(l, k)}

\* take_unsent_parked and take_unsent_measurements: slots in order, and the
\* jobs of a slot in the order of their tokens.
Precedes(i, j) == i.slot < j.slot \/ (i.slot = j.slot /\ i.token < j.token)
InOrder(J) ==
    [n \in 1..Cardinality(J) |-> CHOOSE j \in J : Cardinality({i \in J : Precedes(i, j)}) = n - 1]
Unsent(l, k) == InOrder(UnsentJobs(l, k))

\* Mutant: taking the evaluations marks the measurements as well.
MarkAllSent(l, k) ==
    [slots EXCEPT ![l] =
        [w \in Slot |->
            IF w \in Parked(l) THEN [slots[l][w] EXCEPT !.unsent = {}] ELSE slots[l][w]]]

MarkSent(l, k) ==
    [slots EXCEPT ![l] =
        [w \in Slot |->
            IF w \in Parked(l) /\ slots[l][w].kind = k
            THEN [slots[l][w] EXCEPT !.unsent = {}]
            ELSE slots[l][w]]]

Init ==
    /\ phase = [l \in Lanes |-> "top"]
    /\ slots = [l \in Lanes |-> [w \in Slot |-> Idle]]
    /\ outbox = [l \in Lanes |-> <<>>]
    /\ completed = [l \in Lanes |-> <<>>]
    /\ admitted = [l \in Lanes |-> 0]
    /\ exhausted = [l \in Lanes |-> FALSE]
    /\ intake = <<>>
    /\ inFlight = <<>>
    /\ routing = <<>>
    /\ received = 0
    /\ batcher = "running"
    /\ outstanding = 0
    /\ replies = [l \in Lanes |-> <<>>]
    /\ measures = <<>>
    /\ tasks = {}
    /\ gateway = IF RemoteMeasure THEN "running" ELSE "done"
    /\ games = <<>>
    /\ ack = [l \in Lanes |-> "none"]
    /\ appended = [l \in Lanes |-> {}]
    /\ dropped = [l \in Lanes |-> {}]
    /\ sink = "running"
    /\ closed = FALSE
    /\ faults = 0

-----------------------------------------------------------------------------
(* A lane *)

Goto(l, p) == phase' = [phase EXCEPT ![l] = p]

\* run_lane_pipeline returns an error: PipelineExit closes the pipeline, and
\* the pool, the receiver of replies and the rest go with the thread.
FailLane(l) ==
    /\ Goto(l, "failed")
    /\ closed' = TRUE
    /\ slots' = [slots EXCEPT ![l] = [w \in Slot |-> Idle]]
    /\ outbox' = [outbox EXCEPT ![l] = <<>>]
    /\ completed' = [completed EXCEPT ![l] = <<>>]
    /\ admitted' = [admitted EXCEPT ![l] = 0]
    /\ exhausted' = [exhausted EXCEPT ![l] = TRUE]
    /\ replies' = [replies EXCEPT ![l] = <<>>]

\* An engine, an extractor or a lease refuses.
Fault == faults < MaxFaults /\ faults' = faults + 1

\* The number of episodes that begin when left roots remain.
FromRoots(limit, left) == IF limit <= left THEN limit ELSE left

\* The n lowest slots of S, and the place of slot w among those of S.
FirstOf(S, n) == {w \in S : Cardinality({v \in S : v < w}) < n}
PlaceIn(S, w) == Cardinality({v \in S : v <= w})

\* Start of a round: the flag, then admission of up to limit episodes.
Admit(l) ==
    /\ phase[l] = "top"
    /\ ~closed
    /\ \E limit \in 0..(IF exhausted[l] THEN 0 ELSE Cardinality(IdleSlots(l))) :
         LET left == Roots[l] - admitted[l]
             n == FromRoots(limit, left)
             chosen == FirstOf(IdleSlots(l), n)
         IN  /\ slots' = [slots EXCEPT ![l] =
                   [w \in Slot |->
                       IF w \in chosen
                       THEN [state |-> "running", episode |-> admitted[l] + PlaceIn(chosen, w),
                             next |-> 0, waves |-> 0, measured |-> FALSE]
                       ELSE slots[l][w]]]
             /\ admitted' = [admitted EXCEPT ![l] = @ + n]
             /\ exhausted' = [exhausted EXCEPT ![l] = @ \/ left < limit]
    /\ Goto(l, "drive")
    /\ UNCHANGED <<outbox, completed, batchVars, gatewayVars, sinkVars, channels, closed, faults>>

\* The flag is set, or the root source or the lease registry fails.
TopFails(l) ==
    /\ phase[l] = "top"
    /\ \/ closed /\ faults' = faults
       \/ ~closed /\ ~exhausted[l] /\ IdleSlots(l) # {} /\ Fault
    /\ FailLane(l)
    /\ UNCHANGED <<batchVars, gatewayVars, sinkVars, intake, measures, games, ack, outstanding>>

\* drive: the task of the slot is polled until it blocks with a wave of
\* evaluations.
DriveWave(l) ==
    /\ phase[l] = "drive"
    /\ Running(l) # {}
    /\ LET w == First(Running(l))
           s == slots[l][w]
       IN  /\ ~s.measured
           /\ s.waves < MaxWaves[l]
           /\ \E n \in WaveSizes :
                LET tokens == s.next .. (s.next + n - 1)
                IN  slots' = [slots EXCEPT ![l][w] =
                        [state |-> "parked", episode |-> s.episode, next |-> s.next + n,
                         waves |-> s.waves + 1, measured |-> FALSE, kind |-> "eval",
                         waiting |-> tokens, unsent |-> tokens]]
    /\ UNCHANGED <<phase, outbox, completed, admitted, exhausted,
                   batchVars, gatewayVars, sinkVars, channels, closed, faults>>

\* drive: both players are done and the pair is to be measured remotely.
DriveMeasure(l) ==
    /\ phase[l] = "drive"
    /\ Running(l) # {}
    /\ RemoteMeasure
    /\ LET w == First(Running(l))
           s == slots[l][w]
       IN  /\ ~s.measured
           /\ slots' = [slots EXCEPT ![l][w] =
                  [state |-> "parked", episode |-> s.episode, next |-> s.next + 1,
                   waves |-> s.waves, measured |-> FALSE, kind |-> "measure",
                   waiting |-> {s.next}, unsent |-> {s.next}]]
    /\ UNCHANGED <<phase, outbox, completed, admitted, exhausted,
                   batchVars, gatewayVars, sinkVars, channels, closed, faults>>

\* drive: the measurement is there (or the engine makes it on the spot), and
\* the task is done; the slot stays idle.
DriveDone(l) ==
    /\ phase[l] = "drive"
    /\ Running(l) # {}
    /\ LET w == First(Running(l))
           s == slots[l][w]
       IN  /\ s.measured \/ ~RemoteMeasure
           /\ slots' = [slots EXCEPT ![l][w] = Idle]
           /\ completed' = [completed EXCEPT ![l] = Append(@, s.episode)]
    /\ UNCHANGED <<phase, outbox, admitted, exhausted,
                   batchVars, gatewayVars, sinkVars, channels, closed, faults>>

\* drive: poll, an engine call or feature extraction fails.
DriveFails(l) ==
    /\ phase[l] = "drive"
    /\ Running(l) # {}
    /\ Fault
    /\ FailLane(l)
    /\ UNCHANGED <<batchVars, gatewayVars, sinkVars, intake, measures, games, ack, outstanding>>

\* drive has returned: every task has blocked or is done.
Driven(l) == phase[l] = "drive" /\ Running(l) = {}

\* complete: the game is sent to the sink, with a channel for the answer.
SendGame(l) ==
    /\ Driven(l)
    /\ completed[l] # <<>>
    /\ sink \notin Ended
    /\ Len(games) < WorkerCapacity
    /\ games' = Append(games, [lane |-> l, episode |-> Head(completed[l])])
    /\ Goto(l, "ack")
    /\ UNCHANGED <<slots, outbox, completed, admitted, exhausted, batchVars, gatewayVars,
                   sinkVars, intake, replies, measures, ack, outstanding, closed, faults>>

\* Mutant: a game whose rows cannot be built is skipped.
SendGameSkips(l) ==
    /\ Driven(l)
    /\ completed[l] # <<>>
    /\ \/ /\ Fault
          /\ completed' = [completed EXCEPT ![l] = Tail(@)]
          /\ UNCHANGED <<phase, slots, outbox, admitted, exhausted, replies, closed>>
       \/ sink \in Ended /\ faults' = faults /\ FailLane(l)
    /\ UNCHANGED <<batchVars, gatewayVars, sinkVars, intake, measures, games, ack, outstanding>>

\* complete: the rows cannot be built, or the sink is gone.
SendGameFails(l) ==
    /\ Driven(l)
    /\ completed[l] # <<>>
    /\ \/ Fault
       \/ sink \in Ended /\ faults' = faults
    /\ FailLane(l)
    /\ UNCHANGED <<batchVars, gatewayVars, sinkVars, intake, measures, games, ack, outstanding>>

\* done.recv() returns the admission.
ReceiveAck(l) ==
    /\ phase[l] = "ack"
    /\ ack[l] = "ok"
    /\ ack' = [ack EXCEPT ![l] = "none"]
    /\ completed' = [completed EXCEPT ![l] = Tail(@)]
    /\ Goto(l, "drive")
    /\ UNCHANGED <<slots, outbox, admitted, exhausted, batchVars, gatewayVars, sinkVars,
                   intake, replies, measures, games, outstanding, closed, faults>>

\* done.recv() returns the store's error, or the sink dropped the job.
ReceiveAckFails(l) ==
    /\ phase[l] = "ack"
    /\ \/ ack[l] = "error"
       \/ ack[l] = "none" /\ sink \in Ended
    /\ FailLane(l)
    /\ UNCHANGED <<batchVars, gatewayVars, sinkVars, intake, measures, games, ack, outstanding, faults>>

\* send_parked: all unsent evaluations are marked and taken.
TakeEvals(l) ==
    /\ Driven(l)
    /\ completed[l] = <<>>
    /\ outbox' = [outbox EXCEPT ![l] = Unsent(l, "eval")]
    /\ slots' = MarkSent(l, "eval")
    /\ Goto(l, "evals")
    /\ UNCHANGED <<completed, admitted, exhausted,
                   batchVars, gatewayVars, sinkVars, channels, closed, faults>>

\* The pressure counts a job before the batcher can see it.
CountEval(l) ==
    /\ phase[l] = "evals"
    /\ outbox[l] # <<>>
    /\ outstanding' = outstanding + 1
    /\ Goto(l, "sending")
    /\ UNCHANGED <<slots, outbox, completed, admitted, exhausted, batchVars, gatewayVars,
                   sinkVars, intake, replies, measures, games, ack, closed, faults>>

SendEval(l) ==
    /\ phase[l] = "sending"
    /\ batcher \notin Ended
    /\ Len(intake) < IntakeCapacity
    /\ intake' = Append(intake, Head(outbox[l]))
    /\ outbox' = [outbox EXCEPT ![l] = Tail(@)]
    /\ Goto(l, "evals")
    /\ UNCHANGED <<slots, completed, admitted, exhausted, batchVars, gatewayVars, sinkVars,
                   replies, measures, games, ack, outstanding, closed, faults>>

SendEvalFails(l) ==
    /\ phase[l] = "sending"
    /\ batcher \in Ended
    /\ outstanding' = outstanding - 1
    /\ FailLane(l)
    /\ UNCHANGED <<batchVars, gatewayVars, sinkVars, intake, measures, games, ack, faults>>

\* send_measurements: likewise.
TakeMeasures(l) ==
    /\ phase[l] = "evals"
    /\ outbox[l] = <<>>
    /\ outbox' = [outbox EXCEPT ![l] = Unsent(l, "measure")]
    /\ slots' = MarkSent(l, "measure")
    /\ Goto(l, "measures")
    /\ UNCHANGED <<completed, admitted, exhausted,
                   batchVars, gatewayVars, sinkVars, channels, closed, faults>>

SendMeasure(l) ==
    /\ phase[l] = "measures"
    /\ outbox[l] # <<>>
    /\ gateway \notin Ended
    /\ Len(measures) < WorkerCapacity
    /\ measures' = Append(measures, Head(outbox[l]))
    /\ outbox' = [outbox EXCEPT ![l] = Tail(@)]
    /\ UNCHANGED <<phase, slots, completed, admitted, exhausted, batchVars, gatewayVars,
                   sinkVars, intake, replies, games, ack, outstanding, closed, faults>>

\* The submission cannot be encoded, or the gateway is gone.
SendMeasureFails(l) ==
    /\ phase[l] = "measures"
    /\ outbox[l] # <<>>
    /\ \/ Fault
       \/ gateway \in Ended /\ faults' = faults
    /\ FailLane(l)
    /\ UNCHANGED <<batchVars, gatewayVars, sinkVars, intake, measures, games, ack, outstanding>>

\* End of the round: the lane is done, waits for replies, or starts again.
EndRound(l) ==
    /\ phase[l] = "measures"
    /\ outbox[l] = <<>>
    /\ Goto(l, CASE exhausted[l] /\ Active(l) = {} -> "done"
                 [] Parked(l) # {}                 -> "wait"
                 [] OTHER                          -> "top")
    /\ UNCHANGED <<slots, outbox, completed, admitted, exhausted,
                   batchVars, gatewayVars, sinkVars, channels, closed, faults>>

has_parked_token(s, token) == s.state = "parked" /\ token \in s.waiting

\* The token is awaited and the reply has the shape of the work.
Expected(l, r) ==
    LET s == slots[l][r.slot]
    IN  has_parked_token(s, r.token) /\ s.kind = r.kind

RunsAgain(s, measured) ==
    [state |-> "running", episode |-> s.episode, next |-> s.next, waves |-> s.waves,
     measured |-> measured]

\* resume: the slot runs again when no other evaluation is awaited.
ResumedEval(s, token) ==
    IF s.waiting = {token} THEN RunsAgain(s, FALSE) ELSE [s EXCEPT !.waiting = @ \ {token}]

\* resume_terminal_measure: the measurement is all that was awaited.
ResumedMeasure(s) == RunsAgain(s, TRUE)

\* The slot after a reply.
Resumed(s, r) == IF r.kind = "measure" THEN ResumedMeasure(s) ELSE ResumedEval(s, r.token)

\* resume and resume_terminal_measure, for the first reply (recv_timeout; the
\* flag may be set after it was looked at) and for the rest (try_recv).
Resume(l) ==
    /\ phase[l] \in {"wait", "more"}
    /\ replies[l] # <<>>
    /\ LET r == Head(replies[l])
       IN  /\ Expected(l, r)
           /\ r.ok
           /\ slots' = [slots EXCEPT ![l][r.slot] = Resumed(@, r)]
    /\ replies' = [replies EXCEPT ![l] = Tail(@)]
    /\ Goto(l, "more")
    /\ UNCHANGED <<outbox, completed, admitted, exhausted, batchVars, gatewayVars, sinkVars,
                   intake, measures, games, ack, outstanding, closed, faults>>

\* The token is unknown, the measurement failed, or the task refuses the output.
ResumeFails(l) ==
    /\ phase[l] \in {"wait", "more"}
    /\ replies[l] # <<>>
    /\ \/ ~(Expected(l, Head(replies[l])) /\ Head(replies[l]).ok) /\ faults' = faults
       \/ Fault
    /\ FailLane(l)
    /\ UNCHANGED <<batchVars, gatewayVars, sinkVars, intake, measures, games, ack, outstanding>>

\* The senders of replies: the batcher, the gateway and its tasks.
RepliesConnected == batcher \notin Ended \/ gateway \notin Ended

\* recv_timeout runs out, or try_recv finds nothing: the next round.
Poll(l) ==
    /\ phase[l] \in {"wait", "more"}
    /\ replies[l] = <<>>
    /\ phase[l] = "wait" => ~closed
    /\ RepliesConnected
    /\ Goto(l, "top")
    /\ UNCHANGED <<slots, outbox, completed, admitted, exhausted,
                   batchVars, gatewayVars, sinkVars, channels, closed, faults>>

\* receive_replies sees the flag or that nobody can reply.
PollFails(l) ==
    /\ \/ phase[l] = "wait" /\ closed
       \/ phase[l] \in {"wait", "more"} /\ replies[l] = <<>> /\ ~RepliesConnected
    /\ FailLane(l)
    /\ UNCHANGED <<batchVars, gatewayVars, sinkVars, intake, measures, games, ack, outstanding, faults>>

-----------------------------------------------------------------------------
(* The batcher *)

\* The jobs of a batch are received one by one and submitted together; here
\* they leave the channel when they are submitted.
Submit ==
    /\ batcher = "running"
    /\ received = 0
    /\ Len(inFlight) < Depth
    /\ \E n \in 1..MaxBatch :
         /\ n <= Len(intake)
         /\ inFlight' = Append(inFlight, SubSeq(intake, 1, n))
         /\ intake' = SubSeq(intake, n + 1, Len(intake))
    /\ UNCHANGED <<laneVars, routing, received, batcher, gatewayVars, sinkVars,
                   replies, measures, games, ack, outstanding, closed, faults>>

\* drain_oldest: the outputs of the oldest batch arrive.
Drain ==
    /\ batcher = "running"
    /\ received = 0
    /\ inFlight # <<>>
    /\ routing' = Head(inFlight)
    /\ received' = Len(Head(inFlight))
    /\ inFlight' = Tail(inFlight)
    /\ UNCHANGED <<laneVars, batcher, gatewayVars, sinkVars, channels, closed, faults>>

\* A send to a lane that has returned fails and is ignored; one to a lane whose
\* channel is full waits.
Reply(l, r) ==
    IF LaneEnded(l)
    THEN UNCHANGED replies
    ELSE /\ Len(replies[l]) < ReplyCapacity
         /\ replies' = [replies EXCEPT ![l] = Append(@, r)]

Answer(job, ok) == [slot |-> job.slot, token |-> job.token, episode |-> job.episode,
                    kind |-> job.kind, ok |-> ok]

Route ==
    /\ batcher = "running"
    /\ routing # <<>>
    /\ Reply(Head(routing).lane, Answer(Head(routing), TRUE))
    /\ routing' = Tail(routing)
    /\ UNCHANGED <<laneVars, inFlight, received, batcher, gatewayVars, sinkVars,
                   intake, measures, games, ack, outstanding, closed, faults>>

\* complete_current_batch; the counter saturates at zero.
Account ==
    /\ batcher = "running"
    /\ received > 0
    /\ routing = <<>>
    /\ outstanding' = IF received <= outstanding THEN outstanding - received ELSE 0
    /\ received' = 0
    /\ UNCHANGED <<laneVars, inFlight, routing, batcher, gatewayVars, sinkVars,
                   intake, replies, measures, games, ack, closed, faults>>

\* Mutant: the batcher returns without closing the pipeline.
BatcherFailsQuietly ==
    /\ batcher = "running"
    /\ received = 0
    /\ Fault
    /\ batcher' = "failed"
    /\ inFlight' = <<>>
    /\ intake' = <<>>
    /\ UNCHANGED <<laneVars, routing, received, gatewayVars, sinkVars,
                   replies, measures, games, ack, outstanding, closed>>

\* The backend fails: the batcher returns and drops everything it holds.
BatcherFails ==
    /\ batcher = "running"
    /\ received = 0
    /\ Fault
    /\ batcher' = "failed"
    /\ closed' = TRUE
    /\ inFlight' = <<>>
    /\ intake' = <<>>
    /\ UNCHANGED <<laneVars, routing, received, gatewayVars, sinkVars,
                   replies, measures, games, ack, outstanding>>

\* Every lane has dropped its sender and nothing is left.
BatcherEnds ==
    /\ batcher = "running"
    /\ received = 0
    /\ LanesEnded
    /\ intake = <<>> /\ inFlight = <<>>
    /\ batcher' = "done"
    /\ UNCHANGED <<laneVars, inFlight, routing, received, gatewayVars, sinkVars,
                   channels, closed, faults>>

-----------------------------------------------------------------------------
(* The measurement gateway *)

\* The runtime cannot be built or a task panics: the others go with it.
GatewayFails ==
    /\ gateway = "running"
    /\ Fault
    /\ gateway' = "failed"
    /\ closed' = TRUE
    /\ measures' = <<>>
    /\ tasks' = {}
    /\ UNCHANGED <<laneVars, batchVars, sinkVars,
                   intake, replies, games, ack, outstanding>>

GatewayTakes ==
    /\ gateway = "running"
    /\ measures # <<>>
    /\ tasks' = tasks \cup {Head(measures)}
    /\ measures' = Tail(measures)
    /\ UNCHANGED <<laneVars, batchVars, gateway, sinkVars,
                   intake, replies, games, ack, outstanding, closed, faults>>

\* The coordinator answers with a report or an error.
GatewayAnswers(job) ==
    /\ gateway = "running"
    /\ job \in tasks
    /\ \/ Reply(job.lane, Answer(job, TRUE)) /\ faults' = faults
       \/ Reply(job.lane, Answer(job, FALSE)) /\ Fault
    /\ tasks' = tasks \ {job}
    /\ UNCHANGED <<laneVars, batchVars, gateway, sinkVars,
                   intake, measures, games, ack, outstanding, closed>>

GatewayEnds ==
    /\ gateway = "running"
    /\ LanesEnded
    /\ measures = <<>> /\ tasks = {}
    /\ gateway' = "done"
    /\ UNCHANGED <<laneVars, batchVars, tasks, sinkVars, channels, closed, faults>>

-----------------------------------------------------------------------------
(* The replay sink *)

\* admit_symmetric stores the game and acknowledges it.
SinkAppends ==
    /\ sink = "running"
    /\ games # <<>>
    /\ LET job == Head(games)
       IN  /\ appended' = [appended EXCEPT ![job.lane] = @ \cup {job.episode}]
           /\ ack' = [ack EXCEPT ![job.lane] = "ok"]
    /\ games' = Tail(games)
    /\ UNCHANGED <<laneVars, batchVars, gatewayVars, dropped, sink,
                   intake, replies, measures, outstanding, closed, faults>>

\* The game has no rows: a graph was not measured or not valid, a reward is not
\* finite, a search value is missing.  The answer is Ok, with status Dropped,
\* which the lane does not look at.
SinkDrops ==
    /\ sink = "running"
    /\ games # <<>>
    /\ LET job == Head(games)
       IN  /\ dropped' = [dropped EXCEPT ![job.lane] = @ \cup {job.episode}]
           /\ ack' = [ack EXCEPT ![job.lane] = "ok"]
    /\ games' = Tail(games)
    /\ UNCHANGED <<laneVars, batchVars, gatewayVars, appended, sink,
                   intake, replies, measures, outstanding, closed, faults>>

\* The store fails: the lane is told, and the sink returns with its receiver.
SinkFails ==
    /\ sink = "running"
    /\ games # <<>>
    /\ Fault
    /\ ack' = [ack EXCEPT ![Head(games).lane] = "error"]
    /\ games' = <<>>
    /\ sink' = "failed"
    /\ UNCHANGED <<laneVars, batchVars, gatewayVars, appended, dropped,
                   intake, replies, measures, outstanding, closed>>

SinkEnds ==
    /\ sink = "running"
    /\ LanesEnded
    /\ games = <<>>
    /\ sink' = "done"
    /\ UNCHANGED <<laneVars, batchVars, gatewayVars, appended, dropped, channels, closed, faults>>

-----------------------------------------------------------------------------

LaneStep(l) ==
    \/ Admit(l) \/ TopFails(l)
    \/ DriveWave(l) \/ DriveMeasure(l) \/ DriveDone(l) \/ DriveFails(l)
    \/ SendGame(l) \/ SendGameFails(l) \/ ReceiveAck(l) \/ ReceiveAckFails(l)
    \/ TakeEvals(l) \/ CountEval(l) \/ SendEval(l) \/ SendEvalFails(l)
    \/ TakeMeasures(l) \/ SendMeasure(l) \/ SendMeasureFails(l)
    \/ EndRound(l) \/ Resume(l) \/ ResumeFails(l) \/ Poll(l) \/ PollFails(l)

BatcherStep == Submit \/ Drain \/ Route \/ Account \/ BatcherFails \/ BatcherEnds
GatewayStep ==
    \/ GatewayTakes \/ GatewayFails \/ GatewayEnds
    \/ \E job \in tasks : GatewayAnswers(job)
SinkStep == SinkAppends \/ SinkDrops \/ SinkFails \/ SinkEnds

\* The scope has joined every thread.
Joined == AllEnded /\ UNCHANGED vars

Next ==
    \/ \E l \in Lanes : LaneStep(l)
    \/ BatcherStep
    \/ GatewayStep
    \/ SinkStep
    \/ Joined

Spec == Init /\ [][Next]_vars

\* Admission that makes progress.
AdmitsSome(l) == Admit(l) /\ (admitted'[l] > admitted[l] \/ exhausted'[l])

\* Every thread runs, the coordinator and the backend answer in the end, and
\* pacing and gate do not refuse a lane for ever.
FairSpec ==
    /\ Spec
    /\ \A l \in Lanes : WF_vars(LaneStep(l)) /\ SF_vars(AdmitsSome(l))
    /\ WF_vars(BatcherStep \/ GatewayStep \/ SinkStep)

-----------------------------------------------------------------------------
(* Properties *)

Job == [lane : Lanes, slot : Slot, token : Nat, episode : Nat, kind : {"eval", "measure"}]

SlotState ==
    {Idle}
    \cup [state : {"running"}, episode : Nat, next : Nat, waves : Nat,
          measured : BOOLEAN]
    \cup [state : {"parked"}, episode : Nat, next : Nat, waves : Nat,
          measured : BOOLEAN, kind : {"eval", "measure"}, waiting : SUBSET Nat,
          unsent : SUBSET Nat]

\* Every variable has its type, and no lane begins more episodes than it has roots.
TypeOK ==
    /\ phase \in [Lanes -> {"top", "drive", "ack", "evals", "sending",
                            "measures", "wait", "more"} \cup Ended]
    /\ slots \in [Lanes -> [Slot -> SlotState]]
    /\ outbox \in [Lanes -> Seq(Job)]
    /\ completed \in [Lanes -> Seq(Nat)]
    /\ \A l \in Lanes : admitted[l] \in 0..Roots[l]
    /\ exhausted \in [Lanes -> BOOLEAN]
    /\ {intake, routing, measures} \subseteq Seq(Job)
    /\ inFlight \in Seq(Seq(Job))
    /\ received \in 0..MaxBatch
    /\ batcher \in {"running"} \cup Ended
    /\ outstanding \in Nat
    /\ replies \in [Lanes -> Seq([slot : Slot, token : Nat, episode : Nat,
                                  kind : {"eval", "measure"}, ok : BOOLEAN])]
    /\ tasks \subseteq Job
    /\ gateway \in {"running"} \cup Ended
    /\ games \in Seq([lane : Lanes, episode : Nat])
    /\ ack \in [Lanes -> {"none", "ok", "error"}]
    /\ appended \in [Lanes -> SUBSET Nat]
    /\ dropped \in [Lanes -> SUBSET Nat]
    /\ sink \in {"running"} \cup Ended
    /\ closed \in BOOLEAN
    /\ faults \in 0..MaxFaults

NoFailure == /\ \A l \in Lanes : phase[l] # "failed"
             /\ "failed" \notin {batcher, gateway, sink}

\* The job that reply r to lane l answers.
Asked(l, r) ==
    [lane |-> l, slot |-> r.slot, token |-> r.token, episode |-> r.episode, kind |-> r.kind]

\* Where a job may be: with its lane, which is about to send it; with the
\* batcher, with the gateway, or answered by a reply that the lane has not taken.
OutboxJobs == UNION {Range(outbox[l]) : l \in Lanes}
InFlightJobs == UNION {Range(inFlight[i]) : i \in DOMAIN inFlight}
RepliedJobs == UNION {{Asked(l, replies[l][i]) : i \in DOMAIN replies[l]} : l \in Lanes}
Stages == <<OutboxJobs, Range(intake), InFlightJobs, Range(routing),
            Range(measures), tasks, RepliedJobs>>
UnderWay == UNION {Stages[a] : a \in DOMAIN Stages}

\* No job is in two places, or twice in one.
UnderWayOnce ==
    /\ \A a, b \in DOMAIN Stages : a # b => Stages[a] \cap Stages[b] = {}
    /\ IsInjective(intake) /\ IsInjective(routing) /\ IsInjective(measures)
    /\ \A i \in DOMAIN inFlight :
         /\ IsInjective(inFlight[i])
         /\ \A k \in DOMAIN inFlight \ {i} : Range(inFlight[i]) \cap Range(inFlight[k]) = {}
    /\ \A l \in Lanes :
         /\ IsInjective(outbox[l])
         /\ \A i, k \in DOMAIN replies[l] : Asked(l, replies[l][i]) = Asked(l, replies[l][k]) => i = k

\* The slot of the job still plays the episode that asked for it, and waits.
Awaited(j) ==
    LET s == slots[j.lane][j.slot]
    IN  /\ s.state = "parked"
        /\ s.episode = j.episode /\ s.kind = j.kind
        /\ j.token \in s.waiting \ s.unsent

\* A slot is reused by later episodes and tokens start again with each of them.
\* Still no job or reply outlives the work it belongs to: everything under way
\* for a lane is awaited by the episode that asked for it, and only once.  The
\* pool tells replies apart by slot and token alone (pool.rs, resume).
AnswersAreAwaited ==
    UnderWayOnce /\ \A j \in UnderWay : ~LaneEnded(j.lane) => Awaited(j)

\* Conversely, while no thread has failed, whatever a parked slot waits for and
\* has sent is under way: no worker waits for an answer that cannot come.
AwaitedIsUnderWay ==
    NoFailure =>
        \A l \in Lanes : \A w \in Parked(l) :
            \A t \in slots[l][w].waiting \ slots[l][w].unsent : JobOf(l, w, t) \in UnderWay

\* The sizes of the channels (lanes/mod.rs) are such that no thread ever waits
\* for room: a lane that blocked on the batcher while the batcher blocked on
\* that lane would stop the run.
SendsNeverBlock ==
    /\ \A l \in Lanes :
         /\ phase[l] = "sending" => Len(intake) < IntakeCapacity
         /\ phase[l] = "measures" /\ outbox[l] # <<>> => Len(measures) < WorkerCapacity
         /\ Driven(l) /\ completed[l] # <<>> => Len(games) < WorkerCapacity
    /\ \A job \in tasks \cup Range(routing) :
         ~LaneEnded(job.lane) => Len(replies[job.lane]) < ReplyCapacity

\* The pressure counter is exact while no thread has failed: the jobs that have
\* been counted and whose batch has not been accounted.
OutstandingExact ==
    NoFailure =>
        outstanding = Len(intake) + Cardinality(InFlightJobs) + received
                        + Cardinality({l \in Lanes : phase[l] = "sending"})

\* What the sink has settled of a lane: ThreadedReplayRun reports how many games
\* were appended and how many dropped, and no more of them.
Settled(l) == appended[l] \cup dropped[l]

\* A run that returns without an error has settled the game of every root of
\* every lane, storing it or counting it as dropped (admit_symmetric answers Ok
\* for both and the lane goes on, lane.rs:332): none is lost between a lane and
\* the sink, whatever was refused meanwhile, and the two counts are of different
\* games.  In any run, also in one that fails, no game is settled twice: a game
\* on its way to the sink has been neither stored nor dropped.
SuccessIsComplete ==
    /\ AllEnded /\ NoFailure => \A l \in Lanes : Settled(l) = 1..Roots[l]
    /\ \A l \in Lanes : appended[l] \cap dropped[l] = {}
    /\ \A i \in DOMAIN games : games[i].episode \notin Settled(games[i].lane)

\* Whatever fails and whenever, every thread returns and the run ends: nobody
\* waits for a thread that is gone.
RunEnds == <>AllEnded

-----------------------------------------------------------------------------
(* Why it is so *)

\* The types of what a lane, the sink and the channel between them hold.
LanesTypeOK ==
    /\ phase \in [Lanes -> {"top", "drive", "ack", "evals", "sending",
                            "measures", "wait", "more"} \cup Ended]
    /\ slots \in [Lanes -> [Slot -> SlotState]]
    /\ completed \in [Lanes -> Seq(Nat)]
    /\ admitted \in [Lanes -> Nat]
    /\ \A l \in Lanes : admitted[l] <= Roots[l]
    /\ exhausted \in [Lanes -> BOOLEAN]
    /\ games \in Seq([lane : Lanes, episode : Nat])
    /\ ack \in [Lanes -> {"none", "ok", "error"}]
    /\ appended \in [Lanes -> SUBSET Nat]
    /\ dropped \in [Lanes -> SUBSET Nat]

\* The episodes that the pool of a lane still plays.
Playing(l) == {slots[l][w].episode : w \in Active(l)}

\* Every episode that a lane has begun is settled, waits to be settled or is being
\* played; a lane goes into the next round with nothing to settle, and is done
\* only when it plays nothing and has no roots left.
LaneAccounted(l) ==
    phase[l] # "failed" =>
        /\ 1..admitted[l] = Settled(l) \cup Range(completed[l]) \cup Playing(l)
        /\ exhausted[l] => admitted[l] = Roots[l]
        /\ phase[l] \notin {"drive", "ack"} => completed[l] = <<>>
        /\ phase[l] = "done" => exhausted[l] /\ Active(l) = {}
        /\ phase[l] = "ack" => completed[l] # <<>>
        /\ phase[l] # "ack" => ack[l] = "none"
        /\ ack[l] = "ok" => Head(completed[l]) \in Settled(l)

\* A game in the channel is the one its lane waits for, and the only one of it.
GamesAwaited ==
    /\ \A i \in 1..Len(games) :
         /\ phase[games[i].lane] = "ack" /\ ack[games[i].lane] = "none"
         /\ games[i].episode = Head(completed[games[i].lane])
    /\ \A i, j \in 1..Len(games) : games[i].lane = games[j].lane => i = j
    /\ sink \in Ended => games = <<>>

\* What has been begun is in one of these places only: two slots play different
\* episodes, none of which waits to be settled or is settled; what waits is
\* settled only when it is the first and the lane has not read the answer.
LaneExact(l) ==
    /\ appended[l] \cap dropped[l] = {}
    /\ phase[l] # "failed" =>
        /\ \A w, v \in Active(l) : slots[l][w].episode = slots[l][v].episode => w = v
        /\ Playing(l) \cap (Settled(l) \cup Range(completed[l])) = {}
        /\ IsInjective(completed[l])
        /\ \A i \in DOMAIN completed[l] :
             completed[l][i] \in Settled(l) => i = 1 /\ ack[l] = "ok"

RunAccounted ==
    /\ LanesTypeOK
    /\ \A l \in Lanes : LaneAccounted(l) /\ LaneExact(l)
    /\ GamesAwaited

\* Two tokens of kind k that belong to one wave, or are one measurement.
Together(k, t, u) == t - u < EvalsPerWorker /\ (k = "measure" => t = u)

\* What a parked slot waits for is the rest of one wave or one measurement.
SlotWaits(s) ==
    s.state = "parked" =>
        /\ s.unsent \subseteq s.waiting
        /\ \A t, u \in s.waiting : Together(s.kind, t, u)

\* So are the jobs of a slot that are under way, when its lane has failed too.
OneWork(U) ==
    \A i, j \in U : i.lane = j.lane /\ i.slot = j.slot =>
        i.episode = j.episode /\ i.kind = j.kind /\ Together(i.kind, i.token, j.token)

\* Evaluations go to the batcher and measurements to the gateway, and a lane
\* has jobs in its hands only while it sends jobs of that kind.
JobsRouted ==
    /\ \A j \in Range(intake) \cup InFlightJobs \cup Range(routing) : j.kind = "eval"
    /\ \A j \in Range(measures) \cup tasks : j.kind = "measure"
    /\ \A l \in Lanes :
         /\ \A j \in Range(outbox[l]) :
              j.lane = l /\ j.kind = IF phase[l] = "measures" THEN "measure" ELSE "eval"
         /\ phase[l] \notin {"evals", "sending", "measures"} => outbox[l] = <<>>
         /\ phase[l] = "sending" => outbox[l] # <<>>
    /\ \A i \in DOMAIN inFlight : Len(inFlight[i]) <= MaxBatch
    /\ received = 0 => routing = <<>>
    /\ Len(routing) <= received

\* The counter never falls behind the jobs it counts: a failure loses jobs, not counts.
PressureCovers ==
    outstanding >= Len(intake) + Cardinality(InFlightJobs) + received
                     + Cardinality({l \in Lanes : phase[l] = "sending"})

\* All of it together.
TrafficSound ==
    /\ TypeOK /\ AnswersAreAwaited /\ AwaitedIsUnderWay /\ OutstandingExact
    /\ JobsRouted /\ PressureCovers
    /\ OneWork(UnderWay)
    /\ \A l \in Lanes : \A w \in Slot : SlotWaits(slots[l][w])

\* Work and answers match: what is under way is awaited and what is awaited is
\* under way, no send waits for room, and the pressure counter is exact; and so
\* it stays because every job is where jobs of its kind belong and is counted.
TrafficExact == TrafficSound /\ SendsNeverBlock
=============================================================================
