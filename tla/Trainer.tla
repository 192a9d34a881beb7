------------------------------ MODULE Trainer ------------------------------
(***************************************************************************)
(* The learner's process (python/gz/trainer): the main loop that gates,    *)
(* trains and publishes, the prefetch thread that samples ahead of it, and *)
(* the self-play child that fills the replay store as long as its own      *)
(* backlog gate lets it.  The two gates face each other: the learner waits *)
(* for production, production waits for consumption.                       *)
(*                                                                         *)
(* The store is its three counters (ReplayStore models it); the weights    *)
(* are the number of optimizer steps they contain; publishing is one step  *)
(* here (Checkpoints models it).  A request on the sample socket is one    *)
(* attempt, which may fail before or after the server has recorded the     *)
(* batch.  Losses, staging and telemetry are left out.                     *)
(***************************************************************************)
EXTENDS Integers, Sequences, FiniteSets, SequencesExt

CONSTANTS
    Configs,         \* the run configurations
    Starts,          \* the training steps a run can start or resume from
    Workers,         \* games that self-play holds in flight at most
    GameRows,        \* the numbers of rows that one game can append
    ReconnectLimit,  \* reconnect_limit
    MaxErrors        \* bound: failed requests in a run

ASSUME TrainerAssumption ==
    /\ Starts \subseteq Nat /\ Workers \in Nat \ {0}
    /\ GameRows # {} /\ GameRows \subseteq Nat \ {0}
    /\ ReconnectLimit \in Nat /\ MaxErrors \in Nat

(* The fields of a run's configuration that matter here, as they are       *)
(* declared; reuse is the exact ratio that max_reuse is converted to.       *)
Fields ==
    [total : Int, batch : Int, value : Int, reuse : Int \X Int, gate : Int, episodes : Int,
     publish : Int, permanent : Int, lag : Int, backlog : Int, startup : Int, log : Int,
     prefetch : BOOLEAN, parallel : BOOLEAN]

ASSUME ConfigsAssumption == Configs \subseteq Fields

(* A game's length is limited, so the rows it appends are. *)
ASSUME GamesAssumption == \E most \in GameRows : \A r \in GameRows : r <= most

VARIABLES
    config,      \* the configuration of this run
    start,       \* the step it starts from
    store,       \* [produced, episodes, consumed]
    playing,     \* games in flight in the self-play child
    child,       \* "none", "up" or "dead"
    main,        \* the main thread
    pre,         \* the prefetch thread
    queue,       \* its queue of batches, at most Depth of them
    lock,        \* who holds the prefetcher's lock
    stop,        \* the prefetcher's stop event
    ema,         \* optimizer steps in the EMA weights
    published,   \* checkpoints published by this run, in order
    errors       \* failed requests so far

vars == <<config, start, store, playing, child, main, pre, queue, lock, stop,
          ema, published, errors>>

Depth == 2
Nobody == "nobody"

-----------------------------------------------------------------------------
(* Configuration. *)

CeilDiv(a, b) == (a + b - 1) \div b

(* The rules of _validate for the fields this module uses: the learner's   *)
(* intervals and batches, its gates, and self-play's backlog.               *)
validate_intervals(c) ==
    /\ c.startup >= 1 /\ c.publish >= 1 /\ c.permanent >= 0 /\ c.lag \in {0, 1}
    /\ c.batch >= 1 /\ c.value >= 0

validate_gates(c) ==
    /\ c.gate >= 1 /\ c.episodes >= 0
    /\ c.lag = 1 => c.gate = c.publish /\ (c.reuse[1] # 0 \/ c.episodes # 0)
    /\ c.reuse[1] >= 0 /\ c.reuse[2] >= 1

_validate(c) == validate_intervals(c) /\ validate_gates(c) /\ c.backlog >= 1

Larger(a, b) == IF a < b THEN b ELSE a

(* Mutant: the block is counted from its start. *)
required_rows_BlockStart(step, batch) ==
    IF config.reuse[1] = 0 THEN 0
    ELSE CeilDiv((step \div config.gate) * config.gate * batch * config.reuse[2], config.reuse[1])

(* Rows that must exist before the block of `step` may train. *)
required_produced_rows(step, batch) ==
    IF config.reuse[1] = 0 THEN 0
    ELSE LET block_end == (step \div config.gate + 1) * config.gate
         IN  CeilDiv(block_end * batch * config.reuse[2], config.reuse[1])

required_episodes(step) == (step \div config.gate + 1) * config.episodes

checkpoint_due(step) ==
    /\ step > 0
    /\ \/ step % config.publish = 0
       \/ config.permanent # 0 /\ step % config.permanent = 0

PerStep == config.batch + config.value

(* The backlog leaves room for what each gate waits for.  _validate does   *)
(* not ask for it.                                                         *)
Roomy ==
    /\ config.startup <= config.backlog + 1
    /\ \A step \in start..(config.total - 1) :
         LET before == (step \div config.gate) * config.gate
             room == config.backlog + Larger(before, start) * PerStep
             rows == required_produced_rows(step, Larger(config.batch, config.value))
         IN  /\ rows <= room + 1
             /\ config.episodes # 0 =>
                  \A r \in GameRows : (required_episodes(step) - 1) * r <= room

-----------------------------------------------------------------------------
(* A resumed run finds the rows of its first steps produced and consumed.  *)
Init ==
    /\ config \in Configs /\ _validate(config)
    /\ start \in Starts /\ start < config.total
    /\ LET done == start * PerStep
       IN  store = [produced |-> IF start = 0 THEN 0
                                 ELSE required_produced_rows(start - 1, Larger(config.batch, config.value)),
                    episodes |-> IF start = 0 THEN 0 ELSE required_episodes(start - 1),
                    consumed |-> done]
    /\ playing = 0 /\ child = "none"
    /\ main = [pc |-> "prepare", step |-> start, rows |-> 0, eps |-> 0, got |-> -1,
               todo |-> {}, pending |-> 0, last |-> start, tries |-> 0, ok |-> TRUE]
    /\ pre = [pc |-> "off", step |-> start, todo |-> {}, tries |-> 0]
    /\ queue = <<>> /\ lock = Nobody /\ stop = FALSE
    /\ ema = start
    /\ published = <<>>
    /\ errors = 0

-----------------------------------------------------------------------------
(* The self-play child. *)

replay_gate_open ==
    (IF store.produced > store.consumed THEN store.produced - store.consumed ELSE 0)
        <= config.backlog

AdmitGame ==
    /\ child = "up" /\ playing < Workers /\ replay_gate_open
    /\ playing' = playing + 1
    /\ UNCHANGED <<config, start, store, child, main, pre, queue, lock, stop, ema, published, errors>>

AppendRows ==
    /\ child = "up" /\ playing > 0
    /\ \E r \in GameRows :
         store' = [store EXCEPT !.produced = @ + r, !.episodes = @ + 1]
    /\ playing' = playing - 1
    /\ UNCHANGED <<config, start, child, main, pre, queue, lock, stop, ema, published, errors>>

ChildDies ==
    /\ child = "up"
    /\ child' = "dead" /\ playing' = 0
    /\ UNCHANGED <<config, start, store, main, pre, queue, lock, stop, ema, published, errors>>

-----------------------------------------------------------------------------
(* Self-play is started with --serve-max-batch trainer.batch, and its      *)
(* sample service answers a request for more rows with an error.           *)
Served(rows) == rows <= config.batch

(* A request of that many rows on a sample client (_with_reconnect), none  *)
(* for a refresh.  A failed attempt is retried on a new connection; when   *)
(* that connection cannot be made, or the limit is passed, the error is    *)
(* raised.                                                                 *)
connect(retry, raised) == retry \/ raised

Attempt(rows, tries, answered, retry, raised) ==
    \/ /\ child = "up" /\ Served(rows) /\ answered /\ UNCHANGED errors
    \/ /\ child = "up"
       /\ IF Served(rows) THEN errors < MaxErrors /\ errors' = errors + 1
          ELSE UNCHANGED errors
       /\ IF tries + 1 > ReconnectLimit THEN raised ELSE connect(retry, raised)
    \/ /\ child = "dead" /\ raised /\ UNCHANGED errors

(* What a refresh answers. *)
_refresh_connected == [rows |-> store.produced, eps |-> store.episodes]

(* What a failed attempt may have left behind: the batch counted, or not. *)
PossiblyCounted(rows) ==
    \/ UNCHANGED store
    \/ child = "up" /\ rows > 0 /\ Served(rows) /\ store' = [store EXCEPT !.consumed = @ + rows]

RowsOf(todo) == IF "policy" \in todo THEN config.batch ELSE config.value

GateMet(step, batch, ack) ==
    ack.rows >= required_produced_rows(step, batch) /\ ack.eps >= required_episodes(step)

-----------------------------------------------------------------------------
(* The prefetch thread: SamplePrefetcher._run. *)

Pre(f) == pre' = f
PreFree == lock \in {Nobody, "pre"}

PreLoop ==
    /\ pre.pc = "loop"
    /\ Pre(IF pre.step >= config.total \/ stop THEN [pre EXCEPT !.pc = "ended"]
           ELSE [pre EXCEPT !.pc = "gate", !.tries = 0])
    /\ UNCHANGED <<config, start, store, playing, child, main, queue, lock, stop, ema, published, errors>>

PreRaises == Pre([pre EXCEPT !.pc = "error"]) /\ lock' = Nobody

(* Refresh under the lock until the block's rows and games exist. *)
PreGate ==
    /\ pre.pc = "gate" /\ PreFree
    /\ LET met == GateMet(pre.step, Larger(config.batch, config.value), _refresh_connected)
       IN  Attempt(0, pre.tries,
             /\ lock' = Nobody
             /\ Pre(IF met
                    THEN [pre EXCEPT !.pc = "sample", !.tries = 0,
                            !.todo = {"policy"} \cup (IF config.value > 0 THEN {"value"} ELSE {})]
                    ELSE IF stop THEN [pre EXCEPT !.pc = "ended"]
                    ELSE [pre EXCEPT !.tries = 0]),
             lock' = "pre" /\ Pre([pre EXCEPT !.tries = @ + 1]),
             PreRaises)
    /\ UNCHANGED <<config, start, store, playing, child, main, queue, stop, ema, published>>

(* sample_training_batches under the lock: the policy batch, then the      *)
(* value batch, or both at once on two connections.                        *)
PreSample ==
    /\ pre.pc = "sample" /\ PreFree
    /\ \E t \in pre.todo :
         /\ config.parallel \/ t = "policy" \/ "policy" \notin pre.todo
         /\ LET rows == RowsOf({t})
                rest == pre.todo \ {t}
            IN  Attempt(rows, pre.tries,
                  /\ store' = [store EXCEPT !.consumed = @ + rows]
                  /\ lock' = IF rest = {} THEN Nobody ELSE "pre"
                  /\ Pre([pre EXCEPT !.todo = rest, !.tries = 0,
                            !.pc = IF rest = {} THEN "put" ELSE "sample"]),
                  lock' = "pre" /\ Pre([pre EXCEPT !.tries = @ + 1]) /\ PossiblyCounted(rows),
                  PreRaises /\ PossiblyCounted(rows))
    /\ UNCHANGED <<config, start, playing, child, main, queue, stop, ema, published>>

(* Mutant: a batch that finds the queue full is dropped. *)
PrePut_Drops ==
    /\ pre.pc = "put"
    /\ queue' = IF Len(queue) < Depth THEN Append(queue, pre.step) ELSE queue
    /\ Pre([pre EXCEPT !.pc = "loop", !.step = @ + 1])
    /\ UNCHANGED <<config, start, store, playing, child, main, lock, stop, ema, published, errors>>

(* The put gives up when the stop event is set, though one that is waiting *)
(* then may still find room; the put of an error does not give up.         *)
PrePut ==
    /\ pre.pc = "put"
    /\ \/ /\ stop
          /\ Pre([pre EXCEPT !.pc = "ended"]) /\ UNCHANGED queue
       \/ /\ Len(queue) < Depth
          /\ queue' = Append(queue, pre.step)
          /\ Pre([pre EXCEPT !.pc = "loop", !.step = @ + 1])
    /\ UNCHANGED <<config, start, store, playing, child, main, lock, stop, ema, published, errors>>

PreError ==
    /\ pre.pc = "error" /\ Len(queue) < Depth
    /\ queue' = Append(queue, -1)
    /\ Pre([pre EXCEPT !.pc = "ended"])
    /\ UNCHANGED <<config, start, store, playing, child, main, lock, stop, ema, published, errors>>

PreStep == PreLoop \/ PreGate \/ PreSample \/ PrePut \/ PreError

-----------------------------------------------------------------------------
(* The main thread: run and _TrainingSession.train. *)

Goto(f, pc) == [f EXCEPT !.pc = pc, !.tries = 0]
Failed(f) == [Goto(f, "stop") EXCEPT !.ok = FALSE]
Main(f) == main' = f
MainFree == lock \in {Nobody, "main"}

(* A fresh run binds the store, reads its schema from a short-lived server *)
(* and publishes its untrained weights; a resumed one finds its last        *)
(* checkpoint.  Either can fail before there is a child to stop.            *)
_prepare_run ==
    /\ main.pc = "prepare"
    /\ \/ /\ Main(Goto(main, "spawn"))
          /\ published' = IF start = 0 THEN <<[step |-> 0, weights |-> ema]>> ELSE published
       \/ Main([Goto(main, "ended") EXCEPT !.ok = FALSE]) /\ UNCHANGED published
    /\ UNCHANGED <<config, start, store, playing, child, pre, queue, lock, stop, ema, errors>>

spawn_torch_selfplay ==
    /\ main.pc = "spawn"
    /\ child' = "up"
    /\ Main(Goto(main, "ready"))
    /\ UNCHANGED <<config, start, store, playing, pre, queue, lock, stop, ema, published, errors>>

(* wait_until_ready, which gives up after startup_timeout. *)
Ready ==
    /\ main.pc = "ready"
    /\ \/ /\ child = "up" /\ store.produced >= config.startup
          /\ Main(Goto(main, "check"))
          /\ pre' = [pre EXCEPT !.pc = IF config.prefetch THEN "loop" ELSE "off"]
       \/ /\ child = "dead" \/ store.produced < config.startup
          /\ Main(Failed(main)) /\ UNCHANGED pre
    /\ UNCHANGED <<config, start, store, playing, child, queue, lock, stop, ema, published, errors>>

(* check_child and, every fifty steps, check_memory. *)
Check ==
    /\ main.pc = "check"
    /\ Main(IF child = "dead" THEN Failed(main) ELSE Goto(main, "gate"))
    /\ UNCHANGED <<config, start, store, playing, child, pre, queue, lock, stop, ema, published, errors>>

CheckMemory ==
    /\ main.pc = "check" /\ main.step % 50 = 0
    /\ Main(Failed(main))
    /\ UNCHANGED <<config, start, store, playing, child, pre, queue, lock, stop, ema, published, errors>>

MainRaises == Main(Failed(main)) /\ lock' = Nobody

(* _wait_for_reuse_gate: the floors are what the last refresh returned. *)
_wait_for_reuse_gate ==
    /\ main.pc = "gate"
    /\ IF GateMet(main.step, config.batch, main)
       THEN Main(Goto(main, "pending")) /\ UNCHANGED <<lock, errors>>
       ELSE /\ MainFree
            /\ LET ack == _refresh_connected
                   seen == [main EXCEPT !.rows = ack.rows, !.eps = ack.eps]
               IN  Attempt(0, main.tries,
                     /\ lock' = Nobody
                     /\ Main(Goto(seen, IF GateMet(main.step, config.batch, ack)
                                        THEN "pending" ELSE "gate")),
                     lock' = "main" /\ Main([main EXCEPT !.tries = @ + 1]),
                     MainRaises)
    /\ UNCHANGED <<config, start, store, playing, child, pre, queue, stop, ema, published>>

(* _publish: a step is published once, and in order.  publish_ema may      *)
(* raise, for weights that are not finite or a file, and so may the prune  *)
(* behind it, when the checkpoint is already there.                        *)
_publish(step, f) ==
    IF step = main.last THEN Main(f) /\ UNCHANGED published
    ELSE IF step < main.last THEN Main(Failed(f)) /\ UNCHANGED published
    ELSE \/ /\ published' = Append(published, [step |-> step, weights |-> ema])
            /\ Main([f EXCEPT !.last = step]) \/ Main(Failed(f))
         \/ UNCHANGED published /\ Main(Failed(f))

PublishPending ==
    /\ main.pc = "pending"
    /\ LET f == [Goto(main, "next") EXCEPT !.pending = 0]
       IN  IF main.pending # 0 THEN _publish(main.pending, f)
           ELSE Main(f) /\ UNCHANGED published
    /\ UNCHANGED <<config, start, store, playing, child, pre, queue, lock, stop, ema, errors>>

(* _next_samples from the prefetcher: blocks on the queue. *)
NextPrefetched ==
    /\ main.pc = "next" /\ config.prefetch /\ queue # <<>>
    /\ Main(IF Head(queue) = -1 THEN Failed(main)
            ELSE [Goto(main, "train") EXCEPT !.got = Head(queue)])
    /\ queue' = Tail(queue)
    /\ UNCHANGED <<config, start, store, playing, child, pre, lock, stop, ema, published, errors>>

(* Without one the main thread refreshes and samples itself. *)
NextRefresh ==
    /\ main.pc = "next" /\ ~config.prefetch
    /\ Attempt(0, main.tries,
         Main([Goto(main, "sample") EXCEPT
                 !.todo = {"policy"} \cup (IF config.value > 0 THEN {"value"} ELSE {})]),
         Main([main EXCEPT !.tries = @ + 1]),
         Main(Failed(main)))
    /\ UNCHANGED <<config, start, store, playing, child, pre, queue, lock, stop, ema, published>>

NextSample ==
    /\ main.pc = "sample"
    /\ LET t == IF "policy" \in main.todo THEN "policy" ELSE "value"
           rows == RowsOf({t})
           rest == main.todo \ {t}
       IN  Attempt(rows, main.tries,
             /\ store' = [store EXCEPT !.consumed = @ + rows]
             /\ Main([Goto(main, IF rest = {} THEN "train" ELSE "sample") EXCEPT
                        !.todo = rest, !.got = main.step]),
             Main([main EXCEPT !.tries = @ + 1]) /\ PossiblyCounted(rows),
             Main(Failed(main)) /\ PossiblyCounted(rows))
    /\ UNCHANGED <<config, start, playing, child, pre, queue, lock, stop, ema, published>>

(* One optimizer step; a gradient that is not finite is refused. *)
execute_training_step ==
    \/ ema' = ema + 1 /\ Main(Goto(main, "log"))
    \/ UNCHANGED ema /\ Main(Failed(main))

Train ==
    /\ main.pc = "train" /\ execute_training_step
    /\ UNCHANGED <<config, start, store, playing, child, pre, queue, lock, stop, published, errors>>

(* Every log_interval steps _write_step_metrics refreshes once more; then  *)
(* a due checkpoint is published, or left to the other side of the gate.   *)
LogStep ==
    /\ main.pc = "log"
    /\ IF main.step % config.log # 0
       THEN Main(Goto(main, "due")) /\ UNCHANGED <<lock, errors>>
       ELSE /\ MainFree
            /\ Attempt(0, main.tries,
                 lock' = Nobody /\ Main(Goto(main, "due")),
                 lock' = "main" /\ Main([main EXCEPT !.tries = @ + 1]),
                 MainRaises)
    /\ UNCHANGED <<config, start, store, playing, child, pre, queue, stop, ema, published>>

Due ==
    /\ main.pc = "due"
    /\ LET next == main.step + 1
           f == [Goto(main, IF next < config.total THEN "check" ELSE "final") EXCEPT !.step = next]
       IN  IF ~checkpoint_due(next) THEN Main(f) /\ UNCHANGED published
           ELSE IF config.lag = 1 THEN Main([f EXCEPT !.pending = next]) /\ UNCHANGED published
           ELSE _publish(next, f)
    /\ UNCHANGED <<config, start, store, playing, child, pre, queue, lock, stop, ema, errors>>

(* Mutant: the queue is left full. *)
StopPrefetch_KeepsQueue == stop' = (stop \/ pre.pc # "off") /\ UNCHANGED queue

(* SamplePrefetcher.stop: the event, and one item taken from the queue. *)
StopPrefetch ==
    /\ stop' = (stop \/ pre.pc # "off")
    /\ queue' = IF queue = <<>> THEN queue ELSE Tail(queue)

(* Mutant: a pending checkpoint is forgotten at the end. *)
Final_ForgetsPending ==
    /\ main.pc = "final"
    /\ StopPrefetch
    /\ LET f == Goto(main, "stop")
       IN  IF ~checkpoint_due(config.total) THEN _publish(config.total, f)
           ELSE Main(f) /\ UNCHANGED published
    /\ UNCHANGED <<config, start, store, playing, child, pre, lock, ema, errors>>

Final ==
    /\ main.pc = "final"
    /\ StopPrefetch
    /\ LET f == [Goto(main, "stop") EXCEPT !.pending = 0]
       IN  IF main.pending # 0 THEN _publish(main.pending, f)
           ELSE IF ~checkpoint_due(config.total) THEN _publish(config.total, f)
           ELSE Main(f) /\ UNCHANGED published
    /\ UNCHANGED <<config, start, store, playing, child, pre, lock, ema, errors>>

(* The finally clause of run: stop the prefetcher, kill the child's group, *)
(* join the thread, close.                                                 *)
Stop ==
    /\ main.pc = "stop"
    /\ StopPrefetch
    /\ Main(Goto(main, "kill"))
    /\ UNCHANGED <<config, start, store, playing, child, pre, lock, ema, published, errors>>

Terminate ==
    /\ main.pc = "kill"
    /\ child' = "dead" /\ playing' = 0
    /\ Main(Goto(main, "join"))
    /\ UNCHANGED <<config, start, store, pre, queue, lock, stop, ema, published, errors>>

(* A thread that is not done after ten seconds is an error too.            *)
Join ==
    /\ main.pc = "join"
    /\ \/ pre.pc \in {"off", "ended"} /\ Main(Goto(main, "ended"))
       \/ pre.pc \notin {"off", "ended"} /\ Main([Goto(main, "ended") EXCEPT !.ok = FALSE])
    /\ UNCHANGED <<config, start, store, playing, child, pre, queue, lock, stop, ema, published, errors>>

MainStep ==
    \/ _prepare_run \/ spawn_torch_selfplay \/ Ready \/ Check \/ CheckMemory \/ _wait_for_reuse_gate \/ PublishPending
    \/ NextPrefetched \/ NextRefresh \/ NextSample \/ Train \/ LogStep \/ Due
    \/ Final \/ Stop \/ Terminate \/ Join

Ended == main.pc = "ended" /\ UNCHANGED vars

Next == AdmitGame \/ AppendRows \/ ChildDies \/ PreStep \/ MainStep \/ Ended

(* Threads are scheduled and a game in flight finishes; nothing makes a    *)
(* request fail, the child die or a memory check refuse.                   *)
Fairness ==
    /\ WF_vars(MainStep) /\ WF_vars(PreStep)
    /\ WF_vars(AdmitGame) /\ WF_vars(AppendRows)

Spec == Init /\ [][Next]_vars /\ Fairness

-----------------------------------------------------------------------------
(* Properties. *)

(* Each optimizer step trains on the batch that was sampled for it, once,  *)
(* although another thread samples ahead, drops out and is retried.        *)
BatchesInOrder == main.pc \in {"train", "log"} => main.got = main.step /\ ema \in {main.step, main.step + 1}

(* max_reuse holds at every step that trains: the rows drawn so far for    *)
(* the policy, and for the value head when a prefetcher draws them, are at *)
(* most max_reuse times the rows produced.                                 *)
ReuseBounded ==
    main.pc = "train" /\ config.reuse[1] # 0 =>
      \A b \in {config.batch} \cup (IF config.prefetch THEN {config.value} ELSE {}) :
        (main.step + 1) * b * config.reuse[2] <= config.reuse[1] * store.produced

(* The backlog gate limits admission only, so the backlog overshoots its   *)
(* limit by at most the rows of the games in flight.                       *)
BacklogBounded ==
    \E r \in GameRows : store.produced - store.consumed <= config.backlog + Workers * r

(* A published checkpoint contains exactly the steps its manifest names,   *)
(* steps are published in order, and a run that succeeds has published     *)
(* every step that was due and the last one, lagging or not.               *)
PublishedExact ==
    /\ \A i \in 1..Len(published) :
         /\ published[i].weights = published[i].step
         /\ i > 1 => published[i - 1].step < published[i].step
    /\ main.pc = "ended" /\ main.ok =>
         {published[i].step : i \in 1..Len(published)} \ {0}
           = {s \in (start + 1)..config.total : checkpoint_due(s) \/ s = config.total}

(* A run whose backlog leaves room for its gates always ends: it trains to *)
(* the last step or fails, whatever child, request or check fails on the   *)
(* way, and its prefetch thread ends as well, even one that Join does not  *)
(* wait for any longer.                                                    *)
RunEnds == Roomy ~> main.pc = "ended" /\ pre.pc \in {"off", "ended"}

(* Trainer and self-play keep pace: rows are not drawn too often and do    *)
(* not pile up.                                                            *)
PaceBounded == ReuseBounded /\ BacklogBounded

-----------------------------------------------------------------------------
(* Why it is so: the parts of an inductive invariant.                      *)

Starting == {"prepare", "spawn", "ready"}
Looping == {"check", "gate", "pending", "next", "sample", "train", "log", "due"}
Leaving == {"stop", "kill", "join", "ended"}
UnderWay == Starting \cup Looping \cup {"final"}

MainState ==
    [pc : UnderWay \cup Leaving, step : Nat, rows : Int, eps : Int, got : Int,
     todo : SUBSET {"policy", "value"}, pending : Nat, last : Nat, tries : Nat, ok : BOOLEAN]

PreState ==
    [pc : {"off", "loop", "gate", "sample", "put", "error", "ended"}, step : Nat,
     todo : SUBSET {"policy", "value"}, tries : Nat]

Store == [produced : Int, episodes : Int, consumed : Int]

Checkpoint == [step : Nat, weights : Nat]

TypeOK ==
    /\ config \in Fields /\ _validate(config)
    /\ start \in Nat /\ start < config.total
    /\ store \in Store
    /\ main \in MainState /\ pre \in PreState
    /\ queue \in Seq(Nat \cup {-1})
    /\ ema \in Nat /\ published \in Seq(Checkpoint)

(* The main thread counts its steps, and the weights contain them. *)
StepsCounted ==
    /\ start <= main.step /\ main.step <= config.total
    /\ main.pc \in Starting => main.step = start
    /\ main.pc \in Looping => main.step < config.total
    /\ main.pc = "final" => main.step = config.total
    /\ main.pc \in UnderWay =>
         ema = IF main.pc \in {"log", "due"} THEN main.step + 1 ELSE main.step
    /\ main.pc \in {"train", "log", "due"} => main.got = main.step

(* The step of the batch that the main thread takes next. *)
NextBatch == IF main.pc \in {"train", "log", "due"} THEN main.step + 1 ELSE main.step

(* The queue holds the batches from there up to the one the prefetch       *)
(* thread is at, one for each step; an error is behind them all.           *)
QueueInOrder ==
    main.pc \in UnderWay =>
      /\ ~stop
      /\ main.pc \in Starting => queue = <<>> /\ pre.step = start /\ pre.pc = "off"
      /\ main.pc = "sample" => ~config.prefetch
      /\ main.pc \in Looping /\ config.prefetch =>
           LET ahead == pre.step - NextBatch
           IN  /\ ahead >= 0 /\ Len(queue) \in {ahead, ahead + 1}
               /\ \A i \in 1..ahead : queue[i] = NextBatch + i - 1
               /\ Len(queue) = ahead + 1 => queue[ahead + 1] = -1 /\ pre.pc = "ended"

PublishedSteps == {published[i].step : i \in 1..Len(published)} \ {0}
DueSteps(step) == {s \in (start + 1)..step : checkpoint_due(s)}

(* What is published are the steps that were due, without the one that     *)
(* waits on the other side of the gate, in order.                          *)
PublishedInOrder ==
    /\ \A i \in 1..Len(published) :
         /\ published[i].weights = published[i].step
         /\ i > 1 => published[i - 1].step < published[i].step
         /\ main.pc \in UnderWay => published[i].step <= main.last
    /\ main.last \in {start} \cup PublishedSteps
    /\ main.pc = "prepare" => published = <<>>
    /\ main.pc \in UnderWay =>
         /\ main.pending # 0 =>
              /\ main.pc \in {"check", "gate", "pending", "final"}
              /\ main.pending = main.step /\ main.pending \in DueSteps(main.step)
         /\ PublishedSteps = DueSteps(main.step) \ {main.pending}
    /\ main.pc \in Leaving /\ main.ok =>
         PublishedSteps = DueSteps(config.total) \cup {config.total}

(* The rows of step s and of those before it, b at a time, are paid for. *)
Paid(s, b) == (s + 1) * b * config.reuse[2] <= config.reuse[1] * store.produced

RowsPaid ==
    /\ store.produced >= 0 /\ main.rows <= store.produced
    /\ config.reuse[1] # 0 =>
         /\ main.pc \in {"pending", "next", "sample", "train"} => Paid(main.step, config.batch)
         /\ config.prefetch /\ main.pc \in UnderWay =>
              \A s \in start..(IF pre.pc \in {"sample", "put"} THEN pre.step ELSE pre.step - 1) :
                Paid(s, Larger(config.batch, config.value))

TrainerInductive == TypeOK /\ StepsCounted /\ QueueInOrder /\ PublishedInOrder /\ RowsPaid

MostRows == CHOOSE most \in GameRows : \A r \in GameRows : r <= most

(* The backlog's limit and the overshoot of the games in flight.  A fresh  *)
(* run starts below it; a resumed one finds the store as it was left.      *)
WithinLimit == store.produced - store.consumed <= config.backlog + Workers * MostRows

(* The rows in flight are part of the overshoot. *)
FlightCounted ==
    /\ playing \in 0..Workers /\ config.backlog \in Int
    /\ store.produced - store.consumed + playing * MostRows <= config.backlog + Workers * MostRows

PaceInductive == TrainerInductive /\ FlightCounted
=============================================================================
