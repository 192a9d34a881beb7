---------------------------- MODULE ReplayStore ----------------------------
(***************************************************************************)
(* The replay store (crates/gz-replay), the measurer that projects a       *)
(* finished game into it (crates/gz-measurer), and the sample sessions     *)
(* that read it while games are still being appended (gz-cli serve).       *)
(*                                                                         *)
(* A store is one RocksDB directory.  One process at a time opens it; in   *)
(* that process the replay sink is the only appender (it holds write_lock  *)
(* for a whole append), and any number of sample sessions read without a   *)
(* lock.  A RocksDB write batch is atomic and survives a crash; the        *)
(* counters a session reads are published afterwards one by one, so that a *)
(* session, or a crash, can come between any two of them.                  *)
(*                                                                         *)
(* Rows and episodes are abstracted to what the store's rules tell apart:  *)
(* which game and seat a row belongs to, its step, its kind, the target it *)
(* was labelled with and the engine, mode and target rule it was produced  *)
(* under.  Features, graphs and policies are left out; the moving averages *)
(* of paired games are known by how many games they average.  A failed     *)
(* RocksDB write ends the process (run_replay_sink returns the error),     *)
(* which is what Crash does.                                               *)
(***************************************************************************)
EXTENDS Integers, Sequences, FiniteSets, FiniteSetsExt, Functions

CONSTANTS
    None,        \* the absent optional value
    Sessions,    \* the concurrent sample sessions of the process
    Contracts,   \* the ReplayContracts the opened processes ask for
    Games,       \* the games the lanes can finish: pairs of perspectives
    Examples,    \* the labelled states distillation can produce
    Windows,     \* the window_rows a sample request can carry
    Retain,      \* retain_rows: the bound of the store, 0 when there is none
    MaxGames,    \* bound: games admitted over the life of the store
    MaxOpens,    \* bound: times the store is opened
    MaxServed    \* bound: recorded batches after which no request comes

ASSUME ReplayAssumption ==
    /\ Retain \in Nat /\ MaxGames \in Nat /\ MaxOpens \in Nat /\ MaxServed \in Nat
    /\ Windows \subseteq Nat \ {0}

Modes == {"standard", "symmetric", "symmetric_stop"}
Outcomes == {"empty", "missing", "no terminal", "averages", "no averages"}

ASSUME NoneAssumption ==
    None \notin Sessions /\ None \notin Contracts /\ None \notin Modes \cup Outcomes

ASSUME ContractsAssumption == \A c \in Contracts : c.mode \in Modes /\ c.schema # None

ASSUME GamesAssumption == \A g \in Games : g[1].steps \in Nat /\ g[2].steps \in Nat

Batch == 1

VARIABLES
    disk,      \* the directory: the three column families and the metadata
    mem,       \* the open ReplayStore's atomics, or Closed
    sink,      \* where the append under write_lock stands
    session,   \* each sample session: what it has loaded and its outcome
    opens,     \* processes that have opened the store
    games,     \* games admitted so far
    log,       \* history: every row ever committed, in sequence order
    served     \* history: rows handed to a client whose count was recorded

vars == <<disk, mem, sink, session, opens, games, log, served>>

Closed == [up |-> FALSE]
Idle == [pc |-> "idle"]

-----------------------------------------------------------------------------
(* Contracts: what a store may hold. *)

IsSymmetric(mode) == mode \in {"symmetric", "symmetric_stop"}

(* A contract that ensure_contract accepts as well formed. *)
WellFormed(c) ==
    /\ IsSymmetric(c.mode) <=> (c.epsilon # None)
    /\ IsSymmetric(c.mode) <=> (c.scale # None)
    /\ ~(c.scale \notin {None, 0} /\ c.epsilon \notin {None, 0})

(* Mutant: a key that is not bound yet is bound whatever the store holds. *)
Binds_AnyRows(stored, asked, zero, rows) ==
    stored = None \/ (asked # None /\ stored = asked)

(* An optional key agrees with the contract, or may still be bound to it. *)
Binds(stored, asked, zero, rows) ==
    \/ stored # None /\ asked # None /\ stored = asked
    \/ stored = None /\ asked # None /\ (asked = zero \/ rows = 0)
    \/ stored = None /\ asked = None

(* Every check of ensure_contract; a store it refuses is left as it was. *)
ensure_contract(c) ==
    /\ WellFormed(c)
    /\ Binds(disk.schema, c.schema, "no default", mem.produced)
    /\ IF mem.mode # None THEN mem.mode = c.mode
       ELSE mem.next_episode = 0 \/ c.mode = "standard"
    /\ IF mem.identity # None THEN mem.identity = c.identity
       ELSE \A e \in DOMAIN disk.episodes : disk.episodes[e].identity = c.identity
    /\ Binds(disk.epsilon, c.epsilon, 0, mem.produced)
    /\ Binds(disk.scale, c.scale, 0, mem.produced)

Bound(stored, asked) == IF stored = None THEN asked ELSE stored

-----------------------------------------------------------------------------
(* The measurer: a game of two perspectives becomes two labelled episodes. *)

episode_reward(a) == a.reward

symmetric_rewrite_count(a) == a.steps - (IF a.stopped THEN 1 ELSE 0)

(* Graded targets squash the reward difference into the open unit interval *)
(* (tanh, an odd function); hard targets are the sign of the difference    *)
(* outside the tie band, then the shorter rewrite sequence.                *)
Squash(delta) == IF delta > 0 THEN 1 ELSE IF delta < 0 THEN -1 ELSE 0

symmetric_outcome_target(a, b, c) ==
    LET delta == a.reward - b.reward
        la == symmetric_rewrite_count(a)
        lb == symmetric_rewrite_count(b)
    IN  IF c.scale # 0 THEN Squash(delta)
        ELSE IF delta > c.epsilon THEN 2
        ELSE IF delta < -c.epsilon THEN -2
        ELSE IF la < lb THEN 2
        ELSE IF la > lb THEN -2
        ELSE 0

(* project_episode with set_value_target: the record the store is given.   *)
(* The last row is the value-only terminal row when there is a terminal    *)
(* feature row.                                                            *)
project_episode(a, seat, target, c) ==
    [game |-> games, seat |-> seat, target |-> target, steps |-> a.steps,
     rows |-> a.steps + (IF a.terminal THEN 1 ELSE 0), stopped |-> a.stopped,
     identity |-> c.identity, mode |-> c.mode, schema |-> c.schema,
     epsilon |-> c.epsilon, scale |-> c.scale]

(* What an append checks of an episode under the store's mode and schema:  *)
(* its engine, its outcome, and the value-only row that only a paired game *)
(* may end with.                                                           *)
validate_episode_engine_identity(e) == mem.identity # None => e.identity = mem.identity

validate_outcome(e) ==
    IF IsSymmetric(mem.mode)
    THEN e.target # None /\ (e.stopped => mem.mode = "symmetric_stop")
    ELSE e.target = None

validate_terminal_row(e) == e.rows = e.steps + 1 => IsSymmetric(mem.mode)

validate_episode(e) ==
    /\ validate_episode_engine_identity(e)
    /\ e.schema # None => disk.schema = e.schema
    /\ validate_outcome(e)
    /\ e.rows \in {e.steps, e.steps + 1} /\ validate_terminal_row(e)

-----------------------------------------------------------------------------
(* Keys: the row index is a function from sequence numbers to row keys, a  *)
(* row key is <<episode, step>>, and ranges of both are deleted.           *)

(* The batch of one episode, or of the two of a pair: their rows follow    *)
(* each other in the order of the sequence numbers.                        *)
BatchRows(es) == es[1].rows + (IF Len(es) = 2 THEN es[2].rows ELSE 0)

BatchKey(next, es, n) ==
    IF n < es[1].rows THEN <<next, n>> ELSE <<next + 1, n - es[1].rows>>

stage_episodes(d, es) ==
    LET ids == d.next_episode..(d.next_episode + Len(es) - 1)
        episode(e) == es[e - d.next_episode + 1]
        newIndex == d.produced..(d.produced + BatchRows(es) - 1)
        newRows == {BatchKey(d.next_episode, es, n) : n \in 0..(BatchRows(es) - 1)}
        rowOf(k) == LET e == episode(k[1])
                    IN  [game |-> e.game, seat |-> e.seat, step |-> k[2],
                         kind |-> IF k[2] < e.steps THEN "decision" ELSE "terminal",
                         target |-> e.target]
    IN  [d EXCEPT
           !.episodes = [e \in DOMAIN d.episodes \cup ids |->
                           IF e \in ids THEN episode(e) ELSE d.episodes[e]],
           !.rows = [k \in DOMAIN d.rows \cup newRows |->
                       IF k \in newRows THEN rowOf(k) ELSE d.rows[k]],
           !.index = [q \in DOMAIN d.index \cup newIndex |->
                        IF q \in newIndex THEN BatchKey(d.next_episode, es, q - d.produced)
                        ELSE d.index[q]],
           !.next_episode = @ + Len(es),
           !.produced = @ + BatchRows(es)]

(* One past the last key of a column family; 0 when it is empty. *)
recover_next(f) == IF DOMAIN f = {} THEN 0 ELSE Max(DOMAIN f) + 1

-----------------------------------------------------------------------------
(* A store before this process: empty, or written by an older build that   *)
(* bound no engine identity and no target rule.                            *)

EmptyDisk ==
    [episodes |-> <<>>, rows |-> <<>>, index |-> <<>>, next_episode |-> 0,
     produced |-> 0, completed |-> 0, stopped |-> 0, consumed |-> 0,
     retained |-> 0, deleted |-> 0, metrics |-> 0, mode |-> None, identity |-> None,
     schema |-> None, epsilon |-> None, scale |-> None]

LegacyEpisode(c, seat) ==
    LET paired == IsSymmetric(c.mode)
        terminal == IF paired THEN 1 ELSE 0
    IN  [game |-> 0, seat |-> seat, steps |-> 1, rows |-> 1 + terminal,
         stopped |-> FALSE, target |-> IF paired THEN 0 ELSE None,
         identity |-> c.identity, mode |-> c.mode, schema |-> c.schema,
         epsilon |-> IF paired THEN 0 ELSE None, scale |-> IF paired THEN 0 ELSE None]

Legacy(c) ==
    LET es == IF IsSymmetric(c.mode) THEN <<LegacyEpisode(c, 1), LegacyEpisode(c, 2)>>
              ELSE <<LegacyEpisode(c, 1)>>
    IN  [stage_episodes(EmptyDisk, es) EXCEPT
           !.mode = IF IsSymmetric(c.mode) THEN c.mode ELSE None,
           !.completed = 1, !.schema = c.schema]

NoSession == [pc |-> "idle", kind |-> "rows", window |-> 0, floor |-> 0,
              produced |-> 0, seq |-> 0, key |-> None, count |-> 0, out |-> None, row |-> None]

Init ==
    /\ \/ disk = EmptyDisk
       \/ \E c \in Contracts : disk = Legacy(c)
    /\ mem = Closed
    /\ sink = Idle
    /\ session = [s \in Sessions |-> NoSession]
    /\ opens = 0
    /\ games = disk.completed
    /\ log = [i \in 1..disk.produced |-> disk.rows[disk.index[i - 1]]]
    /\ served = 0

-----------------------------------------------------------------------------
(* open_with_retention: the sequence counters are recovered from the last  *)
(* keys, the others from the metadata, and three of them are written back. *)
open_with_retention ==
    /\ ~mem.up /\ opens < MaxOpens
    /\ LET ne == recover_next(disk.episodes)
           np == recover_next(disk.index)
       IN  /\ mem' = [up |-> TRUE, contract |-> None, next_episode |-> ne,
                      produced |-> np, completed |-> disk.completed,
                      stopped |-> disk.stopped, consumed |-> disk.consumed,
                      floor |-> disk.retained, mode |-> disk.mode,
                      identity |-> disk.identity, consumed_lock |-> None,
                      averaged |-> disk.metrics, averaged_games |-> disk.metrics]
           /\ disk' = [disk EXCEPT !.next_episode = ne, !.produced = np]
    /\ opens' = opens + 1
    /\ UNCHANGED <<sink, session, games, log, served>>

(* The process asks for a contract before it does anything else; distill   *)
(* also insists on an empty store.  A refusal ends the process.            *)
BindContract(c) ==
    /\ mem.up /\ mem.contract = None
    /\ c.mode = "standard" => mem.produced = 0 /\ mem.completed = 0
    /\ IF ensure_contract(c)
       THEN /\ disk' = [disk EXCEPT !.mode = Bound(@, c.mode),
                                    !.identity = Bound(@, c.identity),
                                    !.schema = Bound(@, c.schema),
                                    !.epsilon = Bound(@, c.epsilon),
                                    !.scale = Bound(@, c.scale)]
            /\ mem' = [mem EXCEPT !.contract = c, !.mode = c.mode,
                                  !.identity = c.identity]
            /\ UNCHANGED session
       ELSE /\ mem' = Closed
            /\ session' = [s \in Sessions |-> NoSession]
            /\ UNCHANGED disk
    /\ UNCHANGED <<sink, opens, games, log, served>>

(* Everything in memory is lost, and with it the sessions' connections. *)
Crash ==
    /\ mem.up
    /\ mem' = Closed
    /\ sink' = Idle
    /\ session' = [s \in Sessions |-> NoSession]
    /\ UNCHANGED <<disk, opens, games, log, served>>

-----------------------------------------------------------------------------
(* Appending.  One batch holds the episodes, their rows, the row index and *)
(* the counters; the atomics follow one after the other.                   *)

(* The averages with one more paired game in them, staged in the batch. *)
metrics_next ==
    mem.averaged_games + (IF IsSymmetric(mem.mode) THEN 1 ELSE 0)

Commit(es) ==
    LET first == Head(es)
        d == stage_episodes([disk EXCEPT !.next_episode = mem.next_episode,
                                         !.produced = mem.produced], es)
        d2 == [d EXCEPT !.completed = mem.completed + 1,
                        !.metrics = metrics_next,
                        !.stopped = mem.stopped + (IF first.stopped THEN 1 ELSE 0)]
    IN  /\ disk' = d2
        /\ sink' = [pc |-> "committed"]
        /\ log' = log \o [i \in 1..(d.produced - mem.produced) |->
                            d.rows[d.index[mem.produced + i - 1]]]
        /\ games' = games + 1
        /\ UNCHANGED <<mem, session, opens, served>>

(* admit_symmetric and append_episode_pair: a game with an unmeasured side *)
(* is dropped; a pair the store refuses fails the run.  The lanes give     *)
(* every finished perspective a terminal feature row, and STOP can be      *)
(* chosen only in the mode that offers it.                                 *)
admit_symmetric(a, b) ==
    /\ mem.up /\ mem.contract # None /\ IsSymmetric(mem.contract.mode)
    /\ sink.pc = "idle" /\ games < MaxGames
    /\ a.terminal /\ b.terminal
    /\ a.stopped \/ b.stopped => mem.contract.mode = "symmetric_stop"
    /\ IF None \in {episode_reward(a), episode_reward(b)}
       THEN UNCHANGED vars
       ELSE LET c == mem.contract
                t == symmetric_outcome_target(a, b, c)
                p1 == project_episode(a, 1, t, c)
                p2 == project_episode(b, 2, -t, c)
            IN  IF validate_episode(p1) /\ validate_episode(p2) /\ p2.target = -p1.target
                THEN Commit(<<p1, p2>>)
                ELSE /\ mem' = Closed /\ games' = games + 1
                     /\ session' = [s \in Sessions |-> NoSession]
                     /\ UNCHANGED <<disk, sink, opens, log, served>>

(* distill: one labelled state, one episode of one decision row. *)
append_episode(a) ==
    /\ mem.up /\ mem.contract # None /\ ~IsSymmetric(mem.contract.mode)
    /\ sink.pc = "idle" /\ games < MaxGames
    /\ a.reward # None /\ ~a.terminal /\ a.steps = 1
    /\ LET e == project_episode(a, 1, None, mem.contract)
       IN  validate_episode(e) /\ Commit(<<e>>)

PublishEpisodes ==
    /\ sink.pc = "committed"
    /\ mem' = [mem EXCEPT !.next_episode = disk.next_episode,
                          !.completed = disk.completed, !.stopped = disk.stopped]
    /\ sink' = [pc |-> "counted"]
    /\ UNCHANGED <<disk, session, opens, games, log, served>>

PublishProduced ==
    /\ sink.pc = "counted"
    /\ mem' = [mem EXCEPT !.produced = disk.produced]
    /\ sink' = [pc |-> "produced"]
    /\ UNCHANGED <<disk, session, opens, games, log, served>>

(* The averages are stored first, the game count that vouches for them last. *)
PublishAverages ==
    /\ sink.pc = "produced"
    /\ mem' = [mem EXCEPT !.averaged = disk.metrics]
    /\ sink' = [pc |-> "averaged"]
    /\ UNCHANGED <<disk, session, opens, games, log, served>>

PublishAveragedGames ==
    /\ sink.pc = "averaged"
    /\ mem' = [mem EXCEPT !.averaged_games = disk.metrics]
    /\ sink' = [pc |-> "retention"]
    /\ UNCHANGED <<disk, session, opens, games, log, served>>

(* The floor rises to the first row of the episode that holds the row      *)
(* Retain below the end, and what lies below the floor published the time  *)
(* before is deleted, in one batch.                                        *)
EpisodeAt(seq) == IF seq = 0 THEN 0 ELSE disk.index[seq][1]

RetentionDue ==
    /\ Retain # 0
    /\ mem.produced - mem.floor > Retain + Retain \div 4

(* Mutant: the floor is not aligned to an episode. *)
NewFloor_Unaligned == mem.produced - Retain

NewFloor ==
    LET target == mem.produced - Retain
    IN  target - disk.index[target][2]

(* Mutant: keys are deleted below the floor that is about to be published. *)
DeleteTo_New == NewFloor

DeleteTo == mem.floor

enforce_retention ==
    /\ sink.pc = "retention"
    /\ IF RetentionDue /\ NewFloor > mem.floor
       THEN LET gone == EpisodeAt(disk.deleted)..(EpisodeAt(DeleteTo) - 1)
            IN  /\ disk' = [disk EXCEPT
                     !.index = Restrict(@, DOMAIN disk.index \ (disk.deleted..(DeleteTo - 1))),
                     !.rows = Restrict(@, {k \in DOMAIN disk.rows : k[1] \notin gone}),
                     !.episodes = Restrict(@, DOMAIN disk.episodes \ gone),
                     !.deleted = mem.floor,
                     !.retained = NewFloor]
                /\ sink' = [pc |-> "floor", floor |-> NewFloor]
       ELSE sink' = Idle /\ UNCHANGED disk
    /\ UNCHANGED <<mem, session, opens, games, log, served>>

PublishFloor ==
    /\ sink.pc = "floor"
    /\ mem' = [mem EXCEPT !.floor = sink.floor]
    /\ sink' = Idle
    /\ UNCHANGED <<disk, session, opens, games, log, served>>

-----------------------------------------------------------------------------
(* Sampling.  The floor is loaded before the producer count; everything    *)
(* after is chosen from those two, and read in two phases.                 *)

Step(s, f) == session' = [session EXCEPT ![s] = f]
Answer(s, out) == Step(s, [session[s] EXCEPT !.pc = "done", !.out = out])

(* The sample service starts on a store whose schema and engine are bound,  *)
(* which may be before this process has asked for its contract.             *)
bind_shared == mem.up /\ disk.schema # None /\ mem.identity # None

LoadFloor(s, kind, window) ==
    /\ bind_shared
    /\ session[s].pc = "idle" /\ served < MaxServed
    /\ Step(s, [NoSession EXCEPT !.pc = "floor", !.kind = kind, !.window = window,
                                 !.floor = mem.floor])
    /\ UNCHANGED <<disk, mem, sink, opens, games, log, served>>

LoadProduced(s) ==
    /\ session[s].pc = "floor"
    /\ LET f == session[s]
           p == mem.produced
           window == Min({f.window, p - f.floor})
       IN  IF p <= f.floor
           THEN Step(s, [f EXCEPT !.pc = "done", !.out = "empty", !.produced = p])
           ELSE IF f.kind = "rows"
           THEN \E q \in (p - window)..(p - 1) :
                  Step(s, [f EXCEPT !.pc = "index", !.window = 0, !.seq = q])
           ELSE Step(s, [f EXCEPT !.pc = "first", !.window = 0, !.seq = p - window])
    /\ UNCHANGED <<disk, mem, sink, opens, games, log, served>>

(* read_row_sequences, first phase: the index resolves to a row key. *)
ReadIndex(s) ==
    /\ session[s].pc = "index"
    /\ IF session[s].seq \in DOMAIN disk.index
       THEN Step(s, [session[s] EXCEPT !.pc = "row", !.key = disk.index[session[s].seq]])
       ELSE Answer(s, "missing")
    /\ UNCHANGED <<disk, mem, sink, opens, games, log, served>>

(* Second phase: the row key resolves to a row. *)
ReadRow(s) ==
    /\ session[s].pc = "row"
    /\ LET f == session[s]
       IN  IF f.key \notin DOMAIN disk.rows THEN Answer(s, "missing")
           ELSE IF f.kind = "terminal" /\ disk.rows[f.key].kind # "terminal"
           THEN Answer(s, "no terminal")
           ELSE Step(s, [f EXCEPT !.pc = "consume", !.floor = 0, !.key = None,
                                  !.row = disk.rows[f.key]])
    /\ UNCHANGED <<disk, mem, sink, opens, games, log, served>>

(* sample_terminal_rows: the oldest episode of the window, then an episode *)
(* uniformly up to the end, then its record, then its terminal row.        *)
FirstEpisode(s) ==
    /\ session[s].pc = "first"
    /\ IF session[s].seq \in DOMAIN disk.index
       THEN Step(s, [session[s] EXCEPT !.pc = "pick", !.seq = 0,
                                       !.key = disk.index[session[s].seq]])
       ELSE Answer(s, "missing")
    /\ UNCHANGED <<disk, mem, sink, opens, games, log, served>>

PickEpisode(s) ==
    /\ session[s].pc = "pick"
    /\ IF session[s].key[1] >= mem.next_episode THEN Answer(s, "empty")
       ELSE \E e \in session[s].key[1]..(mem.next_episode - 1) :
              Step(s, [session[s] EXCEPT !.pc = "episode", !.key = <<e, 0>>])
    /\ UNCHANGED <<disk, mem, sink, opens, games, log, served>>

ReadEpisode(s) ==
    /\ session[s].pc = "episode"
    /\ LET e == session[s].key[1]
       IN  IF e \notin DOMAIN disk.episodes THEN Answer(s, "missing")
           ELSE IF disk.episodes[e].rows # disk.episodes[e].steps + 1
           THEN Answer(s, "no terminal")
           ELSE Step(s, [session[s] EXCEPT !.pc = "row",
                                           !.key = <<e, disk.episodes[e].steps>>])
    /\ UNCHANGED <<disk, mem, sink, opens, games, log, served>>

(* record_consumed holds consumed_lock from the load to the store. *)
ConsumedFree == mem.consumed_lock = None

WriteConsumed(s) ==
    /\ session[s].pc = "consume" /\ ConsumedFree
    /\ disk' = [disk EXCEPT !.consumed = mem.consumed + Batch]
    /\ mem' = [mem EXCEPT !.consumed_lock = s]
    /\ Step(s, [session[s] EXCEPT !.pc = "consumed", !.count = mem.consumed + Batch])
    /\ served' = served + Batch
    /\ UNCHANGED <<sink, opens, games, log>>

PublishConsumed(s) ==
    /\ session[s].pc = "consumed"
    /\ mem' = [mem EXCEPT !.consumed = session[s].count, !.consumed_lock = None]
    /\ Step(s, [NoSession EXCEPT !.pc = "done"])
    /\ UNCHANGED <<disk, sink, opens, games, log, served>>

(* HELLO, also repeated by a connected trainer: the averages are shown once *)
(* the game count is not zero.                                             *)
HelloGames(s) ==
    /\ bind_shared
    /\ session[s].pc = "idle" /\ served < MaxServed
    /\ Step(s, [NoSession EXCEPT !.pc = "hello", !.seq = mem.averaged_games])
    /\ UNCHANGED <<disk, mem, sink, opens, games, log, served>>

HelloAverages(s) ==
    /\ session[s].pc = "hello"
    /\ IF session[s].seq = 0 THEN Answer(s, "no averages")
       ELSE Step(s, [session[s] EXCEPT !.pc = "done", !.out = "averages",
                                       !.count = mem.averaged])
    /\ UNCHANGED <<disk, mem, sink, opens, games, log, served>>

(* The reply, or the error frame that ends the session. *)
Reply(s) ==
    /\ session[s].pc = "done"
    /\ Step(s, NoSession)
    /\ UNCHANGED <<disk, mem, sink, opens, games, log, served>>

-----------------------------------------------------------------------------
AppendGame ==
    \/ \E g \in Games : admit_symmetric(g[1], g[2])
    \/ \E a \in Examples : append_episode(a)
    \/ PublishEpisodes \/ PublishProduced \/ PublishAverages \/ PublishAveragedGames
    \/ enforce_retention \/ PublishFloor

Sample(s) ==
    \/ \E kind \in {"rows", "terminal"}, w \in Windows : LoadFloor(s, kind, w)
    \/ LoadProduced(s) \/ ReadIndex(s) \/ ReadRow(s) \/ FirstEpisode(s)
    \/ PickEpisode(s) \/ ReadEpisode(s) \/ WriteConsumed(s) \/ PublishConsumed(s)
    \/ HelloGames(s) \/ HelloAverages(s) \/ Reply(s)

Next ==
    \/ open_with_retention
    \/ \E c \in Contracts : BindContract(c)
    \/ Crash
    \/ AppendGame
    \/ \E s \in Sessions : Sample(s)

Spec == Init /\ [][Next]_vars

-----------------------------------------------------------------------------
(* Properties. *)

FirstRowOfEpisode(q) == q = 0 \/ (q \in DOMAIN disk.index /\ disk.index[q][2] = 0)

(* The sequence numbers of the rows on disk run without a gap from the     *)
(* deleted floor to the end.                                               *)
RowsWhole ==
    /\ disk.deleted <= disk.retained
    /\ DOMAIN disk.index = disk.deleted..(Len(log) - 1)
    /\ \A q \in DOMAIN disk.index :
         disk.index[q] \in DOMAIN disk.rows /\ disk.rows[disk.index[q]] = log[q + 1]
    /\ Range(disk.index) = DOMAIN disk.rows

(* An episode is on disk with all its rows or not at all, and a floor      *)
(* never cuts one.                                                         *)
EpisodesWhole ==
    /\ FirstRowOfEpisode(disk.deleted) /\ FirstRowOfEpisode(disk.retained)
    /\ DOMAIN disk.rows =
         UNION {{<<e, k>> : k \in 0..(disk.episodes[e].rows - 1)} : e \in DOMAIN disk.episodes}

(* The counters a restart recovers are the ones of the whole history. *)
CountersWhole ==
    /\ disk.produced = Len(log) /\ recover_next(disk.index) = Len(log)
    /\ recover_next(disk.episodes) = disk.next_episode
    /\ disk.completed = Cardinality({log[i].game : i \in 1..Len(log)})

(* An append and the retention that follows it leave a store that is whole *)
(* at every instant, so that a crash between any two of their steps loses  *)
(* no committed row and cuts no episode; what the process has published is *)
(* never ahead of the disk, and level with it when no append is under way. *)
StoreWhole ==
    /\ RowsWhole /\ EpisodesWhole /\ CountersWhole
    /\ mem.up =>
         /\ mem.produced <= disk.produced /\ mem.next_episode <= disk.next_episode
         /\ mem.floor <= disk.retained /\ disk.deleted <= mem.floor
         /\ sink.pc = "idle" =>
              /\ mem.produced = disk.produced /\ mem.next_episode = disk.next_episode
              /\ mem.completed = disk.completed /\ mem.floor = disk.retained
              /\ mem.averaged = disk.metrics /\ mem.averaged_games = disk.metrics

SoundSample(f) ==
    /\ f.pc \in {"consume", "consumed"} =>
         IF f.kind = "rows" THEN f.row = log[f.seq + 1]
         ELSE f.row.kind = "terminal" /\ f.row \in Range(log)
    /\ f.out = "empty" => f.produced = 0 /\ f.key = None
    /\ f.out = "missing" => f.floor < disk.deleted
    /\ f.out = "averages" => f.count >= f.seq /\ f.count <= disk.metrics
    /\ f.out = "no terminal" => ~\A i \in 1..Len(log) :
          \E j \in 1..Len(log) : log[j].game = log[i].game /\ log[j].kind = "terminal"

(* A sample session that reads without a lock gets the row that was        *)
(* appended under the sequence number it drew, and a value sample gets a   *)
(* terminal row; it is told the store is empty only when it is, and misses *)
(* a row only when retention has moved on twice since it loaded its floor. *)
(* The averages a HELLO shows are never ones no game has been put into.    *)
SampleSound == \A s \in Sessions : SoundSample(session[s])

(* Every retained episode was produced under the engine, the mode, the     *)
(* feature schema and the target rule that the store is bound to, however  *)
(* many processes with different contracts have opened it.                 *)
StoredConforms ==
    \A e \in DOMAIN disk.episodes :
      LET r == disk.episodes[e]
      IN  /\ disk.mode \in {None, r.mode} /\ (disk.mode = None => r.mode = "standard")
          /\ disk.identity \in {None, r.identity}
          /\ disk.schema = r.schema
          /\ disk.epsilon # None => disk.epsilon = r.epsilon
          /\ disk.scale # None => disk.scale = r.scale

(* The learner's consumption survives restarts and concurrent sessions: no *)
(* recorded batch is lost or counted twice, and the count the backlog gate *)
(* reads is the recorded one whenever no session is recording.             *)
ConsumedExact ==
    /\ disk.consumed = served
    /\ mem.up => mem.consumed <= disk.consumed
    /\ mem.up /\ ConsumedFree => mem.consumed = disk.consumed

(* At every instant, a crash included, the store and its counters are      *)
(* those of what was appended and served.                                  *)
StoreConsistent == StoreWhole /\ ConsumedExact

-----------------------------------------------------------------------------
(* Why it is so: the parts of an inductive invariant.                      *)

DiskKeys ==
    {"episodes", "rows", "index", "next_episode", "produced", "completed", "stopped", "consumed",
     "retained", "deleted", "metrics", "mode", "identity", "schema", "epsilon", "scale"}
MemKeys ==
    {"up", "contract", "next_episode", "produced", "completed", "stopped", "consumed", "floor",
     "mode", "identity", "consumed_lock", "averaged", "averaged_games"}

RowKeys == Nat \X Nat
Row == [game : Nat, seat : 1..2, step : Nat, kind : {"decision", "terminal"},
        target : (-2..2) \cup {None}]
Sampling == {"floor", "index", "first", "pick", "episode", "row"}
SessionState ==
    [pc : {"idle", "floor", "index", "first", "pick", "episode", "row", "consume", "consumed",
           "hello", "done"},
     kind : {"rows", "terminal"}, window : Nat, floor : Nat, produced : Nat, seq : Nat,
     key : RowKeys \cup {None}, count : Nat, out : Outcomes \cup {None}, row : Row \cup {None}]

(* Where an append can stand: how far its counters are published. *)
Unpublished == {"committed", "counted", "produced", "averaged"}
Appending == Unpublished \cup {"retention", "floor"}

FilesTypeOK ==
    /\ DOMAIN disk = DiskKeys
    /\ disk.index \in [DOMAIN disk.index -> RowKeys]
    /\ DOMAIN disk.rows \subseteq RowKeys /\ disk.rows \in [DOMAIN disk.rows -> Row]
    /\ disk.next_episode \in Nat /\ disk.retained \in Nat /\ disk.deleted \in Nat
    /\ disk.metrics \in Nat /\ disk.consumed \in Nat /\ disk.completed \in Nat
    /\ games \in Nat /\ log \in Seq(Row) /\ served \in Nat

ProcessTypeOK ==
    /\ mem.up \in BOOLEAN /\ (~mem.up => mem = Closed)
    /\ mem.up =>
         /\ DOMAIN mem = MemKeys
         /\ mem.next_episode \in Nat /\ mem.produced \in Nat /\ mem.completed \in Nat
         /\ mem.consumed \in Nat /\ mem.floor \in Nat
         /\ mem.averaged \in Nat /\ mem.averaged_games \in Nat
    /\ sink.pc \in {"idle"} \cup Appending

TypeOK == FilesTypeOK /\ ProcessTypeOK /\ session \in [Sessions -> SessionState]

(* The keys of the index are in the order of the rows, and all rows of an  *)
(* episode follow each other.                                              *)
IndexInOrder ==
    /\ \A q, r \in DOMAIN disk.index : q <= r =>
         /\ disk.index[q][1] <= disk.index[r][1]
         /\ disk.index[q][1] = disk.index[r][1] => disk.index[r][2] - disk.index[q][2] = r - q
    /\ \A q \in DOMAIN disk.index :
         LET e == disk.index[q][1]
             first == q - disk.index[q][2]
         IN  /\ e \in DOMAIN disk.episodes /\ disk.index[q][2] < disk.episodes[e].rows
             /\ \A i \in 0..(disk.episodes[e].rows - 1) :
                  first + i \in DOMAIN disk.index /\ disk.index[first + i] = <<e, i>>
    /\ 0 \in DOMAIN disk.index => disk.index[0] = <<0, 0>>
    /\ IF Len(log) = 0 THEN disk.next_episode = 0 /\ disk.retained = 0
       ELSE disk.retained < Len(log)

(* The episodes on disk are those from the deleted floor on, each with its *)
(* rows; games are numbered in the order they are admitted.                *)
EpisodesInOrder ==
    /\ DOMAIN disk.episodes = EpisodeAt(disk.deleted)..(disk.next_episode - 1)
    /\ \A e \in DOMAIN disk.episodes :
         LET r == disk.episodes[e]
         IN  /\ r.steps \in Nat /\ r.rows \in Nat \ {0} /\ r.rows \in {r.steps, r.steps + 1}
             /\ \E q \in DOMAIN disk.index : disk.index[q] = <<e, 0>>
             /\ r.rows = r.steps =>
                  \A i \in 1..Len(log) : log[i].game = r.game => log[i].kind # "terminal"
    /\ \A k \in DOMAIN disk.rows :
         LET r == disk.episodes[k[1]]
         IN  disk.rows[k].game = r.game /\ (disk.rows[k].kind = "terminal" <=> k[2] >= r.steps)
    /\ \A i \in 1..Len(log) : log[i].game < games

(* The counters of the process are published in an order, each behind the  *)
(* disk until its turn comes; an append needs a bound contract.            *)
PublishedInOrder ==
    /\ sink.pc = "floor" =>
         mem.up /\ sink.floor = disk.retained /\ mem.floor = disk.deleted
    /\ mem.up =>
         /\ mem.contract = None => sink.pc = "idle"
         /\ sink.pc # "committed" =>
              mem.next_episode = disk.next_episode /\ mem.completed = disk.completed
         /\ sink.pc \notin {"committed", "counted"} => mem.produced = disk.produced
         /\ sink.pc \notin {"committed", "counted", "produced"} => mem.averaged = disk.metrics
         /\ sink.pc \notin Unpublished => mem.averaged_games = disk.metrics
         /\ sink.pc # "floor" => mem.floor = disk.retained
         /\ mem.produced <= disk.produced /\ mem.next_episode <= disk.next_episode
         /\ mem.averaged_games <= mem.averaged /\ mem.averaged <= disk.metrics
         /\ mem.floor < mem.produced \/ (mem.floor = 0 /\ mem.produced = 0)
         /\ \A q \in DOMAIN disk.index :
              q < mem.produced => disk.index[q][1] < mem.next_episode
    /\ ~mem.up => sink.pc = "idle" /\ session = [s \in Sessions |-> NoSession]

(* What a session holds is what it read, however old that is. *)
Began(f) ==
    disk.deleted <= f.floor => f.floor < Len(log) /\ disk.index[f.floor][1] <= f.key[1]

SessionInOrder(f) ==
    /\ f.out # None => f.pc = "done"
    /\ f.pc \in Sampling => f.floor <= mem.floor
    /\ f.pc = "floor" => f.produced = 0 /\ f.key = None /\ f.window > 0
    /\ f.pc \in {"index", "first"} =>
         /\ f.floor <= f.seq /\ f.seq < mem.produced
         /\ f.kind = IF f.pc = "index" THEN "rows" ELSE "terminal"
    /\ f.pc \in {"pick", "episode", "row"} => f.key \in RowKeys /\ f.key[1] < disk.next_episode
    /\ f.pc \in {"pick", "episode"} => f.kind = "terminal" /\ Began(f)
    /\ f.pc = "pick" => f.key[1] < mem.next_episode
    /\ f.pc = "row" /\ f.kind = "rows" =>
         /\ f.floor <= f.seq /\ f.seq < Len(log)
         /\ disk.deleted <= f.seq => disk.index[f.seq] = f.key
         /\ f.key \in DOMAIN disk.rows => disk.rows[f.key] = log[f.seq + 1]
    /\ f.pc = "row" /\ f.kind = "terminal" =>
         /\ Began(f)
         /\ f.key[1] \in DOMAIN disk.episodes =>
              /\ f.key[2] = disk.episodes[f.key[1]].steps
              /\ disk.episodes[f.key[1]].rows = f.key[2] + 1
    /\ f.pc \in {"consume", "consumed"} /\ f.kind = "rows" => f.seq < Len(log)
    /\ f.pc = "hello" => f.seq <= mem.averaged_games

SessionsInOrder == \A s \in Sessions : SessionInOrder(session[s])

(* The lock of the consumed counter is held by the session that is         *)
(* recording, whose count is the one on disk.                              *)
ConsumedInOrder ==
    /\ mem.up /\ mem.consumed_lock # None =>
         /\ mem.consumed_lock \in Sessions
         /\ session[mem.consumed_lock].pc = "consumed"
         /\ session[mem.consumed_lock].count = disk.consumed
    /\ \A s \in Sessions : session[s].pc = "consumed" => mem.consumed_lock = s

(* A process that has bound its contract finds it on disk, and a key that  *)
(* is not bound has the value that older builds used.                      *)
ContractInOrder ==
    /\ mem.up =>
         IF mem.contract = None THEN mem.mode = disk.mode /\ mem.identity = disk.identity
         ELSE LET c == mem.contract
              IN  /\ c \in Contracts /\ WellFormed(c)
                  /\ mem.mode = c.mode /\ disk.mode = c.mode
                  /\ mem.identity = c.identity /\ disk.identity = c.identity
                  /\ disk.schema = c.schema /\ disk.epsilon = c.epsilon /\ disk.scale = c.scale
    /\ disk.schema = None => Len(log) = 0
    /\ \A e \in DOMAIN disk.episodes :
         LET r == disk.episodes[e]
         IN  /\ r.mode \in Modes
             /\ disk.epsilon = None => r.epsilon = IF IsSymmetric(r.mode) THEN 0 ELSE None
             /\ disk.scale = None => r.scale = IF IsSymmetric(r.mode) THEN 0 ELSE None
             /\ ~IsSymmetric(r.mode) => disk.epsilon = None /\ disk.scale = None

(* The files as they are between any two writes. *)
Structure ==
    RowsWhole /\ EpisodesWhole /\ CountersWhole /\ IndexInOrder /\ EpisodesInOrder

ReplayInductive ==
    /\ TypeOK /\ Structure /\ PublishedInOrder
    /\ SessionsInOrder /\ SampleSound
    /\ ConsumedExact /\ ConsumedInOrder
    /\ StoredConforms /\ ContractInOrder
=============================================================================
