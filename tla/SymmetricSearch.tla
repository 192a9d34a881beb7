--------------------------- MODULE SymmetricSearch ---------------------------
(***************************************************************************)
(* One symmetric self-play episode of gz-search: two actors rewrite the    *)
(* same root graph in turn, each decision being a Gumbel tree search whose *)
(* simulations run in waves (SymmetricSelfplayEpisodeTask over             *)
(* SymmetricSelfplayRootTask), driven by one slot of the worker pool, and  *)
(* projected into replay rows by the lane when it is over.                 *)
(*                                                                         *)
(* A graph is known by its hash, which is also its replay context.  Logits,*)
(* values and Gumbel noise are not modelled: wherever the code takes the   *)
(* best-scored of several actions, the model takes any of them.  The pool  *)
(* services Expand and Apply work inline and releases what the task hands  *)
(* back after every poll and resume, so issuing such work, its result and  *)
(* the release are one step; evaluations are parked and answered later.    *)
(***************************************************************************)
EXTENDS Integers, Sequences, FiniteSets, TLC, Functions, SequencesExt, FiniteSetsExt,
        GumbelSchedule

CONSTANTS Hash,          \* the graphs, by hash
          Root,          \* the hash of the episode's root graph
          Cases,         \* what is searched: [system, config] with the rewriting
                         \* system (what each candidate of a graph yields) and
                         \* the flags no_backtrack, tree_reuse, mask_stop, owned_root
          MaxSteps,      \* config.max_steps
          Sims,          \* config.simulations
          MaxConsidered, \* config.max_considered_actions
          Rejected,      \* what the engine yields for a candidate it rejects
          None

ASSUME SearchAssumption ==
    /\ Root \in Hash
    /\ \A k \in Cases : k.system \in [Hash -> Seq(Hash \cup {Rejected})]
    /\ MaxSteps \in Nat /\ Sims \in Nat \ {0} /\ MaxConsidered \in Nat \ {0}

VARIABLES
    system, config,      \* chosen once
    graphs, candidates,  \* the engine: live graph handles with their hashes,
                         \* live candidate lists
    actors, player, visited, path_graphs, state, error,  \* the episode task
    task                 \* the root task, None between turns

vars == <<system, config, graphs, candidates, actors, player, visited,
          path_graphs, state, error, task>>
episodeVars == <<actors, player, visited, path_graphs, state, error>>

Player == {1, 2}
Opponent(p) == 3 - p
RootGraph == 1

-----------------------------------------------------------------------------
(* Boards *)

ActiveOn(b, p) == ~b.inactive[p] /\ b.rewrites[p] < MaxSteps
Terminal(b) == \A p \in Player : ~ActiveOn(b, p)
Mover(b) == IF ActiveOn(b, b.player) \/ Terminal(b) THEN b.player ELSE Opponent(b.player)
normalize_active_player(b) == [b EXCEPT !.player = Mover(b)]

StoppedBoard(b) ==
    [b EXCEPT !.inactive[b.player] = TRUE, !.stopped[b.player] = TRUE,
              !.player = Opponent(@)]
PassedBoard(b) == [b EXCEPT !.inactive[b.player] = TRUE, !.player = Opponent(@)]
RewrittenBoard(b, g, h) ==
    [b EXCEPT !.graphs[b.player] = g, !.contexts[b.player] = h,
              !.rewrites[b.player] = @ + 1, !.player = Opponent(@)]

\* What expanding the mover's graph teaches about the contexts: its own, and
\* the opponent's when both stand on the same handle.
ExpandedBoard(b) ==
    LET h == graphs[b.graphs[b.player]]
        o == Opponent(b.player)
    IN  [b EXCEPT !.contexts[b.player] = h,
                  !.contexts[o] = IF b.graphs[1] = b.graphs[2] /\ @ = None THEN h ELSE @]
Contradicts(b) == b.contexts[b.player] \notin {None, graphs[b.graphs[b.player]]}

\* The board the episode stands on.
EpisodeBoard ==
    [graphs   |-> [p \in Player |-> actors[p].current],
     contexts |-> [p \in Player |-> actors[p].context],
     rewrites |-> [p \in Player |-> actors[p].rewrites],
     inactive |-> [p \in Player |-> actors[p].blocked \/ actors[p].stopped],
     stopped  |-> [p \in Player |-> actors[p].stopped],
     player   |-> player]

-----------------------------------------------------------------------------
(* Nodes: actions 1..n are the candidates, n + 1 is STOP unless masked out *)

NoEdge == [branch |-> None, after |-> None, context |-> None, visits |-> 0]
NewNode(b, group) ==
    LET n == Len(system[b.contexts[b.player]])
    IN  [board  |-> b, group |-> group, masked |-> {}, pass |-> None,
         edges  |-> [a \in 1..(IF config.mask_stop THEN n ELSE n + 1) |-> NoEdge]]
Context(n) == n.board.contexts[n.board.player]
is_stop(n, a) == a > Len(system[Context(n)])
Unmasked(n) == DOMAIN n.edges \ n.masked
total_visits(n) == SumFunction([a \in DOMAIN n.edges |-> n.edges[a].visits])
Branches(n) == ({n.pass} \cup {n.edges[a].branch : a \in DOMAIN n.edges}) \ {None}
Children(n) == {br.target : br \in Branches(n)} \ {None}

Fewest(S) == Min({Cardinality(S), MaxConsidered})

\* Every run a root can be given: any top actions may be the considered ones.
start_run(root) ==
    {[considered |-> c, first |-> c,
      schedule |-> considered_visit_sequence(Cardinality(c), Sims),
      baseline |-> [a \in DOMAIN root.edges |-> root.edges[a].visits],
      index |-> 1, simulations |-> 0] : c \in kSubset(Fewest(Unmasked(root)), Unmasked(root))}

-----------------------------------------------------------------------------
(* Simulations of a wave, and the root task around them *)

Pending == {"EvalPending", "TerminalEvalPending"}
AnyPending(active) == \E i \in DOMAIN active : active[i].st \in Pending

\* Mutant: a descent that forgets where the actors have been.
new_descent_Forgets(root, a) ==
    [st |-> "Running", node |-> 1, path |-> <<>>, forced |-> a,
     seen |-> [p \in Player |-> {root.board.contexts[p]} \ {None}],
     board |-> None, attach |-> None, group |-> None, applied |-> None]

new_descent(root, a) ==
    [st |-> "Running", node |-> 1, path |-> <<>>, forced |-> a,
     seen |-> [p \in Player |-> visited[p] \cup ({root.board.contexts[p]} \ {None})],
     board |-> None, attach |-> None, group |-> None, applied |-> None]

NewTask(b) ==
    [at |-> "Resolve", board |-> b, group |-> None, nodes |-> <<>>,
     created |-> {}, speculative |-> {}, groups |-> {},
     run |-> None, active |-> <<>>, preflight |-> FALSE,
     cursor |-> 1, defer |-> FALSE, progressed |-> FALSE, blocked |-> FALSE]

\* A new pass of poll_wave over the active simulations, and its next simulation.
Pass(t) == [t EXCEPT !.cursor = 1, !.defer = AnyPending(t.active),
                     !.progressed = FALSE, !.blocked = FALSE]
Advance(t, progressed) ==
    [t EXCEPT !.cursor = @ + 1, !.progressed = @ \/ progressed]

mask_action(t, node, a) == [t EXCEPT !.nodes[node].masked = @ \cup {a}]

release_all_created(t) == t.created \cup t.speculative

\* All that an episode with a root task is answerable for.
take_all_handles ==
    path_graphs \cup (IF task = None THEN {} ELSE release_all_created(task))
FreshIn(S) == CHOOSE k \in 1..(Cardinality(S) + 1) : k \notin S
FreshGraph == FreshIn(DOMAIN graphs)
FreshGroup == FreshIn(candidates)
Without(S) == Restrict(graphs, DOMAIN graphs \ S)

\* Any error of a poll or a resume: the task hands back all it owns, the pool
\* releases it and the lane fails.
Fail(reason) ==
    /\ state' = "Failed" /\ error' = reason
    /\ graphs' = Without(take_all_handles)
    /\ candidates' = {}
    /\ task' = None /\ path_graphs' = {}
    /\ UNCHANGED <<system, config, actors, player, visited>>

Actor(root) ==
    [current |-> root, context |-> None, root_context |-> None,
     blocked |-> FALSE, stopped |-> FALSE, rewrites |-> 0, steps |-> <<>>]

\* Nothing has happened yet in an episode over one of the cases.
Unstarted(k) ==
    /\ system = k.system /\ config = k.config
    /\ graphs = (RootGraph :> Root) /\ candidates = {}
    /\ actors = [p \in Player |-> Actor(RootGraph)]
    /\ player = 1
    /\ visited = [p \in Player |-> {}]
    /\ path_graphs = IF k.config.owned_root THEN {RootGraph} ELSE {}
    /\ error = None
    /\ task = None

Init == state = "Turn" /\ \E k \in Cases : Unstarted(k)

-----------------------------------------------------------------------------
(* Turns *)

start_turn ==
    /\ state = "Turn"
    /\ IF Terminal(EpisodeBoard)
       THEN state' = "MeasurePair" /\ UNCHANGED <<player, task>>
       ELSE /\ state' = "Root"
            /\ player' = Mover(EpisodeBoard)
            /\ task' = NewTask(normalize_active_player(EpisodeBoard))
    /\ UNCHANGED <<system, config, graphs, candidates, actors, visited, path_graphs, error>>

\* A turn without an action: the actor is blocked for good.
TurnPass(h) ==
    /\ actors' = [actors EXCEPT ![player].blocked = TRUE,
                                ![player].context = IF @ = None THEN h ELSE @,
                                ![player].root_context = IF @ = None THEN h ELSE @]
    /\ player' = Opponent(player)
    /\ state' = "Turn" /\ task' = None
    /\ graphs' = Without(task.created \cup task.speculative)
    /\ candidates' = candidates \ task.groups
    /\ UNCHANGED <<system, config, visited, path_graphs, error>>

InRoot(at) == state = "Root" /\ task.at = at

\* Expanding the root: nothing to choose is a pass, otherwise it is evaluated.
RootExpand ==
    /\ InRoot("Resolve")
    /\ LET board == ExpandedBoard(task.board)
           h == board.contexts[board.player]
       IN  IF Contradicts(task.board) THEN Fail("context")
           ELSE IF system[h] = <<>> THEN TurnPass(h)
           ELSE /\ candidates' = candidates \cup {FreshGroup}
                /\ task' = [task EXCEPT !.at = "Eval", !.board = board, !.group = FreshGroup,
                                        !.groups = {FreshGroup}]
                /\ UNCHANGED <<system, config, graphs, episodeVars>>

RootEvalReply ==
    /\ InRoot("Eval")
    /\ LET root == NewNode(task.board, task.group)
       IN  \E run \in start_run(root) :
             task' = Pass([task EXCEPT !.at = "Wave", !.nodes = <<root>>, !.run = run])
    /\ UNCHANGED <<system, config, graphs, candidates, episodeVars>>

-----------------------------------------------------------------------------
(* Waves *)

InWave == InRoot("Wave") /\ ~task.blocked

\* Considered actions that were masked are replaced by any others.
replenish_considered(root, run) ==
    LET live == run.considered \ root.masked
        missing == Fewest(Unmasked(root)) - Cardinality(live)
        others == Unmasked(root) \ run.considered
    IN  IF missing <= 0 THEN {run}
        ELSE {[run EXCEPT !.considered = @ \cup extra] : extra \in kSubset(missing, others)}

OnTarget(root, run, target) ==
    {a \in run.considered \ root.masked : root.edges[a].visits = run.baseline[a] + target}

\* The root actions a wave may take: first those at the target count, each
\* once; when they run out, the best considered action, whatever its count.
WaveActions(root, run) ==
    LET target == run.schedule[run.index]
        width == Cardinality({k \in run.index..Len(run.schedule) :
                                \A j \in run.index..k : run.schedule[j] = target})
        live == run.considered \ root.masked
        exact == OnTarget(root, run, target)
        least == Min({width, IF exact = {} THEN Min({1, Cardinality(live)})
                             ELSE Cardinality(exact)})
    IN  {s \in UNION {[1..k -> live] : k \in least..Min({width, Cardinality(live)})} :
            /\ IsInjective(s)
            /\ \A i \in DOMAIN s : i <= Cardinality(exact) => s[i] \in exact}

\* STOP only opens a wave, and then alone; a wave is all first visits or all
\* revisits.
Truncated(root, s) ==
    LET stops == {i \in DOMAIN s : is_stop(root, s[i])}
        cut == IF stops = {} THEN s ELSE SubSeq(s, 1, Max({1, Min(stops) - 1}))
        fresh == {i \in DOMAIN cut : root.edges[cut[i]].branch = None}
    IN  IF fresh # {} /\ fresh # DOMAIN cut THEN SubSeq(cut, 1, 1) ELSE cut

launch_wave ==
    /\ InWave /\ task.active = <<>> /\ task.run.index <= Len(task.run.schedule)
    /\ LET root == task.nodes[1]
       IN  \E run \in replenish_considered(root, task.run) :
           \E s \in WaveActions(root, run) :
             LET cut == Truncated(root, s)
             IN  /\ cut # <<>>
                 /\ task' = Pass([task EXCEPT
                      !.run = run,
                      !.active = [i \in DOMAIN cut |-> new_descent(root, cut[i])],
                      !.preflight = /\ Len(cut) > 1
                                    /\ root.edges[cut[1]].branch = None])
    /\ UNCHANGED <<system, config, graphs, candidates, episodeVars>>

\* Whether an applied action may be descended into.
root_apply_safe(t, i) ==
    LET s == t.active[i]
        h == s.applied.hash
    IN  /\ h # Rejected
        /\ config.no_backtrack => h \notin s.seen[t.nodes[s.node].board.player]

\* The task after the applied action of simulation i: installed on its edge,
\* or masked, the descent then choosing again.
resume_wave_apply(t, i) ==
    LET s == t.active[i]
        board == t.nodes[s.node].board
        action == s.applied.action
        g == s.applied.graph
        h == s.applied.hash
        rest == [s EXCEPT !.applied = None, !.forced = None]
    IN  IF ~root_apply_safe(t, i)
        THEN mask_action([t EXCEPT !.active[i] = [rest EXCEPT !.st = "Running"]], s.node, action)
        ELSE [t EXCEPT
               !.created = @ \cup {g},
               !.nodes[s.node].edges[action].after = g,
               !.nodes[s.node].edges[action].context = h,
               !.active[i] = [rest EXCEPT
                   !.st = "Resolve", !.seen[board.player] = @ \cup {h},
                   !.board = RewrittenBoard(board, g, h),
                   !.attach = [node |-> s.node, action |-> action, turns |-> 1]]]

AllReady == \A i \in DOMAIN task.active : task.active[i].st = "RootApplyReady"

\* All first-visit applies of the wave are in: go on with all of them, or with
\* the first alone when one of them was rejected or turns back.
resolve_root_apply_preflight ==
    /\ InWave /\ task.active # <<>> /\ task.preflight /\ AllReady
    /\ LET safe == \A i \in DOMAIN task.active : root_apply_safe(task, i)
           kept == IF safe THEN task.active ELSE SubSeq(task.active, 1, 1)
           after == FoldLeft(resume_wave_apply,
                             [task EXCEPT !.preflight = FALSE, !.speculative = {},
                                          !.active = kept],
                             [i \in DOMAIN kept |-> i])
       IN  /\ task' = Pass(after)
           /\ graphs' = Without(task.speculative \ after.created)
    /\ UNCHANGED <<system, config, candidates, episodeVars>>

-----------------------------------------------------------------------------
(* advance_wave_simulation, one action per state of the simulation *)

Sim == task.active[task.cursor]
Advancing(st) ==
    /\ InWave /\ ~(task.active # <<>> /\ task.preflight /\ AllReady)
    /\ task.cursor <= Len(task.active)
    /\ Sim.st = st

\* The node of the simulation, and the actions it may choose there.
At == task.nodes[Sim.node]
Options == IF Sim.forced # None THEN {Sim.forced} ELSE Unmasked(At)
SetSim(s) == [task EXCEPT !.active[task.cursor] = s]

wave_target_state(s, br) ==
    IF br.target = None THEN [s EXCEPT !.st = "Outcome"] ELSE [s EXCEPT !.node = br.target]

\* Nothing left to choose: the mover passes inside the tree.
DescendPass ==
    /\ Advancing("Running") /\ Options = {}
    /\ LET s == [Sim EXCEPT !.forced = None]
       IN  task' = Advance(SetSim(
             IF At.pass # None THEN wave_target_state(s, At.pass)
             ELSE [s EXCEPT !.st = "Resolve", !.board = PassedBoard(At.board),
                            !.attach = [node |-> s.node, action |-> None, turns |-> 1]]), TRUE)
    /\ UNCHANGED <<system, config, graphs, candidates, episodeVars>>

\* Following a branch already in the tree, unless it would turn back.
DescendBranch ==
    /\ Advancing("Running")
    /\ \E a \in Options :
         LET edge == At.edges[a]
             p == At.board.player
             s == [Sim EXCEPT !.forced = None]
         IN  /\ edge.branch # None
             /\ task' = Advance(
                  IF edge.context # None /\ config.no_backtrack /\ edge.context \in s.seen[p]
                  THEN mask_action(SetSim(s), s.node, a)
                  ELSE SetSim(wave_target_state(
                         [s EXCEPT !.path = Append(@, <<s.node, a>>),
                                   !.seen[p] = @ \cup ({edge.context} \ {None})],
                         edge.branch)), TRUE)
    /\ UNCHANGED <<system, config, graphs, candidates, episodeVars>>

DescendStop ==
    /\ Advancing("Running")
    /\ \E a \in Options :
         /\ At.edges[a].branch = None /\ is_stop(At, a)
         /\ task' = Advance(SetSim([Sim EXCEPT
                !.forced = None, !.st = "Resolve", !.board = StoppedBoard(At.board),
                !.attach = [node |-> Sim.node, action |-> a, turns |-> 1]]), TRUE)
    /\ UNCHANGED <<system, config, graphs, candidates, episodeVars>>

\* Applying an unexplored candidate: kept aside while the wave's first visits
\* are checked together, resumed at once otherwise.  A rejected candidate also
\* yields a handle, on the unchanged graph.
DescendApply ==
    /\ Advancing("Running")
    /\ \E a \in Options :
         LET h == system[Context(At)][a]
             g == FreshGraph
             ready == SetSim([Sim EXCEPT
                 !.st = "RootApplyReady", !.forced = None,
                 !.applied = [action |-> a, graph |-> g, hash |-> h]])
             after == IF task.preflight THEN [ready EXCEPT !.speculative = @ \cup {g}]
                      ELSE resume_wave_apply(ready, task.cursor)
         IN  /\ At.edges[a].branch = None /\ ~is_stop(At, a)
             /\ task' = Pass(after)
             /\ graphs' = IF g \in after.created \cup after.speculative
                          THEN graphs @@ (g :> IF h = Rejected THEN Context(At) ELSE h)
                          ELSE graphs
    /\ UNCHANGED <<system, config, candidates, episodeVars>>

\* Both actors are out: the value of the final board is evaluated.
ResolveTerminal ==
    /\ Advancing("Resolve") /\ Terminal(Sim.board)
    /\ IF Sim.board.contexts[Sim.board.player] = None THEN Fail("terminal")
       ELSE /\ task' = Pass(SetSim([Sim EXCEPT !.st = "TerminalEvalPending"]))
            /\ UNCHANGED <<system, config, graphs, candidates, episodeVars>>

\* Expanding the board of the player to move: with no candidates that player
\* is out and the other one moves.
ResolveExpand ==
    /\ Advancing("Resolve") /\ ~Terminal(Sim.board)
    /\ LET moved == normalize_active_player(Sim.board)
           board == ExpandedBoard(moved)
           turns == Sim.attach.turns + IF moved.player = Sim.board.player THEN 0 ELSE 1
           empty == system[board.contexts[board.player]] = <<>>
       IN  IF Contradicts(moved) THEN Fail("context")
           ELSE /\ task' = Pass([SetSim(
                    IF empty
                    THEN [Sim EXCEPT !.board = PassedBoard(board), !.attach.turns = turns + 1]
                    ELSE [Sim EXCEPT !.st = "EvalReady", !.board = board, !.group = FreshGroup,
                                     !.attach.turns = turns])
                    EXCEPT !.groups = IF empty THEN @ ELSE @ \cup {FreshGroup}])
                /\ candidates' = IF empty THEN candidates ELSE candidates \cup {FreshGroup}
                /\ UNCHANGED <<system, config, graphs, episodeVars>>

IssueEval ==
    /\ Advancing("EvalReady")
    /\ task' = Pass(SetSim([Sim EXCEPT !.st = "EvalPending"]))
    /\ UNCHANGED <<system, config, graphs, candidates, episodeVars>>

\* Installing the evaluated target on the slot the descent came from.  "for" is
\* the player whose value the evaluation is; the code keeps only the flip.
attach_target(t, s, target) ==
    LET at == s.attach
        branch == [target |-> target, flip |-> at.turns % 2 = 1, for |-> s.board.player]
        done == [s EXCEPT !.st = "Outcome", !.board = None, !.attach = None, !.group = None,
                          !.path = IF at.action = None THEN @
                                   ELSE Append(@, <<at.node, at.action>>)]
        u == [t EXCEPT !.active[t.cursor] = done]
    IN  IF at.action = None THEN [u EXCEPT !.nodes[at.node].pass = branch]
        ELSE [u EXCEPT !.nodes[at.node].edges[at.action].branch = branch]
Installed(s) ==
    LET n == task.nodes[s.attach.node]
    IN  IF s.attach.action = None THEN n.pass # None
        ELSE n.edges[s.attach.action].branch # None

CompleteEval ==
    /\ Advancing("EvalComplete") /\ ~task.defer
    /\ IF Installed(Sim) THEN Fail("installed")
       ELSE /\ task' = Advance(attach_target(
                  [task EXCEPT !.nodes = Append(@, NewNode(Sim.board, Sim.group))],
                  Sim, Len(task.nodes) + 1), TRUE)
            /\ UNCHANGED <<system, config, graphs, candidates, episodeVars>>

CompleteTerminal ==
    /\ Advancing("TerminalEvalComplete") /\ ~task.defer
    /\ IF Installed(Sim) THEN Fail("installed")
       ELSE /\ task' = Advance(attach_target(task, Sim, None), TRUE)
            /\ UNCHANGED <<system, config, graphs, candidates, episodeVars>>

\* A simulation that has nothing to do in this pass.
Waits ==
    /\ \/ \E st \in Pending \cup {"RootApplyReady", "Outcome"} : Advancing(st)
       \/ \E st \in {"EvalComplete", "TerminalEvalComplete"} : Advancing(st) /\ task.defer
    /\ task' = Advance(task, FALSE)
    /\ UNCHANGED <<system, config, graphs, candidates, episodeVars>>

\* One more visit on every decision of every descent.
backup_descent(nodes, s) ==
    FoldLeft(LAMBDA ns, e : [ns EXCEPT ![e[1]].edges[e[2]].visits = @ + 1], nodes, s.path)

\* Mutant: a task with evaluations outstanding is polled again instead of parked.
EndPass_Spins ==
    /\ InWave /\ task.active # <<>> /\ task.cursor > Len(task.active)
    /\ task' = Pass(task)
    /\ UNCHANGED <<system, config, graphs, candidates, episodeVars>>

\* The end of a pass: wait for replies, back up a finished wave, or go again.
EndPass ==
    /\ InWave /\ task.active # <<>> /\ task.cursor > Len(task.active)
    /\ LET over == \A i \in DOMAIN task.active : task.active[i].st = "Outcome"
           width == Len(task.active)
       IN  IF AnyPending(task.active)
           THEN task' = [task EXCEPT !.blocked = TRUE] /\
                UNCHANGED <<system, config, graphs, candidates, episodeVars>>
           ELSE IF over
           THEN /\ task' = Pass([task EXCEPT
                      !.nodes = FoldLeft(backup_descent, @, task.active),
                      !.active = <<>>,
                      !.run.simulations = @ + width, !.run.index = @ + width])
                /\ UNCHANGED <<system, config, graphs, candidates, episodeVars>>
           ELSE IF ~task.progressed THEN Fail("no progress")
           ELSE task' = Pass(task) /\
                UNCHANGED <<system, config, graphs, candidates, episodeVars>>

\* The evaluator answers one parked evaluation; the pool polls the task again
\* once the last one is in.
EvalReply ==
    /\ InRoot("Wave") /\ task.blocked
    /\ \E i \in DOMAIN task.active :
         /\ task.active[i].st \in Pending
         /\ LET done == IF task.active[i].st = "EvalPending"
                        THEN "EvalComplete" ELSE "TerminalEvalComplete"
                t == [task EXCEPT !.active[i].st = done]
            IN  task' = IF AnyPending(t.active) THEN t ELSE Pass(t)
    /\ UNCHANGED <<system, config, graphs, candidates, episodeVars>>

-----------------------------------------------------------------------------
(* The end of a root search: the selected action, the subtree kept for the *)
(* next one, and the turn it makes                                         *)

\* The nodes under r, children always numbered after their parents.
Subtree(nodes, r) ==
    FoldLeft(LAMBDA S, i : IF \E j \in S : i \in Children(nodes[j]) THEN S \cup {i} ELSE S,
             {r}, [i \in DOMAIN nodes |-> i])
compact_subtree(nodes, r) ==
    LET old == SetToSortSeq(Subtree(nodes, r), <)
        remap == [i \in Subtree(nodes, r) |-> CHOOSE k \in DOMAIN old : old[k] = i]
        Remap(br) == IF br = None \/ br.target = None THEN br
                     ELSE [br EXCEPT !.target = remap[@]]
    IN  [k \in DOMAIN old |->
           [nodes[old[k]] EXCEPT
              !.pass = Remap(@),
              !.edges = [a \in DOMAIN @ |-> [@[a] EXCEPT !.branch = Remap(@)]]]]

GraphsOf(nodes) ==
    UNION {Range(nodes[i].board.graphs) : i \in DOMAIN nodes}
    \cup (UNION {{nodes[i].edges[a].after : a \in DOMAIN nodes[i].edges} : i \in DOMAIN nodes}
          \ {None})
GroupsOf(nodes) == {nodes[i].group : i \in DOMAIN nodes}

\* The carried masks and visits, once the actors have moved.
refresh_masks(nodes, seen) ==
    LET Back(n, a) ==
            LET p == n.board.player
                h == n.edges[a].context
            IN  /\ config.no_backtrack /\ h # None
                /\ h \in seen[p] \cup {nodes[1].board.contexts[p], n.board.contexts[p]}
    IN  [i \in DOMAIN nodes |->
           [nodes[i] EXCEPT
              !.masked = @ \cup {a \in DOMAIN nodes[i].edges : Back(nodes[i], a)},
              !.edges = [a \in DOMAIN @ |->
                           IF Back(nodes[i], a) THEN [@[a] EXCEPT !.visits = 0] ELSE @[a]]]]

Fresh(a) == task.nodes[1].edges[a].visits - task.run.baseline[a]
LedgerBroken ==
    \/ \E a \in DOMAIN task.run.baseline : Fresh(a) < 0
    \/ total_visits(task.nodes[1]) # SumFunction(task.run.baseline) + task.run.simulations
Selectable ==
    LET root == task.nodes[1]
        live == task.run.considered \ root.masked
    IN  IF live # {} THEN live ELSE Unmasked(root)

\* The subtree under the selected action, kept when its root is the board the
\* episode is about to stand on.
Reusable(a, successor) ==
    LET br == task.nodes[1].edges[a].branch
    IN  /\ config.tree_reuse /\ br # None
        /\ br # None => br.target # None
        /\ (br # None /\ br.target # None) => task.nodes[br.target].board = successor

\* The contexts of the reused root and of the actors complete each other.
Aligned(root, b) ==
    /\ [root.board EXCEPT !.contexts = b.contexts] = b
    /\ \A p \in Player : root.board.contexts[p] # None /\ b.contexts[p] # None
                           => root.board.contexts[p] = b.contexts[p]
Merged(root, b) ==
    [p \in Player |-> IF b.contexts[p] = None THEN root.board.contexts[p] ELSE b.contexts[p]]

\* The tasks that search on from the kept subtree, owning the handles kept with
\* it: the masks follow the actors' moves and a new run starts at once.
take_reused_task(kept, board, keptGraphs, seen) ==
    LET next == refresh_masks(kept, seen)
        merged == Merged(kept[1], board)
    IN  {Pass([NewTask(board) EXCEPT
                 !.at = "Wave", !.run = run, !.created = keptGraphs,
                 !.groups = task.groups \cap GroupsOf(kept),
                 !.nodes = [next EXCEPT ![1].board.contexts =
                              [q \in Player |-> IF @[q] = None THEN merged[q] ELSE @[q]]]]) :
         run \in start_run(next[1])}

\* How the evaluator is shown a player of a board: the rewrites it has made and
\* whether it has retired.
board_position(b, p) == [rewrites |-> b.rewrites[p], inactive |-> ~ActiveOn(b, p)]

\* The board after a root action, and what the acting actor makes of it.
ActedBoard(root, a) ==
    IF is_stop(root, a) THEN StoppedBoard(root.board)
    ELSE RewrittenBoard(root.board, root.edges[a].after, root.edges[a].context)
finish_turn(root, a) ==
    LET p == root.board.player
        o == Opponent(p)
        h == Context(root)
        moved == ActedBoard(root, a)
        step == [before |-> root.board.graphs[p], after |-> moved.graphs[p],
                 stop |-> is_stop(root, a), context |-> h,
                 opponent |-> [graph |-> root.board.graphs[o],
                               position |-> board_position(root.board, o)]]
    IN  [actors[p] EXCEPT
           !.root_context = IF @ = None THEN h ELSE @,
           !.current = moved.graphs[p], !.context = moved.contexts[p],
           !.steps = Append(@, step),
           !.stopped = is_stop(root, a), !.rewrites = moved.rewrites[p]]

\* The turn the selected action makes, the search going on from what is kept.
TakeAction(a) ==
    LET root == task.nodes[1]
        p == player
        h == Context(root)
        stop == is_stop(root, a)
        g == root.edges[a].after
        moved == ActedBoard(root, a)
        reuse == Reusable(a, normalize_active_player(moved))
        kept == IF reuse THEN compact_subtree(task.nodes, root.edges[a].branch.target) ELSE <<>>
        keptGraphs == (task.created \cap GraphsOf(kept)) \ {g}
        actor == finish_turn(root, a)
        seen == IF ~stop /\ config.no_backtrack THEN [visited EXCEPT ![p] = @ \cup {h}]
                ELSE visited
        after == [actors EXCEPT ![p] = actor]
        board == normalize_active_player(
                   [EpisodeBoard EXCEPT !.graphs[p] = actor.current,
                                        !.contexts[p] = actor.context,
                                        !.rewrites[p] = actor.rewrites,
                                        !.inactive[p] = stop, !.stopped[p] = stop,
                                        !.player = Opponent(p)])
        merged == Merged(kept[1], board)
    IN  IF (~stop /\ g = None) THEN Fail("unapplied")
        ELSE IF ~stop /\ g \notin task.created THEN Fail("not owned")
        ELSE IF reuse /\ (~Aligned(kept[1], board) \/ Terminal(board)) THEN Fail("misaligned")
        ELSE /\ visited' = seen
             /\ path_graphs' = IF stop THEN path_graphs ELSE path_graphs \cup {g}
             /\ graphs' = Without((task.created \cup task.speculative)
                                  \ (keptGraphs \cup {g}))
             /\ candidates' = candidates \ (task.groups \ GroupsOf(kept))
             /\ IF ~reuse
                THEN /\ actors' = after /\ task' = None
                     /\ player' = Opponent(p) /\ state' = "Turn"
                ELSE /\ player' = board.player /\ state' = "Root"
                     /\ actors' = [q \in Player |-> [after[q] EXCEPT !.context = merged[q]]]
                     /\ task' \in take_reused_task(kept, board, keptGraphs, seen)
             /\ UNCHANGED <<system, config, error>>

finish_root ==
    /\ InWave /\ task.active = <<>>
    /\ \/ task.run.index > Len(task.run.schedule)
       \/ Unmasked(task.nodes[1]) = {}
    /\ IF LedgerBroken THEN Fail("ledger")
       ELSE IF Selectable = {} THEN TurnPass(Context(task.nodes[1]))
       ELSE \E a \in {x \in Selectable : \A y \in Selectable : Fresh(x) >= Fresh(y)} :
              TakeAction(a)

-----------------------------------------------------------------------------
(* The end of the episode *)

\* The final graphs are measured; an invalid measurement is an error.
MeasurePair ==
    /\ state = "MeasurePair"
    /\ \/ state' = "DoneResult" /\ UNCHANGED <<system, config, graphs, candidates, actors,
                                               player, visited, path_graphs, error, task>>
       \/ Fail("external")

\* An engine, feature or evaluator error while the task has work outstanding.
WorkFails ==
    /\ state = "Root"
    /\ Fail("external")

\* The lane projects the episode into replay rows and releases what it holds,
\* whether or not the projection succeeds.
complete ==
    /\ state = "DoneResult"
    /\ state' = "Done"
    /\ graphs' = Without(path_graphs)
    /\ path_graphs' = {}
    /\ UNCHANGED <<system, config, candidates, actors, player, visited, error, task>>

Over == state \in {"Done", "Failed"} /\ UNCHANGED vars

Next ==
    \/ start_turn \/ RootExpand \/ RootEvalReply
    \/ launch_wave \/ resolve_root_apply_preflight
    \/ DescendPass \/ DescendBranch \/ DescendStop \/ DescendApply
    \/ ResolveTerminal \/ ResolveExpand \/ IssueEval
    \/ CompleteEval \/ CompleteTerminal \/ Waits \/ EndPass \/ EvalReply
    \/ finish_root \/ MeasurePair \/ WorkFails \/ complete \/ Over

\* A lane keeps driving its slots and the evaluator answers what it is sent, so
\* the episode takes steps for as long as it is not over.  Some step is always
\* possible until then, so this is weak fairness of Next, written without
\* ENABLED, which TLC evaluates slowly on these actions.
Fairness == <>[](state \in {"Done", "Failed"}) \/ []<><<Next>>_vars

Spec == Init /\ [][Next]_vars /\ Fairness
-----------------------------------------------------------------------------
(* What the lane reconstructs from the traces *)

symmetric_actor_state(actor, index) ==
    IF index = 0 THEN RootGraph
    ELSE IF index <= Len(actor.steps) THEN actor.steps[index].after
    ELSE actor.current

\* Mutant: a blocked opponent shown as retired before its blocked turn.
position_state_BlockedEarly(actor, count, observed_after_trace) ==
    LET rewrites == Cardinality({i \in 1..count : ~actor.steps[i].stop})
    IN  [rewrites |-> rewrites,
         inactive |-> /\ count = Len(actor.steps)
                      /\ actor.stopped \/ rewrites >= MaxSteps \/ actor.blocked]

symmetric_position_state(actor, count, observed_after_trace) ==
    LET rewrites == Cardinality({i \in 1..count : ~actor.steps[i].stop})
    IN  [rewrites |-> rewrites,
         inactive |-> /\ count = Len(actor.steps)
                      /\ \/ actor.stopped
                         \/ rewrites >= MaxSteps
                         \/ actor.blocked /\ observed_after_trace]

\* The opponent the row of a step shows: player one decides before its
\* opponent's turn of the same number, player two after it.
ProjectedOpponent(p, k) ==
    LET o == actors[Opponent(p)]
        requested == (k - 1) + (IF p = 2 THEN 1 ELSE 0)
        index == Min({requested, Len(o.steps)})
        position == symmetric_position_state(o, index, requested > Len(o.steps))
    IN  [graph |-> symmetric_actor_state(o, index), position |-> position]

\* How the row of the final position shows a player, itself or the opponent.
terminal_feature_rows(p) ==
    symmetric_position_state(actors[p], Len(actors[p].steps), FALSE)

-----------------------------------------------------------------------------
(* Properties *)

Nodes == IF task = None THEN <<>> ELSE task.nodes
Active == IF task = None THEN <<>> ELSE task.active
CallerGraphs == IF config.owned_root THEN {} ELSE {RootGraph}

\* Graphs some part of the episode may still hand to the engine.
ReferencedGraphs ==
    GraphsOf(Nodes)
    \cup UNION {Range(Active[i].board.graphs) : i \in {j \in DOMAIN Active :
                                                        Active[j].board # None}}
    \cup (IF task = None THEN {} ELSE Range(task.board.graphs))
    \cup {actors[p].current : p \in Player}
    \cup UNION {{actors[p].steps[k].before : k \in DOMAIN actors[p].steps} : p \in Player}
ReferencedGroups ==
    (GroupsOf(Nodes) \cup {Active[i].group : i \in DOMAIN Active}
     \cup (IF task = None THEN {} ELSE {task.group})) \ {None}

\* Every live engine handle has one owner that will release it, and every
\* handle the tree, the simulations, the actors or their steps still name is
\* live; when the episode is over, however it ended, nothing of it is left in
\* the engine (created_graphs, speculative_graphs and path_graphs through
\* reuse, transfer, discard and take_all_handles).
HandlesOwned ==
    LET created == IF task = None THEN {} ELSE task.created
        speculative == IF task = None THEN {} ELSE task.speculative
    IN  /\ created \cap speculative = {}
        /\ (created \cup speculative) \cap path_graphs = {}
        /\ DOMAIN graphs = (IF state \in {"Done", "Failed"} THEN {} ELSE path_graphs)
                           \cup CallerGraphs \cup created \cup speculative
        /\ candidates = (IF task = None THEN {} ELSE task.groups)
        /\ state \notin {"Done", "Failed"} =>
             /\ ReferencedGraphs \subseteq DOMAIN graphs
             /\ ReferencedGroups \subseteq candidates

\* What the tree says of a position is true of it: a recorded context is the
\* hash of the graph recorded with it, the mover of a node can move, and a
\* branch flips the sign of a value exactly when the value belongs to the other
\* player, however many skipped or passed turns lie between (attach.turns),
\* also in a subtree carried over to the next decision.
TreeTrue ==
    LET BoardTrue(b) == \A p \in Player : b.contexts[p] \in {None, graphs[b.graphs[p]]}
    IN  \A i \in DOMAIN Nodes :
          LET n == Nodes[i]
          IN  /\ BoardTrue(n.board) /\ ActiveOn(n.board, n.board.player)
              /\ \A a \in DOMAIN n.edges :
                   n.edges[a].after # None => n.edges[a].context = graphs[n.edges[a].after]
              /\ \A br \in Branches(n) :
                   /\ br.flip = (br.for # n.board.player)
                   /\ br.target # None => Nodes[br.target].board.player = br.for

\* Under no_backtrack an actor never stands twice on the same graph: the
\* graphs it left are all different and none of them is the one it is on,
\* although subtrees searched before it moved are reused after it.
NeverBack ==
    config.no_backtrack =>
        \A p \in Player :
           LET left == {k \in DOMAIN actors[p].steps : ~actors[p].steps[k].stop}
           IN  /\ Cardinality({actors[p].steps[k].context : k \in left}) = Cardinality(left)
               /\ actors[p].context \notin {actors[p].steps[k].context : k \in left}

\* The internal errors of the search are never met, but for one dead end: with
\* STOP masked out, a root whose actions are all rejected or turn back makes
\* its simulations pass at the root, and finish_root's visit ledger is short.
FailsOnlyAtDeadEnd ==
    /\ error \in {None, "external", "ledger"}
    /\ error = "ledger" => config.mask_stop

\* While no considered action has been masked, the schedule can be followed to
\* the letter: when a wave is launched some considered action stands exactly
\* at the visit count the schedule asks for (wave_root_action's fallback is
\* for masked actions only).
ScheduleFollowable ==
    (InWave /\ task.active = <<>> /\ task.run.index <= Len(task.run.schedule)) =>
        LET root == task.nodes[1]
        IN  task.run.first \cap root.masked = {} =>
              \/ OnTarget(root, task.run, task.run.schedule[task.run.index]) # {}
              \/ task.run.first = {}

\* The opponent a replay row shows is the one the search decided against: the
\* graph, the rewrites and the retirement the lane reconstructs from the two
\* traces after the fact are those of the board the decision was made on.  The
\* final position is shown as the search evaluates a terminal board, with both
\* players retired, except that a blocked player is shown as still active.
ProjectionMatchesSearch ==
    state = "DoneResult" =>
        \A p \in Player :
           /\ \A k \in DOMAIN actors[p].steps :
                ProjectedOpponent(p, k) = actors[p].steps[k].opponent
           /\ LET final == board_position(EpisodeBoard, p)
                  row == terminal_feature_rows(p)
              IN  row = final \/ (actors[p].blocked /\ row.rewrites = final.rewrites)
=============================================================================
