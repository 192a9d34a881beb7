---------------------------- MODULE MctsEpisode ----------------------------
(***************************************************************************)
(* A single-agent tree-search episode of gz-search (mcts/, with the Gumbel *)
(* and PUCT strategies): MctsEpisodeTask moves from root to root, each     *)
(* decided by an MctsRootTask, driven by run_episode over a Whittle engine *)
(* whose handles it must account for.                                      *)
(*                                                                         *)
(* A graph is known by its hash, which is also its replay context.  Logits,*)
(* values and noise are not modelled: where the code takes the best-scored *)
(* action the model takes any that could be.  One step is one turn of      *)
(* run_episode's loop: poll, release, service the work, resume, release.   *)
(***************************************************************************)
EXTENDS WhittleArena, FiniteSetsExt, GumbelSchedule

CONSTANTS Cases,   \* what is searched: the rewriting rules, the engine's root, the
                   \* walk a root is sampled by, and the search configuration
          Limits   \* the candidate limits of an earlier search

\* What the code requires of its configuration.
EpisodeAssumption ==
    \A k \in Cases :
        /\ k.rules \in [Hash -> Seq(Hash)] /\ k.root \in Hash /\ k.walk \in Seq(Hash)
        /\ k.max_steps \in Nat
        /\ k.simulations \in Nat \ {0} /\ k.max_considered_actions \in Nat \ {0}

VARIABLES
    config,    \* the episode's configuration, chosen once
    engine,    \* the Whittle engine
    earlier,   \* candidates an earlier search over the engine still holds
    episode,   \* the MctsEpisodeTask
    search     \* its MctsRootTask, None between roots

vars == <<config, engine, earlier, episode, search>>

-----------------------------------------------------------------------------
(* The tree: actions 1..n are the candidates of a node, n + 1 is STOP *)

StopOf(node) == Len(node.candidates) + 1
is_stop(node, a) == a = StopOf(node)
unmasked_actions(node) == {a \in DOMAIN node.masked : ~node.masked[a]}

MctsNode(graph, context, candidates) ==
    LET n == Len(candidates)
    IN  [graph |-> graph, context |-> context, candidates |-> candidates,
         children |-> [a \in 1..(n + 1) |-> None],
         visits |-> [a \in 1..(n + 1) |-> 0],
         masked |-> [a \in 1..(n + 1) |-> a = n + 1 /\ config.mask_stop /\ n > 0]]

\* An action is masked; when no candidate is left, STOP becomes available.
mask_action(nodes, i, a) ==
    LET masked == [nodes[i].masked EXCEPT ![a] = TRUE]
        stop == StopOf(nodes[i])
    IN  [nodes EXCEPT ![i].masked =
            IF \A c \in 1..(stop - 1) : masked[c] THEN [masked EXCEPT ![stop] = FALSE] ELSE masked]

backup(nodes, path) ==
    FoldLeft(LAMBDA acc, edge : [acc EXCEPT ![edge[1]].visits[edge[2]] = @ + 1], nodes, path)

\* The subtree under a node, its nodes renumbered (in creation order: nothing
\* depends on their numbers), and the handles it goes on using.
compact_subtree(nodes, top) ==
    LET inside[i \in DOMAIN nodes] ==
            i = top \/ \E j \in 1..(i - 1) : inside[j] /\ \E a \in DOMAIN nodes[j].children :
                                                            nodes[j].children[a] = i
        kept == SelectSeq([i \in DOMAIN nodes |-> i], LAMBDA i : inside[i])
        New(i) == CHOOSE k \in DOMAIN kept : kept[k] = i
        Renumbered(node) ==
            [node EXCEPT !.children = [a \in DOMAIN @ |-> IF @[a] = None THEN None ELSE New(@[a])]]
    IN  [nodes |-> [k \in DOMAIN kept |-> Renumbered(nodes[kept[k]])],
         graphs |-> [k \in DOMAIN kept |-> nodes[kept[k]].graph],
         candidates |-> FlattenSeq([k \in DOMAIN kept |-> nodes[kept[k]].candidates])]

-----------------------------------------------------------------------------
(* The strategies: the actions each may select *)

\* The considered actions of a Gumbel root: any of the unmasked ones may score
\* best; a masked one, scored -infinity, fills up a list that is longer.
considered_actions(node) ==
    LET open == unmasked_actions(node)
        k == Min({config.max_considered_actions, StopOf(node)})
        closed == DOMAIN node.masked \ open
        First(S, n) == {a \in S : Cardinality({b \in S : b < a}) < n}
    IN  IF k <= Cardinality(open) THEN kSubset(k, open)
        ELSE {open \cup First(closed, k - Cardinality(open))}

Gumbel == config.strategy = "gumbel"

NewRun(nodes, considered) ==
    [considered |-> considered, baseline |-> nodes[1].visits, simulations |-> 0, descent |-> None]
gumbel_start_root(nodes) == {NewRun(nodes, c) : c \in considered_actions(nodes[1])}
puct_start_root(nodes) == {NewRun(nodes, {})}

\* Every run a root may start with.
start_run_state(nodes) == IF Gumbel THEN gumbel_start_root(nodes) ELSE puct_start_root(nodes)

\* The visits of this search, without those a reused subtree brought along.
Delta(node, run, a) == node.visits[a] - run.baseline[a]

\* None, and the search of the root is over, when the schedule is at its end or
\* no considered action is at the count it asks for.
gumbel_select_root(node, run) ==
    LET schedule == considered_visit_sequence(Cardinality(run.considered), config.simulations)
    IN  {a \in run.considered :
           /\ run.simulations < Len(schedule)
           /\ ~node.masked[a] /\ Delta(node, run, a) = schedule[run.simulations + 1]}

\* The action of the highest PUCT score or improved policy: any may have it.
select_action(node) == unmasked_actions(node)
puct_select_root(node, run) ==
    IF run.simulations < config.simulations THEN select_action(node) ELSE {}

select_root(node, run) ==
    IF Gumbel THEN gumbel_select_root(node, run) ELSE puct_select_root(node, run)
select_nonroot(node) == unmasked_actions(node)

Most(S, Value(_)) == {a \in S : \A b \in S : Value(b) <= Value(a)}

best_score_action(selectable) == selectable
best_count_action(node, selectable) == Most(selectable, LAMBDA a : node.visits[a])
deterministic_election(node, run, selectable) == Most(selectable, LAMBDA a : Delta(node, run, a))

\* While the selection temperature is positive, an action in proportion to its
\* visits; the fallback when there are none.
sample_visit_action(node, run, allowed, temperature, fallback) ==
    LET visited == {a \in allowed : Delta(node, run, a) > 0}
    IN  IF temperature /\ visited # {} THEN visited ELSE fallback

gumbel_finish_root(node, run, temperature) ==
    LET considered == {a \in run.considered : ~node.masked[a]}
        selectable == IF considered = {} THEN unmasked_actions(node) ELSE considered
        fallback == IF config.tree_reuse THEN best_score_action(selectable)
                    ELSE best_count_action(node, selectable)
    IN  sample_visit_action(node, run, selectable, temperature, fallback)

puct_finish_root(node, run, temperature) ==
    LET selectable == unmasked_actions(node)
    IN  sample_visit_action(node, run, selectable, temperature,
                            deterministic_election(node, run, selectable))

\* The actions that may be elected.
strategy_finish_root(node, run, temperature) ==
    IF Gumbel THEN gumbel_finish_root(node, run, temperature)
    ELSE puct_finish_root(node, run, temperature)

\* The elections the search has evidence for: every action of a Gumbel root
\* that is elected by score alone was either simulated or proved unplayable.
Covered(node, run) ==
    \/ ~Gumbel \/ ~config.tree_reuse
    \/ /\ \E a \in run.considered : ~node.masked[a]
       /\ \A a \in run.considered : node.masked[a] \/ Delta(node, run, a) > 0

-----------------------------------------------------------------------------
(* The root task *)

RootTask(graph, visited) ==
    [root |-> graph, context |-> None, visited |-> visited, nodes |-> <<>>, run |-> None,
     state |-> "expand", graph |-> graph, expected |-> None, candidates |-> <<>>]

\* The run after a simulation is complete.
complete_simulation(run) == [run EXCEPT !.simulations = @ + 1, !.descent = None]

Handles(graphs, candidates) == [graphs |-> graphs, candidates |-> candidates]
NoHandles == Handles(<<>>, <<>>)

\* Every handle the episode is answerable for.
take_all_handles(ep) ==
    Handles(ep.releasable.graphs \o ep.path_graphs \o ep.move_graphs,
            ep.releasable.candidates \o ep.move_candidates)

Emptied(ep) == [ep EXCEPT !.releasable = NoHandles, !.path_graphs = <<>>, !.move_graphs = <<>>,
                          !.move_candidates = <<>>]

\* run_episode on any error: everything goes back to the engine.
Fails(e, ep, error) ==
    LET all == take_all_handles(ep)
    IN  /\ engine' = release(e, all.graphs, all.candidates)
        /\ episode' = [Emptied(ep) EXCEPT !.state = "failed", !.error = error]
        /\ search' = None
        /\ UNCHANGED <<config, earlier>>

InState(s) == episode.state = "root" /\ search.state = s

\* The episode with the handles that an expansion or a rewrite has created.
track_created_handles(ep, graphs, candidates) ==
    [ep EXCEPT !.move_graphs = @ \o graphs, !.move_candidates = @ \o candidates]

\* Mutant: candidates are tracked only when the root is expanded.
ExpandNode_Untracked ==
    /\ InState("expand")
    /\ LET r == enumerate_candidate_ids(engine, search.graph, config.limit)
       IN  /\ engine' = r.engine
           /\ episode' = IF search.run = None
                         THEN [episode EXCEPT !.move_candidates = @ \o r.ids] ELSE episode
           /\ search' = [search EXCEPT !.state = "eval", !.candidates = r.ids,
                           !.context = IF search.run = None THEN engine.items[search.graph] ELSE @]
    /\ UNCHANGED <<config, earlier>>

\* Expand: the node's candidates are enumerated and tracked, and the hash the
\* engine gives is the one the edge led to.
ExpandNode ==
    /\ InState("expand")
    /\ LET r == enumerate_candidate_ids(engine, search.graph, config.limit)
           context == engine.items[search.graph]
           tracked == track_created_handles(episode, <<>>, r.ids)
       IN  IF search.expected \notin {None, context}
           THEN Fails(r.engine, tracked, "hash")
           ELSE /\ engine' = r.engine
                /\ episode' = tracked
                /\ search' = [search EXCEPT !.state = "eval", !.candidates = r.ids,
                                            !.context = IF search.run = None THEN context ELSE @]
                /\ UNCHANGED <<config, earlier>>

\* The tree with the node that has been expanded and evaluated.
finalize_node ==
    Append(search.nodes,
           MctsNode(search.graph, engine.items[search.graph], search.candidates))

\* Eval: the node joins the tree, under the edge the descent took, and the
\* simulation is complete; at the root, the first run starts.
EvalNode ==
    /\ InState("eval")
    /\ LET grown == finalize_node
           path == search.run.descent.path
           edge == Last(path)
           linked == [grown EXCEPT ![edge[1]].children[edge[2]] = Len(grown)]
       IN  IF search.run = None
           THEN \E run \in start_run_state(grown) :
                   search' = [search EXCEPT !.state = "run", !.nodes = grown, !.run = run,
                                            !.candidates = <<>>, !.graph = None]
           ELSE search' = [search EXCEPT !.state = "run", !.nodes = backup(linked, path),
                                         !.run = complete_simulation(@),
                                         !.candidates = <<>>, !.graph = None]
    /\ UNCHANGED <<config, engine, earlier, episode>>

\* Where the descent is, from the start of a simulation on.
Descent ==
    IF search.run.descent # None THEN search.run.descent
    ELSE [node |-> 1, path |-> <<>>, seen |-> {search.nodes[1].context}]
NextActions ==
    IF search.run.descent # None THEN select_nonroot(search.nodes[Descent.node])
    ELSE select_root(search.nodes[1], search.run)

DescendStop ==
    /\ InState("run")
    /\ LET at == Descent
           node == search.nodes[at.node]
       IN  /\ StopOf(node) \in NextActions
           /\ search' = [search EXCEPT
                           !.nodes = backup(@, Append(at.path, <<at.node, StopOf(node)>>)),
                           !.run = complete_simulation(@)]
    /\ UNCHANGED <<config, engine, earlier, episode>>

\* Mutant: only the roots before this one are turned away from.
TurnsBack_NotRoot(h) == config.no_backtrack /\ h \in search.visited

\* Under no_backtrack a child that is the root or was an earlier root is
\* masked out, anywhere in the tree.
TurnsBack(h) == config.no_backtrack /\ (h = search.context \/ h \in search.visited)

\* Apply: the graph it yields is tracked; the action is masked and another
\* chosen from where the descent stands, or the descent goes on to the child,
\* ends on one it has already seen, or reaches a new one.  (Both strategies
\* set predicted_horizon to false, so no node is terminal.)
DescendApply ==
    /\ InState("run")
    /\ \E a \in NextActions :
         LET at == Descent
             node == search.nodes[at.node]
             applied == apply(engine, node.graph, node.candidates[a])
             child == node.children[a]
             edges == Append(at.path, <<at.node, a>>)
             seen == child # None /\ search.nodes[child].context \in at.seen
         IN  /\ ~is_stop(node, a)
             /\ engine' = applied.engine
             /\ episode' = track_created_handles(episode, <<applied.after>>, <<>>)
             /\ search' =
                  IF applied.rejected \/ TurnsBack(applied.after_hash)
                  THEN [search EXCEPT !.nodes = mask_action(@, at.node, a), !.run.descent = at]
                  ELSE IF child = None
                  THEN [search EXCEPT !.state = "expand", !.graph = applied.after,
                                      !.expected = applied.after_hash,
                                      !.run.descent = [at EXCEPT !.path = edges]]
                  ELSE IF seen
                  THEN [search EXCEPT !.nodes = backup(@, edges), !.run = complete_simulation(@)]
                  ELSE [search EXCEPT !.run.descent =
                          [node |-> child, path |-> edges,
                           seen |-> at.seen \cup {search.nodes[child].context}]]
    /\ UNCHANGED <<config, earlier>>

-----------------------------------------------------------------------------
(* The episode *)

Count(s, x) == Cardinality({i \in DOMAIN s : s[i] = x})
\* s split into as many occurrences of each x as needed has, and the rest.
Split(s, needed) ==
    LET first == {i \in DOMAIN s :
                    Cardinality({j \in 1..i : s[j] = s[i]}) <= Count(needed, s[i])}
        At(I) == LET kept == SelectSeq([i \in DOMAIN s |-> i], LAMBDA i : i \in I)
                 IN  [k \in DOMAIN kept |-> s[kept[k]]]
    IN  [first |-> At(first), rest |-> At(DOMAIN s \ first)]

\* Of the handles of a move one reference to the selected graph is kept for the
\* path, those the carried subtree uses for the next move; the rest may go.
partition_move_handles(ep, carried, selected) ==
    LET path == Split(ep.move_graphs, <<selected>>)
        graphs == Split(path.rest, carried.graphs)
        candidates == Split(ep.move_candidates, carried.candidates)
    IN  [ep EXCEPT !.path_graphs = @ \o path.first, !.move_graphs = graphs.first,
                   !.move_candidates = candidates.first,
                   !.releasable = Handles(@.graphs \o graphs.rest,
                                          @.candidates \o candidates.rest)]

\* What the root task returns for an elected action; a candidate without a
\* child is an error.
selected_after(node, a) ==
    IF is_stop(node, a) THEN node.graph ELSE search.nodes[node.children[a]].graph
selected_after_context(node, a) ==
    IF is_stop(node, a) THEN node.context ELSE search.nodes[node.children[a]].context
finish_root(node, a) ==
    [stop |-> is_stop(node, a), after |-> selected_after(node, a),
     after_context |-> selected_after_context(node, a), root_context |-> search.context]

\* The root tasks that may continue in the subtree under the elected action.
reused_child_task(subtree, result, visited) ==
    {[RootTask(result.after, visited) EXCEPT
        !.context = result.after_context, !.nodes = subtree.nodes,
        !.run = run, !.state = "run", !.graph = None] : run \in start_run_state(subtree.nodes)}

Reuses(result) ==
    config.tree_reuse /\ ~result.stop /\ episode.step_index + 1 < config.max_steps

\* The episode makes the move the root decided.
finish_root_result(ep, result, carried) ==
    LET next == ep.step_index + 1
        moved == [ep EXCEPT
                    !.current = result.after, !.step_index = next, !.stopped = result.stop,
                    !.path = Append(@, result.after_context),
                    !.visited = IF config.no_backtrack THEN @ \cup {result.root_context} ELSE @,
                    !.state = IF result.stop \/ next >= config.max_steps THEN "measure" ELSE @]
    IN  partition_move_handles(moved, carried, IF result.stop THEN None ELSE result.after)

\* The search of a root is over: an action is elected, the episode moves, the
\* subtree under the new root is carried over if it is to be reused, and the
\* handles nothing needs any more are released before the next work.
FinishRoot ==
    /\ InState("run") /\ search.run.descent = None /\ NextActions = {}
    /\ \E a \in strategy_finish_root(search.nodes[1], search.run,
                                     episode.step_index < config.temperature_moves) :
         LET node == search.nodes[1]
             covered == [episode EXCEPT !.covered = @ /\ Covered(node, search.run)]
             result == finish_root(node, a)
             subtree == compact_subtree(search.nodes, node.children[a])
             moved == finish_root_result(
                         covered, result,
                         IF Reuses(result) THEN Handles(subtree.graphs, subtree.candidates)
                         ELSE NoHandles)
         IN  IF ~is_stop(node, a) /\ node.children[a] = None
             THEN Fails(engine, covered, "child")
             ELSE /\ engine' = release(engine, moved.releasable.graphs, moved.releasable.candidates)
                  /\ episode' = [moved EXCEPT !.releasable = NoHandles]
                  /\ search' \in IF moved.state = "measure" THEN {None}
                                 ELSE IF Reuses(result)
                                 THEN reused_child_task(subtree, result, moved.visited)
                                 ELSE {RootTask(result.after, moved.visited)}
                  /\ UNCHANGED <<config, earlier>>

\* The root of the episode: the engine's, or one sampled for it, which the
\* episode then owns (track_owned_root).
Start ==
    /\ episode.state = "start"
    /\ LET sampled == sample_root_into(engine, config.walk)
           own == config.walk # <<>>
           root == IF own THEN sampled.id ELSE engine.root
           at == IF own THEN sampled.engine ELSE engine
       IN  /\ engine' = at
           /\ episode' = [episode EXCEPT !.current = root, !.path = <<at.items[root]>>,
                                         !.path_graphs = IF own THEN <<root>> ELSE <<>>,
                                         !.state = IF config.max_steps = 0 THEN "measure" ELSE "root"]
           /\ search' = IF config.max_steps = 0 THEN None ELSE RootTask(root, {})
    /\ UNCHANGED <<config, earlier>>

\* The final measurement: what the episode created is its caller's now.
Measure ==
    /\ episode.state = "measure"
    /\ episode' = [Emptied(episode) EXCEPT !.state = "done", !.created = take_all_handles(episode)]
    /\ UNCHANGED <<config, engine, earlier, search>>

\* The evaluator fails, at a node or over the final graph.
WorkFails ==
    /\ InState("eval") \/ episode.state = "measure"
    /\ Fails(engine, episode, "work")

CallerReleases ==
    /\ episode.state = "done"
    /\ engine' = release(engine, episode.created.graphs, episode.created.candidates)
    /\ episode' = [episode EXCEPT !.state = "over", !.created = NoHandles]
    /\ UNCHANGED <<config, earlier, search>>

\* An earlier search's caller releases what that search created, whenever the
\* engine is not at work for this one.
EarlierReleases ==
    /\ earlier # <<>>
    /\ engine' = release(engine, <<>>, earlier)
    /\ earlier' = <<>>
    /\ UNCHANGED <<config, episode, search>>

Ended == episode.state \in {"over", "failed"}
Over == Ended /\ earlier = <<>> /\ UNCHANGED vars

NewEpisode ==
    [state |-> "start", current |-> None, path |-> <<>>, step_index |-> 0,
     visited |-> {}, path_graphs |-> <<>>, move_graphs |-> <<>>,
     move_candidates |-> <<>>, releasable |-> NoHandles, created |-> NoHandles,
     stopped |-> FALSE, covered |-> TRUE, error |-> None]

Init ==
    /\ config \in Cases
    /\ \E limit \in Limits :
         LET fresh == NewEngine(config.rules, config.caches, config.root)
             held == enumerate_candidate_ids(fresh, fresh.root, limit)
         IN  engine = held.engine /\ earlier = held.ids
    /\ episode = NewEpisode
    /\ search = None

Next ==
    \/ Start \/ ExpandNode \/ EvalNode \/ DescendStop \/ DescendApply \/ FinishRoot
    \/ Measure \/ WorkFails \/ CallerReleases \/ EarlierReleases \/ Over

-----------------------------------------------------------------------------
(* Properties *)

Owned == [graphs |-> take_all_handles(episode).graphs \o episode.created.graphs,
          candidates |-> take_all_handles(episode).candidates \o episode.created.candidates
                         \o earlier]

\* Every reference the engine counts has one holder that will release it: the
\* episode, its caller, an earlier search, or the engine itself for its root.
\* So nothing leaks and nothing is released twice, through reuse, turning back
\* and failing work, even where rewriting comes back to the engine root.
ReferencesBalance ==
    /\ \A h \in Hash :
         LET slot == engine.by_hash[h]
         IN  engine.hash_refs[h] =
               (IF slot = None THEN 0 ELSE Count(Owned.graphs, slot))
               + (IF h = config.root THEN 1 ELSE 0)
    /\ \A c \in DOMAIN engine.handles :
         Count(Owned.candidates, c) =
            IF engine.handles[c] = None THEN 0 ELSE engine.handles[c].refs

\* No operation of the engine ever meets a handle that is gone or belongs to
\* another graph, and every node of the tree still names the graph and the
\* candidates it was made from: slots freed by a move are reused, and a
\* release build would not notice.
HandlesTrue ==
    /\ ~engine.fault
    /\ search # None =>
         \A i \in DOMAIN search.nodes :
            LET node == search.nodes[i]
            IN  /\ engine.items[node.graph] = node.context
                /\ \A a \in DOMAIN node.candidates :
                     /\ engine.handles[node.candidates[a]] # None
                     /\ get(engine, node.candidates[a]) = [graph_hash |-> node.context, raw |-> a]
                /\ \A a \in DOMAIN node.children :
                     node.children[a] # None =>
                        search.nodes[node.children[a]].context = engine.rules[node.context][a]

\* A cached candidate list names live candidates of its graph, in order, and is
\* complete unless marked truncated; a search sees as many as it asked for.
CachesTrue ==
    /\ \A h \in Hash :
         LET entry == engine.cached[h]
         IN  entry # None =>
               /\ \A i \in DOMAIN entry.ids :
                    /\ engine.handles[entry.ids[i]] # None
                    /\ get(engine, entry.ids[i]) = [graph_hash |-> h, raw |-> i]
               /\ ~entry.truncated => Len(entry.ids) = Len(engine.rules[h])
    /\ search # None =>
         \A i \in DOMAIN search.nodes :
            Len(search.nodes[i].candidates)
              = Smaller(config.limit, Len(engine.rules[search.nodes[i].context]))

\* An elected action was simulated, so its child exists and, under
\* no_backtrack, is a graph the episode has not been on, also in a subtree
\* carried from root to root.  The exception: a Gumbel election by score among
\* actions the search of the root never simulated.  A descent always finds an
\* action ("STOP guarantees an unmasked action").
ElectionsSearched ==
    /\ (InState("run") /\ search.run.descent # None) => NextActions # {}
    /\ episode.covered =>
         /\ episode.error \in {None, "work"}
         /\ config.no_backtrack =>
              LET moves == IF episode.stopped THEN Front(episode.path) ELSE episode.path
              IN  IsInjective(moves)
=============================================================================
