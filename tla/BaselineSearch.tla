--------------------------- MODULE BaselineSearch ---------------------------
(***************************************************************************)
(* The searches of gz-search that need no evaluator: beam search (beam.rs) *)
(* and greedy search (greedy.rs), one after the other over one Whittle     *)
(* engine.  Every graph has a reward, or none if it cannot be scored; a    *)
(* candidate has a static prior and a hash, which break ties.  One step is *)
(* one layer of the beam or one greedy step.                               *)
(***************************************************************************)
EXTENDS WhittleArena

CONSTANTS BaselineCases  \* rules, root, rewards, priors, order of hashes, limit, width, depth

\* What the code requires of its configuration.
BaselineAssumption ==
    \A k \in BaselineCases :
        /\ k.rules \in [Hash -> Seq(Hash)] /\ k.root \in Hash
        /\ k.width \in Nat \ {0} /\ k.depth \in Nat
        /\ \A h \in Hash : k.reward[h] \in Nat \cup {None}

VARIABLES
    job,      \* the case
    arena,    \* the Whittle engine
    beam,     \* the beam search
    greedy,   \* the greedy search
    owned     \* handles of created_graphs and created_candidates, and lost ones

baselineVars == <<job, arena, beam, greedy, owned>>

score(h) == job.reward[h]
\* The hash of a candidate within its graph.
CandidateHash(i) == IF job.flip THEN 9 - i ELSE i
ActionRef(h, i) == 10 * job.order[h] + CandidateHash(i)
StopRef(h) == 10 * job.order[h]
StaticPrior(h, i) == job.prior[h][i]

-----------------------------------------------------------------------------
(* Beam search *)

\* Mutant: an entry that goes on is preferred to one that stops.
Outranks_Restless(l, r) ==
    \/ l.reward > r.reward
    \/ l.reward = r.reward /\ \/ ~l.stopped /\ r.stopped
                              \/ l.stopped = r.stopped /\ l.action_ref < r.action_ref

\* rank_order: by reward, stopped before not, then prior, action and depth.
Outranks(l, r) ==
    \/ l.reward > r.reward
    \/ /\ l.reward = r.reward
       /\ \/ l.stopped /\ ~r.stopped
          \/ /\ l.stopped = r.stopped
             /\ \/ l.static_prior > r.static_prior
                \/ /\ l.static_prior = r.static_prior
                   /\ \/ l.action_ref < r.action_ref
                      \/ l.action_ref = r.action_ref /\ l.depth < r.depth

Rank(reward, stopped, depth, prior, ref) ==
    [reward |-> reward, stopped |-> stopped, depth |-> depth, static_prior |-> prior,
     action_ref |-> ref]
BeamNode(graph, context, parent, action, rank) ==
    [graph |-> graph, context |-> context, parent |-> parent, action |-> action,
     layer_index |-> None, rank |-> rank]
Entry(existing, node) == [existing |-> existing, node |-> node]

\* A rewrite of a node has been applied: its graph is noted, and becomes an
\* entry when it can be scored.
Successor(acc, id, i, applied) ==
    LET node == beam.nodes[id]
        h == applied.after_hash
        entry == Entry(None, BeamNode(applied.after, h, id, i,
                                      Rank(score(h), FALSE, node.rank.depth + 1,
                                           StaticPrior(node.context, i), ActionRef(node.context, i))))
    IN  [acc EXCEPT !.engine = applied.engine, !.graphs = Append(@, applied.after),
                    !.entries = IF applied.rejected \/ score(h) = None THEN @
                                ELSE Append(@, entry)]

StopEntry(id) ==
    LET node == beam.nodes[id]
    IN  Entry(None, BeamNode(node.graph, node.context, id, 0,
                             Rank(node.rank.reward, TRUE, node.rank.depth + 1, 0,
                                  StopRef(node.context))))

\* The entries of a node: its successors, in the engine's order, then its STOP.
Successors(acc, id, listed) ==
    LET Try(a, i) == Successor(a, id, i, apply(a.engine, beam.nodes[id].graph, listed.ids[i]))
        noted == [acc EXCEPT !.engine = listed.engine, !.candidates = @ \o listed.ids]
    IN  FoldLeft(Try, noted, [i \in DOMAIN listed.ids |-> i])

expand_node(acc, id) ==
    LET tried == Successors(acc, id, enumerate_candidate_ids(acc.engine, beam.nodes[id].graph, job.limit))
    IN  [tried EXCEPT !.entries = Append(@, StopEntry(id))]

Consider(acc, id) ==
    IF beam.nodes[id].rank.stopped
    THEN [acc EXCEPT !.entries = Append(@, Entry(id, beam.nodes[id]))]
    ELSE expand_node(acc, id)

Considered(active) ==
    FoldLeft(Consider, [engine |-> arena, entries |-> <<>>, graphs |-> <<>>, candidates |-> <<>>],
             active)

\* Of the entries for one graph the best is kept.
keep_best_graph_entry(entries) ==
    {k \in DOMAIN entries :
       \A m \in DOMAIN entries :
          entries[m].node.context = entries[k].node.context
            => ~Outranks(entries[m].node.rank, entries[k].node.rank)}

\* The beam_width best entries, best first.
TopEntries(entries) ==
    LET best == keep_best_graph_entry(entries)
        Before(k, m) == Outranks(entries[k].node.rank, entries[m].node.rank)
    IN  SetToSortSeq({k \in best : Cardinality({m \in best : Before(m, k)}) < job.width}, Before)

BeamStart ==
    /\ beam.state = "run" /\ beam.nodes = <<>>
    /\ LET h == arena.items[arena.root]
           root == [BeamNode(arena.root, h, None, None, Rank(score(h), FALSE, 0, 0, StopRef(h)))
                    EXCEPT !.layer_index = 1]
       IN  beam' = IF score(h) = None
                   THEN [beam EXCEPT !.state = "done", !.stop_reason = "UnscoredRoot"]
                   ELSE [beam EXCEPT !.nodes = <<root>>, !.active = <<1>>,
                                     !.layers = <<<<[context |-> h, carried |-> FALSE,
                                                     parent_index |-> None, action |-> None]>>>>]
    /\ UNCHANGED <<job, arena, greedy, owned>>

AllStopped == \A k \in DOMAIN beam.active : beam.nodes[beam.active[k]].rank.stopped
Deeper == beam.state = "run" /\ beam.nodes # <<>> /\ Len(beam.layers) <= job.depth /\ ~AllStopped

\* Where in the layer before an entry, or the entry it was made from, was.
ParentIndex(nodes, at, id, k) ==
    IF at.existing # None THEN nodes[id].layer_index ELSE nodes[nodes[id].parent].layer_index

\* One layer: expand, keep the best entry of a graph, select the best entries.
BeamLayer ==
    /\ Deeper
    /\ \E all \in {Considered(beam.active)} : \E chosen \in {TopEntries(all.entries)} :
         LET At(k) == all.entries[chosen[k]]
             New(k) == {m \in 1..k : At(m).existing = None}
             Id(k) == IF At(k).existing # None THEN At(k).existing
                      ELSE Len(beam.nodes) + Cardinality(New(k))
             nodes == beam.nodes \o [n \in 1..Cardinality(New(Len(chosen))) |->
                                      At(CHOOSE k \in New(Len(chosen)) : Cardinality(New(k)) = n).node]
             Summary(k) ==
                 [context |-> nodes[Id(k)].context, carried |-> At(k).existing # None,
                  parent_index |-> ParentIndex(nodes, At(k), Id(k), k),
                  action |-> IF At(k).existing # None THEN None ELSE nodes[Id(k)].action]
             Placed(id) == {k \in DOMAIN chosen : Id(k) = id}
         IN  /\ arena' = all.engine
             /\ owned' = [owned EXCEPT !.graphs = @ \o all.graphs,
                                       !.candidates = @ \o all.candidates]
             /\ beam' = [beam EXCEPT
                   !.nodes = [id \in DOMAIN nodes |->
                                IF Placed(id) = {} THEN nodes[id]
                                ELSE [nodes[id] EXCEPT !.layer_index = CHOOSE k \in Placed(id) : TRUE]],
                   !.active = [k \in DOMAIN chosen |-> Id(k)],
                   !.layers = Append(@, [k \in DOMAIN chosen |-> Summary(k)])]
    /\ UNCHANGED <<job, greedy>>

\* A measurement fails: run returns the error, and the handles it noted are
\* dropped with it.
BeamFails ==
    /\ Deeper
    /\ \E n \in DOMAIN beam.active :
         \E all \in {Considered(SubSeq(beam.active, 1, n))} :
            /\ arena' = all.engine
            /\ owned' = [owned EXCEPT !.graphs = <<>>, !.candidates = <<>>,
                                      !.lost_graphs = @ \o owned.graphs \o all.graphs,
                                      !.lost_candidates = @ \o owned.candidates \o all.candidates]
    /\ beam' = [beam EXCEPT !.state = "failed"]
    /\ UNCHANGED <<job, greedy>>

Step(before, action, after) == [before |-> before, action |-> action, after |-> after]

\* The path to a node, from the root.
collect_steps(id) ==
    LET nodes == beam.nodes
        path[i \in DOMAIN nodes] ==
            IF nodes[i].parent = None THEN <<>>
            ELSE Append(path[nodes[i].parent],
                        Step(nodes[nodes[i].parent].context, nodes[i].action, nodes[i].context))
    IN  path[id]

BeamFinish ==
    /\ beam.state = "run" /\ beam.nodes # <<>> /\ ~Deeper
    /\ LET ids == {beam.active[k] : k \in DOMAIN beam.active}
           best == CHOOSE i \in ids : \A j \in ids : ~Outranks(beam.nodes[j].rank, beam.nodes[i].rank)
       IN  beam' = [beam EXCEPT !.state = "done", !.final = beam.nodes[best].context,
                                !.steps = collect_steps(best),
                                !.stop_reason = IF beam.nodes[best].rank.stopped
                                                THEN "SelectedStop" ELSE "MaxDepth"]
    /\ UNCHANGED <<job, arena, greedy, owned>>

-----------------------------------------------------------------------------
(* Greedy search *)

\* is_better_candidate: by reward, then prior, then the smaller hash.
Better(h, r, s) ==
    \/ r.reward > s.reward
    \/ /\ r.reward = s.reward
       /\ \/ StaticPrior(h, r.i) > StaticPrior(h, s.i)
          \/ StaticPrior(h, r.i) = StaticPrior(h, s.i) /\ CandidateHash(r.i) < CandidateHash(s.i)

Over(search) == search.state \in {"done", "failed"}

Graphs(tried) == [k \in DOMAIN tried |-> tried[k].graph]

\* Every candidate of the current graph, applied and scored.
Scored(acc, i, applied) ==
    [engine |-> applied.engine,
     tried |-> Append(acc.tried, [i |-> i, graph |-> applied.after, context |-> applied.after_hash,
                                  reward |-> score(applied.after_hash)])]
ScoredAll(listed, n) ==
    LET Try(a, i) == Scored(a, i, apply(a.engine, greedy.graph, listed.ids[i]))
    IN  FoldLeft(Try, [engine |-> listed.engine, tried |-> <<>>], [i \in 1..n |-> i])

Climbing ==
    /\ Over(beam) /\ greedy.state = "run" /\ Len(greedy.steps) < job.depth
    /\ score(greedy.context) # None

\* The best strict improvement is taken; STOP when there is none.
GreedyStep ==
    /\ Climbing
    /\ \E listed \in {enumerate_candidate_ids(arena, greedy.graph, job.limit)} :
         \E all \in {ScoredAll(listed, Len(listed.ids))} :
            LET h == greedy.context
                improving == {r \in Range(all.tried) : r.reward # None /\ r.reward > score(h)}
                best == CHOOSE r \in improving : \A s \in improving \ {r} : Better(h, r, s)
            IN  /\ arena' = all.engine
                /\ owned' = [owned EXCEPT !.graphs = @ \o Graphs(all.tried),
                                          !.candidates = @ \o listed.ids]
                /\ greedy' = IF improving = {}
                             THEN [greedy EXCEPT !.steps = Append(@, Step(h, 0, h)), !.state = "done",
                                                 !.stop_reason = "SelectedStop"]
                             ELSE [greedy EXCEPT !.steps = Append(@, Step(h, best.i, best.context)),
                                                 !.graph = best.graph, !.context = best.context]
    /\ UNCHANGED <<job, beam>>

\* A measurement fails after some of the candidates, and as in the beam the
\* handles noted so far are dropped.
GreedyFails ==
    /\ Climbing
    /\ \E listed \in {enumerate_candidate_ids(arena, greedy.graph, job.limit)} :
         \E n \in DOMAIN listed.ids : \E all \in {ScoredAll(listed, n)} :
            /\ arena' = all.engine
            /\ owned' = [owned EXCEPT !.graphs = <<>>, !.candidates = <<>>,
                                      !.lost_graphs = @ \o owned.graphs \o Graphs(all.tried),
                                      !.lost_candidates = @ \o owned.candidates \o listed.ids]
            /\ greedy' = [greedy EXCEPT !.state = "failed"]
    /\ UNCHANGED <<job, beam>>

\* The current graph has no score: only the root can be such.
GreedyUnscored ==
    /\ Over(beam) /\ greedy.state = "run" /\ Len(greedy.steps) < job.depth
    /\ score(greedy.context) = None
    /\ greedy' = [greedy EXCEPT !.state = "done", !.stop_reason = "UnscoredCurrentGraph"]
    /\ UNCHANGED <<job, arena, beam, owned>>

\* The steps are used up.
GreedyFinish ==
    /\ Over(beam) /\ greedy.state = "run" /\ Len(greedy.steps) = job.depth
    /\ greedy' = [greedy EXCEPT !.state = "done", !.stop_reason = "MaxSteps"]
    /\ UNCHANGED <<job, arena, beam, owned>>

-----------------------------------------------------------------------------
\* The caller of a search releases what its result lists, at once or later.
CallerOfBaseline ==
    /\ Over(beam) /\ owned.graphs \o owned.candidates # <<>>
    /\ arena' = release(arena, owned.graphs, owned.candidates)
    /\ owned' = [owned EXCEPT !.graphs = <<>>, !.candidates = <<>>]
    /\ greedy.state = "done" \/ greedy.steps = <<>>   \* between the two searches or after both
    /\ UNCHANGED <<job, beam, greedy>>

NotStarted(state) ==
    /\ arena = NewEngine(job.rules, job.limit = None, job.root)
    /\ beam = [state |-> state, nodes |-> <<>>, active |-> <<>>, layers |-> <<>>, steps |-> <<>>,
               final |-> job.root, stop_reason |-> None]
    /\ greedy = [state |-> state, graph |-> arena.root, context |-> job.root, steps |-> <<>>,
                 stop_reason |-> None]
    /\ owned = [graphs |-> <<>>, candidates |-> <<>>, lost_graphs |-> <<>>, lost_candidates |-> <<>>]

BaselineInit == job \in BaselineCases /\ NotStarted("run")

BaselinesOver == Over(beam) /\ Over(greedy) /\ owned.graphs \o owned.candidates = <<>>

BaselineNext ==
    \/ BeamStart \/ BeamLayer \/ BeamFails \/ BeamFinish
    \/ GreedyStep \/ GreedyFails \/ GreedyUnscored \/ GreedyFinish \/ CallerOfBaseline

-----------------------------------------------------------------------------
(* Properties *)

BestOf(layer) == {k \in DOMAIN layer : \A m \in DOMAIN layer :
                                          score(layer[m].context) <= score(layer[k].context)}

\* A layer is never worse than the one before, no graph is twice in a layer,
\* and an entry's parent_index names the entry it was carried or made from.
LayersLinked ==
    \A d \in 2..Len(beam.layers) :
       LET layer == beam.layers[d]
           above == beam.layers[d - 1]
       IN  /\ Len(layer) \in 1..job.width
           /\ \A k, m \in DOMAIN layer : layer[k].context = layer[m].context => k = m
           /\ \A k \in BestOf(layer), m \in BestOf(above) :
                score(layer[k].context) >= score(above[m].context)
           /\ \A k \in DOMAIN layer :
                LET from == above[layer[k].parent_index].context
                IN  layer[k].context = IF layer[k].carried \/ layer[k].action = 0 THEN from
                                       ELSE job.rules[from][layer[k].action]

\* The scored graphs within n steps of the root through scored graphs.
Reachable ==
    LET reach[n \in 0..job.depth] ==
            IF n = 0 THEN {job.root}
            ELSE reach[n - 1] \cup
                 {x \in Hash : score(x) # None /\
                    \E h \in reach[n - 1] : \E i \in 1..Smaller(job.limit, Len(job.rules[h])) :
                       job.rules[h][i] = x}
    IN  reach[job.depth]

\* A beam that can hold every graph finds the best one within its depth,
\* although graphs met again are dropped for entries that have stopped.
WideBeamComplete ==
    (beam.state = "done" /\ beam.stop_reason # "UnscoredRoot" /\ job.width >= Cardinality(Hash))
      => \A h \in Reachable : score(h) <= score(beam.final)

\* A beam of one takes the path of the greedy search, whatever the ties.
WidthOneIsGreedy ==
    (beam.state = "done" /\ greedy.state = "done" /\ job.width = 1)
      => beam.steps = greedy.steps /\ beam.final = greedy.context

\* The steps of a result lead from the root to the final graph.
StepsLead ==
    beam.state = "done" =>
       /\ beam.steps = <<>> => beam.final = job.root
       /\ beam.steps # <<>> =>
            beam.steps[1].before = job.root /\ Last(beam.steps).after = beam.final
       /\ \A k \in 2..Len(beam.steps) : beam.steps[k].before = beam.steps[k - 1].after

\* The baselines keep their promises: layers are linked and never get worse, a
\* wide beam is complete, a beam of one is greedy, and results are connected.
BaselinesSound == LayersLinked /\ WideBeamComplete /\ WidthOneIsGreedy /\ StepsLead

CountIn(s, x) == Cardinality({i \in DOMAIN s : s[i] = x})

\* What the engine counts is what the results list, what an error dropped, and
\* the root; no operation met a handle that was gone.
BaselineReferences ==
    LET graphs == owned.graphs \o owned.lost_graphs
        candidates == owned.candidates \o owned.lost_candidates
    IN  /\ ~arena.fault
        /\ \A h \in Hash :
             arena.hash_refs[h] = (IF arena.by_hash[h] = None THEN 0
                                   ELSE CountIn(graphs, arena.by_hash[h]))
                                  + (IF h = job.root THEN 1 ELSE 0)
        /\ \A c \in DOMAIN arena.handles :
             CountIn(candidates, c) = IF arena.handles[c] = None THEN 0 ELSE arena.handles[c].refs
=============================================================================
