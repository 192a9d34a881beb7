------------------------------ MODULE MCSearch ------------------------------
(* The searches of gz-search on small instances: a behaviour is one episode, *)
(* a symmetric one (SymmetricSearch), a single-agent one (MctsEpisode) or a  *)
(* baseline (BaselineSearch), over rewriting systems that branch, turn back, *)
(* reject and dead-end; the other kinds are over before they began.          *)
EXTENDS SymmetricSearch

CONSTANTS a, b, c

MCHash == {a, b, c}

\* a branches to b and c; b turns back to a or goes on to c; c is a dead end.
Diamond == (a :> <<b, c>>) @@ (b :> <<a, c>>) @@ (c :> <<>>)
\* one candidate of a is rejected, the other leads to a graph that only leads back.
Refusing == (a :> <<Rejected, b>>) @@ (b :> <<a>>) @@ (c :> <<>>)
\* nothing can be done at all after one step.
Short == (a :> <<b, b>>) @@ (b :> <<>>) @@ (c :> <<>>)

\* two graphs that lead to each other, with a way out.
Loop == (a :> <<b>>) @@ (b :> <<a, c>>) @@ (c :> <<>>)

MCCases ==
    {[system |-> s, config |-> [no_backtrack |-> nb, tree_reuse |-> tr,
                                mask_stop |-> ms, owned_root |-> nb]] :
       s \in {Diamond, Refusing, Short, Loop}, nb \in BOOLEAN, tr \in BOOLEAN, ms \in BOOLEAN}

\* The reuse of subtrees multiplies the trees of a system that branches: with
\* STOP the narrow systems cover it, and going back and forth the loop does.
MCSmallCases ==
    {k \in MCCases :
       k.config.tree_reuse =>
          \/ k.config.no_backtrack /\ (k.config.mask_stop \/ k.system \in {Refusing, Short})
          \/ ~k.config.no_backtrack /\ k.config.mask_stop /\ k.system # Diamond}

-----------------------------------------------------------------------------
(* Single-agent episodes *)

VARIABLES settings, engine, earlier, episode, search

Ring == (a :> <<b>>) @@ (b :> <<a, c>>) @@ (c :> <<b, a>>)
Fork == (a :> <<b, c>>) @@ (b :> <<c, b>>) @@ (c :> <<>>)
\* two ways to the same graph besides the way back.
Wide == (a :> <<b>>) @@ (b :> <<a, c, c>>) @@ (c :> <<>>)

Case(rules, strategy, reuse, back, walk, limit, sims, width) ==
    [rules |-> rules, root |-> a, walk |-> walk, caches |-> limit = None \/ ~reuse,
     limit |-> limit, strategy |-> strategy, tree_reuse |-> reuse, no_backtrack |-> ~back,
     mask_stop |-> width = 2, temperature_moves |-> IF back THEN 1 ELSE 0,
     max_steps |-> 3, simulations |-> sims, max_considered_actions |-> width]

\* STOP is masked out of the searches that consider more than one action.
MCMctsCases ==
    {Case(Fork, s, tr, bk, <<b, a>>, l, 3, 2) :
       s \in {"gumbel", "puct"}, tr \in BOOLEAN, bk \in BOOLEAN, l \in {None, 1}}
    \cup {Case(Ring, s, tr, bk, <<>>, None, 2, 2) :
            s \in {"gumbel", "puct"}, tr \in BOOLEAN, bk \in BOOLEAN}
    \cup {Case(r, "gumbel", TRUE, FALSE, <<>>, None, 3, 1) : r \in {Ring, Wide}}

Mcts == INSTANCE MctsEpisode WITH Cases <- MCMctsCases, Limits <- {0, 1}, config <- settings

mctsVars == <<settings, engine, earlier, episode, search>>

\* The single-agent episode that never ran.
MctsOver ==
    /\ settings = Case(Fork, "puct", FALSE, TRUE, <<>>, None, 2, 2)
    /\ engine = Mcts!NewEngine(Fork, TRUE, a)
    /\ earlier = <<>> /\ search = None
    /\ episode = [Mcts!NewEpisode EXCEPT !.state = "over"]

-----------------------------------------------------------------------------
(* Baselines *)

VARIABLES job, arena, beam, greedy, owned

\* two rewrites yield the same graph, and every graph comes back.
Twice == (a :> <<b, b, c>>) @@ (b :> <<c>>) @@ (c :> <<a>>)

\* Every table of rewards, so that ties and graphs that cannot be scored occur.
MCBaselineCases ==
    {[rules |-> r, root |-> a, reward |-> reward, flip |-> width # 2,
      prior |-> [h \in MCHash |-> [i \in 1..3 |-> IF limit = None \/ i = 2 THEN 1 ELSE 0]],
      order |-> (a :> 1) @@ (b :> 2) @@ (c :> 0),
      limit |-> limit, width |-> width, depth |-> depth] :
       r \in {Diamond, Ring, Twice}, reward \in [MCHash -> {None, 1, 2}],
       width \in 1..3, depth \in {0, 1, 3}, limit \in {None, 2}}

Baseline == INSTANCE BaselineSearch WITH BaselineCases <- MCBaselineCases

baselineVars == <<job, arena, beam, greedy, owned>>

\* The baselines that never ran.
BaselineOver ==
    /\ job = CHOOSE k \in MCBaselineCases : k.depth = 0
    /\ Baseline!NotStarted("done")

-----------------------------------------------------------------------------
(* Circuits *)

VARIABLES source, circuit, walk

Gate(op, x, y) == [op |-> op, arg0 |-> x, arg1 |-> y]
Single(op, x) == Gate(op, x, -1)
Artifact(arity, capacity, rewrites, reverse, limit, nodes) ==
    [kind |-> "artifact", rewrites |-> rewrites, reverse |-> reverse, limit |-> limit,
     graph |-> [arity |-> arity, capacity |-> capacity, output_node |-> arity + Len(nodes) - 1,
                node |-> [k \in 1..arity |-> Single("Input", k - 1)] \o nodes]]
Generated(arity, capacity, fewest, most, steps, rewrites) ==
    [kind |-> "generated", rewrites |-> rewrites, reverse |-> FALSE, limit |-> None,
     config |-> [arity |-> arity, capacity |-> capacity, exception_terms_min |-> fewest,
                 exception_terms_max |-> most, prewalk_steps_min |-> 0,
                 prewalk_steps_max |-> steps]]

\* The terms of the consensus theorem over inputs 0, 1 and 2, and their consensus.
Consensus(op, other) ==
    <<Single("Not", 0), Gate(op, 0, 1), Gate(op, 3, 2), Gate(op, 1, 2),
      Gate(other, 4, 5), Gate(other, 7, 6), Single("Output", 8)>>
WithoutConsensus(op, other) ==
    <<Single("Not", 0), Gate(op, 0, 1), Gate(op, 3, 2), Gate(other, 4, 5), Single("Output", 6)>>
Factors(op, other) == <<Gate(op, 0, 1), Gate(op, 0, 2), Gate(other, 3, 4), Single("Output", 5)>>
\* A constant below a negation, and both constants.
Constant(value, op) ==
    <<Single("Const", value), Gate(op, 0, 1), Single("Not", 2), Single("Output", 3)>>
Constants(op) ==
    <<Single("Const", 0), Single("Const", 1), Gate(op, 1, 2), Gate("Or", 0, 3), Single("Output", 4)>>
\* An operand that is no node, and a node no one uses.
Dangling == <<Gate("And", 0, 7), Single("Output", 1)>>
Unused == <<Gate("Or", 0, 0), Single("Not", 0), Single("Output", 0)>>

MCRoots ==
    {Generated(1, 8, 1, 1, 1, 1), Generated(2, 9, 0, 2, 1, 0), Generated(2, 5, 1, 2, 0, 1),
     Generated(0, 5, 1, 1, 0, 1)}
    \cup {[kind |-> "input", arity |-> arity, capacity |-> 6, index |-> 0, rewrites |-> 2,
           reverse |-> FALSE, limit |-> None] : arity \in 0..1}
    \cup UNION {{Artifact(3, 13, 1, FALSE, None, Consensus(p[1], p[2])),
                 Artifact(3, 12, 1, FALSE, None, WithoutConsensus(p[1], p[2])),
                 Artifact(3, 10, 2, FALSE, 6, Factors(p[1], p[2]))} :
                  p \in {<<"And", "Or">>, <<"Or", "And">>}}
    \cup {Artifact(1, 7, 2, TRUE, None, Constant(value, op)) : value \in 0..1, op \in {"And", "Or"}}
    \cup {Artifact(1, 7, 1, TRUE, None, Constants(op)) : op \in {"And", "Or"}}
    \cup {Artifact(1, 6, 2, FALSE, None, nodes) : nodes \in {Dangling, Unused}}

Circuits == INSTANCE WhittleRules WITH RootCases <- MCRoots

circuitVars == <<source, circuit, walk>>

\* The circuit that was never rewritten.
CircuitOver == source = Generated(0, 5, 1, 1, 0, 1) /\ Circuits!RewriteIdle("refused")

-----------------------------------------------------------------------------
\* The symmetric episode that never ran.
SymmetricOver ==
    /\ state = "Done"
    /\ Unstarted([system |-> Short, config |-> [no_backtrack |-> FALSE, tree_reuse |-> FALSE,
                                                 mask_stop |-> FALSE, owned_root |-> FALSE]])

ASSUME EpisodesAssumption == Mcts!EpisodeAssumption /\ Baseline!BaselineAssumption

AllVars == <<vars, mctsVars, baselineVars, circuitVars>>

MCInit ==
    \/ Init /\ MctsOver /\ BaselineOver /\ CircuitOver
    \/ SymmetricOver /\ Mcts!Init /\ BaselineOver /\ CircuitOver
    \/ SymmetricOver /\ MctsOver /\ Baseline!BaselineInit /\ CircuitOver
    \/ SymmetricOver /\ MctsOver /\ BaselineOver /\ Circuits!RewriteInit
MCNext ==
    \/ Next /\ UNCHANGED <<mctsVars, baselineVars, circuitVars>>
    \/ Mcts!Next /\ UNCHANGED <<vars, baselineVars, circuitVars>>
    \/ Baseline!BaselineNext /\ UNCHANGED <<vars, mctsVars, circuitVars>>
    \/ Circuits!RewriteNext /\ UNCHANGED <<vars, mctsVars, baselineVars>>

AllOver ==
    /\ state \in {"Done", "Failed"} /\ Mcts!Ended /\ earlier = <<>>
    /\ Baseline!BaselinesOver /\ Circuits!RewritesOver

\* As in SymmetricSearch: a driver keeps polling its episode and answers the
\* work it is handed until the episode is over; a baseline is one call.
MCFairness == <>[]AllOver \/ []<><<MCNext>>_AllVars
MCSpec == MCInit /\ [][MCNext]_AllVars /\ MCFairness

\* The tree of a symmetric search describes the graphs it was grown from, and
\* no search goes back to an earlier root it was told to avoid: the parity of
\* the players and the roots met survive the reuse of a subtree.
TreeSound == TreeTrue /\ NeverBack

\* Whatever the search, the references it holds are exactly the ones the engine
\* counts, so that nothing is released twice and nothing is left behind: the
\* symmetric episode and its driver, the single-agent one and its caller, and
\* the baselines, whose handles an error drops.  The handles and the caches of
\* the engine always name what they were made for, although slots are reused as
\* soon as a move frees them (see MctsEpisode).
ReferencesSound ==
    /\ HandlesOwned /\ Mcts!ReferencesBalance /\ Baseline!BaselineReferences
    /\ Mcts!HandlesTrue /\ Mcts!CachesTrue

\* A symmetric search can follow its schedule and fails only where nothing can
\* be played, and the action a single-agent root elects was searched (see
\* SymmetricSearch, MctsEpisode).
ElectionsSound == ScheduleFollowable /\ FailsOnlyAtDeadEnd /\ Mcts!ElectionsSearched

\* The baselines keep their promises (see BaselineSearch).
BaselinesSound == Baseline!BaselinesSound

\* The rewrites a search chooses from are sound (see WhittleRules).
RewritesSound == Circuits!RewritesSound

\* Every episode of either kind ends, and what it used is given back.
SearchEnds == <>AllOver
=============================================================================
