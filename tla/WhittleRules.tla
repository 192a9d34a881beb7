----------------------------- MODULE WhittleRules -----------------------------
(***************************************************************************)
(* The circuits of gz-engine-whittle (graph.rs), the rewrite rules its     *)
(* engine offers on them (rules.rs) and the generator of roots             *)
(* (engine.rs): a generated root is a truth table written as a sum of      *)
(* products and walked away from by random rewrites, and a search rewrites *)
(* a root further.  Node ids count from 0, as in the code; the handles and *)
(* the caches of the engine are in WhittleArena.                           *)
(***************************************************************************)
EXTENDS Integers, Sequences, FiniteSets, SequencesExt

CONSTANTS
    RootCases,   \* where a circuit comes from, and how it is rewritten: the
                 \* field rewrites bounds the rewrites of the search
    None

VARIABLES
    source,        \* the root case
    circuit,       \* the circuit, None if the code answered with an error
    walk           \* the progress of the rewriting

rewriteVars == <<source, circuit, walk>>

-----------------------------------------------------------------------------
(* Circuits: graph.rs *)

NO_NODE == -1   \* u32::MAX, never the id of a node
OpCode == {"Input", "Const", "And", "Or", "Not", "Output"}
Gate == {"And", "Or"}

Node(op, a, b) == [op |-> op, arg0 |-> a, arg1 |-> b]
GraphBody(arity, capacity, output, nodes) ==
    [arity |-> arity, capacity |-> capacity, output_node |-> output, node |-> nodes]

Size(g) == Len(g.node)
Ids(g) == 0 .. Size(g) - 1
At(g, i) == g.node[i + 1]

children(g, i) ==
    CASE At(g, i).op \in {"Input", "Const"} -> {}
      [] At(g, i).op \in {"Not", "Output"} -> {At(g, i).arg0}
      [] OTHER -> {At(g, i).arg0, At(g, i).arg1}

\* GraphBody::input
InputNodes(arity) == [k \in 1..arity |-> Node("Input", k - 1, NO_NODE)]
input(arity, capacity, index) ==
    IF arity = 0 \/ index >= arity \/ capacity < arity + 1 THEN None
    ELSE GraphBody(arity, capacity, arity,
                   Append(InputNodes(arity), Node("Output", index, NO_NODE)))

validate(g) ==
    /\ Size(g) > 0 /\ g.capacity >= Size(g)
    /\ g.output_node \in Ids(g) /\ g.arity <= Size(g)
    /\ \A i \in 0 .. g.arity - 1 : At(g, i).op = "Input" /\ At(g, i).arg0 = i

\* The nodes on the stack of compact_graph at some time; an id that is no node
\* has no children.
ReachableFrom(g, start) ==
    LET step(s) == s \cup UNION {children(g, i) : i \in s \cap Ids(g)}
        met[k \in 0..Size(g)] == IF k = 0 THEN {start} ELSE step(met[k - 1])
    IN  met[Size(g)]
reachable(g) == ReachableFrom(g, g.output_node)

Renamed(g, nd, remap) ==
    CASE nd.op = "Input" -> Node("Input", nd.arg0, NO_NODE)
      [] nd.op = "Const" -> Node("Const", IF nd.arg0 # 0 THEN 1 ELSE 0, NO_NODE)
      [] nd.op \in {"Not", "Output"} -> Node(nd.op, remap[nd.arg0], NO_NODE)
      [] OTHER -> Node(nd.op, remap[nd.arg0], remap[nd.arg1])

\* The kept nodes keep their order.
Compacted(g, keep) ==
    LET olds == SelectSeq([k \in 1..Size(g) |-> k - 1], LAMBDA i : i \in keep)
        remap == [i \in keep |-> Cardinality({k \in keep : k < i})]
    IN  GraphBody(g.arity, g.capacity, remap[g.output_node],
                  [k \in DOMAIN olds |-> Renamed(g, At(g, olds[k]), remap)])

compact_graph(g) ==
    IF ~validate(g) \/ ~(reachable(g) \subseteq Ids(g)) THEN None
    ELSE LET keep == (0 .. g.arity - 1) \cup reachable(g)
         IN  IF keep = Ids(g) THEN g ELSE Compacted(g, keep)

-----------------------------------------------------------------------------
(* What a circuit computes: the reference the rewrites are held against *)

\* The nodes all of whose operands bottom out: every node, unless there is a cycle.
Grounded(g) ==
    LET up[k \in 0..Size(g)] ==
            IF k = 0 THEN {}
            ELSE LET before == up[k - 1] IN {i \in Ids(g) : children(g, i) \subseteq before}
    IN  up[Size(g)]
Acyclic(g) == Grounded(g) = Ids(g)

HoldsIn(g, i, trues, assignment) ==
    LET nd == At(g, i)
    IN  CASE nd.op = "Input" -> nd.arg0 \in assignment
          [] nd.op = "Const" -> nd.arg0 # 0
          [] nd.op = "Not" -> nd.arg0 \notin trues
          [] nd.op = "Output" -> nd.arg0 \in trues
          [] nd.op = "And" -> nd.arg0 \in trues /\ nd.arg1 \in trues
          [] nd.op = "Or" -> nd.arg0 \in trues \/ nd.arg1 \in trues

\* The assignments, given as the set of inputs that are true, for which the
\* output of an acyclic circuit is true: the signals settle in Size(g) rounds.
TruthTable(g) ==
    {assignment \in SUBSET (0 .. g.arity - 1) :
       LET settle[k \in 0..Size(g)] ==
               IF k = 0 THEN {}
               ELSE LET before == settle[k - 1]
                    IN  {i \in Ids(g) : HoldsIn(g, i, before, assignment)}
       IN  g.output_node \in settle[Size(g)]}

-----------------------------------------------------------------------------
(* The rules: rules.rs *)

\* The rules that mirror each other under duality, by the gate at their root.
RuleId ==
    [And |-> [false |-> "AndFalse", true |-> "AndTrue", idempotent |-> "AndIdempotent",
              complement |-> "AndComplement", commute |-> "CommuteAnd",
              left |-> "AssociateAndLeft", right |-> "AssociateAndRight",
              absorb |-> "AbsorbAndOr", not |-> "DeMorganNotAnd", nots |-> "DeMorganAndNots",
              factor |-> "DistributeAndFactor", expand |-> "DistributeOrExpand",
              add |-> "ConsensusAndAdd", remove |-> "ConsensusAndRemove",
              unfalse |-> "AndFalseInverse", untrue |-> "AndTrueInverse",
              repeat |-> "AndIdempotentInverse", contradict |-> "AndComplementInverse",
              cover |-> "AbsorbAndOrInverse"],
     Or  |-> [false |-> "OrFalse", true |-> "OrTrue", idempotent |-> "OrIdempotent",
              complement |-> "OrComplement", commute |-> "CommuteOr",
              left |-> "AssociateOrLeft", right |-> "AssociateOrRight",
              absorb |-> "AbsorbOrAnd", not |-> "DeMorganNotOr", nots |-> "DeMorganOrNots",
              factor |-> "DistributeOrFactor", expand |-> "DistributeAndExpand",
              add |-> "ConsensusOrAdd", remove |-> "ConsensusOrRemove",
              unfalse |-> "OrFalseInverse", untrue |-> "OrTrueInverse",
              repeat |-> "OrIdempotentInverse", contradict |-> "OrComplementInverse",
              cover |-> "AbsorbOrAndInverse"]]

Dual(op) == IF op = "And" THEN "Or" ELSE "And"
\* The constant a gate yields whatever its other operand.
Absorbing(op) == IF op = "And" THEN 0 ELSE 1

\* A candidate: the rule, the node it rewrites and the nodes it matched.
RawCandidate(rule, root, matched) == [rule |-> rule, root |-> root, matched |-> matched]

When(holds, candidate) == IF holds THEN <<candidate>> ELSE <<>>
\* F of each element of a sequence of at most two, one after the other.
Each(s, F(_)) == CASE s = <<>> -> <<>> [] Len(s) = 1 -> F(s[1]) [] OTHER -> F(s[1]) \o F(s[2])

\* The tables enumerate_graph fills in first.
Signal(g, i) == i \in Ids(g) /\ At(g, i).op # "Output"
const_signal(g, i) == IF At(g, i).op = "Const" THEN IF At(g, i).arg0 # 0 THEN 1 ELSE 0 ELSE -1
not_signal(g, i) ==
    IF At(g, i).op = "Not" /\ Signal(g, At(g, i).arg0) THEN At(g, i).arg0 ELSE NO_NODE
is_pair(g, i, op) == At(g, i).op = op /\ Signal(g, At(g, i).arg0) /\ Signal(g, At(g, i).arg1)
first_const(g, value) ==
    LET found == {i \in Ids(g) : const_signal(g, i) = value}
    IN  IF found = {} THEN NO_NODE ELSE CHOOSE i \in found : \A k \in found : i <= k

\* The operands of a gate, in either order, an order that repeats left out ...
orders(g, i, op) ==
    IF ~is_pair(g, i, op) THEN <<>>
    ELSE LET x == At(g, i).arg0
             y == At(g, i).arg1
         IN  IF x = y THEN <<<<x, x>>>> ELSE <<<<x, y>>, <<y, x>>>>
\* ... and as the factoring and the consensus-removal loops take them: their
\* test for a repeated order holds of both orders of a gate of one operand.
distinct_orders(g, i, op) == IF Len(orders(g, i, op)) = 2 THEN orders(g, i, op) ELSE <<>>

binary_of(g, i, op, x, y) == \E s \in Range(orders(g, i, op)) : s = <<x, y>>

\* The operands a, b of one term and not a, c of another: F(a, b, c, not a).
Crossed(g, one, other, op, F(_, _, _, _)) ==
    Each(orders(g, one, op), LAMBDA p : Each(orders(g, other, op), LAMBDA q :
       IF not_signal(g, q[1]) = p[1] THEN F(p[1], p[2], q[2], q[1]) ELSE <<>>))

consensus_add_bindings(g, r, op, s) ==
    Crossed(g, s[1], s[2], Dual(op), LAMBDA x, y, z, not_x :
       <<RawCandidate(RuleId[op].add, r, <<s[1], s[2], x, y, z, not_x>>)>>)

consensus_remove_bindings(g, r, op, s) ==
    Each(distinct_orders(g, s[1], op), LAMBDA inner :
       Crossed(g, inner[1], inner[2], Dual(op), LAMBDA x, y, z, not_x :
          When(binary_of(g, s[2], Dual(op), y, z),
               RawCandidate(RuleId[op].remove, r, <<s[1], s[2], inner[1], inner[2], x, y, z>>))))

ConsensusRules(g, r, op, sides) ==
    Each(sides, LAMBDA s : consensus_add_bindings(g, r, op, s))
    \o Each(sides, LAMBDA s : consensus_remove_bindings(g, r, op, s))

\* A gate with a constant operand s[1].
ConstantRules(g, r, op, s) ==
    LET value == const_signal(g, s[1])
        rule == IF value = 0 THEN RuleId[op].false ELSE RuleId[op].true
    IN  When(value # -1,
             RawCandidate(rule, r, IF value = Absorbing(op) THEN <<s[1]>> ELSE s))

\* A gate whose operand s[2] is the dual gate: absorption and distribution.
DualRules(g, r, op, s) ==
    IF ~is_pair(g, s[2], Dual(op)) THEN <<>>
    ELSE Each(orders(g, s[2], Dual(op)), LAMBDA p :
              When(p[1] = s[1], RawCandidate(RuleId[op].absorb, r, <<s[1], s[2], p[2]>>)))
         \o <<RawCandidate(RuleId[op].expand, r,
                           <<s[2], s[1], At(g, s[2]).arg0, At(g, s[2]).arg1>>)>>

AssociateRules(g, r, op, x, y) ==
    When(is_pair(g, x, op), RawCandidate(RuleId[op].right, r,
                                         <<x, At(g, x).arg0, At(g, x).arg1, y>>))
    \o When(is_pair(g, y, op), RawCandidate(RuleId[op].left, r,
                                            <<y, x, At(g, y).arg0, At(g, y).arg1>>))

FactorRules(g, r, op, x, y) ==
    Each(distinct_orders(g, x, Dual(op)), LAMBDA p :
       Each(distinct_orders(g, y, Dual(op)), LAMBDA q :
          When(p[1] = q[1], RawCandidate(RuleId[op].factor, r, <<x, y, p[1], p[2], q[2]>>))))

\* What the first pass offers at a gate with operands x and y.
BinaryRules(g, r, op, x, y) ==
    LET sides == orders(g, r, op)
    IN  Each(sides, LAMBDA s : ConstantRules(g, r, op, s))
        \o When(x = y, RawCandidate(RuleId[op].idempotent, r, <<x>>))
        \o Each(sides, LAMBDA s : When(not_signal(g, s[2]) = s[1],
                                       RawCandidate(RuleId[op].complement, r, s)))
        \o <<RawCandidate(RuleId[op].commute, r, <<x, y>>)>>
        \o AssociateRules(g, r, op, x, y)
        \o Each(sides, LAMBDA s : DualRules(g, r, op, s))
        \o When(not_signal(g, x) # NO_NODE /\ not_signal(g, y) # NO_NODE,
                RawCandidate(RuleId[op].nots, r, <<x, y, not_signal(g, x), not_signal(g, y)>>))
        \o FactorRules(g, r, op, x, y)
        \o ConsensusRules(g, r, op, sides)

\* ... and at a negation of x.
NotRules(g, r, x) ==
    When(const_signal(g, x) = 0, RawCandidate("NotFalse", r, <<x>>))
    \o When(const_signal(g, x) = 1, RawCandidate("NotTrue", r, <<x>>))
    \o When(not_signal(g, x) # NO_NODE, RawCandidate("DoubleNegation", r, <<x, not_signal(g, x)>>))
    \o Each(<<"And", "Or">>, LAMBDA op :
         When(is_pair(g, x, op),
              RawCandidate(RuleId[op].not, r, <<x, At(g, x).arg0, At(g, x).arg1>>)))

\* What the second pass offers at every node but the output: rules that grow
\* the circuit, with the constants that are at hand and, for a constant, every
\* pair of a node and its negation.
InverseRules(g, r) ==
    LET false_const == first_const(g, 0)
        true_const == first_const(g, 1)
        op == IF const_signal(g, r) = 0 THEN "And" ELSE "Or"
        witnesses == SelectSeq([k \in 1..Size(g) |-> k - 1], LAMBDA w : not_signal(g, w) # NO_NODE)
    IN  <<RawCandidate("AndIdempotentInverse", r, <<>>), RawCandidate("OrIdempotentInverse", r, <<>>),
          RawCandidate("DoubleNegationInverse", r, <<>>),
          RawCandidate("AbsorbOrAndInverse", r, <<r>>), RawCandidate("AbsorbAndOrInverse", r, <<r>>)>>
        \o When(true_const # NO_NODE, RawCandidate("AndTrueInverse", r, <<true_const>>))
        \o When(false_const # NO_NODE, RawCandidate("OrFalseInverse", r, <<false_const>>))
        \o IF const_signal(g, r) = -1 THEN <<>>
           ELSE <<RawCandidate(IF op = "And" THEN "AndFalseInverse" ELSE "OrTrueInverse", r, <<r>>)>>
                \o When(op = "And" /\ true_const # NO_NODE,
                        RawCandidate("NotTrueInverse", r, <<true_const>>))
                \o When(op = "Or" /\ false_const # NO_NODE,
                        RawCandidate("NotFalseInverse", r, <<false_const>>))
                \o [k \in DOMAIN witnesses |->
                      RawCandidate(RuleId[op].contradict, r,
                                   <<not_signal(g, witnesses[k]), witnesses[k]>>)]

FirstPass(g, r) ==
    LET nd == At(g, r)
    IN  CASE nd.op \in Gate /\ is_pair(g, r, nd.op) -> BinaryRules(g, r, nd.op, nd.arg0, nd.arg1)
          [] nd.op = "Not" /\ not_signal(g, r) # NO_NODE -> NotRules(g, r, nd.arg0)
          [] OTHER -> <<>>
SecondPass(g, r) == IF At(g, r).op = "Output" THEN <<>> ELSE InverseRules(g, r)

reverse_constant_folding_rule(rule) ==
    rule \in {"AndFalseInverse", "AndTrueInverse", "OrFalseInverse", "OrTrueInverse",
              "NotFalseInverse", "NotTrueInverse"}

\* The nodes a rule appends.
replacement_extra_nodes(rule) ==
    CASE rule \in {"AndFalse", "AndTrue", "OrFalse", "OrTrue", "AndIdempotent", "OrIdempotent",
                   "AbsorbOrAnd", "AbsorbAndOr", "ConsensusOrRemove", "ConsensusAndRemove",
                   "DoubleNegation"} -> 0
      [] \/ reverse_constant_folding_rule(rule)
         \/ rule \in {"AndIdempotentInverse", "OrIdempotentInverse", "AndComplementInverse",
                      "OrComplementInverse", "NotFalse", "NotTrue", "AndComplement",
                      "OrComplement", "CommuteAnd", "CommuteOr"} -> 1
      [] rule \in {"DoubleNegationInverse", "AbsorbOrAndInverse", "AbsorbAndOrInverse",
                   "AssociateAndLeft", "AssociateAndRight", "AssociateOrLeft",
                   "AssociateOrRight", "DeMorganOrNots", "DeMorganAndNots",
                   "DistributeOrFactor", "DistributeAndFactor", "ConsensusOrAdd",
                   "ConsensusAndAdd"} -> 2
      [] OTHER -> 3

\* Builder::add: what may be added, and only once ...
admissible(g, reverse, candidate) ==
    /\ reverse \/ ~reverse_constant_folding_rule(candidate.rule)
    /\ replacement_extra_nodes(candidate.rule) <= g.capacity - Size(g)
Unseen(s) ==
    LET firsts == SelectSeq([k \in DOMAIN s |-> k], LAMBDA k : \A j \in 1 .. k - 1 : s[j] # s[k])
    IN  [k \in DOMAIN firsts |-> s[firsts[k]]]
\* ... until the limit is reached.
Limited(s, limit) == IF limit = None \/ Len(s) <= limit THEN s ELSE SubSeq(s, 1, limit)

Offered(g) ==
    FlattenSeq([k \in 1..Size(g) |-> FirstPass(g, k - 1)])
    \o FlattenSeq([k \in 1..Size(g) |-> SecondPass(g, k - 1)])

enumerate_graph_limited(g, reverse, limit) ==
    Limited(Unseen(SelectSeq(Offered(g), LAMBDA c : admissible(g, reverse, c))), limit)

-----------------------------------------------------------------------------
(* Applying a candidate *)

\* The nodes appended for a candidate and the node that takes the root's place;
\* n is the id of the first node appended.
build_replacement(candidate, n) ==
    LET rule == candidate.rule
        r == candidate.root
        m == candidate.matched
        Is(field) == \E op \in Gate : rule = RuleId[op][field]
        \* the gate a rule is named for
        gate(field) == CHOOSE op \in Gate : rule = RuleId[op][field]
        Existing(i) == [nodes |-> <<>>, id |-> i]
        New(nodes) == [nodes |-> nodes, id |-> n + Len(nodes) - 1]
        Not(x) == Node("Not", x, NO_NODE)
    IN  CASE rule \in {"AndFalse", "OrTrue"} -> Existing(m[1])
          [] rule \in {"AndTrue", "OrFalse", "DoubleNegation"} -> Existing(m[2])
          [] Is("idempotent") \/ Is("absorb") \/ Is("remove") -> Existing(m[1])
          [] rule \in {"AndFalseInverse", "OrTrueInverse"} ->
                New(<<Node(IF rule = "AndFalseInverse" THEN "And" ELSE "Or", m[1], r)>>)
          [] rule \in {"AndTrueInverse", "OrFalseInverse"} ->
                New(<<Node(IF rule = "AndTrueInverse" THEN "And" ELSE "Or", r, m[1])>>)
          [] rule \in {"NotFalseInverse", "NotTrueInverse"} -> New(<<Not(m[1])>>)
          [] Is("repeat") -> New(<<Node(gate("repeat"), r, r)>>)
          [] Is("contradict") -> New(<<Node(gate("contradict"), m[1], m[2])>>)
          [] rule = "DoubleNegationInverse" -> New(<<Not(r), Not(n)>>)
          [] Is("cover") -> New(<<Node(Dual(gate("cover")), r, m[1]), Node(gate("cover"), r, n)>>)
          [] rule \in {"NotFalse", "OrComplement"} -> New(<<Node("Const", 1, NO_NODE)>>)
          [] rule \in {"NotTrue", "AndComplement"} -> New(<<Node("Const", 0, NO_NODE)>>)
          [] Is("commute") -> New(<<Node(gate("commute"), m[2], m[1])>>)
          [] Is("left") -> New(<<Node(gate("left"), m[2], m[3]), Node(gate("left"), n, m[4])>>)
          [] Is("right") -> New(<<Node(gate("right"), m[3], m[4]), Node(gate("right"), m[2], n)>>)
          [] Is("not") -> New(<<Not(m[2]), Not(m[3]), Node(Dual(gate("not")), n, n + 1)>>)
          [] Is("nots") -> New(<<Node(Dual(gate("nots")), m[3], m[4]), Not(n)>>)
          [] Is("factor") ->
                New(<<Node(gate("factor"), m[4], m[5]), Node(Dual(gate("factor")), m[3], n)>>)
          [] Is("expand") ->
                New(<<Node(gate("expand"), m[2], m[3]), Node(gate("expand"), m[2], m[4]),
                      Node(Dual(gate("expand")), n, n + 1)>>)
          [] Is("add") ->
                New(<<Node(Dual(gate("add")), m[4], m[5]), Node(gate("add"), r, n)>>)

\* The operands that named the root name its replacement; the appended nodes
\* still name the root.
Redirected(nd, r, id) ==
    [nd EXCEPT !.arg0 = IF nd.op \in {"And", "Or", "Not", "Output"} /\ @ = r THEN id ELSE @,
               !.arg1 = IF nd.op \in Gate /\ @ = r THEN id ELSE @]

\* Mutant: the operands of the appended nodes are redirected too.
apply_graph_RedirectsAll(g, candidate) ==
    LET built == build_replacement(candidate, Size(g))
        nodes == g.node \o built.nodes
    IN  compact_graph([g EXCEPT !.node =
           [k \in DOMAIN nodes |-> Redirected(nodes[k], candidate.root, built.id)]])

apply_graph(g, candidate) ==
    IF ~({candidate.root} \cup Range(candidate.matched) \subseteq Ids(g)) THEN None
    ELSE LET built == build_replacement(candidate, Size(g))
             redirected == [k \in 1..Size(g) |-> Redirected(g.node[k], candidate.root, built.id)]
         IN  IF Size(g) + Len(built.nodes) > g.capacity THEN None
             ELSE compact_graph([g EXCEPT !.node = redirected \o built.nodes])

-----------------------------------------------------------------------------
(* The generator of roots: engine.rs *)

valid_config(k) ==
    /\ k.arity \in 1..16 /\ k.capacity >= k.arity + 1
    /\ k.exception_terms_min <= k.exception_terms_max /\ k.exception_terms_max # 0
    /\ k.prewalk_steps_min <= k.prewalk_steps_max

\* The assignments that may be drawn: distinct ones, in every order.
sample_assignments(arity, count) ==
    {s \in [1..count -> SUBSET (0 .. arity - 1)] : \A i, j \in 1..count : s[i] = s[j] => i = j}

AtMost(x, y) == IF x <= y THEN x ELSE y
term_counts(k) ==
    LET max_terms == AtMost(k.exception_terms_max, (2 ^ k.arity) \div 2)
    IN  AtMost(k.exception_terms_min, max_terms) .. max_terms

\* One literal joins the product under construction; negations are shared.
AddLiteral(acc, var, assignment) ==
    LET fresh == var \notin assignment /\ acc.neg_ref[var] = NO_NODE
        nodes == IF fresh THEN Append(acc.nodes, Node("Not", var, NO_NODE)) ELSE acc.nodes
        literal == IF var \in assignment THEN var
                   ELSE IF fresh THEN Len(acc.nodes) ELSE acc.neg_ref[var]
    IN  [acc EXCEPT !.nodes = IF acc.term = NO_NODE THEN nodes
                              ELSE Append(nodes, Node("And", acc.term, literal)),
                    !.neg_ref[var] = IF fresh THEN literal ELSE @,
                    !.term = IF acc.term = NO_NODE THEN literal ELSE Len(nodes)]

AddTerm(acc, assignment) ==
    LET done == FoldLeft(LAMBDA x, var : AddLiteral(x, var, assignment),
                         [acc EXCEPT !.term = NO_NODE], SetToSortSeq(DOMAIN acc.neg_ref, <))
    IN  [done EXCEPT !.nodes = IF done.dnf = NO_NODE THEN @
                               ELSE Append(@, Node("Or", done.dnf, done.term)),
                     !.dnf = IF @ = NO_NODE THEN done.term ELSE Len(done.nodes)]

\* The sum of the products of the selected assignments, negated if they are the
\* ones for which the table is false.
truth_table_seed(k, selected, exceptions_are_true) ==
    LET sum == FoldLeft(AddTerm,
                        [nodes |-> InputNodes(k.arity), dnf |-> NO_NODE, term |-> NO_NODE,
                         neg_ref |-> [v \in 0 .. k.arity - 1 |-> NO_NODE]], selected)
        body == IF exceptions_are_true THEN sum.nodes
                ELSE Append(sum.nodes, Node("Not", sum.dnf, NO_NODE))
        root == IF exceptions_are_true THEN sum.dnf ELSE Len(sum.nodes)
    IN  IF Len(body) + 1 > k.capacity THEN None
        ELSE compact_graph(GraphBody(k.arity, k.capacity, Len(body),
                                     Append(body, Node("Output", root, NO_NODE))))

InversePairs ==
    UNION {{<<RuleId[op].false, RuleId[op].unfalse>>, <<RuleId[op].true, RuleId[op].untrue>>,
            <<RuleId[op].idempotent, RuleId[op].repeat>>,
            <<RuleId[op].complement, RuleId[op].contradict>>,
            <<RuleId[op].commute, RuleId[op].commute>>, <<RuleId[op].left, RuleId[op].right>>,
            <<RuleId[op].absorb, RuleId[op].cover>>, <<RuleId[op].not, RuleId[Dual(op)].nots>>,
            <<RuleId[op].factor, RuleId[Dual(op)].expand>>,
            <<RuleId[op].add, RuleId[op].remove>>} : op \in Gate}
    \cup {<<"NotFalse", "NotFalseInverse">>, <<"NotTrue", "NotTrueInverse">>,
          <<"DoubleNegation", "DoubleNegationInverse">>}
inverse_rule_id(rule) ==
    LET pair == CHOOSE p \in InversePairs : rule \in {p[1], p[2]}
    IN  IF rule = pair[1] THEN pair[2] ELSE pair[1]

\* Every candidate has a positive weight, so that any may be drawn except the
\* ones that undo the last rule.
choose_prewalk_candidate(candidates, last_rule) ==
    {c \in Range(candidates) : last_rule = None \/ c.rule # inverse_rule_id(last_rule)}

-----------------------------------------------------------------------------
(* The machine *)

\* A node is replaced by a gate over a node and its negation which themselves
\* depend on it.
SelfWitness(g, candidate) ==
    /\ candidate.rule \in {"AndComplementInverse", "OrComplementInverse"}
    /\ candidate.root \in ReachableFrom(g, candidate.matched[2])

Phase(phase) == walk.phase = phase
Stopped(phase) == [walk EXCEPT !.phase = phase, !.left = 0]

RewriteIdle(phase) ==
    /\ circuit = None
    /\ walk = [phase |-> phase, left |-> 0, last_rule |-> None, tangled |-> FALSE, table |-> {}]
RewriteInit == source \in RootCases /\ RewriteIdle("start")

\* The root is ready to be rewritten, or refused.
Ready(g, phase, left, table) ==
    /\ circuit' = g
    /\ walk' = IF g = None THEN Stopped("refused")
               ELSE [walk EXCEPT !.phase = phase, !.left = left, !.table = table]

\* The start of sample_with_created_graphs: the random choices, and the seed.
\* The configuration may ask for no exception terms: the expect on the empty
\* sum of products then panics.
SampleSeed ==
    /\ Phase("start") /\ source.kind = "generated"
    /\ UNCHANGED source
    /\ LET k == source.config
       IN  \/ ~valid_config(k) /\ circuit' = None /\ walk' = Stopped("refused")
           \/ /\ valid_config(k)
              /\ \E count \in term_counts(k), exceptions_are_true \in BOOLEAN,
                    steps \in k.prewalk_steps_min .. k.prewalk_steps_max :
                 \E selected \in sample_assignments(k.arity, count) :
                    IF count = 0 THEN circuit' = None /\ walk' = Stopped("panicked")
                    ELSE \E seed \in {truth_table_seed(k, selected, exceptions_are_true)} :
                           Ready(seed, "prewalk", steps,
                                 {x \in SUBSET (0 .. k.arity - 1) :
                                    exceptions_are_true <=> x \in Range(selected)})

\* WhittleEngine::new: the root is an input or a circuit read from an artifact.
LoadRoot ==
    /\ Phase("start") /\ source.kind # "generated"
    /\ UNCHANGED source
    /\ \/ /\ source.kind = "input"
          /\ Ready(input(source.arity, source.capacity, source.index), "search", source.rewrites,
                   {x \in SUBSET (0 .. source.arity - 1) : source.index \in x})
       \/ /\ source.kind = "artifact"
          /\ Ready(compact_graph(source.graph), "search", source.rewrites,
                   IF validate(source.graph) THEN TruthTable(source.graph) ELSE {})

\* A candidate is applied; an error would end the episode.
Apply(candidate) ==
    \E after \in {apply_graph(circuit, candidate)} :
       /\ circuit' = after
       /\ walk' = IF after = None THEN Stopped("failed")
                  ELSE [walk EXCEPT !.left = @ - 1, !.last_rule = candidate.rule,
                                    !.tangled = @ \/ SelfWitness(circuit, candidate)]

Prewalk ==
    /\ Phase("prewalk") /\ UNCHANGED source
    /\ \E candidates \in {choose_prewalk_candidate(enumerate_graph_limited(circuit, TRUE, None),
                                                   walk.last_rule)} :
         IF walk.left = 0 \/ candidates = {}
         THEN walk' = [walk EXCEPT !.phase = "search", !.left = source.rewrites] /\ UNCHANGED circuit
         ELSE \E candidate \in candidates : Apply(candidate)

\* A search applies what it likes of what the engine offers, up to a limit.
Rewrite ==
    /\ Phase("search") /\ walk.left > 0 /\ UNCHANGED source
    /\ \E candidates \in {Range(enumerate_graph_limited(circuit, source.reverse, source.limit))} :
         \/ \E candidate \in candidates : Apply(candidate)
         \/ candidates = {} /\ walk' = Stopped("search") /\ UNCHANGED circuit

RewritesOver == walk.left = 0 /\ ~Phase("start") /\ ~Phase("prewalk")
RewriteNext == SampleSeed \/ LoadRoot \/ Prewalk \/ Rewrite

-----------------------------------------------------------------------------
(* Properties *)

\* Every rewrite a generator or a search can be offered applies, within the
\* capacity, and leaves a compact circuit without cycles that computes the
\* table it was made for: the reward only counts nodes, so nothing else notices
\* a wrong rule.  Two things are left out, which the code does not exclude: a
\* constant replaced by a gate over nodes that depend on that constant, and a
\* generator that draws no exception term.
RewritesSound ==
    /\ ~Phase("failed")
    /\ Phase("panicked") => source.config.exception_terms_min = 0
    /\ circuit # None /\ ~walk.tangled =>
         /\ validate(circuit) /\ Acyclic(circuit)
         /\ \A i \in Ids(circuit) : \A k \in children(circuit, i) : Signal(circuit, k)
         /\ Ids(circuit) = (0 .. circuit.arity - 1) \cup reachable(circuit)
         /\ TruthTable(circuit) = walk.table
=============================================================================
