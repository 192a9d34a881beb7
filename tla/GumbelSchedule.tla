--------------------------- MODULE GumbelSchedule ---------------------------
(* The sequential-halving schedule both Gumbel searches follow at a root. *)
EXTENDS Naturals, Sequences, SequencesExt

CeilLog2(n) == CHOOSE k \in 0..n : 2^k >= n /\ (k = 0 \/ 2^(k - 1) < n)

\* The visit counts sequential halving aims at, simulation by simulation.
considered_visit_sequence(n, sims) ==
    LET Visit(acc, i) ==
            [acc EXCEPT !.seq = @ \o SubSeq(acc.visits, 1, acc.considered),
                        !.visits = [k \in 1..n |-> IF k <= acc.considered
                                                   THEN @[k] + 1 ELSE @[k]]]
        Halve(acc, i) ==
            IF Len(acc.seq) >= sims THEN acc
            ELSE LET share == sims \div (CeilLog2(n) * acc.considered)
                     extra == IF share > 1 THEN share ELSE 1
                 IN  [FoldLeft(Visit, acc, [k \in 1..extra |-> k])
                      EXCEPT !.considered = IF @ \div 2 > 2 THEN @ \div 2 ELSE 2]
        full == FoldLeft(Halve,
                         [seq |-> <<>>, visits |-> [k \in 1..n |-> 0], considered |-> n],
                         [k \in 1..sims |-> k])
    IN  IF n <= 1 THEN [i \in 1..sims |-> i - 1] ELSE SubSeq(full.seq, 1, sims)
=============================================================================
