--------------------------- MODULE MCReplayStore ---------------------------
(***************************************************************************)
(* Contracts and finished perspectives for checking ReplayStore.           *)
(***************************************************************************)
EXTENDS ReplayStore, TLC

Contract(mode, identity, epsilon, scale) ==
    [mode |-> mode, identity |-> identity, schema |-> "v1",
     epsilon |-> epsilon, scale |-> scale]

(* A hard contract, a graded one of another engine that offers STOP, one   *)
(* that is malformed, and distillation's.                                  *)
MCContracts ==
    {Contract("symmetric", "e1", 0, 0), Contract("symmetric_stop", "e2", 0, 1),
     Contract("symmetric", "e1", 1, 1), Contract("standard", "e1", None, None)}

Perspective(reward) == [steps |-> 1, stopped |-> FALSE, terminal |-> TRUE, reward |-> reward]

(* A game that player one wins, and one whose second side was not measured. *)
MCGames == {<<Perspective(1), Perspective(0)>>, <<Perspective(1), Perspective(None)>>}

(* A distilled state: one decision and no terminal row. *)
MCExamples == {[Perspective(0) EXCEPT !.terminal = FALSE]}

(* Sessions are interchangeable: nothing tells one from another. *)
SessionSymmetry == Permutations(Sessions)

=============================================================================
