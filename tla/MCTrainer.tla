------------------------------ MODULE MCTrainer ------------------------------
(***************************************************************************)
(* Run configurations for checking Trainer.                                *)
(***************************************************************************)
EXTENDS Trainer

Base ==
    [total |-> 3, batch |-> 1, value |-> 0, reuse |-> <<1, 1>>, gate |-> 1,
     episodes |-> 0, publish |-> 1, permanent |-> 0, lag |-> 0, backlog |-> 2,
     startup |-> 1, log |-> 1, prefetch |-> TRUE, parallel |-> FALSE]

MCConfigs ==
    { \* parallel value sampling, publication behind a gate of two steps
      [Base EXCEPT !.total = 4, !.value = 1, !.gate = 2, !.publish = 2, !.lag = 1,
                   !.parallel = TRUE, !.log = 2],
      \* batches of two rows; milestones between publications
      [Base EXCEPT !.batch = 2, !.value = 1, !.publish = 2, !.permanent = 3, !.log = 3,
                   !.backlog = 3],
      \* accepted by _validate although the service refuses the value batch
      [Base EXCEPT !.value = 2],
      \* no prefetcher, a gate on games, the last step is not due
      [Base EXCEPT !.prefetch = FALSE, !.value = 1, !.reuse = <<2, 1>>, !.episodes = 1,
                   !.publish = 2],
      \* accepted by _validate although each row may be used half a time
      [Base EXCEPT !.reuse = <<1, 2>>] }

=============================================================================
