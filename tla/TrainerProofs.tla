--------------------------- MODULE TrainerProofs ---------------------------
(***************************************************************************)
(* Proofs about Trainer, for every accepted configuration, every step a    *)
(* run can start from, any number of games and any pattern of failures.    *)
(***************************************************************************)
EXTENDS Trainer, TLAPS

-----------------------------------------------------------------------------
(* Arithmetic of the reuse gate.                                           *)

(* CeilDiv rounds up. *)
LEMMA RoundsUp ==
  ASSUME NEW a \in Nat, NEW b \in Nat \ {0}
  PROVE  CeilDiv(a, b) \in Nat /\ a <= b * CeilDiv(a, b)
BY DEF CeilDiv

(* The end of a block is past every step of the block. *)
LEMMA BlockEnd ==
  ASSUME NEW step \in Nat, NEW gate \in Nat \ {0}
  PROVE  /\ (step \div gate + 1) * gate \in Nat
         /\ step + 1 <= (step \div gate + 1) * gate
<1>1. step \div gate \in Nat
  OBVIOUS
<1>2. (step \div gate + 1) * gate \in Nat
  BY <1>1
<1>3. step + 1 <= (step \div gate + 1) * gate
  OBVIOUS
<1> QED BY <1>2, <1>3

(* A product of natural numbers grows with its factor. *)
LEMMA Grows ==
  ASSUME NEW a \in Nat, NEW b \in Nat, NEW c \in Nat, a <= b
  PROVE  a * c <= b * c /\ c * a <= c * b /\ a * c \in Nat /\ c * a \in Nat
OBVIOUS

(* What _validate says of the fields the proofs use. *)
LEMMA Validated ==
  ASSUME TypeOK
  PROVE  /\ config.batch \in Nat \ {0} /\ config.value \in Nat
         /\ config.gate \in Nat \ {0}
         /\ config.reuse[1] \in Nat /\ config.reuse[2] \in Nat \ {0}
         /\ config.total \in Nat \ {0}
         /\ config.prefetch \in BOOLEAN
         /\ Larger(config.batch, config.value) \in Nat
         /\ config.batch <= Larger(config.batch, config.value)
         /\ config.value <= Larger(config.batch, config.value)
<1>1. /\ config.batch \in Int /\ config.value \in Int /\ config.gate \in Int
      /\ config.reuse[1] \in Int /\ config.reuse[2] \in Int /\ config.total \in Int
      /\ config.prefetch \in BOOLEAN
  BY DEF TypeOK, Fields
<1>2. /\ config.batch >= 1 /\ config.value >= 0 /\ config.gate >= 1
      /\ config.reuse[1] >= 0 /\ config.reuse[2] >= 1
      /\ start \in Nat /\ start < config.total
  BY DEF TypeOK, _validate, validate_intervals, validate_gates
<1> QED BY <1>1, <1>2 DEF Larger

(* Rows that satisfy the gate pay for the step. *)
LEMMA GatePays ==
  ASSUME TypeOK, config.reuse[1] # 0, NEW step \in Nat, NEW b \in Nat,
         NEW rows \in Int, rows >= required_produced_rows(step, b), rows <= store.produced
  PROVE  Paid(step, b)
<1> DEFINE num == config.reuse[1]
           den == config.reuse[2]
           end == (step \div config.gate + 1) * config.gate
           need == CeilDiv(end * b * den, num)
<1>1. num \in Nat \ {0} /\ den \in Nat \ {0} /\ config.gate \in Nat \ {0} /\ store.produced \in Int
  BY Validated DEF TypeOK, Store
<1>2. end \in Nat /\ step + 1 <= end
  BY <1>1, BlockEnd
<1>3. required_produced_rows(step, b) = need
  BY DEF required_produced_rows
<1> HIDE DEF num, den, end
<1>4. (step + 1) * b <= end * b /\ (step + 1) * b \in Nat /\ end * b \in Nat
  BY <1>2, Grows
<1>5. (step + 1) * b * den <= end * b * den /\ end * b * den \in Nat
  BY <1>1, <1>4, Grows
<1>6. need \in Nat /\ end * b * den <= num * need
  BY <1>1, <1>5, RoundsUp
<1> HIDE DEF need
<1>7. need <= store.produced /\ store.produced \in Nat
  BY <1>1, <1>3, <1>6
<1>8. num * need <= num * store.produced
  BY <1>1, <1>6, <1>7, Grows
<1>9. (step + 1) * b * den \in Nat /\ num * need \in Nat /\ num * store.produced \in Nat
  BY <1>1, <1>4, <1>6, <1>7, Grows
<1>10. (step + 1) * b * den <= num * store.produced
  BY <1>5, <1>6, <1>8, <1>9
<1> QED BY <1>10 DEF Paid, num, den

(* What is paid for stays so while rows are only added. *)
LEMMA StaysPaid ==
  ASSUME TypeOK, RowsPaid, config' = config, store'.produced \in Int,
         store.produced <= store'.produced,
         NEW s \in Nat, NEW b \in Nat, Paid(s, b)
  PROVE  Paid(s, b)'
<1>0. config.reuse[2] \in Nat /\ config.reuse[1] \in Nat
  BY Validated
<1>1. /\ store.produced \in Nat /\ store'.produced \in Nat
      /\ (s + 1) * b * config.reuse[2] \in Int
  BY <1>0 DEF RowsPaid, TypeOK, Store
<1>2. config.reuse[1] * store.produced <= config.reuse[1] * store'.produced
  BY <1>0, <1>1, Grows
<1>3. config.reuse[1] * store.produced \in Int /\ config.reuse[1] * store'.produced \in Int
  BY <1>0, <1>1
<1>4. (s + 1) * b * config.reuse[2] <= config.reuse[1] * store.produced
  BY DEF Paid
<1>5. (s + 1) * b * config.reuse[2] <= config.reuse[1] * store'.produced
  BY <1>1, <1>2, <1>3, <1>4
<1> QED BY <1>5 DEF Paid

-----------------------------------------------------------------------------
(* Steps of one kind, together.                                              *)

(* The phases do not overlap. *)
LEMMA Phases ==
  /\ \A pc \in UnderWay : pc \notin Leaving
  /\ \A pc \in Looping : pc \in UnderWay /\ pc \notin Starting /\ pc # "final" /\ pc # "prepare"
  /\ \A pc \in Starting : pc \in UnderWay /\ pc \notin Looping /\ pc # "final"
  /\ "prepare" \in Starting /\ "spawn" \in Starting /\ "ready" \in Starting
  /\ "check" \in Looping /\ "gate" \in Looping /\ "pending" \in Looping /\ "next" \in Looping
  /\ "sample" \in Looping /\ "train" \in Looping /\ "log" \in Looping /\ "due" \in Looping
  /\ "final" \in UnderWay /\ "final" \notin Looping /\ "final" \notin Starting
  /\ "stop" \in Leaving /\ "kill" \in Leaving /\ "join" \in Leaving /\ "ended" \in Leaving
  /\ Looping \cup Starting \cup Leaving \cup {"final"} = UnderWay \cup Leaving
BY DEF Starting, Looping, Leaving, UnderWay

(* RowsPaid after a step, from what was paid for before it. *)
LEMMA PaidKept ==
  ASSUME TrainerInductive, UNCHANGED <<config, start>>, store' \in Store,
         store.produced <= store'.produced,
         main' \in MainState, main'.rows <= store'.produced,
         config.reuse[1] # 0 /\ main'.pc \in {"pending", "next", "sample", "train"} =>
           Paid(main'.step, config.batch),
         config.reuse[1] # 0 /\ config.prefetch /\ main'.pc \in UnderWay =>
           \A s \in start..(IF pre'.pc \in {"sample", "put"} THEN pre'.step ELSE pre'.step - 1) :
             Paid(s, Larger(config.batch, config.value))
  PROVE  RowsPaid'
<1> USE DEF TrainerInductive
<1>0. store.produced \in Int /\ store.produced >= 0
  BY DEF Store, RowsPaid, TypeOK
<1>1. /\ store'.produced \in Int /\ store'.produced >= 0 /\ main'.step \in Nat
      /\ start \in Nat
  <2>1. store'.produced \in Int
    BY DEF Store
  <2>2. main'.step \in Nat /\ start \in Nat
    BY DEF MainState, TypeOK
  <2> QED BY <1>0, <2>1, <2>2
<1>2. config.batch \in Nat /\ Larger(config.batch, config.value) \in Nat
  BY Validated
<1>3. \A s \in Nat, b \in Nat : Paid(s, b) => Paid(s, b)'
  BY <1>1, StaysPaid
<1>4. config.reuse[1] # 0 /\ main'.pc \in {"pending", "next", "sample", "train"} =>
        Paid(main.step, config.batch)'
  <2> SUFFICES ASSUME config.reuse[1] # 0, main'.pc \in {"pending", "next", "sample", "train"}
               PROVE  Paid(main.step, config.batch)'
    OBVIOUS
  <2>1. PICK n \in Nat : n = main'.step
    BY <1>1
  <2>2. Paid(n, config.batch)
    BY <2>1
  <2>3. PICK b \in Nat : b = config.batch
    BY <1>2
  <2>4. Paid(n, b)'
    BY <1>3, <2>2, <2>3
  <2> QED BY <2>1, <2>3, <2>4 DEF Paid
<1>5. ASSUME config.reuse[1] # 0, config.prefetch, main'.pc \in UnderWay,
             NEW s \in start..(IF pre'.pc \in {"sample", "put"} THEN pre'.step ELSE pre'.step - 1)
      PROVE  Paid(s, Larger(config.batch, config.value))'
  <2>1. PICK b \in Nat : b = Larger(config.batch, config.value)
    BY <1>2
  <2>2. Paid(s, b) /\ s \in Nat
    BY <1>1, <1>5, <2>1
  <2>3. Paid(s, b)'
    BY <1>3, <2>2
  <2> QED BY <2>1, <2>3 DEF Paid, Larger
<1> QED BY <1>1, <1>4, <1>5 DEF RowsPaid

(* PublishedInOrder is about the checkpoints and a few fields of main. *)
LEMMA SamePublished ==
  ASSUME UNCHANGED <<config, start, published>>
  PROVE  /\ PublishedSteps' = PublishedSteps
         /\ \A s : DueSteps(s)' = DueSteps(s)
         /\ \A s : checkpoint_due(s)' <=> checkpoint_due(s)
<1>1. \A s : checkpoint_due(s)' <=> checkpoint_due(s)
  BY DEF checkpoint_due
<1>2. PublishedSteps' = PublishedSteps
  BY DEF PublishedSteps
<1>3. \A s : DueSteps(s)' = DueSteps(s)
  BY <1>1 DEF DueSteps
<1> QED BY <1>1, <1>2, <1>3

(* A run that fails, or that is already leaving, owes nothing more. *)
LEMMA LeaveStep ==
  ASSUME TrainerInductive, UNCHANGED <<config, start, ema, published>>,
         store' \in Store, store.produced <= store'.produced,
         main' \in MainState, pre' \in PreState, queue' \in Seq(Nat \cup {-1}),
         main'.pc \in Leaving, main'.step = main.step, main'.last = main.last,
         main'.rows = main.rows,
         ~main'.ok \/ (main.pc \in Leaving /\ main'.ok = main.ok)
  PROVE  TrainerInductive'
<1> USE DEF TrainerInductive
<1>0. main'.pc \notin UnderWay /\ main'.pc \notin Starting /\ main'.pc \notin Looping
      /\ main'.pc # "final" /\ main'.pc # "prepare"
      /\ main'.pc \notin {"train", "log", "due", "pending", "next", "sample"}
  BY DEF Leaving, UnderWay, Starting, Looping
<1>1. TypeOK'
  BY DEF TypeOK, _validate, validate_intervals, validate_gates
<1>2. StepsCounted'
  BY <1>0 DEF StepsCounted
<1>3. QueueInOrder'
  BY <1>0 DEF QueueInOrder
<1>4. PublishedInOrder'
  <2>1. PublishedSteps' = PublishedSteps /\ \A s : DueSteps(s)' = DueSteps(s)
    BY SamePublished
  <2> QED BY <1>0, <2>1 DEF PublishedInOrder
<1>5. RowsPaid'
  <2>0. main.rows \in Int /\ store.produced \in Int /\ store'.produced \in Int
    BY DEF MainState, Store, TypeOK
  <2>1. main'.rows <= store'.produced
    BY <2>0 DEF RowsPaid
  <2> QED BY <1>0, <2>1, PaidKept
<1> QED BY <1>1, <1>2, <1>3, <1>4, <1>5

(* A step within one round of the main loop: nothing is taken from the queue, *)
(* trained or published.                                                      *)
LEMMA MoveStep ==
  ASSUME TrainerInductive, UNCHANGED <<config, start, ema, published, pre, queue, stop>>,
         store' \in Store, store.produced <= store'.produced,
         main' \in MainState, main.pc \in Looping, main'.pc \in Looping,
         main'.step = main.step, main'.last = main.last, main'.pending = main.pending,
         main.pc \in {"train", "log", "due"} <=> main'.pc \in {"train", "log", "due"},
         main.pc = "train" <=> main'.pc = "train",
         main'.pc = "sample" => ~config.prefetch,
         main.pc \in {"train", "log", "due"} => main'.got = main.got,
         main.pending # 0 => main'.pc \in {"check", "gate", "pending"},
         main'.rows <= store'.produced,
         config.reuse[1] # 0 /\ main'.pc \in {"pending", "next", "sample", "train"} =>
           Paid(main.step, config.batch)
  PROVE  TrainerInductive'
<1> USE DEF TrainerInductive
<1>0. /\ main.pc \in UnderWay /\ main.pc \notin Starting /\ main.pc # "final" /\ main.pc # "prepare"
      /\ main'.pc \in UnderWay /\ main'.pc \notin Starting /\ main'.pc # "final"
      /\ main'.pc # "prepare" /\ main.pc \notin Leaving /\ main'.pc \notin Leaving
  BY Phases
<1>1. TypeOK'
  BY DEF TypeOK, _validate, validate_intervals, validate_gates
<1>2. StepsCounted'
  BY <1>0 DEF StepsCounted
<1>3. QueueInOrder'
  <2>1. NextBatch' = NextBatch
    BY DEF NextBatch
  <2> QED BY <1>0, <2>1 DEF QueueInOrder
<1>4. PublishedInOrder'
  <2>1. PublishedSteps' = PublishedSteps /\ \A s : DueSteps(s)' = DueSteps(s)
    BY SamePublished
  <2> QED BY <1>0, <2>1 DEF PublishedInOrder
<1>5. RowsPaid'
  <2>1. config.reuse[1] # 0 /\ config.prefetch =>
           \A s \in start..(IF pre'.pc \in {"sample", "put"} THEN pre'.step ELSE pre'.step - 1) :
             Paid(s, Larger(config.batch, config.value))
    BY <1>0 DEF RowsPaid
  <2> QED BY <1>0, <2>1, PaidKept
<1> QED BY <1>1, <1>2, <1>3, <1>4, <1>5

(* A step of the prefetch thread that puts nothing into the queue. *)
LEMMA PrefetchStep ==
  ASSUME TrainerInductive,
         UNCHANGED <<config, start, ema, published, main, queue, stop>>,
         store' \in Store, store.produced <= store'.produced,
         pre' \in PreState, pre'.step = pre.step, pre.pc \notin {"off", "ended"},
         config.reuse[1] # 0 /\ pre'.pc \in {"sample", "put"} =>
           pre.pc \in {"sample", "put"} \/ Paid(pre.step, Larger(config.batch, config.value))
  PROVE  TrainerInductive'
<1> USE DEF TrainerInductive
<1>1. TypeOK'
  BY DEF TypeOK, _validate, validate_intervals, validate_gates
<1>2. StepsCounted'
  BY DEF StepsCounted
<1>3. QueueInOrder'
  BY DEF QueueInOrder, NextBatch
<1>4. PublishedInOrder'
  <2>1. PublishedSteps' = PublishedSteps /\ \A s : DueSteps(s)' = DueSteps(s)
    BY SamePublished
  <2> QED BY <2>1 DEF PublishedInOrder
<1>5. RowsPaid'
  <2>1. main'.rows <= store'.produced /\ pre.step \in Nat /\ start \in Nat
    BY DEF RowsPaid, MainState, PreState, Store, TypeOK
  <2>2. ASSUME config.reuse[1] # 0, config.prefetch, main'.pc \in UnderWay,
               NEW s \in start..(IF pre'.pc \in {"sample", "put"} THEN pre'.step ELSE pre'.step - 1)
        PROVE  Paid(s, Larger(config.batch, config.value))
    <3>1. CASE s \in start..(pre.step - 1)
      BY <2>1, <2>2, <3>1 DEF RowsPaid
    <3>2. CASE s = pre.step /\ pre'.pc \in {"sample", "put"}
      BY <2>1, <2>2, <3>2 DEF RowsPaid
    <3> QED BY <2>1, <2>2, <3>1, <3>2
  <2>3. config.reuse[1] # 0 /\ main'.pc \in {"pending", "next", "sample", "train"} =>
           Paid(main'.step, config.batch)
    BY DEF RowsPaid
  <2>4. main' \in MainState
    BY DEF TypeOK
  <2> QED BY <2>1, <2>2, <2>3, <2>4, PaidKept
<1> QED BY <1>1, <1>2, <1>3, <1>4, <1>5


-----------------------------------------------------------------------------
(* The steps of the main thread.                                            *)

(* Going to a place of the program changes nothing else but the attempts. *)
LEMMA GotoState ==
  ASSUME NEW f \in MainState, NEW pc \in UnderWay \cup Leaving
  PROVE  /\ Goto(f, pc) \in MainState
         /\ Goto(f, pc).pc = pc /\ Goto(f, pc).step = f.step /\ Goto(f, pc).rows = f.rows
         /\ Goto(f, pc).got = f.got /\ Goto(f, pc).pending = f.pending
         /\ Goto(f, pc).last = f.last /\ Goto(f, pc).ok = f.ok /\ Goto(f, pc).todo = f.todo
BY DEF Goto, MainState

(* A failure leaves the loop. *)
LEMMA FailedState ==
  ASSUME NEW f \in MainState
  PROVE  /\ Failed(f) \in MainState /\ Failed(f).pc = "stop" /\ Failed(f).ok = FALSE
         /\ Failed(f).step = f.step /\ Failed(f).rows = f.rows /\ Failed(f).last = f.last
<1> "stop" \in UnderWay \cup Leaving
  BY Phases
<1> QED BY DEF Failed, Goto, MainState

(* Another attempt. *)
LEMMA RetryState ==
  ASSUME NEW f \in MainState
  PROVE  LET g == [f EXCEPT !.tries = @ + 1]
         IN  /\ g \in MainState /\ g.pc = f.pc /\ g.step = f.step /\ g.rows = f.rows
             /\ g.got = f.got /\ g.pending = f.pending /\ g.last = f.last /\ g.ok = f.ok
             /\ g.todo = f.todo
BY DEF MainState

(* A step of the main thread that fails. *)
LEMMA FailingStep ==
  ASSUME TrainerInductive, UNCHANGED <<config, start, ema, published>>,
         store' \in Store, store.produced <= store'.produced,
         pre' \in PreState, queue' \in Seq(Nat \cup {-1}), main' = Failed(main)
  PROVE  TrainerInductive'
<1>1. main \in MainState
  BY DEF TrainerInductive, TypeOK
<1>2. /\ main' \in MainState /\ main'.pc \in Leaving /\ main'.ok = FALSE
      /\ main'.step = main.step /\ main'.rows = main.rows /\ main'.last = main.last
  BY <1>1, FailedState, Phases
<1>3. ~main'.ok
  BY <1>2, Zenon
<1>4. UNCHANGED <<config, start, ema, published>>
  OBVIOUS
<1> QED BY <1>2, <1>3, <1>4, LeaveStep

(* What TypeOK says of the parts that most steps leave alone. *)
LEMMA Typed ==
  ASSUME TrainerInductive
  PROVE  /\ main \in MainState /\ pre \in PreState /\ store \in Store
         /\ queue \in Seq(Nat \cup {-1}) /\ published \in Seq(Checkpoint)
         /\ store.produced \in Int /\ store.produced >= 0 /\ store.produced <= store.produced
         /\ store.consumed \in Int /\ store.episodes \in Int
         /\ main.rows \in Int /\ main.rows <= store.produced
         /\ main.step \in Nat /\ main.last \in Nat /\ main.pending \in Nat
         /\ pre.step \in Nat /\ start \in Nat /\ ema \in Nat /\ main.pc \in UnderWay \cup Leaving
         /\ main.ok \in BOOLEAN
<1>1. /\ main \in MainState /\ pre \in PreState /\ store \in Store
      /\ queue \in Seq(Nat \cup {-1}) /\ published \in Seq(Checkpoint)
      /\ start \in Nat /\ ema \in Nat
  BY DEF TrainerInductive, TypeOK
<1>2. /\ main.rows \in Int /\ main.step \in Nat /\ main.last \in Nat /\ main.pending \in Nat
      /\ main.pc \in UnderWay \cup Leaving /\ main.ok \in BOOLEAN
  BY <1>1 DEF MainState
<1>3. pre.step \in Nat
  BY <1>1 DEF PreState
<1>4. store.produced \in Int /\ store.consumed \in Int /\ store.episodes \in Int
  BY <1>1 DEF Store
<1>5. store.produced >= 0 /\ main.rows <= store.produced
  BY DEF TrainerInductive, RowsPaid
<1> QED BY <1>1, <1>2, <1>3, <1>4, <1>5

(* The end: the child is killed and the thread joined. *)
LEMMA StopStep ==
  ASSUME TrainerInductive, Stop \/ Terminate \/ Join
  PROVE  TrainerInductive'
<1>1. /\ UNCHANGED <<config, start, ema, published, store, pre>>
      /\ main.pc \in Leaving
      /\ \/ \E pc \in Leaving : main' = Goto(main, pc)
         \/ main' = [Goto(main, "ended") EXCEPT !.ok = FALSE]
  BY Phases DEF Stop, Terminate, Join, Main
<1>2. queue' \in Seq(Nat \cup {-1})
  <2>1. queue \in Seq(Nat \cup {-1})
    BY Typed
  <2>2. CASE queue' = queue
    BY <2>1, <2>2
  <2>3. CASE Stop
    <3>1. queue = <<>> => queue' = queue
      BY <2>3 DEF Stop, StopPrefetch
    <3>2. queue # <<>> => queue' = Tail(queue)
      BY <2>3 DEF Stop, StopPrefetch
    <3> QED BY <2>1, <3>1, <3>2
  <2> QED BY <2>2, <2>3 DEF Terminate, Join
<1>3. CASE \E pc \in Leaving : main' = Goto(main, pc)
  BY <1>1, <1>2, <1>3, Typed, GotoState, LeaveStep
<1>4. CASE main' = [Goto(main, "ended") EXCEPT !.ok = FALSE]
  <2>0. main \in MainState /\ "ended" \in UnderWay \cup Leaving /\ "ended" \in Leaving
    BY Typed, Phases
  <2>1. /\ main' \in MainState /\ main'.pc = "ended" /\ main'.ok = FALSE
        /\ main'.step = main.step /\ main'.last = main.last /\ main'.rows = main.rows
    BY <1>4, <2>0 DEF Goto, MainState
  <2>2. ~main'.ok
    BY <2>1, Zenon
  <2> QED BY <1>1, <1>2, <2>0, <2>1, <2>2, Typed, LeaveStep
<1> QED BY <1>1, <1>3, <1>4

(* The checks of the child and of the memory. *)
LEMMA CheckStep ==
  ASSUME TrainerInductive, Check \/ CheckMemory
  PROVE  TrainerInductive'
<1>1. /\ UNCHANGED <<config, start, ema, published, store, pre, queue, stop>>
      /\ main.pc = "check"
      /\ main' = Failed(main) \/ main' = Goto(main, "gate")
  BY DEF Check, CheckMemory, Main
<1>2. CASE main' = Failed(main)
  BY <1>1, <1>2, Typed, FailingStep
<1>3. CASE main' = Goto(main, "gate")
  <2>1. /\ main' \in MainState /\ main'.pc = "gate" /\ main'.step = main.step
        /\ main'.last = main.last /\ main'.pending = main.pending /\ main'.rows = main.rows
    <3>1. "gate" \in UnderWay \cup Leaving /\ main \in MainState
      BY Typed, Phases
    <3> QED BY <1>3, <3>1, GotoState
  <2> QED BY <1>1, <2>1, Typed, Phases, MoveStep
<1> QED BY <1>1, <1>2, <1>3

(* The learner's gate. *)
LEMMA GateStep ==
  ASSUME TrainerInductive, _wait_for_reuse_gate
  PROVE  TrainerInductive'
<1>1. /\ UNCHANGED <<config, start, ema, published, store, pre, queue, stop>>
      /\ main.pc = "gate"
  BY DEF _wait_for_reuse_gate
<1>2. CASE main' = Failed(main)
  BY <1>1, <1>2, Typed, FailingStep
<1>3. CASE main' = [main EXCEPT !.tries = @ + 1]
  <2>1. /\ main' \in MainState /\ main'.pc = "gate" /\ main'.step = main.step
        /\ main'.last = main.last /\ main'.pending = main.pending /\ main'.rows = main.rows
    BY <1>1, <1>3, Typed, RetryState
  <2> QED BY <1>1, <2>1, Typed, Phases, MoveStep
<1>4. CASE main' = Goto(main, "pending") /\ main.rows >= required_produced_rows(main.step, config.batch)
  <2>1. /\ main' \in MainState /\ main'.pc = "pending" /\ main'.step = main.step
        /\ main'.last = main.last /\ main'.pending = main.pending /\ main'.rows = main.rows
    <3>1. "pending" \in UnderWay \cup Leaving /\ main \in MainState
      BY Typed, Phases
    <3> QED BY <1>4, <3>1, GotoState
  <2>2. config.reuse[1] # 0 => Paid(main.step, config.batch)
    BY <1>4, Typed, Validated, GatePays DEF TrainerInductive
  <2> QED BY <1>1, <2>1, <2>2, Typed, Phases, MoveStep
<1>5. ASSUME NEW pc \in {"pending", "gate"},
             main' = Goto([main EXCEPT !.rows = store.produced, !.eps = store.episodes], pc),
             pc = "pending" => store.produced >= required_produced_rows(main.step, config.batch)
      PROVE  TrainerInductive'
  <2> DEFINE seen == [main EXCEPT !.rows = store.produced, !.eps = store.episodes]
  <2>0. /\ seen \in MainState /\ seen.step = main.step /\ seen.last = main.last
        /\ seen.pending = main.pending /\ seen.rows = store.produced
    BY Typed DEF MainState
  <2> HIDE DEF seen
  <2>1. /\ main' \in MainState /\ main'.pc = pc /\ main'.step = main.step
        /\ main'.last = main.last /\ main'.pending = main.pending /\ main'.rows = store.produced
    <3>1. pc \in UnderWay \cup Leaving /\ main' = Goto(seen, pc)
      BY <1>5, Phases DEF seen
    <3> QED BY <2>0, <3>1, GotoState
  <2>2. config.reuse[1] # 0 /\ pc = "pending" => Paid(main.step, config.batch)
    BY <1>5, Typed, Validated, GatePays DEF TrainerInductive
  <2> QED BY <1>1, <1>5, <2>1, <2>2, Typed, Phases, MoveStep
<1> QED
  BY <1>1, <1>2, <1>3, <1>4, <1>5
  DEF _wait_for_reuse_gate, Attempt, connect, GateMet, _refresh_connected, Main, MainRaises


-----------------------------------------------------------------------------
(* Publishing.                                                               *)

(* The steps in the sequence of checkpoints. *)
LEMMA StepPublished ==
  ASSUME published \in Seq(Checkpoint), NEW s
  PROVE  s \in PublishedSteps <=> s # 0 /\ \E i \in 1..Len(published) : published[i].step = s
BY DEF PublishedSteps

(* While the run is under way the last checkpoint is no later than its step. *)
LEMMA LastBehind ==
  ASSUME TrainerInductive, main.pc \in UnderWay
  PROVE  /\ main.last <= main.step
         /\ main.last = start \/ main.last \in DueSteps(main.step)
         /\ main.pending # 0 => main.last # main.pending /\ main.pending = main.step
         /\ main.pending # 0 => main.last < main.pending
<1>0. start <= main.step /\ start \in Nat /\ main.step \in Nat /\ main.last \in Nat /\ main.pending \in Nat
  BY Typed DEF TrainerInductive, StepsCounted
<1>1. main.last = start \/ main.last \in DueSteps(main.step) \ {main.pending}
  BY DEF TrainerInductive, PublishedInOrder
<1>2. main.pending # 0 => main.pending = main.step /\ main.pending \in DueSteps(main.step)
  BY DEF TrainerInductive, PublishedInOrder
<1>3. DueSteps(main.step) \subseteq (start + 1)..main.step
  BY DEF DueSteps
<1> QED BY <1>0, <1>1, <1>2, <1>3

(* Publishing a later step adds that step, in order and with its weights. *)
LEMMA Publication ==
  ASSUME TrainerInductive, main.pc \in UnderWay, NEW s \in Nat, main.last < s, ema = s,
         published' = Append(published, [step |-> s, weights |-> ema])
  PROVE  /\ published' \in Seq(Checkpoint)
         /\ PublishedSteps' = PublishedSteps \cup {s}
         /\ \A i \in 1..Len(published') :
              /\ published'[i].weights = published'[i].step
              /\ i > 1 => published'[i - 1].step < published'[i].step
              /\ published'[i].step <= s
<1> DEFINE cp == [step |-> s, weights |-> ema]
<1>0. published \in Seq(Checkpoint) /\ main.last \in Nat
  BY Typed
<1>1. cp \in Checkpoint /\ cp.step = s /\ cp.weights = s
  BY DEF Checkpoint
<1> HIDE DEF cp
<1>2. published' = Append(published, cp)
  BY DEF cp
<1>3. /\ published' \in Seq(Checkpoint) /\ Len(published) \in Nat
      /\ Len(published') = Len(published) + 1
      /\ \A i \in 1..Len(published) : published'[i] = published[i]
      /\ published'[Len(published) + 1] = cp
  BY <1>0, <1>1, <1>2
<1>4. \A i \in 1..Len(published) :
         /\ published[i].weights = published[i].step
         /\ i > 1 => published[i - 1].step < published[i].step
         /\ published[i].step <= main.last /\ published[i].step \in Nat
  <2>1. \A i \in 1..Len(published) : published[i] \in Checkpoint
    BY <1>0
  <2>2. \A i \in 1..Len(published) : published[i].step \in Nat
    BY <2>1 DEF Checkpoint
  <2> QED BY <2>2 DEF TrainerInductive, PublishedInOrder
<1>5. ASSUME NEW i \in 1..Len(published')
      PROVE  /\ published'[i].weights = published'[i].step
             /\ i > 1 => published'[i - 1].step < published'[i].step
             /\ published'[i].step <= s
  <2>1. CASE i \in 1..Len(published)
    <3>1. i > 1 => i - 1 \in 1..Len(published)
      BY <1>3, <2>1
    <3> QED BY <1>0, <1>3, <1>4, <2>1, <3>1
  <2>2. CASE i = Len(published) + 1
    <3>1. i > 1 => i - 1 \in 1..Len(published)
      BY <1>3, <2>2
    <3> QED BY <1>0, <1>1, <1>3, <1>4, <2>2, <3>1
  <2> QED BY <1>3, <2>1, <2>2
<1>6. ASSUME NEW t PROVE t \in PublishedSteps' <=> t \in PublishedSteps \cup {s}
  <2>1. t \in PublishedSteps <=> t # 0 /\ \E i \in 1..Len(published) : published[i].step = t
    BY <1>0, StepPublished
  <2>2. t \in PublishedSteps' <=> t # 0 /\ \E i \in 1..Len(published') : published'[i].step = t
    BY <1>3 DEF PublishedSteps
  <2>3. (\E i \in 1..Len(published') : published'[i].step = t)
          <=> t = s \/ \E i \in 1..Len(published) : published[i].step = t
    BY <1>1, <1>3
  <2>4. s # 0
    BY <1>0
  <2> QED BY <2>1, <2>2, <2>3, <2>4
<1> QED BY <1>3, <1>5, <1>6

(* A publication that raises, before or after the checkpoint is there, ends *)
(* the run.                                                                  *)
LEMMA FailedPublication ==
  ASSUME TrainerInductive, main.pc \in UnderWay, UNCHANGED <<config, start, ema, store, pre>>,
         queue' \in Seq(Nat \cup {-1}), NEW s \in Nat, main.last < s, ema = s,
         NEW f \in MainState, f.last = main.last, f.rows = main.rows,
         start <= f.step, f.step <= config.total, main' = Failed(f),
         UNCHANGED published \/ published' = Append(published, [step |-> s, weights |-> ema])
  PROVE  TrainerInductive'
<1>1. /\ main' \in MainState /\ main'.pc = "stop" /\ main'.ok = FALSE
      /\ main'.step = f.step /\ main'.rows = main.rows /\ main'.last = main.last
  BY FailedState
<1>2. ~main'.ok
  BY <1>1, Zenon
<1>3. /\ main'.pc \in Leaving /\ main'.pc \notin UnderWay /\ main'.pc \notin Starting
      /\ main'.pc \notin Looping /\ main'.pc # "final" /\ main'.pc # "prepare"
      /\ main'.pc \notin {"train", "log", "due", "pending", "next", "sample"}
  BY <1>1 DEF Leaving, UnderWay, Starting, Looping
<1>4. /\ published' \in Seq(Checkpoint) /\ PublishedSteps \subseteq PublishedSteps'
      /\ \A i \in 1..Len(published') :
           /\ published'[i].weights = published'[i].step
           /\ i > 1 => published'[i - 1].step < published'[i].step
  <2>1. CASE UNCHANGED published
    <3>1. PublishedSteps' = PublishedSteps
      BY <2>1 DEF PublishedSteps
    <3> QED BY <2>1, <3>1, Typed DEF TrainerInductive, PublishedInOrder
  <2>2. CASE published' = Append(published, [step |-> s, weights |-> ema])
    BY <2>2, Publication
  <2> QED BY <2>1, <2>2
<1>5. TypeOK'
  BY <1>1, <1>4 DEF TrainerInductive, TypeOK, _validate, validate_intervals, validate_gates
<1>6. StepsCounted'
  BY <1>1, <1>3 DEF StepsCounted
<1>7. QueueInOrder'
  BY <1>3 DEF QueueInOrder
<1>8. PublishedInOrder'
  <2>1. main'.last \in {start'} \cup PublishedSteps'
    BY <1>1, <1>4 DEF TrainerInductive, PublishedInOrder
  <2> QED BY <1>2, <1>3, <1>4, <2>1 DEF PublishedInOrder
<1>9. RowsPaid'
  <2>1. main'.rows <= store'.produced /\ store' \in Store /\ store.produced <= store'.produced
    BY <1>1, Typed
  <2> QED BY <1>1, <1>3, <2>1, PaidKept
<1> QED BY <1>5, <1>6, <1>7, <1>8, <1>9 DEF TrainerInductive

(* The due steps of one step more. *)
LEMMA DueGrows ==
  ASSUME NEW n \in Nat, start \in Nat, start <= n
  PROVE  /\ DueSteps(n + 1) = IF checkpoint_due(n + 1) THEN DueSteps(n) \cup {n + 1} ELSE DueSteps(n)
         /\ n + 1 \notin DueSteps(n) /\ 0 \notin DueSteps(n)
         /\ DueSteps(start) = {}
BY DEF DueSteps

(* A run starts: it binds the store, or gives up. *)
LEMMA PrepareStep ==
  ASSUME TrainerInductive, _prepare_run
  PROVE  TrainerInductive'
<1>1. /\ UNCHANGED <<config, start, ema, store, pre, queue, stop>> /\ main.pc = "prepare"
      /\ main.pc \in Starting /\ main.pc \in UnderWay
  BY Phases DEF _prepare_run
<1>2. CASE main' = [Goto(main, "ended") EXCEPT !.ok = FALSE] /\ UNCHANGED published
  <2>0. "ended" \in UnderWay \cup Leaving /\ main \in MainState
    BY Typed, Phases
  <2>1. /\ main' \in MainState /\ main'.pc = "ended" /\ main'.ok = FALSE /\ main'.step = main.step
        /\ main'.last = main.last /\ main'.rows = main.rows
    BY <1>2, <2>0 DEF Goto, MainState
  <2>2. ~main'.ok
    BY <2>1, Zenon
  <2> QED BY <1>1, <1>2, <2>1, <2>2, Typed, Phases, LeaveStep
<1>3. CASE /\ main' = Goto(main, "spawn")
           /\ published' = IF start = 0 THEN <<[step |-> 0, weights |-> ema]>> ELSE published
  <2>0. "spawn" \in UnderWay \cup Leaving /\ main \in MainState
    BY Typed, Phases
  <2>1. /\ main' \in MainState /\ main'.pc = "spawn" /\ main'.step = main.step
        /\ main'.last = main.last /\ main'.rows = main.rows /\ main'.pending = main.pending
    BY <1>3, <2>0, GotoState
  <2>2. /\ main'.pc \in Starting /\ main'.pc \in UnderWay /\ main'.pc \notin Looping
        /\ main'.pc \notin Leaving /\ main'.pc # "final" /\ main'.pc # "prepare"
    BY <2>1, Phases
  <2>3. published = <<>> /\ ema = start /\ main.step = start /\ start \in Nat /\ main.last \in Nat
    <3>1. main.pc \in UnderWay => ema = IF main.pc \in {"log", "due"} THEN main.step + 1 ELSE main.step
      BY DEF TrainerInductive, StepsCounted
    <3>2. published = <<>> /\ main.step = start
      BY <1>1 DEF TrainerInductive, PublishedInOrder, StepsCounted
    <3> QED BY <1>1, <3>1, <3>2, Typed
  <2>4. PublishedSteps = {} /\ PublishedSteps' = {} /\ published' \in Seq(Checkpoint)
    <3>1. CASE start = 0
      <4>1. [step |-> 0, weights |-> 0] \in Checkpoint
        BY DEF Checkpoint
      <4>2. published' = <<[step |-> 0, weights |-> 0]>>
        BY <1>3, <2>3, <3>1
      <4> QED BY <2>3, <4>1, <4>2 DEF PublishedSteps
    <3>2. CASE start # 0
      BY <1>3, <2>3, <3>2, Typed DEF PublishedSteps
    <3> QED BY <3>1, <3>2
  <2>5. TypeOK'
    BY <1>1, <2>1, <2>4 DEF TrainerInductive, TypeOK, _validate, validate_intervals, validate_gates
  <2>6. StepsCounted'
    BY <1>1, <2>1, <2>2 DEF TrainerInductive, StepsCounted
  <2>7. QueueInOrder'
    BY <1>1, <2>1, <2>2 DEF TrainerInductive, QueueInOrder
  <2>8. PublishedInOrder'
    <3>1. main.last = start /\ main.pending = 0
      BY <1>1, <2>4 DEF TrainerInductive, PublishedInOrder
    <3>2. \A i \in 1..Len(published') :
            /\ published'[i].weights = published'[i].step
            /\ ~(i > 1)
            /\ published'[i].step <= main.last
      BY <1>3, <2>3, <3>1
    <3>3. DueSteps(main.step)' = {}
      BY <1>1, <2>1, <2>3 DEF DueSteps
    <3> QED BY <1>1, <2>1, <2>2, <2>3, <2>4, <3>1, <3>2, <3>3 DEF PublishedInOrder
  <2>9. RowsPaid'
    <3>1. config.reuse[1] # 0 /\ config.prefetch =>
             \A s \in start..(IF pre'.pc \in {"sample", "put"} THEN pre'.step ELSE pre'.step - 1) :
               Paid(s, Larger(config.batch, config.value))
      BY <1>1 DEF TrainerInductive, RowsPaid
    <3> QED BY <1>1, <2>1, <3>1, Typed, PaidKept
  <2> QED BY <2>5, <2>6, <2>7, <2>8, <2>9 DEF TrainerInductive
<1> QED BY <1>2, <1>3 DEF _prepare_run, Main


(* Self-play is started, and the loop once it has produced enough. *)
LEMMA StartStep ==
  ASSUME TrainerInductive, spawn_torch_selfplay \/ Ready
  PROVE  TrainerInductive'
<1>1. /\ UNCHANGED <<config, start, ema, published, store, queue, stop>>
      /\ main.pc \in Starting /\ main.pc \in UnderWay /\ main.pc # "prepare"
  BY Phases DEF spawn_torch_selfplay, Ready
<1>2. CASE main' = Failed(main) /\ UNCHANGED pre
  BY <1>1, <1>2, Typed, FailingStep
<1>3. ASSUME NEW pc \in {"ready", "check"}, main' = Goto(main, pc), pre' \in PreState,
             pre'.step = pre.step, pc = "ready" => pre' = pre,
             pre'.pc \in {"off", "loop"}
      PROVE  TrainerInductive'
  <2>0. pc \in UnderWay \cup Leaving /\ main \in MainState
    BY Typed, Phases
  <2>1. /\ main' \in MainState /\ main'.pc = pc /\ main'.step = main.step
        /\ main'.last = main.last /\ main'.rows = main.rows /\ main'.pending = main.pending
    BY <1>3, <2>0, GotoState
  <2>2. /\ main'.pc \in UnderWay /\ main'.pc \notin Leaving /\ main'.pc # "final" /\ main'.pc # "prepare"
        /\ main'.pc \in Starting <=> pc = "ready"
        /\ main'.pc \in Looping <=> pc = "check"
        /\ main'.pc \notin {"train", "log", "due", "pending", "next", "sample"}
        /\ main.pc \notin {"train", "log", "due", "pending", "next", "sample", "check", "gate", "final"}
    BY <1>1, <2>1 DEF UnderWay, Leaving, Starting, Looping
  <2>3. main.step = start /\ start \in Nat /\ pre.step = start /\ queue = <<>> /\ ~stop
    BY <1>1, Typed DEF TrainerInductive, StepsCounted, QueueInOrder
  <2>5. TypeOK'
    BY <1>1, <1>3, <2>1 DEF TrainerInductive, TypeOK, _validate, validate_intervals, validate_gates
  <2>6. StepsCounted'
    BY <1>1, <2>1, <2>2, <2>3 DEF TrainerInductive, StepsCounted, TypeOK
  <2>7. QueueInOrder'
    <3>1. NextBatch' = start
      BY <2>1, <2>2, <2>3 DEF NextBatch
    <3>2. pc = "ready" => pre'.pc = "off"
      BY <1>1, <1>3 DEF TrainerInductive, QueueInOrder
    <3>3. pre'.step - NextBatch' = 0 /\ Len(queue') = 0
      BY <1>1, <1>3, <2>3, <3>1
    <3>4. main'.pc # "sample" /\ ~stop' /\ queue' = <<>> /\ pre'.step = start'
      BY <1>1, <1>3, <2>2, <2>3
    <3> QED BY <2>1, <2>2, <3>2, <3>3, <3>4 DEF QueueInOrder
  <2>8. PublishedInOrder'
    <3>1. PublishedSteps' = PublishedSteps /\ \A s : DueSteps(s)' = DueSteps(s)
      BY <1>1, SamePublished
    <3>2. main.pending = 0
      BY <1>1, <2>2 DEF TrainerInductive, PublishedInOrder
    <3> QED BY <1>1, <2>1, <2>2, <3>1, <3>2 DEF TrainerInductive, PublishedInOrder
  <2>9. RowsPaid'
    <3>1. config.reuse[1] # 0 /\ config.prefetch =>
             \A s \in start..(IF pre'.pc \in {"sample", "put"} THEN pre'.step ELSE pre'.step - 1) :
               Paid(s, Larger(config.batch, config.value))
      BY <1>1, <1>3, <2>3 DEF TrainerInductive, RowsPaid
    <3> QED BY <1>1, <2>1, <2>2, <3>1, Typed, PaidKept
  <2> QED BY <2>5, <2>6, <2>7, <2>8, <2>9 DEF TrainerInductive
<1>4. CASE spawn_torch_selfplay
  <2>1. main' = Goto(main, "ready") /\ pre' = pre
    BY <1>4 DEF spawn_torch_selfplay, Main
  <2>2. pre'.pc \in {"off", "loop"} /\ pre' \in PreState
    BY <1>1, <2>1, Typed DEF TrainerInductive, QueueInOrder
  <2> QED BY <1>3, <2>1, <2>2
<1>5. CASE Ready /\ main' = Goto(main, "check")
           /\ pre' = [pre EXCEPT !.pc = IF config.prefetch THEN "loop" ELSE "off"]
  <2>1. pre' \in PreState /\ pre'.step = pre.step /\ pre'.pc \in {"off", "loop"}
    BY <1>5, Typed DEF PreState
  <2> QED BY <1>3, <1>5, <2>1
<1> QED BY <1>2, <1>4, <1>5 DEF Ready, Main

(* A checkpoint that waited for the gate is published on its far side. *)
LEMMA PublishingStep ==
  ASSUME TrainerInductive, PublishPending
  PROVE  TrainerInductive'
<1> DEFINE f == [Goto(main, "next") EXCEPT !.pending = 0]
<1>1. /\ UNCHANGED <<config, start, ema, store, pre, queue, stop>>
      /\ main.pc = "pending" /\ main.pc \in Looping /\ main.pc \in UnderWay
  BY Phases DEF PublishPending
<1>2. /\ f \in MainState /\ f.pc = "next" /\ f.step = main.step /\ f.last = main.last
      /\ f.rows = main.rows /\ f.pending = 0
  <2>0. "next" \in UnderWay \cup Leaving /\ main \in MainState
    BY Typed, Phases
  <2> QED BY <2>0 DEF Goto, MainState
<1>3. PublishPending => IF main.pending # 0 THEN _publish(main.pending, f)
                        ELSE main' = f /\ UNCHANGED published
  BY DEF PublishPending, Main
<1> HIDE DEF f
<1>4. CASE main.pending = 0
  <2>1. main' = f /\ UNCHANGED published
    BY <1>3, <1>4
  <2>2. config.reuse[1] # 0 => Paid(main.step, config.batch)
    BY <1>1 DEF TrainerInductive, RowsPaid
  <2> QED BY <1>1, <1>2, <1>4, <2>1, <2>2, Typed, Phases, MoveStep
<1>5. CASE main.pending # 0
  <2>1. main.last < main.pending /\ main.pending = main.step /\ main.pending \in Nat /\ main.last \in Nat
        /\ start <= main.step /\ start \in Nat
    BY <1>1, <1>5, LastBehind, Typed DEF TrainerInductive, StepsCounted
  <2>a. \/ /\ published' = Append(published, [step |-> main.pending, weights |-> ema])
           /\ main' = [f EXCEPT !.last = main.pending]
        \/ /\ main' = Failed(f)
           /\ \/ UNCHANGED published
              \/ published' = Append(published, [step |-> main.pending, weights |-> ema])
    BY <1>3, <1>5, <2>1 DEF _publish, Main
  <2>b. main' = Failed(f) => TrainerInductive'
    <3>1. queue' \in Seq(Nat \cup {-1}) /\ main.step <= config.total
      BY <1>1, Typed DEF TrainerInductive, StepsCounted
    <3>2. ema = main.pending
      BY <1>1, <2>1 DEF TrainerInductive, StepsCounted
    <3> QED BY <1>1, <1>2, <2>1, <2>a, <3>1, <3>2, FailedPublication
  <2>2. SUFFICES ASSUME /\ published' = Append(published, [step |-> main.pending, weights |-> ema])
                        /\ main' = [f EXCEPT !.last = main.pending]
                 PROVE  TrainerInductive'
    BY <2>a, <2>b
  <2>3. /\ main' \in MainState /\ main'.pc = "next" /\ main'.step = main.step
        /\ main'.last = main.pending /\ main'.rows = main.rows /\ main'.pending = 0
    BY <1>2, <2>1, <2>2 DEF MainState
  <2>4. ema = main.pending
    BY <1>1, <2>1 DEF TrainerInductive, StepsCounted
  <2>5. /\ published' \in Seq(Checkpoint)
        /\ PublishedSteps' = PublishedSteps \cup {main.pending}
        /\ \A i \in 1..Len(published') :
              /\ published'[i].weights = published'[i].step
              /\ i > 1 => published'[i - 1].step < published'[i].step
              /\ published'[i].step <= main'.last
    BY <1>1, <2>1, <2>2, <2>3, <2>4, Publication
  <2>6. /\ main'.pc \in Looping /\ main'.pc \in UnderWay /\ main'.pc \notin Leaving /\ main'.pc # "final"
        /\ main'.pc # "prepare" /\ main'.pc \notin Starting
    BY <2>3, Phases
  <2>7. TypeOK'
    BY <1>1, <2>3, <2>5 DEF TrainerInductive, TypeOK, _validate, validate_intervals, validate_gates
  <2>8. StepsCounted'
    BY <1>1, <2>3, <2>6 DEF TrainerInductive, StepsCounted
  <2>9. QueueInOrder'
    <3>1. NextBatch' = NextBatch
      BY <1>1, <2>3 DEF NextBatch
    <3> QED BY <1>1, <2>3, <2>6, <3>1 DEF TrainerInductive, QueueInOrder
  <2>10. PublishedInOrder'
    <3>1. PublishedSteps = DueSteps(main.step) \ {main.pending} /\ main.pending \in DueSteps(main.step)
      BY <1>1, <1>5 DEF TrainerInductive, PublishedInOrder
    <3>2. DueSteps(main.step)' = DueSteps(main.step)
      BY <1>1, <2>3 DEF DueSteps, checkpoint_due
    <3>3. 0 \notin DueSteps(main.step)
      BY <2>1 DEF DueSteps
    <3>4. PublishedSteps' = DueSteps(main.step)'
      BY <2>5, <3>1, <3>2
    <3>5. PublishedSteps' = DueSteps(main.step)' \ {main'.pending}
      BY <2>3, <3>2, <3>3, <3>4
    <3>6. main'.last \in PublishedSteps'
      BY <2>3, <2>5
    <3> QED BY <2>3, <2>5, <2>6, <3>5, <3>6 DEF PublishedInOrder
  <2>11. RowsPaid'
    <3>1. config.reuse[1] # 0 /\ config.prefetch =>
             \A s \in start..(IF pre'.pc \in {"sample", "put"} THEN pre'.step ELSE pre'.step - 1) :
               Paid(s, Larger(config.batch, config.value))
      BY <1>1 DEF TrainerInductive, RowsPaid
    <3>2. config.reuse[1] # 0 => Paid(main'.step, config.batch)
      BY <1>1, <2>3 DEF TrainerInductive, RowsPaid
    <3> QED BY <1>1, <2>3, <3>1, <3>2, Typed, PaidKept
  <2> QED BY <2>7, <2>8, <2>9, <2>10, <2>11 DEF TrainerInductive
<1> QED BY <1>4, <1>5


(* What a step of the loop keeps when it neither ends nor publishes a step. *)
LEMMA LoopStep ==
  ASSUME TrainerInductive, UNCHANGED <<config, start, published, pre>>,
         store' \in Store, store.produced <= store'.produced,
         main' \in MainState, main.pc \in Looping, main'.pc \in Looping,
         main'.step = main.step, main'.last = main.last, main'.pending = main.pending,
         main.pending = 0, main'.rows = main.rows,
         main'.pc \in {"pending", "next", "sample", "train"} =>
           main.pc \in {"pending", "next", "sample", "train"}
  PROVE  PublishedInOrder' /\ RowsPaid'
<1>0. /\ main.pc \in UnderWay /\ main.pc # "prepare" /\ main.pc \notin Leaving
      /\ main'.pc \in UnderWay /\ main'.pc # "prepare" /\ main'.pc \notin Leaving
  BY Phases
<1>1. PublishedInOrder'
  <2>1. PublishedSteps' = PublishedSteps /\ \A s : DueSteps(s)' = DueSteps(s)
    BY SamePublished
  <2> QED BY <1>0, <2>1 DEF TrainerInductive, PublishedInOrder
<1>2. RowsPaid'
  <2>1. config.reuse[1] # 0 /\ config.prefetch =>
           \A s \in start..(IF pre'.pc \in {"sample", "put"} THEN pre'.step ELSE pre'.step - 1) :
             Paid(s, Larger(config.batch, config.value))
    BY <1>0 DEF TrainerInductive, RowsPaid
  <2>2. config.reuse[1] # 0 /\ main'.pc \in {"pending", "next", "sample", "train"} =>
           Paid(main'.step, config.batch)
    BY DEF TrainerInductive, RowsPaid
  <2>3. store.produced \in Int /\ store'.produced \in Int /\ main.rows \in Int
        /\ main.rows <= store.produced
    BY Typed DEF Store
  <2>4. main'.rows <= store'.produced
    BY <2>3
  <2> QED BY <2>1, <2>2, <2>4, PaidKept
<1> QED BY <1>1, <1>2

(* A checkpoint only waits between the end of a step and the gate. *)
LEMMA NothingWaits ==
  ASSUME TrainerInductive, main.pc \in {"next", "sample", "train", "log", "due"}
  PROVE  main.pending = 0 /\ main.pc \in Looping /\ main.pc \in UnderWay
BY Phases DEF TrainerInductive, PublishedInOrder

(* A batch is taken from the queue: it is the one sampled for this step. *)
LEMMA TakeStep ==
  ASSUME TrainerInductive, NextPrefetched
  PROVE  TrainerInductive'
<1>1. /\ UNCHANGED <<config, start, ema, published, store, pre, stop>>
      /\ main.pc = "next" /\ config.prefetch /\ queue # <<>> /\ queue' = Tail(queue)
      /\ main.pending = 0 /\ main.pc \in Looping /\ main.pc \in UnderWay
  BY NothingWaits DEF NextPrefetched
<1>2. /\ queue \in Seq(Nat \cup {-1}) /\ Head(queue) \in Nat \cup {-1} /\ Head(queue) = queue[1]
      /\ Len(queue) \in Nat \ {0}
      /\ queue' \in Seq(Nat \cup {-1}) /\ Len(queue') = Len(queue) - 1
      /\ \A i \in 1..Len(queue') : queue'[i] = queue[i + 1]
  <2>1. queue \in Seq(Nat \cup {-1})
    BY Typed
  <2> QED BY <1>1, <2>1
<1>3. CASE Head(queue) = -1
  <2>1. main' = Failed(main)
    BY <1>1, <1>3 DEF NextPrefetched, Main
  <2> QED BY <1>1, <1>2, <2>1, Typed, FailingStep
<1>4. CASE Head(queue) # -1
  <2>0. "train" \in UnderWay \cup Leaving /\ main \in MainState
    BY Typed, Phases
  <2>1. main' = [Goto(main, "train") EXCEPT !.got = Head(queue)]
    BY <1>1, <1>4 DEF NextPrefetched, Main
  <2>2. Head(queue) \in Int
    BY <1>2
  <2>3. /\ main' \in MainState /\ main'.pc = "train" /\ main'.step = main.step /\ main'.last = main.last
        /\ main'.rows = main.rows /\ main'.pending = main.pending /\ main'.got = Head(queue)
    BY <2>0, <2>1, <2>2 DEF Goto, MainState
  <2>4. /\ main'.pc \in Looping /\ main'.pc \in UnderWay /\ main'.pc \notin Leaving /\ main'.pc # "final"
        /\ main'.pc # "prepare" /\ main'.pc \notin Starting
    BY <2>3, Phases
  <2> DEFINE ahead == pre.step - main.step
  <2>5. /\ ~stop /\ ahead >= 0 /\ Len(queue) \in {ahead, ahead + 1}
        /\ \A i \in 1..ahead : queue[i] = main.step + i - 1
        /\ Len(queue) = ahead + 1 => queue[ahead + 1] = -1 /\ pre.pc = "ended"
    <3>1. NextBatch = main.step
      BY <1>1 DEF NextBatch
    <3> QED BY <1>1, <3>1 DEF TrainerInductive, QueueInOrder
  <2>6. pre.step \in Nat /\ main.step \in Nat
    BY Typed
  <2>7. ahead >= 1
    <3>1. ahead \in Int /\ queue[1] # -1
      BY <1>2, <1>4, <2>6
    <3> HIDE DEF ahead
    <3>2. ahead # 0
      BY <1>2, <2>5, <3>1
    <3> QED BY <2>5, <3>1, <3>2
  <2>8. Head(queue) = main.step
    BY <1>2, <2>5, <2>6, <2>7
  <2>9. TypeOK'
    BY <1>1, <1>2, <2>3 DEF TrainerInductive, TypeOK, _validate, validate_intervals, validate_gates
  <2>10. StepsCounted'
    BY <1>1, <2>3, <2>4, <2>8 DEF TrainerInductive, StepsCounted
  <2>11. QueueInOrder'
    <3>1. NextBatch' = main.step + 1
      BY <2>3 DEF NextBatch
    <3>2. pre'.step - NextBatch' = ahead - 1
      BY <1>1, <2>6, <3>1
    <3>3. Len(queue') \in {ahead - 1, ahead}
      BY <1>2, <2>5, <2>6
    <3>4. ASSUME NEW i \in 1..(ahead - 1) PROVE queue'[i] = NextBatch' + i - 1
      <4>1. i + 1 \in 1..ahead /\ i \in 1..Len(queue')
        BY <2>6, <2>7, <3>3
      <4>2. queue'[i] = main.step + (i + 1) - 1
        BY <1>2, <2>5, <4>1
      <4> QED BY <2>6, <3>1, <4>2
    <3>5. Len(queue') = ahead => queue'[ahead] = -1 /\ pre'.pc = "ended"
      BY <1>1, <1>2, <2>5, <2>6, <2>7
    <3> HIDE DEF ahead
    <3>6. ahead \in Int /\ ahead >= 1
      BY <2>6, <2>7 DEF ahead
    <3>7. ~stop' /\ main'.pc # "sample"
      BY <1>1, <2>3, <2>5
    <3> QED BY <2>4, <3>2, <3>3, <3>4, <3>5, <3>6, <3>7 DEF QueueInOrder
  <2>12. PublishedInOrder' /\ RowsPaid'
    BY <1>1, <2>3, <2>4, Typed, LoopStep
  <2> QED BY <2>9, <2>10, <2>11, <2>12 DEF TrainerInductive
<1> QED BY <1>3, <1>4


(* A request on the sample client leaves the produced rows alone. *)
LEMMA Counted ==
  ASSUME TrainerInductive, NEW rows \in Int,
         UNCHANGED store \/ store' = [store EXCEPT !.consumed = @ + rows]
  PROVE  store' \in Store /\ store'.produced = store.produced /\ store.produced <= store'.produced
<1>1. store \in Store /\ store.consumed + rows \in Int /\ store.produced \in Int
  BY Typed
<1>2. store' \in Store /\ store'.produced = store.produced
  BY <1>1 DEF Store
<1> QED BY <1>1, <1>2

(* The rows of a request are a number. *)
LEMMA RowsNumber ==
  ASSUME TrainerInductive, NEW todo
  PROVE  RowsOf(todo) \in Int
BY Validated DEF TrainerInductive, RowsOf

(* Without a prefetcher the main thread samples for the step it is at. *)
LEMMA SampleStep ==
  ASSUME TrainerInductive, NextRefresh \/ NextSample
  PROVE  TrainerInductive'
<1>1. /\ UNCHANGED <<config, start, ema, published, pre, queue, stop>>
      /\ main.pc \in {"next", "sample"} /\ ~config.prefetch
      /\ main.pending = 0 /\ main.pc \in Looping /\ main.pc \in UnderWay
  BY NothingWaits DEF TrainerInductive, QueueInOrder, NextRefresh, NextSample
<1>2. store' \in Store /\ store.produced <= store'.produced
  <2>1. UNCHANGED store \/ \E todo : store' = [store EXCEPT !.consumed = @ + RowsOf(todo)]
    BY DEF NextRefresh, NextSample, Attempt, connect, PossiblyCounted
  <2> QED BY <2>1, Counted, RowsNumber, Typed
<1>3. CASE main' = Failed(main)
  BY <1>1, <1>2, <1>3, Typed, FailingStep
<1>4. ASSUME main' \in MainState, main'.pc \in {"next", "sample", "train"},
             main'.step = main.step, main'.last = main.last, main'.pending = main.pending,
             main'.rows = main.rows, main'.pc = "train" => main'.got = main.step
      PROVE  TrainerInductive'
  <2>1. /\ main'.pc \in Looping /\ main'.pc \in UnderWay /\ main'.pc \notin Leaving /\ main'.pc # "final"
        /\ main'.pc # "prepare" /\ main'.pc \notin Starting
    BY <1>4, Phases
  <2>2. TypeOK'
    BY <1>1, <1>2, <1>4, Typed DEF TrainerInductive, TypeOK, _validate, validate_intervals, validate_gates
  <2>3. StepsCounted'
    BY <1>1, <1>4, <2>1 DEF TrainerInductive, StepsCounted
  <2>4. QueueInOrder'
    BY <1>1, <1>4, <2>1 DEF TrainerInductive, QueueInOrder
  <2>5. PublishedInOrder' /\ RowsPaid'
    BY <1>1, <1>2, <1>4, <2>1, LoopStep
  <2> QED BY <2>2, <2>3, <2>4, <2>5 DEF TrainerInductive
<1>5. CASE main' = [main EXCEPT !.tries = @ + 1]
  <2>1. main \in MainState
    BY Typed
  <2>2. /\ main' \in MainState /\ main'.pc = main.pc /\ main'.step = main.step /\ main'.last = main.last
        /\ main'.pending = main.pending /\ main'.rows = main.rows
    BY <1>5, <2>1, RetryState
  <2> QED BY <1>1, <1>4, <2>2
<1>6. ASSUME NEW todo \in SUBSET {"policy", "value"},
             main' = [Goto(main, "sample") EXCEPT !.todo = todo]
      PROVE  TrainerInductive'
  <2>0. "sample" \in UnderWay \cup Leaving /\ main \in MainState
    BY Typed, Phases
  <2>1. /\ main' \in MainState /\ main'.pc = "sample" /\ main'.step = main.step /\ main'.last = main.last
        /\ main'.pending = main.pending /\ main'.rows = main.rows
    BY <1>6, <2>0 DEF Goto, MainState
  <2> QED BY <1>4, <2>1
<1>7. ASSUME NEW todo \in SUBSET {"policy", "value"}, NEW pc \in {"sample", "train"},
             main' = [Goto(main, pc) EXCEPT !.todo = todo, !.got = main.step]
      PROVE  TrainerInductive'
  <2>0. pc \in UnderWay \cup Leaving /\ main \in MainState /\ main.step \in Int
    BY Typed, Phases
  <2>1. /\ main' \in MainState /\ main'.pc = pc /\ main'.step = main.step /\ main'.last = main.last
        /\ main'.pending = main.pending /\ main'.rows = main.rows /\ main'.got = main.step
    BY <1>7, <2>0 DEF Goto, MainState
  <2> QED BY <1>4, <2>1
<1>8. CASE NextRefresh
  <2>1. {"policy"} \cup (IF config.value > 0 THEN {"value"} ELSE {}) \in SUBSET {"policy", "value"}
    OBVIOUS
  <2> QED BY <1>3, <1>5, <1>6, <1>8, <2>1 DEF NextRefresh, Attempt, connect, Main
<1>9. CASE NextSample
  <2>1. \A t : main.todo \ {t} \in SUBSET {"policy", "value"}
    BY Typed DEF MainState
  <2> QED BY <1>3, <1>5, <1>7, <1>9, <2>1 DEF NextSample, Attempt, connect, Main
<1> QED BY <1>8, <1>9

(* One optimizer step. *)
LEMMA TrainStep ==
  ASSUME TrainerInductive, Train
  PROVE  TrainerInductive'
<1>1. /\ UNCHANGED <<config, start, published, store, pre, queue, stop>>
      /\ main.pc = "train" /\ main.pending = 0 /\ main.pc \in Looping /\ main.pc \in UnderWay
  BY NothingWaits DEF Train
<1>2. CASE UNCHANGED ema /\ main' = Failed(main)
  BY <1>1, <1>2, Typed, FailingStep
<1>3. CASE ema' = ema + 1 /\ main' = Goto(main, "log")
  <2>0. "log" \in UnderWay \cup Leaving /\ main \in MainState /\ ema \in Nat
    BY Typed, Phases
  <2>1. /\ main' \in MainState /\ main'.pc = "log" /\ main'.step = main.step /\ main'.last = main.last
        /\ main'.pending = main.pending /\ main'.rows = main.rows /\ main'.got = main.got
    BY <1>3, <2>0, GotoState
  <2>2. /\ main'.pc \in Looping /\ main'.pc \in UnderWay /\ main'.pc \notin Leaving /\ main'.pc # "final"
        /\ main'.pc # "prepare" /\ main'.pc \notin Starting
    BY <2>1, Phases
  <2>3. TypeOK'
    BY <1>1, <1>3, <2>0, <2>1 DEF TrainerInductive, TypeOK, _validate, validate_intervals, validate_gates
  <2>4. StepsCounted'
    BY <1>1, <1>3, <2>1, <2>2 DEF TrainerInductive, StepsCounted
  <2>5. QueueInOrder'
    <3>1. NextBatch' = NextBatch
      BY <1>1, <2>1 DEF NextBatch
    <3> QED BY <1>1, <2>1, <2>2, <3>1 DEF TrainerInductive, QueueInOrder
  <2>6. PublishedInOrder' /\ RowsPaid'
    BY <1>1, <2>1, <2>2, Typed, LoopStep
  <2> QED BY <2>3, <2>4, <2>5, <2>6 DEF TrainerInductive
<1> QED BY <1>2, <1>3 DEF Train, execute_training_step, Main

(* The step's metrics. *)
LEMMA MetricsStep ==
  ASSUME TrainerInductive, LogStep
  PROVE  TrainerInductive'
<1>1. /\ UNCHANGED <<config, start, ema, published, store, pre, queue, stop>>
      /\ main.pc = "log" /\ main.pending = 0 /\ main.pc \in Looping /\ main.pc \in UnderWay
  BY NothingWaits DEF LogStep
<1>2. CASE main' = Failed(main)
  BY <1>1, <1>2, Typed, FailingStep
<1>3. CASE main' = Goto(main, "due") \/ main' = [main EXCEPT !.tries = @ + 1]
  <2>0. "due" \in UnderWay \cup Leaving /\ main \in MainState
    BY Typed, Phases
  <2>1. /\ main' \in MainState /\ main'.pc \in {"log", "due"} /\ main'.step = main.step
        /\ main'.last = main.last /\ main'.pending = main.pending /\ main'.rows = main.rows
        /\ main'.got = main.got
    <3>1. CASE main' = Goto(main, "due")
      BY <2>0, <3>1, GotoState
    <3>2. CASE main' = [main EXCEPT !.tries = @ + 1]
      BY <1>1, <2>0, <3>2, RetryState
    <3> QED BY <1>3, <3>1, <3>2
  <2> QED BY <1>1, <2>1, Typed, Phases, MoveStep
<1> QED BY <1>2, <1>3 DEF LogStep, Attempt, connect, MainRaises, Main


(* The end of a round: the next step, and its checkpoint if one is due. *)
LEMMA DueStep ==
  ASSUME TrainerInductive, Due
  PROVE  TrainerInductive'
<1> DEFINE next == main.step + 1
           pc == IF next < config.total THEN "check" ELSE "final"
           f == [Goto(main, pc) EXCEPT !.step = next]
<1>1. /\ UNCHANGED <<config, start, ema, store, pre, queue, stop>>
      /\ main.pc = "due" /\ main.pending = 0 /\ main.pc \in Looping /\ main.pc \in UnderWay
  BY NothingWaits DEF Due
<1>2. /\ main.step \in Nat /\ next \in Nat /\ next <= config.total /\ config.total \in Nat /\ start \in Nat
      /\ start <= main.step /\ ema = next
  <2>1. main.step \in Nat /\ start \in Nat /\ config.total \in Nat
    BY Typed, Validated DEF TrainerInductive
  <2>2. main.step < config.total /\ start <= main.step /\ ema = next
    BY <1>1 DEF TrainerInductive, StepsCounted
  <2> QED BY <2>1, <2>2
<1>3. pc \in {"check", "final"} /\ pc \in UnderWay \cup Leaving
  BY Phases
<1>4. \/ ~checkpoint_due(next) /\ main' = f /\ UNCHANGED published
      \/ checkpoint_due(next) /\ main' = [f EXCEPT !.pending = next] /\ UNCHANGED published
      \/ checkpoint_due(next) /\ _publish(next, f)
  BY DEF Due, Main
<1>5. pc = "check" => next < config.total
  OBVIOUS
<1>6. pc = "final" => next = config.total
  BY <1>2
<1> HIDE DEF pc
<1>7. /\ f \in MainState /\ f.pc = pc /\ f.step = next /\ f.last = main.last /\ f.rows = main.rows
      /\ f.pending = 0
  BY <1>1, <1>2, <1>3, Typed DEF Goto, MainState
<1> HIDE DEF f
<1>8. main.last < next /\ main.last \in Nat
  BY <1>1, <1>2, LastBehind, Typed
<1>a. checkpoint_due(next) /\ _publish(next, f) =>
        \/ /\ published' = Append(published, [step |-> next, weights |-> ema])
           /\ main' = [f EXCEPT !.last = next]
        \/ /\ main' = Failed(f)
           /\ \/ UNCHANGED published
              \/ published' = Append(published, [step |-> next, weights |-> ema])
  BY <1>2, <1>8 DEF _publish, Main
<1>b. CASE checkpoint_due(next) /\ _publish(next, f) /\ main' = Failed(f)
  <2>1. queue' \in Seq(Nat \cup {-1}) /\ start <= next
    BY <1>1, <1>2, Typed
  <2>2. /\ main' = Failed(f)
        /\ UNCHANGED published \/ published' = Append(published, [step |-> next, weights |-> ema])
    <3>1. f.last = main.last /\ [f EXCEPT !.last = next].last = next
      BY <1>7 DEF MainState
    <3>2. Failed(f).last = f.last
      BY <1>7, FailedState
    <3> QED BY <1>8, <1>a, <1>b, <3>1, <3>2
  <2> HIDE DEF next
  <2> QED BY <1>1, <1>2, <1>7, <1>8, <2>1, <2>2, FailedPublication
<1>c. SUFFICES ASSUME ~(checkpoint_due(next) /\ _publish(next, f) /\ main' = Failed(f))
               PROVE  TrainerInductive'
  BY <1>b
<1>9. /\ main' \in MainState /\ main'.pc = pc /\ main'.step = next /\ main'.rows = main.rows
      /\ published' \in Seq(Checkpoint)
      /\ \A i \in 1..Len(published') :
            /\ published'[i].weights = published'[i].step
            /\ i > 1 => published'[i - 1].step < published'[i].step
            /\ published'[i].step <= main'.last
      /\ main'.last \in {start} \cup PublishedSteps'
      /\ main'.pending # 0 => main'.pending = next /\ checkpoint_due(next)
      /\ PublishedSteps' = DueSteps(next) \ {main'.pending}
  <2>0. PublishedSteps = DueSteps(main.step) \ {0} /\ 0 \notin DueSteps(main.step)
    BY <1>1, <1>2, DueGrows DEF TrainerInductive, PublishedInOrder
  <2>1. /\ DueSteps(next) = IF checkpoint_due(next) THEN DueSteps(main.step) \cup {next}
                            ELSE DueSteps(main.step)
        /\ next \notin DueSteps(main.step)
    BY <1>2, DueGrows
  <2>2. UNCHANGED published => PublishedSteps' = PublishedSteps
    BY DEF PublishedSteps
  <2>3. CASE ~checkpoint_due(next) /\ main' = f /\ UNCHANGED published
    BY <1>1, <1>7, <2>0, <2>1, <2>2, <2>3, Typed DEF TrainerInductive, PublishedInOrder
  <2>4. CASE checkpoint_due(next) /\ main' = [f EXCEPT !.pending = next] /\ UNCHANGED published
    <3>1. /\ main' \in MainState /\ main'.pc = pc /\ main'.step = next /\ main'.rows = main.rows
          /\ main'.pending = next /\ main'.last = main.last
      BY <1>2, <1>7, <2>4 DEF MainState
    <3>2. PublishedSteps' = DueSteps(next) \ {next}
      BY <2>0, <2>1, <2>2, <2>4
    <3> QED BY <1>1, <2>0, <2>2, <2>4, <3>1, <3>2, Typed DEF TrainerInductive, PublishedInOrder
  <2>5. CASE checkpoint_due(next) /\ _publish(next, f)
    <3>1. /\ published' = Append(published, [step |-> next, weights |-> ema])
          /\ main' = [f EXCEPT !.last = next]
      BY <1>a, <1>c, <2>5
    <3>2. /\ main' \in MainState /\ main'.pc = pc /\ main'.step = next /\ main'.rows = main.rows
          /\ main'.pending = 0 /\ main'.last = next
      BY <1>2, <1>7, <3>1 DEF MainState
    <3>3. /\ published' \in Seq(Checkpoint)
          /\ PublishedSteps' = PublishedSteps \cup {next}
          /\ \A i \in 1..Len(published') :
                /\ published'[i].weights = published'[i].step
                /\ i > 1 => published'[i - 1].step < published'[i].step
                /\ published'[i].step <= next
      BY <1>1, <1>2, <1>8, <3>1, Publication
    <3>4. PublishedSteps' = DueSteps(next) \ {0}
      BY <1>2, <2>0, <2>1, <2>5, <3>3
    <3> QED BY <3>2, <3>3, <3>4
  <2> QED BY <1>4, <2>3, <2>4, <2>5
<1> HIDE DEF next
<1>10. /\ main'.pc \in UnderWay /\ main'.pc \notin Starting /\ main'.pc \notin Leaving
       /\ main'.pc \in Looping <=> pc = "check"
       /\ main'.pc # "prepare" /\ main'.pc \in {"check", "final"}
       /\ main'.pc \notin {"train", "log", "due", "pending", "next", "sample"}
  BY <1>3, <1>9 DEF UnderWay, Leaving, Starting, Looping
<1>11. TypeOK'
  BY <1>1, <1>9 DEF TrainerInductive, TypeOK, _validate, validate_intervals, validate_gates
<1>12. StepsCounted'
  <2>1. start <= next
    BY <1>2 DEF next
  <2>2. pc = "final" => main'.pc \notin Looping
    BY <1>10
  <2> QED BY <1>1, <1>2, <1>5, <1>6, <1>9, <1>10, <2>1 DEF StepsCounted
<1>13. QueueInOrder'
  <2>1. NextBatch' = NextBatch
    BY <1>1, <1>9, <1>10 DEF NextBatch, next
  <2> QED BY <1>1, <1>9, <1>10, <2>1 DEF TrainerInductive, QueueInOrder
<1>14. PublishedInOrder'
  <2>1. \A s : DueSteps(s)' = DueSteps(s)
    BY <1>1 DEF DueSteps, checkpoint_due
  <2>2. checkpoint_due(next) => next \in DueSteps(next)
    BY <1>2 DEF DueSteps, next
  <2>3. DueSteps(main.step)' = DueSteps(next)
    BY <1>1, <1>9 DEF DueSteps, checkpoint_due
  <2> QED BY <1>1, <1>9, <1>10, <2>2, <2>3 DEF PublishedInOrder
<1>15. RowsPaid'
  <2>1. config.reuse[1] # 0 /\ config.prefetch =>
           \A s \in start..(IF pre'.pc \in {"sample", "put"} THEN pre'.step ELSE pre'.step - 1) :
             Paid(s, Larger(config.batch, config.value))
    BY <1>1 DEF TrainerInductive, RowsPaid
  <2> QED BY <1>1, <1>9, <1>10, <2>1, Typed, PaidKept
<1> QED BY <1>11, <1>12, <1>13, <1>14, <1>15 DEF TrainerInductive


(* The end of training: what was left to publish is published. *)
LEMMA FinalStep ==
  ASSUME TrainerInductive, Final
  PROVE  TrainerInductive'
<1> DEFINE f == [Goto(main, "stop") EXCEPT !.pending = 0]
<1>1. /\ UNCHANGED <<config, start, ema, store, pre>> /\ main.pc = "final" /\ main.pc \in UnderWay
  BY Phases DEF Final
<1>2. /\ main.step = config.total /\ ema = config.total /\ start < config.total /\ start \in Nat
      /\ config.total \in Nat /\ main.last \in Nat /\ main.pending \in Nat
      /\ start <= main.step
  <2>1. start \in Nat /\ config.total \in Nat /\ start < config.total
    BY Typed, Validated DEF TrainerInductive, TypeOK
  <2> QED BY <1>1, <2>1, Typed DEF TrainerInductive, StepsCounted
<1>3. /\ f \in MainState /\ f.pc = "stop" /\ f.step = main.step /\ f.last = main.last /\ f.rows = main.rows
  <2>1. "stop" \in UnderWay \cup Leaving /\ main \in MainState
    BY Typed, Phases
  <2> QED BY <2>1 DEF Goto, MainState
<1>4. \/ main.pending # 0 /\ _publish(main.pending, f)
      \/ main.pending = 0 /\ ~checkpoint_due(config.total) /\ _publish(config.total, f)
      \/ main.pending = 0 /\ checkpoint_due(config.total) /\ main' = f /\ UNCHANGED published
  BY DEF Final, Main
<1> HIDE DEF f
<1>5. queue' \in Seq(Nat \cup {-1})
  <2>1. queue \in Seq(Nat \cup {-1})
    BY Typed
  <2>2. queue' = IF queue = <<>> THEN queue ELSE Tail(queue)
    BY DEF Final, StopPrefetch
  <2> QED BY <2>1, <2>2
<1>6. /\ PublishedSteps = DueSteps(config.total) \ {main.pending} /\ 0 \notin DueSteps(config.total)
      /\ main.pending # 0 => main.pending = config.total /\ checkpoint_due(config.total)
      /\ checkpoint_due(config.total) <=> config.total \in DueSteps(config.total)
      /\ main.last # config.total => main.last < config.total
      /\ main.pending # 0 => main.last # config.total
  <2>1. /\ PublishedSteps = DueSteps(config.total) \ {main.pending}
        /\ main.pending # 0 => main.pending \in DueSteps(config.total)
    BY <1>1, <1>2 DEF TrainerInductive, PublishedInOrder
  <2>2. 0 \notin DueSteps(config.total) /\ checkpoint_due(config.total) <=> config.total \in DueSteps(config.total)
    BY <1>2 DEF DueSteps
  <2>3. main.pending # 0 => main.pending = config.total /\ main.last # main.pending
    BY <1>1, <1>2, LastBehind
  <2>4. main.last <= main.step
    BY <1>1, LastBehind
  <2>5. main.last # config.total => main.last < config.total
    BY <1>2, <2>4
  <2> QED BY <2>1, <2>2, <2>3, <2>5, <1>2 DEF DueSteps
<1>a. main.last < config.total /\ _publish(config.total, f) =>
        \/ /\ published' = Append(published, [step |-> config.total, weights |-> ema])
           /\ main' = [f EXCEPT !.last = config.total]
        \/ /\ main' = Failed(f)
           /\ \/ UNCHANGED published
              \/ published' = Append(published, [step |-> config.total, weights |-> ema])
  BY <1>2 DEF _publish, Main
<1>b. ASSUME main.last < config.total, _publish(config.total, f), main' = Failed(f)
      PROVE  TrainerInductive'
  <2>1. UNCHANGED published \/ published' = Append(published, [step |-> config.total, weights |-> ema])
    BY <1>a, <1>b
  <2> QED BY <1>1, <1>2, <1>3, <1>5, <1>b, <2>1, FailedPublication
<1>c. SUFFICES ASSUME ~(main.last < config.total /\ _publish(config.total, f) /\ main' = Failed(f))
               PROVE  TrainerInductive'
  BY <1>b
<1>7. ASSUME main.last < config.total, _publish(config.total, f),
             checkpoint_due(config.total) => main.pending = config.total
      PROVE  /\ main' \in MainState /\ main'.pc = "stop" /\ main'.step = main.step /\ main'.rows = main.rows
             /\ published' \in Seq(Checkpoint)
             /\ \A i \in 1..Len(published') :
                   /\ published'[i].weights = published'[i].step
                   /\ i > 1 => published'[i - 1].step < published'[i].step
                   /\ published'[i].step <= main'.last
             /\ main'.last \in {start} \cup PublishedSteps'
             /\ PublishedSteps' = DueSteps(config.total) \cup {config.total}
  <2>1. /\ published' = Append(published, [step |-> config.total, weights |-> ema])
        /\ main' = [f EXCEPT !.last = config.total]
    BY <1>7, <1>a, <1>c
  <2>2. /\ main' \in MainState /\ main'.pc = "stop" /\ main'.step = main.step /\ main'.rows = main.rows
        /\ main'.last = config.total
    BY <1>2, <1>3, <2>1 DEF MainState
  <2>3. /\ published' \in Seq(Checkpoint)
        /\ PublishedSteps' = PublishedSteps \cup {config.total}
        /\ \A i \in 1..Len(published') :
              /\ published'[i].weights = published'[i].step
              /\ i > 1 => published'[i - 1].step < published'[i].step
              /\ published'[i].step <= config.total
    BY <1>1, <1>2, <1>7, <2>1, Publication
  <2>4. PublishedSteps' = DueSteps(config.total) \cup {config.total}
    BY <1>6, <1>7, <2>3
  <2> QED BY <2>2, <2>3, <2>4
<1>8. /\ main' \in MainState /\ main'.pc = "stop" /\ main'.step = main.step /\ main'.rows = main.rows
      /\ published' \in Seq(Checkpoint)
      /\ \A i \in 1..Len(published') :
            /\ published'[i].weights = published'[i].step
            /\ i > 1 => published'[i - 1].step < published'[i].step
            /\ published'[i].step <= main'.last
      /\ main'.last \in {start} \cup PublishedSteps'
      /\ PublishedSteps' = DueSteps(config.total) \cup {config.total}
  <2>1. CASE main.pending # 0 /\ _publish(main.pending, f)
    <3>1. _publish(config.total, f) /\ main.last < config.total
      BY <1>6, <2>1
    <3> QED BY <1>6, <1>7, <2>1, <3>1
  <2>2. CASE main.pending = 0 /\ ~checkpoint_due(config.total) /\ _publish(config.total, f)
    <3>1. main.last \in {start} \cup DueSteps(main.step)
      BY <1>1, LastBehind
    <3>2. main.last < config.total
      BY <1>2, <1>6, <2>2, <3>1
    <3> QED BY <1>7, <2>2, <3>2
  <2>3. CASE main.pending = 0 /\ checkpoint_due(config.total) /\ main' = f /\ UNCHANGED published
    <3>1. PublishedSteps' = PublishedSteps
      BY <2>3 DEF PublishedSteps
    <3>2. PublishedSteps' = DueSteps(config.total) \cup {config.total}
      BY <1>6, <2>3, <3>1
    <3> QED BY <1>1, <1>3, <2>3, <3>1, <3>2, Typed DEF TrainerInductive, PublishedInOrder
  <2> QED BY <1>4, <2>1, <2>2, <2>3
<1>9. /\ main'.pc \notin UnderWay /\ main'.pc \notin Starting /\ main'.pc \notin Looping
      /\ main'.pc # "final" /\ main'.pc # "prepare"
      /\ main'.pc \notin {"train", "log", "due", "pending", "next", "sample"}
  BY <1>8 DEF UnderWay, Starting, Looping
<1>10. TypeOK'
  BY <1>1, <1>5, <1>8, Typed DEF TrainerInductive, TypeOK, _validate, validate_intervals, validate_gates
<1>11. StepsCounted'
  BY <1>1, <1>8, <1>9 DEF TrainerInductive, StepsCounted
<1>12. QueueInOrder'
  BY <1>9 DEF QueueInOrder
<1>13. PublishedInOrder'
  <2>1. DueSteps(config.total)' = DueSteps(config.total)
    BY <1>1 DEF DueSteps, checkpoint_due
  <2> QED BY <1>1, <1>8, <1>9, <2>1 DEF PublishedInOrder
<1>14. RowsPaid'
  BY <1>1, <1>8, <1>9, Typed, PaidKept
<1> QED BY <1>10, <1>11, <1>12, <1>13, <1>14 DEF TrainerInductive


-----------------------------------------------------------------------------
(* The steps of self-play and of the prefetch thread.                       *)

(* Self-play only adds rows; nothing else that the invariant reads changes. *)
LEMMA SelfplayStep ==
  ASSUME TrainerInductive, AdmitGame \/ AppendRows \/ ChildDies \/ Ended
  PROVE  TrainerInductive'
<1>1. UNCHANGED <<config, start, ema, published, main, pre, queue, stop>>
  BY DEF AdmitGame, AppendRows, ChildDies, Ended, vars
<1>2. store' \in Store /\ store.produced <= store'.produced
  <2>1. CASE UNCHANGED store
    BY <2>1, Typed
  <2>2. CASE AppendRows
    <3>1. PICK r \in GameRows : store' = [store EXCEPT !.produced = @ + r, !.episodes = @ + 1]
      BY <2>2 DEF AppendRows
    <3>2. r \in Nat
      BY TrainerAssumption
    <3>3. /\ store \in Store /\ store.produced \in Int /\ store.produced + r \in Int
          /\ store.episodes + 1 \in Int
      BY <3>2, Typed
    <3>4. store' \in Store /\ store'.produced = store.produced + r
      BY <3>1, <3>3 DEF Store
    <3> QED BY <3>2, <3>3, <3>4
  <2> QED BY <2>1, <2>2 DEF AdmitGame, ChildDies, Ended, vars
<1>3. TypeOK'
  BY <1>1, <1>2 DEF TrainerInductive, TypeOK, _validate, validate_intervals, validate_gates
<1>4. StepsCounted'
  BY <1>1 DEF TrainerInductive, StepsCounted
<1>5. QueueInOrder'
  BY <1>1 DEF TrainerInductive, QueueInOrder, NextBatch
<1>6. PublishedInOrder'
  <2>1. PublishedSteps' = PublishedSteps /\ \A s : DueSteps(s)' = DueSteps(s)
    BY <1>1, SamePublished
  <2> QED BY <1>1, <2>1 DEF TrainerInductive, PublishedInOrder
<1>7. RowsPaid'
  <2>0. main.rows \in Int /\ store.produced \in Int /\ store'.produced \in Int /\ main.rows <= store.produced
    BY <1>2, Typed DEF Store
  <2>1. main'.rows <= store'.produced
    BY <1>1, <1>2, <2>0
  <2>2. config.reuse[1] # 0 /\ config.prefetch /\ main'.pc \in UnderWay =>
           \A s \in start..(IF pre'.pc \in {"sample", "put"} THEN pre'.step ELSE pre'.step - 1) :
             Paid(s, Larger(config.batch, config.value))
    BY <1>1 DEF TrainerInductive, RowsPaid
  <2>3. config.reuse[1] # 0 /\ main'.pc \in {"pending", "next", "sample", "train"} =>
           Paid(main'.step, config.batch)
    BY <1>1 DEF TrainerInductive, RowsPaid
  <2>4. main' \in MainState
    BY <1>1, Typed
  <2> QED BY <1>1, <1>2, <2>1, <2>2, <2>3, <2>4, PaidKept
<1> QED BY <1>3, <1>4, <1>5, <1>6, <1>7 DEF TrainerInductive

(* The head of the prefetcher's loop. *)
LEMMA PreLoopStep ==
  ASSUME TrainerInductive, PreLoop
  PROVE  TrainerInductive'
<1>1. /\ UNCHANGED <<config, start, ema, published, main, queue, stop, store>> /\ pre.pc = "loop"
      /\ \/ pre' = [pre EXCEPT !.pc = "ended"]
         \/ pre' = [pre EXCEPT !.pc = "gate", !.tries = 0]
  BY DEF PreLoop, Pre
<1>2. pre' \in PreState /\ pre'.step = pre.step /\ pre'.pc \in {"ended", "gate"}
  <2>1. pre \in PreState
    BY Typed
  <2>2. CASE pre' = [pre EXCEPT !.pc = "ended"]
    BY <2>1, <2>2 DEF PreState
  <2>3. CASE pre' = [pre EXCEPT !.pc = "gate", !.tries = 0]
    BY <2>1, <2>3 DEF PreState
  <2> QED BY <1>1, <2>2, <2>3
<1> QED BY <1>1, <1>2, Typed, PrefetchStep

(* The prefetcher's gate: what it lets sample is paid for. *)
LEMMA PreGateStep ==
  ASSUME TrainerInductive, PreGate
  PROVE  TrainerInductive'
<1> DEFINE b == Larger(config.batch, config.value)
           todo == {"policy"} \cup (IF config.value > 0 THEN {"value"} ELSE {})
<1>1. /\ UNCHANGED <<config, start, ema, published, main, queue, stop, store>> /\ pre.pc = "gate"
      /\ \/ /\ store.produced >= required_produced_rows(pre.step, b)
            /\ pre' = [pre EXCEPT !.pc = "sample", !.tries = 0, !.todo = todo]
         \/ pre' = [pre EXCEPT !.pc = "ended"]
         \/ pre' = [pre EXCEPT !.tries = 0]
         \/ pre' = [pre EXCEPT !.tries = @ + 1]
         \/ pre' = [pre EXCEPT !.pc = "error"]
  BY DEF PreGate, Pre, Attempt, connect, PreRaises, GateMet, _refresh_connected
<1>2. todo \in SUBSET {"policy", "value"}
  OBVIOUS
<1> HIDE DEF todo
<1>3. /\ pre' \in PreState /\ pre'.step = pre.step
      /\ pre'.pc \in {"sample", "put"} => store.produced >= required_produced_rows(pre.step, b)
  <2>1. pre \in PreState
    BY Typed
  <2>2. CASE /\ store.produced >= required_produced_rows(pre.step, b)
             /\ pre' = [pre EXCEPT !.pc = "sample", !.tries = 0, !.todo = todo]
    BY <1>2, <2>1, <2>2 DEF PreState
  <2>3. CASE pre' = [pre EXCEPT !.pc = "ended"]
    BY <2>1, <2>3 DEF PreState
  <2>4. CASE pre' = [pre EXCEPT !.tries = 0] \/ pre' = [pre EXCEPT !.tries = @ + 1]
    BY <1>1, <2>1, <2>4 DEF PreState
  <2>5. CASE pre' = [pre EXCEPT !.pc = "error"]
    BY <2>1, <2>5 DEF PreState
  <2> QED BY <1>1, <2>2, <2>3, <2>4, <2>5
<1>4. config.reuse[1] # 0 /\ pre'.pc \in {"sample", "put"} => Paid(pre.step, b)
  BY <1>3, Typed, Validated, GatePays DEF TrainerInductive
<1> QED BY <1>1, <1>3, <1>4, Typed, PrefetchStep

(* The prefetcher samples. *)
LEMMA PreSampleStep ==
  ASSUME TrainerInductive, PreSample
  PROVE  TrainerInductive'
<1>1. /\ UNCHANGED <<config, start, ema, published, main, queue, stop>> /\ pre.pc = "sample"
  BY DEF PreSample
<1>2. PICK t \in pre.todo :
        /\ UNCHANGED store \/ store' = [store EXCEPT !.consumed = @ + RowsOf({t})]
        /\ \/ pre' = [pre EXCEPT !.todo = pre.todo \ {t}, !.tries = 0,
                        !.pc = IF pre.todo \ {t} = {} THEN "put" ELSE "sample"]
           \/ pre' = [pre EXCEPT !.tries = @ + 1]
           \/ pre' = [pre EXCEPT !.pc = "error"]
  BY DEF PreSample, Pre, Attempt, connect, PreRaises, PossiblyCounted
<1>3. pre' \in PreState /\ pre'.step = pre.step
  <2>1. pre.todo \ {t} \in SUBSET {"policy", "value"} /\ pre \in PreState
    BY Typed DEF PreState
  <2>2. CASE pre' = [pre EXCEPT !.todo = pre.todo \ {t}, !.tries = 0,
                       !.pc = IF pre.todo \ {t} = {} THEN "put" ELSE "sample"]
    <3>1. PICK pc \in {"put", "sample"} : pc = IF pre.todo \ {t} = {} THEN "put" ELSE "sample"
      OBVIOUS
    <3> QED BY <2>1, <2>2, <3>1 DEF PreState
  <2>3. CASE pre' = [pre EXCEPT !.tries = @ + 1]
    BY <2>1, <2>3 DEF PreState
  <2>4. CASE pre' = [pre EXCEPT !.pc = "error"]
    BY <2>1, <2>4 DEF PreState
  <2> QED BY <1>2, <2>2, <2>3, <2>4
<1>4. store' \in Store /\ store.produced <= store'.produced
  BY <1>2, Counted, RowsNumber
<1> QED BY <1>1, <1>3, <1>4, PrefetchStep

(* A batch, or the error of one, goes to the end of the queue. *)
LEMMA PutStep ==
  ASSUME TrainerInductive, PrePut \/ PreError
  PROVE  TrainerInductive'
<1>1. /\ UNCHANGED <<config, start, ema, published, main, stop, store>>
      /\ pre.pc \in {"put", "error"}
  BY DEF PrePut, PreError
<1>2. CASE pre' = [pre EXCEPT !.pc = "ended"] /\ UNCHANGED queue
  <2>1. pre' = [pre EXCEPT !.pc = "ended"] /\ UNCHANGED queue
    BY <1>2
  <2>2. pre' \in PreState /\ pre'.step = pre.step /\ pre'.pc = "ended"
    BY <2>1, Typed DEF PreState
  <2> QED BY <1>1, <2>1, <2>2, Typed, PrefetchStep
<1>3. ASSUME NEW x \in Nat \cup {-1}, queue' = Append(queue, x), pre' \in PreState,
             \/ x = pre.step /\ pre.pc = "put" /\ pre'.step = pre.step + 1 /\ pre'.pc = "loop"
             \/ x = -1 /\ pre'.step = pre.step /\ pre'.pc = "ended"
      PROVE  TrainerInductive'
  <2>1. /\ queue \in Seq(Nat \cup {-1}) /\ queue' \in Seq(Nat \cup {-1}) /\ Len(queue) \in Nat
        /\ Len(queue') = Len(queue) + 1 /\ queue'[Len(queue) + 1] = x
        /\ \A i \in 1..Len(queue) : queue'[i] = queue[i]
    <3>1. queue \in Seq(Nat \cup {-1})
      BY Typed
    <3> QED BY <1>3, <3>1
  <2>2. TypeOK'
    BY <1>1, <1>3, <2>1 DEF TrainerInductive, TypeOK, _validate, validate_intervals, validate_gates
  <2>3. StepsCounted'
    BY <1>1 DEF TrainerInductive, StepsCounted
  <2>4. QueueInOrder'
    <3>1. SUFFICES ASSUME main.pc \in UnderWay PROVE QueueInOrder'
      BY <1>1 DEF QueueInOrder
    <3>2. ~stop' /\ (main'.pc = "sample" => ~config'.prefetch) /\ main'.pc \notin Starting
      BY <1>1, <3>1 DEF TrainerInductive, QueueInOrder
    <3>3. CASE ~(main.pc \in Looping /\ config.prefetch)
      BY <1>1, <3>2, <3>3 DEF QueueInOrder
    <3>4. CASE main.pc \in Looping /\ config.prefetch
      <4> DEFINE ahead == pre.step - NextBatch
      <4>1. NextBatch' = NextBatch /\ NextBatch \in Nat /\ pre.step \in Nat
        BY <1>1, Typed DEF NextBatch
      <4>2. /\ ahead >= 0 /\ Len(queue) = ahead
            /\ \A i \in 1..ahead : queue[i] = NextBatch + i - 1
        <5>1. /\ ahead >= 0 /\ Len(queue) \in {ahead, ahead + 1}
              /\ \A i \in 1..ahead : queue[i] = NextBatch + i - 1
              /\ Len(queue) = ahead + 1 => pre.pc = "ended"
          BY <3>1, <3>4 DEF TrainerInductive, QueueInOrder
        <5> QED BY <1>1, <5>1
      <4>3. ahead \in Nat /\ NextBatch + ahead = pre.step
        BY <4>1, <4>2
      <4>4. CASE x = pre.step /\ pre'.step = pre.step + 1
        <5>1. pre'.step - NextBatch' = ahead + 1
          BY <4>1, <4>4
        <5> HIDE DEF ahead
        <5>2. Len(queue') = ahead + 1
          BY <2>1, <4>2
        <5>3. \A i \in 1..(ahead + 1) : queue'[i] = NextBatch' + i - 1
          <6>1. queue'[ahead + 1] = NextBatch' + (ahead + 1) - 1
            BY <2>1, <4>1, <4>2, <4>3, <4>4
          <6> QED BY <2>1, <4>1, <4>2, <4>3, <6>1
        <5> QED BY <3>2, <4>3, <5>1, <5>2, <5>3 DEF QueueInOrder
      <4>5. CASE x = -1 /\ pre'.step = pre.step /\ pre'.pc = "ended"
        <5>1. pre'.step - NextBatch' = ahead
          BY <4>1, <4>5
        <5> HIDE DEF ahead
        <5>2. Len(queue') = ahead + 1 /\ queue'[ahead + 1] = -1
          BY <2>1, <4>2, <4>5
        <5>3. \A i \in 1..ahead : queue'[i] = NextBatch' + i - 1
          BY <2>1, <4>1, <4>2
        <5> QED BY <3>2, <4>3, <4>5, <5>1, <5>2, <5>3 DEF QueueInOrder
      <4> QED BY <1>3, <4>4, <4>5
    <3> QED BY <3>3, <3>4
  <2>5. PublishedInOrder'
    <3>1. PublishedSteps' = PublishedSteps /\ \A s : DueSteps(s)' = DueSteps(s)
      BY <1>1, SamePublished
    <3> QED BY <1>1, <3>1 DEF TrainerInductive, PublishedInOrder
  <2>6. RowsPaid'
    <3>1. pre.step \in Nat /\ start \in Nat
      BY Typed
    <3>2. ASSUME config.reuse[1] # 0, config.prefetch, main'.pc \in UnderWay,
                 NEW s \in start..(IF pre'.pc \in {"sample", "put"} THEN pre'.step ELSE pre'.step - 1)
          PROVE  Paid(s, Larger(config.batch, config.value))
      <4>1. s \in start..(IF pre.pc \in {"sample", "put"} THEN pre.step ELSE pre.step - 1)
        BY <1>3, <3>1
      <4> QED BY <1>1, <3>2, <4>1 DEF TrainerInductive, RowsPaid
    <3>3. config.reuse[1] # 0 /\ main'.pc \in {"pending", "next", "sample", "train"} =>
             Paid(main'.step, config.batch)
      BY <1>1 DEF TrainerInductive, RowsPaid
    <3> QED BY <1>1, <3>2, <3>3, Typed, PaidKept
  <2> QED BY <2>2, <2>3, <2>4, <2>5, <2>6 DEF TrainerInductive
<1>4. CASE /\ queue' = Append(queue, pre.step) /\ pre.pc = "put"
           /\ pre' = [pre EXCEPT !.pc = "loop", !.step = @ + 1]
  <2>1. /\ queue' = Append(queue, pre.step) /\ pre.pc = "put"
        /\ pre' = [pre EXCEPT !.pc = "loop", !.step = @ + 1]
    BY <1>4
  <2>2. pre.step \in Nat /\ pre.step + 1 \in Nat /\ pre \in PreState
    BY Typed
  <2>3. pre' \in PreState /\ pre'.step = pre.step + 1 /\ pre'.pc = "loop"
    BY <2>1, <2>2 DEF PreState
  <2> QED BY <1>3, <2>1, <2>2, <2>3
<1>5. CASE PreError
  <2>1. queue' = Append(queue, -1) /\ pre' = [pre EXCEPT !.pc = "ended"]
    BY <1>5 DEF PreError, Pre
  <2>2. pre' \in PreState /\ pre'.step = pre.step /\ pre'.pc = "ended"
    BY <2>1, Typed DEF PreState
  <2> QED BY <1>3, <2>1, <2>2
<1> QED BY <1>2, <1>4, <1>5 DEF PrePut, Pre


-----------------------------------------------------------------------------
(* The invariant of a run.                                                   *)

(* A run starts in order, with a store that owes nothing. *)
LEMMA TrainerInit == Init => TrainerInductive
<1> SUFFICES ASSUME Init PROVE TrainerInductive
  OBVIOUS
<1> USE DEF Init
<1>1. config \in Fields /\ _validate(config) /\ start \in Nat /\ start < config.total
  BY ConfigsAssumption, TrainerAssumption
<1>2. config.total \in Int /\ config.batch \in Int /\ config.value \in Int /\ config.gate \in Int
      /\ config.episodes \in Int /\ config.reuse[1] \in Int /\ config.reuse[2] \in Int
  BY <1>1 DEF Fields
<1>3. config.batch >= 1 /\ config.value >= 0 /\ config.gate >= 1 /\ config.reuse[1] >= 0
      /\ config.reuse[2] >= 1
  BY <1>1 DEF _validate, validate_intervals, validate_gates
<1> DEFINE b == Larger(config.batch, config.value)
<1>4. b \in Nat
  BY <1>2, <1>3 DEF Larger
<1> HIDE DEF b
<1>5. start # 0 => required_produced_rows(start - 1, b) \in Nat /\ required_episodes(start - 1) \in Int
  <2> SUFFICES ASSUME start # 0
               PROVE  required_produced_rows(start - 1, b) \in Nat /\ required_episodes(start - 1) \in Int
    OBVIOUS
  <2> DEFINE end == ((start - 1) \div config.gate + 1) * config.gate
  <2>1. start - 1 \in Nat /\ config.gate \in Nat \ {0}
    BY <1>1, <1>2, <1>3
  <2>2. end \in Nat
    BY <2>1, BlockEnd
  <2>3. required_episodes(start - 1) \in Int
    BY <1>2, <2>1 DEF required_episodes
  <2>4. required_produced_rows(start - 1, b)
          = IF config.reuse[1] = 0 THEN 0 ELSE CeilDiv(end * b * config.reuse[2], config.reuse[1])
    BY DEF required_produced_rows
  <2> HIDE DEF end
  <2>5. end * b \in Nat
    BY <1>4, <2>2
  <2>6. end * b * config.reuse[2] \in Nat
    BY <1>2, <1>3, <2>5
  <2>7. config.reuse[1] # 0 => CeilDiv(end * b * config.reuse[2], config.reuse[1]) \in Nat
    <3> SUFFICES ASSUME config.reuse[1] # 0
                 PROVE  CeilDiv(end * b * config.reuse[2], config.reuse[1]) \in Nat
      OBVIOUS
    <3>1. PICK n \in Nat : n = end * b * config.reuse[2]
      BY <2>6
    <3>2. config.reuse[1] \in Nat \ {0}
      BY <1>2, <1>3
    <3> QED BY <3>1, <3>2, RoundsUp
  <2> QED BY <2>3, <2>4, <2>7
<1>6. store \in Store /\ store.produced \in Nat
  <2>1. start * PerStep \in Int
    BY <1>1, <1>2 DEF PerStep
  <2>2. /\ store.produced = (IF start = 0 THEN 0 ELSE required_produced_rows(start - 1, b))
        /\ store.episodes = (IF start = 0 THEN 0 ELSE required_episodes(start - 1))
        /\ store.consumed = start * PerStep
        /\ store = [produced |-> store.produced, episodes |-> store.episodes,
                    consumed |-> store.consumed]
    BY DEF b
  <2> QED BY <1>5, <2>1, <2>2 DEF Store
<1>7. main.pc = "prepare" /\ "prepare" \in Starting /\ "prepare" \in UnderWay /\ "prepare" \notin Looping
      /\ "prepare" \notin Leaving
  BY Phases
<1>8. /\ main.step = start /\ main.rows = 0 /\ main.pending = 0 /\ main.last = start
      /\ pre.pc = "off" /\ pre.step = start
  OBVIOUS
<1>9. TypeOK
  <2>1. main \in MainState
    <3>1. "prepare" \in UnderWay \cup Leaving /\ 0 \in Int /\ -1 \in Int /\ 0 \in Nat
          /\ {} \in SUBSET {"policy", "value"}
      BY <1>7
    <3> QED BY <1>1, <3>1 DEF MainState
  <2>2. pre \in PreState
    BY <1>1 DEF PreState
  <2> QED BY <1>1, <1>6, <2>1, <2>2 DEF TypeOK
<1>10. StepsCounted
  BY <1>1, <1>2, <1>7, <1>8 DEF StepsCounted
<1>11. QueueInOrder
  BY <1>7, <1>8 DEF QueueInOrder
<1>12. PublishedInOrder
  <2>1. PublishedSteps = {} /\ DueSteps(start) = {}
    BY <1>1 DEF PublishedSteps, DueSteps
  <2> QED BY <1>7, <1>8, <2>1 DEF PublishedInOrder
<1>13. RowsPaid
  <2>1. \A s \in start..(start - 1) : FALSE
    BY <1>1
  <2> QED BY <1>6, <1>7, <1>8, <2>1 DEF RowsPaid
<1> QED BY <1>9, <1>10, <1>11, <1>12, <1>13 DEF TrainerInductive

(* Every step of either thread and of self-play keeps the invariant. *)
LEMMA TrainerKept == TrainerInductive /\ [Next]_vars => TrainerInductive'
<1> SUFFICES ASSUME TrainerInductive, [Next]_vars PROVE TrainerInductive'
  OBVIOUS
<1>1. CASE AdmitGame \/ AppendRows \/ ChildDies \/ Ended
  BY <1>1, SelfplayStep
<1>2. CASE PreStep
  BY <1>2, PreLoopStep, PreGateStep, PreSampleStep, PutStep DEF PreStep
<1>3. CASE MainStep
  BY <1>3, PrepareStep, StartStep, CheckStep, GateStep, PublishingStep, TakeStep, SampleStep,
     TrainStep, MetricsStep, DueStep, FinalStep, StopStep DEF MainStep
<1>4. CASE UNCHANGED vars
  <2>1. /\ UNCHANGED <<config, start, store, main, pre, queue, stop, ema, published>>
    BY <1>4 DEF vars
  <2>2. TypeOK'
    BY <2>1 DEF TrainerInductive, TypeOK, _validate, validate_intervals, validate_gates
  <2>3. StepsCounted'
    BY <2>1 DEF TrainerInductive, StepsCounted
  <2>4. QueueInOrder'
    BY <2>1 DEF TrainerInductive, QueueInOrder, NextBatch
  <2>5. PublishedInOrder'
    BY <2>1, SamePublished DEF TrainerInductive, PublishedInOrder
  <2>6. RowsPaid'
    BY <2>1 DEF TrainerInductive, RowsPaid, Paid, Larger
  <2> QED BY <2>2, <2>3, <2>4, <2>5, <2>6 DEF TrainerInductive
<1> QED BY <1>1, <1>2, <1>3, <1>4 DEF Next

(* The two threads, the queue between them, the checkpoints and the rows  *)
(* agree in every state of every run (run and SamplePrefetcher._run).     *)
THEOREM TrainerInvariant == Spec => []TrainerInductive
BY TrainerInit, TrainerKept, PTL DEF Spec

(* Whatever the prefetcher's retries, errors and stops, each optimizer step *)
(* trains on the batch sampled for it, once, in order (_next_samples).      *)
THEOREM TrainedInOrder == Spec => []BatchesInOrder
<1>1. TrainerInductive => BatchesInOrder
  <2> SUFFICES ASSUME TrainerInductive, main.pc \in {"train", "log"}
               PROVE  main.got = main.step /\ ema \in {main.step, main.step + 1}
    BY DEF BatchesInOrder
  <2>1. main.pc \in UnderWay
    BY Phases
  <2> QED BY <2>1 DEF TrainerInductive, StepsCounted
<1> QED BY <1>1, TrainerInvariant, PTL

(* Published steps are in order, contain the weights they name, and a run   *)
(* that succeeds has published every due step and the last one, with or     *)
(* without publish lag (_publish, checkpoint_due).                          *)
THEOREM PublishedComplete == Spec => []PublishedExact
<1>1. TrainerInductive => PublishedExact
  <2> SUFFICES ASSUME TrainerInductive PROVE PublishedExact
    OBVIOUS
  <2>1. \A i \in 1..Len(published) :
          /\ published[i].weights = published[i].step
          /\ i > 1 => published[i - 1].step < published[i].step
    BY DEF TrainerInductive, PublishedInOrder
  <2>2. ASSUME main.pc = "ended", main.ok
        PROVE  {published[i].step : i \in 1..Len(published)} \ {0}
                 = {s \in (start + 1)..config.total : checkpoint_due(s) \/ s = config.total}
    <3>1. PublishedSteps = DueSteps(config.total) \cup {config.total}
      BY <2>2, Phases DEF TrainerInductive, PublishedInOrder
    <3>2. start \in Nat /\ config.total \in Nat /\ start < config.total
      BY Typed, Validated DEF TrainerInductive, TypeOK
    <3>3. DueSteps(config.total) \cup {config.total}
            = {s \in (start + 1)..config.total : checkpoint_due(s) \/ s = config.total}
      BY <3>2 DEF DueSteps
    <3> QED BY <3>1, <3>3 DEF PublishedSteps
  <2> QED BY <2>1, <2>2 DEF PublishedExact
<1> QED BY <1>1, TrainerInvariant, PTL

(* max_reuse: no step trains before the rows it draws, and all that were    *)
(* drawn before it, are paid for, although one thread reads the gate and    *)
(* another trains on what it let through (required_produced_rows).          *)
THEOREM ReuseStaysBounded == Spec => []ReuseBounded
<1>1. TrainerInductive => ReuseBounded
  <2> SUFFICES ASSUME TrainerInductive, main.pc = "train", config.reuse[1] # 0,
                      NEW b \in {config.batch} \cup (IF config.prefetch THEN {config.value} ELSE {})
               PROVE  (main.step + 1) * b * config.reuse[2] <= config.reuse[1] * store.produced
    BY DEF ReuseBounded
  <2>0. main.pc \in Looping /\ main.pc \in UnderWay
    BY Phases
  <2>1. CASE b = config.batch
    BY <2>1 DEF TrainerInductive, RowsPaid, Paid
  <2>2. CASE config.prefetch /\ b = config.value
    <3> DEFINE big == Larger(config.batch, config.value)
    <3>1. /\ b \in Nat /\ big \in Nat /\ b <= big /\ config.reuse[2] \in Nat
          /\ config.reuse[1] \in Nat /\ main.step \in Nat /\ start \in Nat /\ pre.step \in Nat
          /\ store.produced \in Nat
      <4>1. TypeOK
        BY DEF TrainerInductive
      <4>2. /\ b \in Nat /\ big \in Nat /\ b <= big
            /\ config.reuse[2] \in Nat /\ config.reuse[1] \in Nat
        BY <2>2, <4>1, Validated
      <4>3. main.step \in Nat /\ start \in Nat /\ pre.step \in Nat
        BY Typed
      <4>4. store.produced \in Int /\ store.produced >= 0
        BY Typed
      <4> QED BY <4>2, <4>3, <4>4
    <3>2. start <= main.step
      BY DEF TrainerInductive, StepsCounted
    <3>3. main.step + 1 <= pre.step
      <4>1. NextBatch = main.step + 1
        BY DEF NextBatch
      <4>2. pre.step - NextBatch >= 0
        BY <2>0, <2>2 DEF TrainerInductive, QueueInOrder
      <4> QED BY <3>1, <4>1, <4>2
    <3>4. main.step \in start..(IF pre.pc \in {"sample", "put"} THEN pre.step ELSE pre.step - 1)
      BY <3>1, <3>2, <3>3
    <3>5. Paid(main.step, big)
      BY <2>0, <2>2, <3>4 DEF TrainerInductive, RowsPaid
    <3> HIDE DEF big
    <3>6. (main.step + 1) * big * config.reuse[2] <= config.reuse[1] * store.produced
      BY <3>5 DEF Paid
    <3>7. /\ (main.step + 1) * b <= (main.step + 1) * big /\ (main.step + 1) * b \in Nat
          /\ (main.step + 1) * big \in Nat
      BY <3>1, Grows
    <3>8. (main.step + 1) * b * config.reuse[2] <= (main.step + 1) * big * config.reuse[2]
      BY <3>1, <3>7, Grows
    <3>9. /\ (main.step + 1) * b * config.reuse[2] \in Nat
          /\ (main.step + 1) * big * config.reuse[2] \in Nat
          /\ config.reuse[1] * store.produced \in Nat
      BY <3>1, <3>7, Grows
    <3> QED BY <3>6, <3>8, <3>9
  <2> QED BY <2>1, <2>2
<1> QED BY <1>1, TrainerInvariant, PTL


-----------------------------------------------------------------------------
(* The backlog.                                                              *)

(* No game appends more rows than the longest one. *)
LEMMA MostIsMost ==
  MostRows \in Nat \ {0} /\ \A r \in GameRows : r \in Nat \ {0} /\ r <= MostRows
BY TrainerAssumption, GamesAssumption DEF MostRows

(* Drawing rows, or ending games, only lowers what is in flight or waiting. *)
LEMMA BacklogFalls ==
  ASSUME PaceInductive, UNCHANGED config, playing' \in 0..Workers, playing' <= playing,
         store'.produced = store.produced, store'.consumed \in Int, store.consumed <= store'.consumed
  PROVE  FlightCounted'
<1>1. /\ playing \in Nat /\ playing' \in Nat /\ playing' <= playing /\ MostRows \in Nat /\ Workers \in Nat
      /\ store.produced \in Int /\ store.consumed \in Int /\ config.backlog \in Int
  BY MostIsMost, Typed, TrainerAssumption DEF PaceInductive, FlightCounted
<1>2. playing' * MostRows <= playing * MostRows /\ playing' * MostRows \in Nat /\ playing * MostRows \in Nat
  <2>1. PICK n \in Nat, m \in Nat, c \in Nat : n = playing' /\ m = playing /\ c = MostRows
    BY <1>1
  <2>2. n <= m
    BY <1>1, <2>1
  <2>3. n * c <= m * c /\ n * c \in Nat
    BY <2>2, Grows
  <2>4. m * c \in Nat
    OBVIOUS
  <2> QED BY <2>1, <2>3, <2>4
<1>3. Workers * MostRows \in Nat
  BY <1>1
<1>4. store.produced - store.consumed + playing * MostRows <= config.backlog + Workers * MostRows
  BY DEF PaceInductive, FlightCounted
<1>5. PICK before \in Int, after \in Int, all \in Int :
        before = playing * MostRows /\ after = playing' * MostRows /\ all = Workers * MostRows
  BY <1>2, <1>3
<1>6. store'.produced - store'.consumed + after <= config.backlog + all
  BY <1>1, <1>2, <1>4, <1>5
<1> QED BY <1>1, <1>5, <1>6 DEF FlightCounted, MostRows

(* A game is admitted while the backlog is within its limit. *)
LEMMA AdmissionFits ==
  ASSUME PaceInductive, AdmitGame
  PROVE  FlightCounted'
<1>1. /\ playing \in 0..Workers /\ playing < Workers /\ playing' = playing + 1 /\ UNCHANGED <<store, config>>
      /\ store.produced - store.consumed <= config.backlog
      /\ MostRows \in Nat /\ Workers \in Nat
      /\ store.produced \in Int /\ store.consumed \in Int /\ config.backlog \in Int
  <2>1. store.produced \in Int /\ store.consumed \in Int /\ config.backlog \in Int
        /\ config.backlog >= 1
    BY Typed DEF PaceInductive, FlightCounted, TrainerInductive, TypeOK, _validate
  <2>2. store.produced - store.consumed <= config.backlog
    BY <2>1 DEF AdmitGame, replay_gate_open
  <2> QED BY <2>1, <2>2, MostIsMost, TrainerAssumption DEF AdmitGame, PaceInductive, FlightCounted
<1>2. playing' \in Nat /\ playing' <= Workers
  BY <1>1
<1>3. playing' * MostRows <= Workers * MostRows /\ playing' * MostRows \in Nat /\ Workers * MostRows \in Nat
  BY <1>1, <1>2, Grows
<1>4. PICK after \in Int, all \in Int : after = playing' * MostRows /\ all = Workers * MostRows
  BY <1>3
<1>5. store.produced - store.consumed + after <= config.backlog + all
  BY <1>1, <1>3, <1>4
<1> QED BY <1>1, <1>2, <1>4, <1>5 DEF FlightCounted, MostRows

(* The rows of a game that ends were counted while it was in flight. *)
LEMMA RowsWereCounted ==
  ASSUME PaceInductive, AppendRows
  PROVE  FlightCounted'
<1>1. PICK r \in GameRows : store' = [store EXCEPT !.produced = @ + r, !.episodes = @ + 1]
  BY DEF AppendRows
<1>2. /\ playing \in 0..Workers /\ playing > 0 /\ playing' = playing - 1 /\ UNCHANGED config
      /\ MostRows \in Nat /\ Workers \in Nat /\ r \in Nat /\ r <= MostRows
      /\ store.produced \in Int /\ store.consumed \in Int /\ config.backlog \in Int
  BY Typed, MostIsMost, TrainerAssumption DEF AppendRows, PaceInductive, FlightCounted
<1>3. store'.produced = store.produced + r /\ store'.consumed = store.consumed
  <2>1. store \in Store
    BY Typed DEF PaceInductive
  <2> QED BY <1>1, <2>1 DEF Store
<1>4. playing * MostRows = playing' * MostRows + MostRows
  BY <1>2
<1>5. playing' * MostRows \in Int /\ Workers * MostRows \in Int
  BY <1>2
<1>6. PICK after \in Int, all \in Int : after = playing' * MostRows /\ all = Workers * MostRows
  BY <1>5
<1>7. store.produced - store.consumed + (after + MostRows) <= config.backlog + all
  BY <1>4, <1>6 DEF PaceInductive, FlightCounted
<1>8. store'.produced - store'.consumed + after <= config.backlog + all
  BY <1>2, <1>3, <1>6, <1>7
<1> QED BY <1>2, <1>6, <1>8 DEF FlightCounted, MostRows

(* Requests only add to what was consumed. *)
LEMMA ConsumedGrows ==
  ASSUME TrainerInductive, NEW todo,
         UNCHANGED store \/ store' = [store EXCEPT !.consumed = @ + RowsOf(todo)]
  PROVE  store'.produced = store.produced /\ store'.consumed \in Int /\ store.consumed <= store'.consumed
<1>1. RowsOf(todo) \in Nat
  BY Validated DEF TrainerInductive, RowsOf
<1>2. store \in Store /\ store.consumed \in Int /\ store.produced \in Int
  BY Typed
<1>3. store'.produced = store.produced
      /\ (store'.consumed = store.consumed \/ store'.consumed = store.consumed + RowsOf(todo))
  BY <1>2 DEF Store
<1> QED BY <1>1, <1>2, <1>3

(* Every step keeps the rows in flight within the overshoot. *)
LEMMA PaceKept == PaceInductive /\ [Next]_vars => PaceInductive'
<1> SUFFICES ASSUME PaceInductive, [Next]_vars PROVE FlightCounted'
  BY TrainerKept DEF PaceInductive
<1>0. TrainerInductive /\ playing \in 0..Workers
  BY DEF PaceInductive, FlightCounted
<1>1. CASE UNCHANGED <<config, playing, store>>
  BY <1>0, <1>1, Typed, BacklogFalls
<1>2. CASE AdmitGame
  BY <1>2, AdmissionFits
<1>3. CASE AppendRows
  BY <1>3, RowsWereCounted
<1>4. CASE ChildDies \/ Terminate
  <2>1. UNCHANGED <<config, store>> /\ playing' = 0
    BY <1>4 DEF ChildDies, Terminate
  <2>2. playing' \in 0..Workers /\ playing' <= playing
    BY <1>0, <2>1, TrainerAssumption
  <2> QED BY <1>0, <2>1, <2>2, Typed, BacklogFalls
<1>5. CASE PreSample \/ NextSample
  <2>1. UNCHANGED <<config, playing>>
    BY <1>5 DEF PreSample, NextSample
  <2>2. PICK todo : UNCHANGED store \/ store' = [store EXCEPT !.consumed = @ + RowsOf(todo)]
    BY <1>5 DEF PreSample, NextSample, Attempt, connect, PreRaises, PossiblyCounted
  <2>3. store'.produced = store.produced /\ store'.consumed \in Int /\ store.consumed <= store'.consumed
    BY <1>0, <2>2, ConsumedGrows
  <2>4. playing' \in 0..Workers /\ playing' <= playing
    BY <1>0, <2>1, TrainerAssumption
  <2> QED BY <2>1, <2>3, <2>4, BacklogFalls
<1>6. CASE Ended \/ UNCHANGED vars
  BY <1>1, <1>6 DEF Ended, vars
<1>7. CASE PreLoop \/ PreGate \/ PrePut \/ PreError
  BY <1>1, <1>7 DEF PreLoop, PreGate, PrePut, PreError
<1>8. CASE _prepare_run \/ spawn_torch_selfplay \/ Ready \/ Check \/ CheckMemory \/ _wait_for_reuse_gate
  BY <1>1, <1>8 DEF _prepare_run, spawn_torch_selfplay, Ready, Check, CheckMemory, _wait_for_reuse_gate
<1>9. CASE PublishPending \/ NextPrefetched \/ NextRefresh \/ Train \/ LogStep
  BY <1>1, <1>9 DEF PublishPending, NextPrefetched, NextRefresh, Train, LogStep
<1>10. CASE Due \/ Final \/ Stop \/ Join
  BY <1>1, <1>10 DEF Due, Final, Stop, Join
<1> QED BY <1>2, <1>3, <1>4, <1>5, <1>6, <1>7, <1>8, <1>9, <1>10 DEF Next, PreStep, MainStep

(* The two gates that face each other keep their sides: no row is drawn     *)
(* more often than max_reuse, and the store of a fresh run, or of one that  *)
(* resumes within the backlog limit and its overshoot, stays within it      *)
(* (replay_gate_open and _wait_for_reuse_gate).                             *)
THEOREM PaceStaysBounded == Spec /\ (start = 0 \/ WithinLimit) => []PaceBounded
<1>0. Init /\ start = 0 => WithinLimit
  <2> SUFFICES ASSUME Init, start = 0 PROVE WithinLimit
    OBVIOUS
  <2>1. store.produced = 0 /\ store.consumed = 0 * PerStep
    BY DEF Init
  <2>2. PerStep \in Int /\ config.backlog \in Int /\ config.backlog >= 1
    BY TrainerInit DEF TrainerInductive, TypeOK, Fields, PerStep, _validate
  <2>3. Workers * MostRows \in Nat
    BY MostIsMost, TrainerAssumption
  <2>4. 0 * PerStep = 0
    BY <2>2
  <2> QED BY <2>1, <2>2, <2>3, <2>4 DEF WithinLimit
<1>1. Init /\ (start = 0 \/ WithinLimit) => PaceInductive
  <2> SUFFICES ASSUME Init, WithinLimit PROVE FlightCounted
    BY <1>0, TrainerInit DEF PaceInductive
  <2>1. playing = 0 /\ config.backlog \in Int /\ 0 \in 0..Workers
    BY TrainerInit, TrainerAssumption DEF Init, TrainerInductive, TypeOK, Fields
  <2>2. 0 * MostRows = 0 /\ store.produced - store.consumed \in Int
    BY MostIsMost, TrainerInit, Typed
  <2> QED BY <2>1, <2>2 DEF FlightCounted, WithinLimit
<1>2. PaceInductive => BacklogBounded
  <2> SUFFICES ASSUME PaceInductive PROVE BacklogBounded
    OBVIOUS
  <2>1. MostRows \in GameRows
    BY GamesAssumption DEF MostRows
  <2>2. playing * MostRows \in Nat /\ Workers * MostRows \in Nat
    BY MostIsMost, TrainerAssumption DEF PaceInductive, FlightCounted
  <2>3. store.produced \in Int /\ store.consumed \in Int /\ config.backlog \in Int
    BY Typed DEF PaceInductive, FlightCounted
  <2>4. PICK flight \in Nat, all \in Nat : flight = playing * MostRows /\ all = Workers * MostRows
    BY <2>2
  <2>5. store.produced - store.consumed + flight <= config.backlog + all
    BY <2>4 DEF PaceInductive, FlightCounted
  <2>6. store.produced - store.consumed <= config.backlog + Workers * MostRows
    BY <2>3, <2>4, <2>5
  <2> QED BY <2>1, <2>6 DEF BacklogBounded
<1> QED BY <1>1, <1>2, PaceKept, ReuseStaysBounded, PTL DEF Spec, PaceBounded
=============================================================================
