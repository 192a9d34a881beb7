----------------------------- MODULE Admission -----------------------------
(***************************************************************************)
(* Admission of episodes (admission.rs).  With smoothing: one schedule,    *)
(* behind a mutex, that the lanes ask before they start an episode, and    *)
(* the pressure counters that lanes and batchers update without it.        *)
(* Without it: every lane has a pacer of its own that lets one episode     *)
(* begin per stagger, or, if the stagger is zero, as many as fit.          *)
(*                                                                         *)
(* The schedule admits the first episode of a run at once (bootstrap); the *)
(* others are paced by a gap that needs an estimate of the evaluator's     *)
(* capacity.  An estimate needs work and a second of busy time or, once an *)
(* episode with evaluations has completed, any busy time.                  *)
(*                                                                         *)
(* Rates and times are abstracted: `known' says whether there is an        *)
(* estimate, `due' whether the gap has passed, `work' and `busy' what the  *)
(* totals have gained since the last sample, followed until the first      *)
(* estimate, since a later one only changes its value.  An episode is      *)
(* fresh until its first evaluation.  The loop of lane.rs is kept with its *)
(* order: the flag, the gate, the request, admission, the report on        *)
(* admission, work.                                                        *)
(***************************************************************************)
EXTENDS Integers, Sequences, FiniteSets, SequencesExt

CONSTANTS
    Lanes,       \* the lanes, by index
    Staggers,    \* the values of admission_stagger without smoothing, in ticks
    Workers,     \* workers_per_lane
    Roots,       \* bound: roots that the lanes' sources give, together
    Barren,      \* whether an episode may end without an evaluation
    MaxClosings, \* bound: how often the replay gate closes
    MaxFaults    \* bound: failures of root sources

ASSUME LanesAssumption ==
    /\ IsFiniteSet(Lanes) /\ Lanes # {} /\ Lanes = 0..(Cardinality(Lanes) - 1)
    /\ Staggers \subseteq Nat
ASSUME SizesAssumption ==
    /\ Workers \in Nat \ {0}
    /\ {Roots, MaxClosings, MaxFaults} \subseteq Nat
    /\ Barren \in BOOLEAN

VARIABLES
    phase,      \* where each lane is in its loop
    slots,      \* its workers: idle, fresh or used
    begun,      \* roots taken from the sources
    exhausted,  \* roots_exhausted
    grant,      \* the decision the lane holds
    waiting,    \* schedule.waiting: idle workers, by lane
    queued,     \* schedule.queued
    order,      \* schedule.waiting_order
    total,      \* schedule.total_waiting
    bootstrapped,  \* schedule.bootstrap_admitted
    allowShort, \* schedule.allow_short_capacity_sample
    known,      \* eval_capacity_ema is there
    due,        \* now >= next_admission
    pacing,     \* the flags: admission_smoothing and admission_stagger
    next,       \* AdmissionPacer.next, by lane, as ticks from now
    flag,       \* waiting_lanes
    reserved,   \* EvalPressure.reserved
    work,       \* capacity_work has grown since the last sample
    busy,       \* growth of capacity_busy_ns: none, short, long (a second)
    batch,      \* totals the batcher has still to publish for its last batch
    gate,       \* replay_gate_open
    closings,   \* how often the gate has closed
    closed,     \* pipeline_closed
    faults      \* failures so far

laneVars == <<phase, slots, begun, exhausted, grant>>
queueVars == <<waiting, queued, order, total>>
paceVars == <<bootstrapped, allowShort, known, due>>
pressureVars == <<reserved, work, busy, batch>>
gateVars == <<gate, closings>>
pacerVars == <<pacing, next>>
vars == <<laneVars, queueVars, paceVars, flag, pressureVars, gateVars, pacerVars,
          closed, faults>>

NoGrant == [limit |-> 0, bootstrap |-> FALSE]
IdleSlots(l) == {w \in 1..Workers : slots[l][w] = "idle"}
Active(l) == {w \in 1..Workers : slots[l][w] # "idle"}
Ended(l) == phase[l] \in {"done", "failed"}

\* Each lane has its own place within a stagger.
spread_duration(stagger, l) ==
    IF Cardinality(Lanes) <= 1 \/ l = 0 THEN 0 ELSE (stagger * l) \div Cardinality(Lanes)
ResumeOffset(l) == spread_duration(pacing.stagger, l)

\* Smoothing and a fixed stagger exclude each other.
Pacings == {[smoothing |-> TRUE, stagger |-> 0]}
           \cup {[smoothing |-> FALSE, stagger |-> s] : s \in Staggers}

Init ==
    /\ pacing \in Pacings
    /\ next = [l \in Lanes |-> ResumeOffset(l)]
    /\ phase = [l \in Lanes |-> "top"]
    /\ slots = [l \in Lanes |-> [w \in 1..Workers |-> "idle"]]
    /\ begun = 0
    /\ exhausted = [l \in Lanes |-> FALSE]
    /\ grant = [l \in Lanes |-> NoGrant]
    /\ waiting = [l \in Lanes |-> Workers]
    /\ queued = [l \in Lanes |-> FALSE]
    /\ order = <<>>
    /\ total = Workers * Cardinality(Lanes)
    /\ bootstrapped = FALSE
    /\ allowShort = FALSE
    /\ known = FALSE
    /\ due = TRUE
    /\ flag = [l \in Lanes |-> FALSE]
    /\ reserved = 0
    /\ work = FALSE
    /\ busy = "none"
    /\ batch = 0
    /\ gate = TRUE
    /\ closings = 0
    /\ closed = FALSE
    /\ faults = 0

-----------------------------------------------------------------------------
(* The queue of lanes, as a value: waiting, queued, order, total. *)

Queue == [waiting |-> waiting, queued |-> queued, order |-> order, total |-> total]

\* The queue changes to the one computed.
SetQueue(new) ==
    \E q \in {new} :
        /\ waiting' = q.waiting
        /\ queued' = q.queued
        /\ order' = q.order
        /\ total' = q.total

Minus(a, b) == IF a >= b THEN a - b ELSE 0

QueueLane(q, l) ==
    IF q.waiting[l] > 0 /\ ~q.queued[l]
    THEN [q EXCEPT !.order = Append(@, l), !.queued[l] = TRUE]
    ELSE q

\* The place of the first lane that waits, or the end of the order.
FirstFull(q) ==
    LET full == {i \in 1..Len(q.order) : q.waiting[q.order[i]] > 0}
    IN  IF full = {} THEN Len(q.order) + 1 ELSE CHOOSE i \in full : \A j \in full : i <= j

DiscardEmptyFront(q) ==
    LET kept == FirstFull(q)
    IN  [q EXCEPT
            !.order = SubSeq(@, kept, Len(@)),
            !.queued = [l \in Lanes |->
                @[l] /\ \A i \in 1..(kept - 1) : q.order[i] # l]]

SetWaiting(q, l, n) ==
    LET set == [q EXCEPT !.total = Minus(@, q.waiting[l]) + n, !.waiting[l] = n]
    IN  DiscardEmptyFront(QueueLane(set, l))

AtFront(q, l) == q.order # <<>> /\ Head(q.order) = l

\* The lane gives up its place at the front whether or not it takes anything.
TakeFromLane(q, l, n) ==
    LET taken == IF q.waiting[l] <= n THEN q.waiting[l] ELSE n
        less == [q EXCEPT !.waiting[l] = @ - taken, !.total = @ - taken]
        again == IF AtFront(less, l)
                 THEN QueueLane([less EXCEPT !.order = Tail(@), !.queued[l] = FALSE], l)
                 ELSE less
    IN  DiscardEmptyFront(again)

RestoreUnused(q, l, n) ==
    IF n = 0 THEN q
    ELSE QueueLane([q EXCEPT !.waiting[l] = @ + n, !.total = @ + n], l)

ClearLane(q, l) ==
    DiscardEmptyFront([q EXCEPT !.total = Minus(@, q.waiting[l]), !.waiting[l] = 0])

StoreFlag(l) == flag' = [flag EXCEPT ![l] = waiting'[l] > 0]

-----------------------------------------------------------------------------
(* A lane *)

\* Mutant: the work first, then the time.
PublishWorkFirst == <<"work", "busy">>

\* The time before the work, so that work is never seen without its time.
PublishOrder == <<"busy", "work">>

Goto(l, p) == phase' = [phase EXCEPT ![l] = p]

\* observe_eval_capacity takes a sample; without busy time the rate is infinite
\* and the sample is thrown away.
Sample == work /\ (busy = "long" \/ allowShort)

ObserveCapacity ==
    /\ known' = (known \/ (Sample /\ busy # "none"))
    /\ work' = (work /\ ~Sample)
    /\ busy' = IF Sample THEN "none" ELSE busy
    /\ allowShort' = (allowShort /\ ~Sample)

Bootstrap(q, l) == AtFront(q, l) /\ ~bootstrapped

\* Paced by the gap, which needs an estimate (the one just taken included).
Paced(q, l) == AtFront(q, l) /\ ~Bootstrap(q, l) /\ known' /\ due

\* request with the gate open.
Request(l) ==
    LET idle == Cardinality(IdleSlots(l))
    IN  /\ phase[l] = "top" /\ ~closed /\ ~exhausted[l] /\ gate
        /\ pacing.smoothing /\ idle > 0
        /\ ObserveCapacity
        /\ \E q \in {SetWaiting(Queue, l, idle)} :
             LET bootstrap == Bootstrap(q, l)
                 limit == IF bootstrap \/ Paced(q, l) THEN 1 ELSE 0
             IN  /\ SetQueue(TakeFromLane(q, l, limit))
                 /\ bootstrapped' = (bootstrapped \/ bootstrap)
                 /\ due' = (due /\ ~(limit > 0 /\ known'))
                 /\ grant' = [grant EXCEPT ![l] = [limit |-> limit, bootstrap |-> bootstrap]]
                 /\ reserved' = reserved + limit
                 /\ Goto(l, IF limit > 0 THEN "granted" ELSE "work")
        /\ StoreFlag(l)
        /\ UNCHANGED <<slots, begun, exhausted, batch, gateVars, pacerVars, closed, faults>>

\* request of a lane with no idle worker: it leaves the queue if it is there.
RequestFull(l) ==
    /\ phase[l] = "top" /\ ~closed /\ ~exhausted[l] /\ gate
    /\ pacing.smoothing /\ IdleSlots(l) = {}
    /\ IF flag[l]
       THEN /\ ObserveCapacity
            /\ SetQueue(SetWaiting(Queue, l, 0))
            /\ StoreFlag(l)
       ELSE UNCHANGED <<known, work, busy, allowShort, queueVars, flag>>
    /\ Goto(l, "work")
    /\ UNCHANGED <<slots, begun, exhausted, grant, bootstrapped, due, reserved, batch,
                   gateVars, pacerVars, closed, faults>>

\* AdmissionPacer.ready: a lane that is late by a stagger or more does not catch
\* up, it takes its place in the present one.
Resumed(l) ==
    IF pacing.stagger > 0 /\ next[l] <= -pacing.stagger THEN ResumeOffset(l) ELSE next[l]
PacerLimit(l) ==
    IF pacing.stagger = 0 THEN Cardinality(IdleSlots(l)) ELSE 1

\* The lane without the schedule: it admits if its pacer is ready, goes on if it
\* is not, and sleeps until it is if there is nothing else to do.
AskPacer(l) ==
    /\ phase[l] = "top" /\ ~closed /\ ~exhausted[l] /\ gate
    /\ ~pacing.smoothing
    /\ IF IdleSlots(l) = {}
       THEN Goto(l, "work") /\ UNCHANGED <<next, grant>>
       ELSE /\ next' = [next EXCEPT ![l] = Resumed(l)]
            /\ IF next'[l] <= 0
               THEN /\ grant' = [grant EXCEPT ![l] = [NoGrant EXCEPT !.limit = PacerLimit(l)]]
                    /\ Goto(l, "granted")
               ELSE /\ Goto(l, IF Active(l) = {} THEN "asleep" ELSE "work")
                    /\ UNCHANGED grant
    /\ UNCHANGED <<slots, begun, exhausted, queueVars, paceVars, flag, pressureVars, gateVars,
                   pacing, closed, faults>>

Wake(l) ==
    /\ phase[l] = "asleep" /\ next[l] <= 0
    /\ Goto(l, "work")
    /\ UNCHANGED <<slots, begun, exhausted, grant, queueVars, paceVars, flag, pressureVars,
                   gateVars, pacerVars, closed, faults>>

\* clear_lane, if there is a schedule.
LeaveQueue(l) ==
    IF pacing.smoothing
    THEN /\ SetQueue(ClearLane(Queue, l))
         /\ flag' = [flag EXCEPT ![l] = FALSE]
    ELSE UNCHANGED <<queueVars, flag>>

\* The replay gate is closed.
GateClosed(l) ==
    /\ phase[l] = "top" /\ ~closed /\ ~exhausted[l] /\ ~gate
    /\ LeaveQueue(l)
    /\ Goto(l, "work")
    /\ UNCHANGED <<slots, begun, exhausted, grant, paceVars, pressureVars, gateVars, pacerVars,
                   closed, faults>>

\* Roots are exhausted: no request.
NoRequest(l) ==
    /\ phase[l] = "top" /\ ~closed /\ exhausted[l]
    /\ Goto(l, "work")
    /\ UNCHANGED <<slots, begun, exhausted, grant, queueVars, paceVars, flag, pressureVars,
                   gateVars, pacerVars, closed, faults>>

BootstrapAfter(l, unused) == bootstrapped /\ ~(unused > 0 /\ grant[l].bootstrap)

\* AdmissionPacer.record
Recorded(l, n) ==
    IF pacing.stagger = 0 \/ n = 0 THEN next ELSE [next EXCEPT ![l] = pacing.stagger]

\* finish_admission after n of the granted episodes have begun; a pacer records
\* that one has.
FinishAdmission(l, n, ends) ==
    LET unused == grant[l].limit - n
        restored == RestoreUnused(Queue, l, unused)
    IN  /\ IF pacing.smoothing
           THEN /\ reserved' = Minus(reserved, unused)
                /\ bootstrapped' = BootstrapAfter(l, unused)
                /\ SetQueue(IF ends THEN ClearLane(restored, l) ELSE restored)
                /\ StoreFlag(l)
           ELSE UNCHANGED <<reserved, bootstrapped, queueVars, flag>>
        /\ next' = Recorded(l, n)
        /\ grant' = [grant EXCEPT ![l] = NoGrant]

\* admit_roots: a root for every episode granted, or the end of the source.
Admit(l) ==
    /\ phase[l] = "granted"
    /\ \E n \in 0..grant[l].limit, first \in SUBSET IdleSlots(l) :
         /\ begun + n <= Roots
         /\ Cardinality(first) = n /\ \A w \in first, v \in IdleSlots(l) \ first : w < v
         /\ slots' = [slots EXCEPT ![l] = [w \in 1..Workers |->
                                             IF w \in first THEN "fresh" ELSE @[w]]]
         /\ begun' = begun + n
         /\ exhausted' = [exhausted EXCEPT ![l] = n < grant[l].limit]
         /\ FinishAdmission(l, n, n < grant[l].limit)
    /\ Goto(l, "work")
    /\ UNCHANGED <<allowShort, known, due, work, busy, batch, gateVars, pacing, closed, faults>>

\* admit_roots fails, and the lane with it.
AdmitFails(l) ==
    /\ phase[l] = "granted"
    /\ faults < MaxFaults
    /\ faults' = faults + 1
    /\ FinishAdmission(l, 0, FALSE)
    /\ Goto(l, "failed")
    /\ closed' = TRUE
    /\ UNCHANGED <<slots, begun, exhausted, allowShort, known, due, work, busy, batch, gateVars,
                   pacing>>

LaneFails(l) ==
    /\ phase[l] = "top" /\ closed
    /\ Goto(l, "failed")
    /\ UNCHANGED <<slots, begun, exhausted, grant, queueVars, paceVars, flag, pressureVars,
                   gateVars, pacerVars, closed, faults>>

\* Mutant: every evaluation gives back a reservation.
CarriesReservationAlways(l, w) == TRUE

CarriesReservation(l, w) == pacing.smoothing /\ slots[l][w] = "fresh"

\* An evaluation is sent, with it the reservation of a fresh episode, and answered.
Evaluate(l, w) ==
    /\ phase[l] = "work"
    /\ slots[l][w] # "idle"
    /\ batch = 0
    /\ reserved' = IF CarriesReservation(l, w) THEN Minus(reserved, 1) ELSE reserved
    /\ slots' = [slots EXCEPT ![l][w] = "used"]
    /\ batch' = IF pacing.smoothing THEN Len(PublishOrder) ELSE 0
    /\ UNCHANGED <<phase, begun, exhausted, grant, queueVars, paceVars, flag, work, busy,
                   gateVars, pacerVars, closed, faults>>

\* The episode is complete, and its work is observed.
Complete(l, w) ==
    /\ phase[l] = "work"
    /\ slots[l][w] = "used" \/ (Barren /\ slots[l][w] = "fresh")
    /\ slots' = [slots EXCEPT ![l][w] = "idle"]
    /\ allowShort' = (allowShort \/ (pacing.smoothing /\ slots[l][w] = "used" /\ ~known))
    /\ UNCHANGED <<phase, begun, exhausted, grant, queueVars, bootstrapped, known, due, flag,
                   pressureVars, gateVars, pacerVars, closed, faults>>

\* The round is over.
EndRound(l) ==
    /\ phase[l] = "work"
    /\ IF exhausted[l] /\ Active(l) = {}
       THEN LeaveQueue(l) /\ Goto(l, "done")
       ELSE /\ Goto(l, "top")
            /\ UNCHANGED <<queueVars, flag>>
    /\ UNCHANGED <<slots, begun, exhausted, grant, paceVars, pressureVars, gateVars, pacerVars,
                   closed, faults>>

-----------------------------------------------------------------------------
(* The batcher and the clock *)

\* complete_current_batch publishes the totals one after the other; a request
\* may come in between.  Only the first estimate is told apart, so growth after
\* it, which can only change the estimate's value, is not kept.
Publish ==
    /\ batch > 0
    /\ IF PublishOrder[Len(PublishOrder) - batch + 1] = "busy"
       THEN /\ \E b \in {"short", "long"} : busy' = IF busy = "long" \/ known THEN busy ELSE b
            /\ UNCHANGED work
       ELSE /\ work' = (work \/ ~known)
            /\ UNCHANGED busy
    /\ batch' = batch - 1
    /\ UNCHANGED <<laneVars, queueVars, paceVars, flag, reserved, gateVars, pacerVars, closed,
                   faults>>

\* A lane that waits for nothing: going round takes less than a tick.
Runnable(l) ==
    \/ phase[l] \in {"top", "granted"} \/ (phase[l] = "asleep" /\ next[l] <= 0)
    \/ phase[l] = "work" /\ Active(l) = {} /\ (gate \/ exhausted[l])

\* Time passes.
Tick ==
    /\ \/ ~due
       \/ /\ \E l \in Lanes : next[l] > -pacing.stagger
          /\ \A l \in Lanes : ~Runnable(l)
    /\ due' = TRUE
    /\ next' = [l \in Lanes |-> IF next[l] > -pacing.stagger THEN next[l] - 1 ELSE next[l]]
    /\ UNCHANGED <<laneVars, queueVars, bootstrapped, allowShort, known, flag, pressureVars,
                   gateVars, pacing, closed, faults>>

CloseGate ==
    /\ gate /\ closings < MaxClosings
    /\ gate' = FALSE
    /\ closings' = closings + 1
    /\ UNCHANGED <<laneVars, queueVars, paceVars, flag, pressureVars, pacerVars, closed, faults>>

OpenGate ==
    /\ ~gate
    /\ gate' = TRUE
    /\ UNCHANGED <<laneVars, queueVars, paceVars, flag, pressureVars, closings, pacerVars,
                   closed, faults>>

LaneStep(l) ==
    \/ Request(l) \/ RequestFull(l) \/ AskPacer(l) \/ Wake(l) \/ GateClosed(l) \/ NoRequest(l)
    \/ Admit(l) \/ AdmitFails(l) \/ LaneFails(l) \/ EndRound(l)

Stopped == (\A l \in Lanes : Ended(l)) /\ UNCHANGED vars

Next ==
    \/ \E l \in Lanes : LaneStep(l) \/ \E w \in 1..Workers : Evaluate(l, w) \/ Complete(l, w)
    \/ Publish \/ Tick \/ CloseGate \/ OpenGate
    \/ Stopped

Spec == Init /\ [][Next]_vars

\* An episode of the lane evaluates for the first time, or is completed.
Play(l) ==
    \E w \in 1..Workers : (slots[l][w] = "fresh" /\ Evaluate(l, w)) \/ Complete(l, w)

\* Lanes go round, evaluations are answered and episodes end, the gate opens
\* again, batches are accounted and time passes.
FairSpec ==
    /\ Spec
    /\ \A l \in Lanes : WF_vars(LaneStep(l)) /\ SF_vars(Play(l))
    /\ WF_vars(Publish) /\ WF_vars(Tick) /\ WF_vars(OpenGate)

-----------------------------------------------------------------------------
(* Properties *)

\* Every variable has its type; no lane waits with more workers than it has.
TypeOK ==
    /\ phase \in [Lanes -> {"top", "granted", "asleep", "work", "done", "failed"}]
    /\ slots \in [Lanes -> [1..Workers -> {"idle", "fresh", "used"}]]
    /\ begun \in 0..Roots
    /\ exhausted \in [Lanes -> BOOLEAN]
    /\ grant \in [Lanes -> [limit : 0..Workers, bootstrap : BOOLEAN]]
    /\ waiting \in [Lanes -> 0..Workers]
    /\ queued \in [Lanes -> BOOLEAN]
    /\ order \in Seq(Lanes)
    /\ total \in 0..(Workers * Cardinality(Lanes))
    /\ {bootstrapped, allowShort, known, due, work, gate, closed} \subseteq BOOLEAN
    /\ closings \in 0..MaxClosings
    /\ flag \in [Lanes -> BOOLEAN]
    /\ reserved \in Nat
    /\ busy \in {"none", "short", "long"}
    /\ batch \in 0..2
    /\ faults \in 0..MaxFaults
    /\ pacing \in Pacings
    /\ next \in [Lanes -> (-pacing.stagger)..pacing.stagger]

\* The idle workers that wait, by lane and number.
Waiters == {x \in Lanes \X (1..Workers) : x[2] <= waiting[x[1]]}

\* The queue is what its parts say: the total is the sum, a lane is in the order
\* exactly once when it is marked, no empty lane is at the front (it would
\* never ask, and everybody behind it would wait), and a lane whose worker
\* waits with the flag set is in the order.
QueueConsistent ==
    /\ total = Cardinality(Waiters)
    /\ IsInjective(order)
    /\ \A l \in Lanes : queued[l] <=> l \in Range(order)
    /\ order # <<>> => waiting[Head(order)] > 0
    /\ \A l \in Lanes : flag[l] => queued[l]

\* The lanes that hold a grant.
Granted == {l \in Lanes : grant[l].limit > 0}

\* Before there is an estimate of the capacity only one episode has begun, or
\* is granted, in the whole run.
OneBeforeEstimate ==
    pacing.smoothing /\ ~known => begun + Cardinality(Granted) <= 1

\* The episodes that have not yet evaluated.
Fresh == {x \in Lanes \X (1..Workers) : slots[x[1]][x[2]] = "fresh"}

\* Reservations are exactly the grants and the episodes that have not yet
\* evaluated: none is lost when a grant is not used, none is given back twice.
\* Only an episode that ends without an evaluation keeps its reservation.
ReservationsBalance ==
    LET held == Cardinality(Granted) + Cardinality(Fresh)
    IN  IF pacing.smoothing THEN reserved >= held /\ (~Barren => reserved = held)
        ELSE reserved = 0

\* Every lane gets to the end of its source: pacing delays episodes and never stops them.
EveryLaneFinishes == <>(\A l \in Lanes : Ended(l))

\* The schedule shared by the lanes is consistent however their requests, unused
\* grants and accounted batches interleave.
ScheduleConsistent ==
    TypeOK /\ QueueConsistent /\ OneBeforeEstimate /\ ReservationsBalance

-----------------------------------------------------------------------------
(* Why it is so *)

\* A grant is held only between the request and the report on admission; one of
\* the schedule is for one episode, and the lane's other idle workers still wait.
GrantsInOrder ==
    \A l \in Lanes :
        /\ phase[l] # "granted" => grant[l] = NoGrant
        /\ pacing.smoothing /\ phase[l] = "granted" =>
             /\ grant[l].limit = 1
             /\ waiting[l] + 1 = Cardinality(IdleSlots(l))
             /\ flag[l] <=> waiting[l] > 0

\* A lane whose flag is set really waits, so that nobody takes it for empty.
FlagsInOrder == \A l \in Lanes : flag[l] => waiting[l] > 0 /\ pacing.smoothing

\* The first episode: until it has begun there is nothing to estimate from, and
\* a bootstrap grant that is not used can be given again.
BootstrapInOrder ==
    pacing.smoothing =>
        /\ begun = 0 =>
             /\ ~known /\ ~work /\ batch = 0
             /\ \A l \in Lanes : IdleSlots(l) = 1..Workers
        /\ ~bootstrapped => begun = 0 /\ Granted = {}
        /\ \A l \in Lanes : grant[l].bootstrap => begun = 0

\* The inductive invariant of the proofs.
ScheduleInOrder == ScheduleConsistent /\ GrantsInOrder /\ FlagsInOrder /\ BootstrapInOrder
=============================================================================
