--------------------------- MODULE CompilerBackend ---------------------------
(***************************************************************************)
(* The compiler measurement backend of an agent                            *)
(* (crates/gz-measure-agent/src/compiler.rs): a pool of engine slots that  *)
(* blocking measure calls check out and return, the prepared-state cache   *)
(* of every engine lane of a slot, and the sampling schedule of a job.     *)
(*                                                                         *)
(* Calls come from the threads MeasureAgent starts.  Those of an aborted   *)
(* session run on beside the next session's, so there may be more calls    *)
(* than slots.  A state is known by its graph hash; timings are left out.  *)
(***************************************************************************)
EXTENDS Integers, Sequences, FiniteSets, SequencesExt

CONSTANTS Calls,       \* the measure calls
          JobOf,       \* JobOf[c]: the states of its subjects and the parity of its job id
          PipelineSlots,   \* measurement_pipeline_slots
          Capacity,    \* prepared_state_cache_capacity
          Samples,     \* options.samples
          None

Lanes == 1..2          \* COMPILER_MEASUREMENT_ENGINES_PER_SLOT

ASSUME BackendAssumption ==
    /\ PipelineSlots \in Nat \ {0} /\ Capacity \in Nat \ {0} /\ Samples \in Nat \ {0}
    /\ \A c \in Calls : Len(JobOf[c].subjects) \in Lanes /\ JobOf[c].parity \in {0, 1}

VARIABLES
    available,  \* the pool: a stack of engine slots
    waiting,    \* calls asleep on the condition variable
    cache,      \* cache[s][i]: prepared states of lane i of slot s, oldest first
    live,       \* live[s][i]: states the engine of the lane retains
    call        \* call[c]: where a measure call is

backendVars == <<available, waiting, cache, live, call>>

Subjects(c) == JobOf[c].subjects
SubjectsOf(c) == DOMAIN Subjects(c)
Idle == [pc |-> "idle", slot |-> None, next |-> 1, measured |-> <<>>, fixed |-> {}, report |-> <<>>]

BackendInit ==
    /\ available = [s \in 1..PipelineSlots |-> s]
    /\ waiting = {}
    /\ cache = [s \in 1..PipelineSlots |-> [i \in Lanes |-> <<>>]]
    /\ live = [s \in 1..PipelineSlots |-> [i \in Lanes |-> {}]]
    /\ call = [c \in Calls |-> Idle]

-----------------------------------------------------------------------------
(* The pool *)

\* Under the pool's lock: the last slot returned, or sleep.
checkout(c) ==
    IF available = <<>>
    THEN /\ waiting' = waiting \cup {c}
         /\ call' = [call EXCEPT ![c].pc = "asleep"]
         /\ UNCHANGED available
    ELSE /\ available' = Front(available)
         /\ call' = [call EXCEPT ![c].pc = "restore", ![c].slot = Last(available)]
         /\ UNCHANGED waiting

\* measure: a lease that does not fit the backend is refused before a slot is
\* taken.
BeginMeasure(c) ==
    /\ call[c].pc = "idle"
    /\ \/ checkout(c)
       \/ /\ call' = [call EXCEPT ![c].pc = "refused"]
          /\ UNCHANGED <<available, waiting>>
    /\ UNCHANGED <<cache, live>>

\* A call that was notified takes the lock again, and may find that another
\* call was faster.
WakeUp(c) ==
    /\ call[c].pc = "awake"
    /\ checkout(c)
    /\ UNCHANGED <<cache, live>>

\* Mutant: the slot goes back and nobody is told.
return_slot_Silent(c, after) ==
    /\ available' = Append(available, call[c].slot)
    /\ call' = [call EXCEPT ![c] = [after EXCEPT !.slot = None]]
    /\ UNCHANGED waiting

\* Drop of the slot, on every way out of measure: it goes back with whatever
\* its lanes have cached, and one sleeper is notified.
return_slot(c, after) ==
    /\ available' = Append(available, call[c].slot)
    /\ LET gone == [call EXCEPT ![c] = [after EXCEPT !.slot = None]]
       IN  \/ waiting = {} /\ call' = gone /\ UNCHANGED waiting
           \/ \E w \in waiting : /\ waiting' = waiting \ {w}
                                 /\ call' = [gone EXCEPT ![w].pc = "awake"]

Failed(c) == return_slot(c, [call[c] EXCEPT !.pc = "failed"])

-----------------------------------------------------------------------------
(* The prepared-state cache of a lane *)

Position(entries, state) == {i \in DOMAIN entries : entries[i].state = state}

\* restore_or_reuse: a cached state becomes the most recently used; a new one
\* evicts the least recently used of a full cache.
Restored(entries, state) ==
    LET at == CHOOSE i \in Position(entries, state) : TRUE
        kept == IF Len(entries) = Capacity THEN Tail(entries) ELSE entries
    IN  IF Position(entries, state) # {}
        THEN Append(RemoveAt(entries, at), entries[at])
        ELSE Append(kept, [state |-> state, prepared |-> FALSE])

\* Mutant: what is evicted is not released.
Retained_Leaks(states, before, after) == states \cup {after[i].state : i \in DOMAIN after}

\* What the engine retains follows the cache: restored states are retained and
\* evicted ones released.
Retained(states, before, after) ==
    (states \cup {after[i].state : i \in DOMAIN after})
      \ ({before[i].state : i \in DOMAIN before} \ {after[i].state : i \in DOMAIN after})

\* One subject is restored on its lane; an identity, configuration or format
\* that does not match, or an artifact that does not restore, ends the call,
\* and the lanes before it keep their states.
Restore(c) ==
    /\ call[c].pc = "restore"
    /\ LET s == call[c].slot
           i == call[c].next
           entries == Restored(cache[s][i], Subjects(c)[i])
       IN  \/ /\ cache' = [cache EXCEPT ![s][i] = entries]
              /\ live' = [live EXCEPT ![s][i] = Retained(@, cache[s][i], entries)]
              /\ call' = [call EXCEPT ![c].next = IF i = Len(Subjects(c)) THEN 1 ELSE i + 1,
                                      ![c].pc = IF i = Len(Subjects(c)) THEN "prepare" ELSE @]
              /\ UNCHANGED <<available, waiting>>
           \/ Failed(c) /\ UNCHANGED <<cache, live>>

PreparedOn(s, i, state) == \E k \in Position(cache[s][i], state) : cache[s][i][k].prepared

\* prepare_measurements: the lanes compile in parallel what is not yet
\* prepared, each with its own outcome; one failure or panic ends the call.
Prepare(c) ==
    /\ call[c].pc = "prepare"
    /\ LET s == call[c].slot
           absent == {i \in SubjectsOf(c) : Position(cache[s][i], Subjects(c)[i]) = {}}
           todo == {i \in SubjectsOf(c) \ absent : ~PreparedOn(s, i, Subjects(c)[i])}
           Compiled(entries, state) ==
               [k \in DOMAIN entries |-> IF entries[k].state = state
                                         THEN [entries[k] EXCEPT !.prepared = TRUE] ELSE entries[k]]
       IN  \E compiled \in SUBSET todo :
             /\ cache' = [cache EXCEPT ![s] =
                            [i \in Lanes |-> IF i \in compiled THEN Compiled(@[i], Subjects(c)[i])
                                             ELSE @[i]]]
             /\ IF compiled = todo /\ absent = {}
                THEN /\ call' = [call EXCEPT ![c].pc = "measure"]
                     /\ UNCHANGED <<available, waiting>>
                ELSE Failed(c)
    /\ UNCHANGED live

-----------------------------------------------------------------------------
(* The sampling schedule *)

\* Who is sampled when, in a pair: the order within a round alternates, and
\* the parity of the job says who begins.
Sequence(parity) ==
    [k \in 1..(2 * Samples) |->
       LET round == (k - 1) \div 2
           first == (round + parity) % 2
       IN  1 + (IF k % 2 = 1 THEN first ELSE 1 - first)]

\* Neighbours of the sequence that are the same subject form one run.
measurement_runs ==
    LET Join(runs, i) ==
            IF runs # <<>> /\ Last(runs).subject = i
            THEN [runs EXCEPT ![Len(runs)].count = @ + 1]
            ELSE Append(runs, [subject |-> i, count |-> 1])
    IN  [c \in Calls |-> IF Len(Subjects(c)) = 1 THEN <<[subject |-> 1, count |-> Samples]>>
                         ELSE FoldLeft(Join, <<>>, Sequence(JobOf[c].parity))]

Times(n, x) == [k \in 1..n |-> x]

\* One run: timing samples, an accuracy failure that fixes the subject's
\* reward, or a result that ends the call.  A subject with a fixed reward is
\* skipped.
MeasureRun(c) ==
    /\ call[c].pc = "measure" /\ call[c].next <= Len(measurement_runs[c])
    /\ LET run == measurement_runs[c][call[c].next]
           i == run.subject
       IN  \/ /\ i \in call[c].fixed
              /\ call' = [call EXCEPT ![c].next = @ + 1]
              /\ UNCHANGED <<available, waiting>>
           \/ /\ i \notin call[c].fixed
              /\ \/ call' = [call EXCEPT ![c].next = @ + 1,
                                         ![c].measured = @ \o Times(run.count, i)]
                 \/ call' = [call EXCEPT ![c].next = @ + 1, ![c].fixed = @ \cup {i}]
              /\ UNCHANGED <<available, waiting>>
           \/ i \notin call[c].fixed /\ Failed(c)
    /\ UNCHANGED <<cache, live>>

\* The report lists the samples of the subjects that have timings, in the
\* order of the schedule; a subject with too few samples ends the call.
SampleCount(c, i) == Cardinality({k \in DOMAIN call[c].measured : call[c].measured[k] = i})
Timed(c) == SubjectsOf(c) \ call[c].fixed

Reported(c) ==
    FoldLeft(LAMBDA acc, run : IF run.subject \in Timed(c)
                               THEN acc \o Times(run.count, run.subject) ELSE acc,
             <<>>, measurement_runs[c])

Report(c) ==
    /\ call[c].pc = "measure" /\ call[c].next > Len(measurement_runs[c])
    /\ IF \A i \in Timed(c) : SampleCount(c, i) = Samples
       THEN return_slot(c, [call[c] EXCEPT !.pc = "done", !.report = Reported(c)])
       ELSE Failed(c)
    /\ UNCHANGED <<cache, live>>

Returned(c) == call[c].pc \in {"refused", "failed", "done"}
CallStep(c) == BeginMeasure(c) \/ WakeUp(c) \/ Restore(c) \/ Prepare(c) \/ MeasureRun(c) \/ Report(c)
AllReturned == (\A c \in Calls : Returned(c)) /\ UNCHANGED backendVars

BackendNext == AllReturned \/ \E c \in Calls : CallStep(c)

-----------------------------------------------------------------------------
(* Properties *)

\* No slot is lost or shared: each is in the pool or with exactly one call,
\* whichever way the calls before it ended, so no more calls than slots measure
\* at once however many sessions left calls behind; a lane's engine retains
\* exactly the states its cache lists, at most Capacity of them; and the states
\* a call measures are prepared and still retained on its own lanes.
SlotsSound ==
    /\ \A s \in 1..PipelineSlots :
         Cardinality({k \in DOMAIN available : available[k] = s})
           + Cardinality({c \in Calls : call[c].slot = s}) = 1
    /\ \A s \in 1..PipelineSlots, i \in Lanes :
         /\ Len(cache[s][i]) <= Capacity
         /\ live[s][i] = {cache[s][i][k].state : k \in DOMAIN cache[s][i]}
    /\ \A c \in Calls : call[c].pc = "measure" =>
         \A i \in SubjectsOf(c) : PreparedOn(call[c].slot, i, Subjects(c)[i])

\* The samples a report lists for its timed subjects are those that were taken,
\* in the order they were taken; each timed subject has Samples of them, and in
\* a pair neither subject is ever more than one sample ahead nor always first.
SamplesFair ==
    \A c \in Calls :
       /\ (Len(Subjects(c)) = 2 /\ call[c].fixed = {} /\ call[c].pc = "measure") =>
            /\ SampleCount(c, 1) - SampleCount(c, 2) \in -1..1
            /\ (Len(call[c].measured) >= 3) => call[c].measured[2] = call[c].measured[3]
       /\ call[c].pc = "done" =>
            /\ call[c].report = SelectSeq(call[c].measured, LAMBDA i : i \notin call[c].fixed)
            /\ \A i \in Timed(c) : SampleCount(c, i) = Samples

\* Every measure call returns: no call sleeps on although a slot is free, and
\* no wakeup is lost to a call that was faster.
CallsReturn == \A c \in Calls : <>Returned(c)
=============================================================================
