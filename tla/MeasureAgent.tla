---------------------------- MODULE MeasureAgent ----------------------------
(***************************************************************************)
(* The agent runtime of the measurement fleet                              *)
(* (crates/gz-measure-service/src/agent.rs) and the reconnect loop of its  *)
(* binaries (crates/gz-measure-agent/src/main.rs).                         *)
(*                                                                         *)
(* A session has a select loop and one async task per accepted lease.      *)
(* When run_session returns, its tasks are aborted, but a thread that      *)
(* spawn_blocking started (backend.measure, persist_report, delete_report) *)
(* runs on: measuring, writing and removing survive the end of a session   *)
(* and only die with the process.                                          *)
(*                                                                         *)
(* The coordinator is open: it may offer any fresh lease, cancel or drain  *)
(* at any time, answer a submission in any way that commits at most one    *)
(* report per job, with leave to delete it, and lose the stream.  A lease  *)
(* stands for its report.  A send to the bounded event channel is a step   *)
(* that waits for room.                                                    *)
(***************************************************************************)
EXTENDS Integers, FiniteSets

CONSTANTS
  Jobs,
  Slots,           \* concurrent_job_slots of the backend
  EventCapacity,   \* control_capacity
  MaxLease,        \* bound: leases the coordinator ever offers
  MaxSession       \* bound: sessions the agent opens

ASSUME SlotsAssumption == Slots \in Nat \ {0} /\ Slots <= EventCapacity
ASSUME BoundsAssumption == MaxLease \in Nat /\ MaxSession \in Nat

VARIABLES
  phase,       \* "between" sessions, "hello", "reconciling", "serving", "exited"
  sessions,    \* sessions opened so far
  jobOf,       \* jobOf[l]: job of an offered lease, "none" before
  plan,        \* plan[l]: what remains of the recovery of a loaded report
  active,      \* active[j]: the lease in the active map, 0 if none
  draining,
  task,        \* task[l]: where the async task of a lease is
  outbox,      \* events waiting in the channel to the coordinator
  owed,        \* the loop owes a Ready before it selects again
  answers,     \* answers[l]: Accepted or Rejected events sent for l
  measuring,   \* leases whose backend.measure thread runs
  writing,     \* leases whose persist_report thread runs
  removing,    \* removing[l]: delete_report threads that run for l
  disk,        \* leases with a .report file
  receipt,     \* receipt[j]: the lease the coordinator committed for j, or 0
  told,        \* what the coordinator told the agent of l: "ack" or "cancel"
  stray        \* history: reports that were written after their task was aborted

sessionVars == <<phase, sessions, plan, active, draining, task, outbox, owed>>
threadVars == <<measuring, writing, removing>>
worldVars == <<jobOf, answers, receipt, told, stray>>
vars == <<sessionVars, threadVars, disk, worldVars>>

Leases == 1..MaxLease
Held == {l \in Leases : jobOf[l] # "none" /\ active[jobOf[l]] = l}
Used == Cardinality({j \in Jobs : active[j] # 0})
Room(n) == outbox + n <= EventCapacity

Stages == {"none", "accept", "greet", "fetch", "measure", "report", "persist",
           "announce", "rpc", "delete", "done", "failed"}

TypeOK ==
  /\ phase \in {"between", "hello", "reconciling", "serving", "exited"}
  /\ sessions \in 0..MaxSession
  /\ jobOf \in [Leases -> Jobs \cup {"none"}]
  /\ plan \in [Leases -> {"none", "loaded", "submit", "delete", "deleting"}]
  /\ active \in [Jobs -> 0..MaxLease]
  /\ draining \in BOOLEAN
  /\ task \in [Leases -> Stages]
  /\ outbox \in 0..EventCapacity /\ owed \in BOOLEAN
  /\ answers \in [Leases -> 0..1]
  /\ measuring \subseteq Leases /\ writing \subseteq Leases
  /\ removing \in [Leases -> 0..MaxSession] /\ disk \subseteq Leases
  /\ receipt \in [Jobs -> 0..MaxLease]
  /\ told \in [Leases -> {"nothing", "ack", "cancel"}]
  /\ stray \subseteq Leases

Init ==
  /\ phase = "between" /\ sessions = 0
  /\ plan = [l \in Leases |-> "none"]
  /\ active = [j \in Jobs |-> 0]
  /\ draining = FALSE
  /\ task = [l \in Leases |-> "none"]
  /\ outbox = 0 /\ owed = FALSE
  /\ measuring = {} /\ writing = {} /\ removing = [l \in Leases |-> 0] /\ disk = {}
  /\ jobOf = [l \in Leases |-> "none"]
  /\ answers = [l \in Leases |-> 0]
  /\ receipt = [j \in Jobs |-> 0]
  /\ told = [l \in Leases |-> "nothing"]
  /\ stray = {}

-----------------------------------------------------------------------------
(* The end of a session: tasks are aborted, threads are not. *)
EndSession(next) ==
  /\ phase' = next
  /\ plan' = [l \in Leases |-> "none"]
  /\ active' = [j \in Jobs |-> 0]
  /\ draining' = FALSE
  /\ task' = [l \in Leases |-> "none"]
  /\ outbox' = 0 /\ owed' = FALSE
  /\ UNCHANGED sessions

(* Stream loss, an error command, an error of the transport. *)
StreamLost ==
  /\ phase \in {"hello", "reconciling", "serving"}
  /\ EndSession("between")
  /\ UNCHANGED <<threadVars, disk, worldVars>>

(* The process dies or is interrupted; a half-written report is a .tmp file  *)
(* that nobody reads.                                                        *)
Crash ==
  /\ phase # "exited"
  /\ EndSession("between")
  /\ measuring' = {} /\ writing' = {} /\ removing' = [l \in Leases |-> 0]
  /\ UNCHANGED <<disk, worldVars>>

(* load_persisted_reports refuses more reports than there are slots. *)
ReportsLoad == Cardinality(disk) <= Slots

(* run_session up to the Hello. *)
OpenSession ==
  /\ phase = "between" /\ sessions < MaxSession
  /\ ReportsLoad
  /\ phase' = "hello"
  /\ sessions' = sessions + 1
  /\ plan' = [l \in Leases |-> IF l \in disk THEN "loaded" ELSE "none"]
  /\ UNCHANGED <<active, draining, task, outbox, owed, threadVars, disk, worldVars>>

(* Welcome, with a disposition for every recovery of the Hello. *)
ReceiveWelcome(submit) ==
  /\ phase = "hello"
  /\ submit \subseteq {l \in Leases : plan[l] = "loaded" /\ receipt[jobOf[l]] = 0}
  /\ phase' = "reconciling"
  /\ plan' = [l \in Leases |-> IF plan[l] # "loaded" THEN "none"
                               ELSE IF l \in submit THEN "submit" ELSE "delete"]
  /\ told' = [l \in Leases |->
                IF plan[l] = "loaded" /\ receipt[jobOf[l]] = 0 /\ l \notin submit
                THEN "cancel" ELSE told[l]]
  /\ UNCHANGED <<sessions, active, draining, task, outbox, owed, threadVars, disk,
                 jobOf, answers, receipt, stray>>

-----------------------------------------------------------------------------
(* submit_persisted_report: the coordinator may commit and the reply be lost. *)

CanCommit(l) == receipt[jobOf[l]] \in {0, l}

(* Mutant: any answer lets the report go. *)
SubmitAnyAnswer(l) == UNCHANGED <<receipt, told>>

\* The acknowledgement of a committed report arrives.  The coordinator lets the
\* report go with every answer of this kind (agent_may_delete_report is true in
\* coordinator.rs:890, 922, 929 and 955), so the branch of the agent that keeps
\* the file (agent.rs:687) is never taken.
SubmitAcked(l) ==
  /\ CanCommit(l)
  /\ receipt' = [receipt EXCEPT ![jobOf[l]] = l]
  /\ told' = [told EXCEPT ![l] = "ack"]

(* An error status or another disposition, or a reply that never comes. *)
SubmitFails(l) ==
  /\ \/ UNCHANGED receipt
     \/ CanCommit(l) /\ receipt' = [receipt EXCEPT ![jobOf[l]] = l]
  /\ UNCHANGED told

(* reconcile_persisted_reports, one report at a time. *)
ReconcileSubmit(l) ==
  /\ phase = "reconciling" /\ plan[l] = "submit"
  /\ \A k \in Leases : plan[k] # "deleting"
  /\ \/ /\ SubmitAcked(l)
        /\ plan' = [plan EXCEPT ![l] = "deleting"]
        /\ removing' = [removing EXCEPT ![l] = @ + 1]
        /\ UNCHANGED <<phase, sessions, active, draining, task, outbox, owed>>
     \/ /\ SubmitFails(l)
        /\ EndSession("between")
        /\ UNCHANGED removing
  /\ UNCHANGED <<measuring, writing, disk, jobOf, answers, stray>>

ReconcileDelete(l) ==
  /\ phase = "reconciling" /\ plan[l] = "delete"
  /\ \A k \in Leases : plan[k] # "deleting"
  /\ plan' = [plan EXCEPT ![l] = "deleting"]
  /\ removing' = [removing EXCEPT ![l] = @ + 1]
  /\ UNCHANGED <<phase, sessions, active, draining, task, outbox, owed, measuring,
                 writing, disk, worldVars>>

(* Mutant: the agent serves before the loaded reports are settled. *)
ServeEarly ==
  /\ phase = "reconciling"
  /\ Room(1)
  /\ phase' = "serving"
  /\ outbox' = outbox + 1
  /\ UNCHANGED <<sessions, plan, active, draining, task, owed, threadVars, disk,
                 worldVars>>

(* What the loop itself sends waits for room in the bounded channel. *)
send_ready == Room(1) /\ outbox' = outbox + 1
send_draining == Room(1) /\ outbox' = outbox + 1

(* Every report is settled: the first Ready, and the select loop. *)
Serve ==
  /\ phase = "reconciling" /\ \A l \in Leases : plan[l] = "none"
  /\ send_ready
  /\ phase' = "serving"
  /\ UNCHANGED <<sessions, plan, active, draining, task, owed, threadVars, disk,
                 worldVars>>

-----------------------------------------------------------------------------
(* The select loop.  It blocks while a send waits for room, so it does not    *)
(* select again before the Ready that follows a rejection is sent.            *)

Selecting == phase = "serving" /\ ~owed

NoFreeSlot == draining \/ Used >= Slots

Offered(l, j) ==
  /\ Selecting /\ jobOf[l] = "none" /\ \A k \in 1..(l - 1) : jobOf[k] # "none"
  /\ jobOf' = [jobOf EXCEPT ![l] = j]

(* A lease that finds no slot, or that validate_lease refuses. *)
RejectLease(l, j) ==
  /\ Offered(l, j)
  /\ Room(1) /\ outbox' = outbox + 1 /\ owed' = TRUE
  /\ answers' = [answers EXCEPT ![l] = @ + 1]
  /\ UNCHANGED <<phase, sessions, plan, active, draining, task, threadVars, disk,
                 receipt, told, stray>>

SendOwedReady ==
  /\ owed /\ send_ready /\ owed' = FALSE
  /\ UNCHANGED <<phase, sessions, plan, active, draining, task, threadVars, disk,
                 worldVars>>

(* A lease for a job that is already active ends the session. *)
TakeLease(l, j) ==
  /\ Offered(l, j) /\ ~NoFreeSlot
  /\ \/ /\ active[j] = 0
        /\ active' = [active EXCEPT ![j] = l]
        /\ task' = [task EXCEPT ![l] = "accept"]
        /\ UNCHANGED <<phase, sessions, plan, draining, outbox, owed>>
     \/ /\ active[j] # 0
        /\ EndSession("between")
  /\ UNCHANGED <<threadVars, disk, answers, receipt, told, stray>>

(* CancelLease is read and ignored. *)
ReceiveCancel(l) ==
  /\ Selecting /\ jobOf[l] # "none"
  /\ UNCHANGED vars

ReceiveDrain ==
  /\ Selecting
  /\ \/ Used = 0 /\ Room(1) /\ EndSession("exited")
     \/ /\ Used # 0
        /\ draining' = TRUE /\ send_draining
        /\ UNCHANGED <<phase, sessions, plan, active, task, owed>>
  /\ UNCHANGED <<threadVars, disk, worldVars>>

(* tasks.join_next: a failed task ends the session, and with it the others. *)
JoinTask(l) ==
  /\ Selecting /\ task[l] \in {"done", "failed"}
  /\ \/ task[l] = "failed" /\ EndSession("between")
     \/ task[l] = "done" /\ draining /\ Used = 1 /\ EndSession("exited")
     \/ /\ task[l] = "done" /\ ~(draining /\ Used = 1)
        /\ IF draining THEN UNCHANGED outbox ELSE send_ready
        /\ active' = [active EXCEPT ![jobOf[l]] = 0]
        /\ task' = [task EXCEPT ![l] = "none"]
        /\ UNCHANGED <<phase, sessions, plan, draining, owed>>
  /\ UNCHANGED <<threadVars, disk, worldVars>>

(* The periodic Ready of the loop. *)
Beat ==
  /\ Selecting /\ send_ready
  /\ UNCHANGED <<phase, sessions, plan, active, draining, task, owed, threadVars,
                 disk, worldVars>>

(* The transport takes an event out of the channel. *)
Deliver ==
  /\ outbox > 0
  /\ outbox' = outbox - 1
  /\ UNCHANGED <<phase, sessions, plan, active, draining, task, owed, threadVars,
                 disk, worldVars>>

-----------------------------------------------------------------------------
(* process_lease *)

Advance(l, from, to) ==
  /\ phase = "serving" /\ task[l] = from
  /\ task' = [task EXCEPT ![l] = to]
  /\ UNCHANGED <<phase, sessions, plan, active, draining, owed>>

Send == Room(1) /\ outbox' = outbox + 1

SendAccepted(l) ==
  /\ Advance(l, "accept", "greet")
  /\ Send
  /\ answers' = [answers EXCEPT ![l] = @ + 1]
  /\ UNCHANGED <<threadVars, disk, jobOf, receipt, told, stray>>

(* The heartbeats that no thread waits for: on entering the fetch phase, and  *)
(* while the backend measures.                                                *)
TaskBeat(l) ==
  /\ Advance(l, "greet", "fetch") \/ Advance(l, "measure", "measure")
  /\ Send
  /\ UNCHANGED <<threadVars, disk, worldVars>>

(* fetch_subject for all subjects, a heartbeat, and the backend's thread. *)
Fetch(l) ==
  \/ /\ Advance(l, "fetch", "measure")
     /\ Send
     /\ measuring' = measuring \cup {l}
     /\ UNCHANGED <<writing, removing, disk, worldVars>>
  \/ /\ Advance(l, "fetch", "failed")
     /\ UNCHANGED <<outbox, threadVars, disk, worldVars>>

(* backend.measure returns; an aborted task has nobody to build a report, and *)
(* build_report may refuse what the backend returned.                         *)
MeasureReturns(l) ==
  /\ l \in measuring
  /\ measuring' = measuring \ {l}
  /\ \/ task[l] = "measure" /\ \E to \in {"report", "failed"} : task' = [task EXCEPT ![l] = to]
     \/ task[l] # "measure" /\ UNCHANGED task
  /\ UNCHANGED <<phase, sessions, plan, active, draining, outbox, owed, writing,
                 removing, disk, worldVars>>

(* A heartbeat, then persist_report on a thread of its own. *)
PersistReport(l) ==
  /\ Advance(l, "report", "persist")
  /\ Send
  /\ writing' = writing \cup {l}
  /\ UNCHANGED <<measuring, removing, disk, worldVars>>

(* The file is renamed into place, or an I/O error is returned, before or     *)
(* after the rename.                                                          *)
PersistReturns(l) ==
  /\ l \in writing
  /\ writing' = writing \ {l}
  /\ \E ok, renamed \in BOOLEAN :
       /\ ok => renamed
       /\ disk' = IF renamed THEN disk \cup {l} ELSE disk
       /\ task' = [task EXCEPT ![l] = IF @ # "persist" THEN @
                                      ELSE IF ok THEN "announce" ELSE "failed"]
       /\ stray' = IF renamed /\ task[l] # "persist" THEN stray \cup {l} ELSE stray
  /\ UNCHANGED <<phase, sessions, plan, active, draining, outbox, owed, measuring,
                 removing, jobOf, answers, receipt, told>>

AnnounceReport(l) ==
  /\ Advance(l, "announce", "rpc")
  /\ Send
  /\ UNCHANGED <<threadVars, disk, worldVars>>

SubmitReport(l) ==
  \/ /\ Advance(l, "rpc", "delete")
     /\ SubmitAcked(l)
     /\ removing' = [removing EXCEPT ![l] = @ + 1]
     /\ UNCHANGED <<outbox, measuring, writing, disk, jobOf, answers, stray>>
  \/ /\ Advance(l, "rpc", "failed")
     /\ SubmitFails(l)
     /\ UNCHANGED <<outbox, threadVars, disk, jobOf, answers, stray>>

(* A delete_report thread ends: the file is gone, or an error is returned,    *)
(* before or after the removal; removing a file that is gone is an error.     *)
(* The session waits for its own thread; a thread of an aborted session may   *)
(* still be at work on the same file.                                         *)
Awaited(l) == plan[l] = "deleting" \/ task[l] = "delete"

DeleteReturns(l) ==
  /\ removing[l] > 0
  /\ removing' = [removing EXCEPT ![l] = @ - 1]
  /\ \E ok, removed \in BOOLEAN :
       /\ ok => removed /\ l \in disk
       /\ disk' = IF removed THEN disk \ {l} ELSE disk
       /\ \/ /\ ~Awaited(l) \/ removing[l] > 1
             /\ UNCHANGED sessionVars
          \/ /\ ~ok /\ plan[l] = "deleting"
             /\ EndSession("between")
          \/ /\ Awaited(l) /\ (plan[l] = "deleting" => ok)
             /\ plan' = [plan EXCEPT ![l] = "none"]
             /\ task' = [task EXCEPT ![l] = IF @ # "delete" THEN @
                                            ELSE IF ok THEN "done" ELSE "failed"]
             /\ UNCHANGED <<phase, sessions, active, draining, outbox, owed>>
  /\ UNCHANGED <<measuring, writing, worldVars>>

-----------------------------------------------------------------------------
TaskStep(l) ==
  \/ SendAccepted(l) \/ TaskBeat(l) \/ Fetch(l) \/ PersistReport(l) \/ AnnounceReport(l)
  \/ SubmitReport(l) \/ JoinTask(l)
ThreadReturns(l) == MeasureReturns(l) \/ PersistReturns(l) \/ DeleteReturns(l)

Exited == phase = "exited" /\ UNCHANGED vars

Next ==
  \/ StreamLost \/ Crash \/ OpenSession \/ Serve \/ ReceiveDrain \/ Beat \/ Deliver
  \/ SendOwedReady \/ Exited
  \/ \E submit \in SUBSET Leases : ReceiveWelcome(submit)
  \/ \E l \in Leases :
       \/ ReconcileSubmit(l) \/ ReconcileDelete(l) \/ ReceiveCancel(l)
       \/ TaskStep(l) \/ ThreadReturns(l)
       \/ \E j \in Jobs : RejectLease(l, j) \/ TakeLease(l, j)

Spec == Init /\ [][Next]_vars

(* Fairness: tasks and threads make progress, the transport takes events, and *)
(* the waiters of a bounded channel are served in turn (strong fairness).     *)
Fairness ==
  /\ WF_vars(Deliver) /\ SF_vars(SendOwedReady)
  /\ \A l \in Leases : SF_vars(TaskStep(l)) /\ WF_vars(ThreadReturns(l))

FairSpec == Spec /\ Fairness

-----------------------------------------------------------------------------
(* A report leaves the disk only after the coordinator committed its job or   *)
(* told the agent to cancel it, whichever session or left-over thread removes *)
(* the file.                                                                  *)
ReportKept ==
  [][\A l \in disk \ disk' : receipt[jobOf[l]] # 0 \/ told[l] = "cancel"]_vars

(* While the agent serves, every report on disk is that of a lease it holds,  *)
(* or one that was written after its task had been aborted; without the       *)
(* latter there are never more reports than slots, so a session can always be *)
(* opened again.                                                              *)
ReportsAccounted ==
  /\ phase = "serving" =>
       disk \subseteq stray \cup
         {l \in Held : task[l] \in {"announce", "rpc", "delete", "failed"}}
  /\ Cardinality(disk \ stray) <= Slots

(* An accepted lease gives its slot back: its task ends, or the session does, *)
(* although tasks and loop share one bounded channel and wait for each other. *)
LeaseFinishes == \A l \in Leases : l \in Held ~> l \notin Held
=============================================================================
