-------------------------- MODULE CoordinatorProofs --------------------------
(***************************************************************************)
(* Proofs about Coordinator, for every number of devices, jobs, sessions   *)
(* and leases and for any behaviour of the agents.                         *)
(***************************************************************************)
EXTENDS Coordinator, FiniteSetTheorems, TLAPS

-----------------------------------------------------------------------------
(* The queue operations on a queue without duplicates. *)

(* Appending a job that is not queued keeps the queue duplicate-free and adds *)
(* exactly that job: push_back in enqueue and requeue_active.                 *)
LEMMA AppendToQueue ==
  ASSUME NEW q \in Seq(Jobs), NEW j \in Jobs, IsInjective(q), ~Contains(q, j)
  PROVE  /\ Append(q, j) \in Seq(Jobs)
         /\ IsInjective(Append(q, j))
         /\ \A k \in Jobs : Contains(Append(q, j), k) <=> Contains(q, k) \/ k = j
<1>1. /\ Append(q, j) \in Seq(Jobs)
      /\ Len(Append(q, j)) = Len(q) + 1
      /\ DOMAIN Append(q, j) = 1..(Len(q) + 1)
      /\ DOMAIN q = 1..Len(q)
      /\ Len(q) \in Nat
      /\ \A i \in 1..Len(q) : Append(q, j)[i] = q[i]
      /\ Append(q, j)[Len(q) + 1] = j
  OBVIOUS
<1>2. IsInjective(Append(q, j))
  BY <1>1 DEF IsInjective, Contains
<1>3. ASSUME NEW k \in Jobs
      PROVE  Contains(Append(q, j), k) <=> Contains(q, k) \/ k = j
  <2>1. Contains(Append(q, j), k) => Contains(q, k) \/ k = j
    BY <1>1 DEF Contains
  <2>2. Contains(q, k) => Contains(Append(q, j), k)
    BY <1>1 DEF Contains
  <2>3. k = j => Contains(Append(q, j), k)
    BY <1>1 DEF Contains
  <2> QED BY <2>1, <2>2, <2>3
<1> QED BY <1>1, <1>2, <1>3

(* Removing one position drops exactly the job found there: the removal in    *)
(* schedule.                                                                  *)
LEMMA RemoveFromQueue ==
  ASSUME NEW q \in Seq(Jobs), IsInjective(q), NEW i \in 1..Len(q)
  PROVE  /\ RemoveAt(q, i) \in Seq(Jobs)
         /\ IsInjective(RemoveAt(q, i))
         /\ \A k \in Jobs : Contains(RemoveAt(q, i), k) <=> Contains(q, k) /\ k # q[i]
<1> DEFINE r == RemoveAt(q, i)
           a == SubSeq(q, 1, i - 1)
           b == SubSeq(q, i + 1, Len(q))
<1>a. a \in Seq(Jobs) /\ Len(a) = i - 1 /\ \A k \in 1..(i - 1) : a[k] = q[k]
  OBVIOUS
<1>b. b \in Seq(Jobs) /\ Len(b) = Len(q) - i
      /\ \A k \in 1..(Len(q) - i) : b[k] = q[k + i]
  OBVIOUS
<1>c. r = a \o b
  BY DEF RemoveAt
<1> HIDE DEF a, b, r
<1>1. /\ r \in Seq(Jobs)
      /\ Len(r) = Len(q) - 1
      /\ DOMAIN r = 1..(Len(q) - 1)
      /\ DOMAIN q = 1..Len(q)
      /\ Len(q) \in Nat
      /\ \A k \in 1..(Len(q) - 1) : r[k] = IF k < i THEN q[k] ELSE q[k + 1]
  <2>1. r \in Seq(Jobs) /\ Len(r) = Len(q) - 1
    BY <1>a, <1>b, <1>c
  <2>2. ASSUME NEW k \in 1..(Len(q) - 1)
        PROVE  r[k] = IF k < i THEN q[k] ELSE q[k + 1]
    <3>1. CASE k < i
      BY <1>a, <1>b, <1>c, <3>1
    <3>2. CASE ~(k < i)
      <4>1. k - (i - 1) \in 1..(Len(q) - i)
        BY <3>2
      <4>2. r[k] = b[k - (i - 1)]
        BY <1>a, <1>b, <1>c, <3>2
      <4>3. b[k - (i - 1)] = q[(k - (i - 1)) + i]
        BY <1>b, <4>1
      <4> QED BY <3>2, <4>2, <4>3
    <3> QED BY <3>1, <3>2
  <2> QED BY <2>1, <2>2
<1>2. IsInjective(r)
  <2> SUFFICES ASSUME NEW m \in 1..(Len(q) - 1), NEW n \in 1..(Len(q) - 1),
                      r[m] = r[n], m # n
               PROVE  FALSE
    BY <1>1 DEF IsInjective
  <2> DEFINE at(k) == IF k < i THEN k ELSE k + 1
  <2>1. /\ at(m) \in 1..Len(q) /\ at(n) \in 1..Len(q) /\ at(m) # at(n)
        /\ q[at(m)] = q[at(n)]
    BY <1>1
  <2> QED BY <1>1, <2>1 DEF IsInjective
<1>3. ASSUME NEW k \in Jobs
      PROVE  Contains(r, k) <=> Contains(q, k) /\ k # q[i]
  <2>1. Contains(r, k) => Contains(q, k) /\ k # q[i]
    BY <1>1 DEF Contains, IsInjective
  <2>2. ASSUME Contains(q, k), k # q[i] PROVE Contains(r, k)
    <3>1. PICK n \in 1..Len(q) : q[n] = k
      BY <2>2 DEF Contains
    <3>2. CASE n < i
      BY <1>1, <3>1, <3>2 DEF Contains
    <3>3. CASE n > i
      <4>1. n - 1 \in 1..(Len(q) - 1) /\ r[n - 1] = k
        BY <1>1, <3>1, <3>3
      <4> QED BY <1>1, <4>1 DEF Contains
    <3> QED BY <2>2, <3>1, <3>2, <3>3
  <2> QED BY <2>1, <2>2
<1> QED BY <1>1, <1>2, <1>3 DEF r

(* Removing a job by value drops exactly that job, if it is there at all: the *)
(* removals in cancel_job, submit_result and reconcile_recoveries.            *)
LEMMA RemoveJobFromQueue ==
  ASSUME NEW q \in Seq(Jobs), IsInjective(q), NEW j \in Jobs
  PROVE  /\ RemoveFirst(q, j) \in Seq(Jobs)
         /\ IsInjective(RemoveFirst(q, j))
         /\ \A k \in Jobs : Contains(RemoveFirst(q, j), k) <=> Contains(q, k) /\ k # j
<1>1. CASE ~Contains(q, j)
  BY <1>1 DEF RemoveFirst, Contains
<1>2. CASE Contains(q, j)
  <2> DEFINE S == {i \in 1..Len(q) : q[i] = j}
             n == SelectInSeq(q, LAMBDA v : v = j)
  <2>1. PICK m \in S : \A i \in S : m = i
    BY <1>2 DEF Contains, IsInjective
  <2>2. n = Min(S)
    BY <1>2 DEF SelectInSeq, Contains
  <2>3. Min(S) = m
    BY <2>1 DEF Min
  <2>4. n \in 1..Len(q) /\ q[n] = j
    BY <2>1, <2>2, <2>3
  <2>5. RemoveFirst(q, j) = RemoveAt(q, n)
    BY <1>2 DEF RemoveFirst, Contains
  <2> HIDE DEF n
  <2> QED BY <2>4, <2>5, RemoveFromQueue
<1> QED BY <1>1, <1>2

-----------------------------------------------------------------------------
(* Steps that matter to the invariants, and steps that only move the mutex    *)
(* between handlers or touch credit, clocks, channels and callers.            *)
coreVars == <<session, active, jobState, lease, recovery, queue, receipts,
              answer, opened, owner, issued, granted>>

Peripheral ==
  /\ UNCHANGED coreVars
  /\ target' = target
  /\ \/ lock' = lock
     \/ /\ lock \in {"free", "expired", "schedule"}
        /\ lock' \in {"free", "expired", "schedule"}

CoreStep ==
  \/ \E j \in Jobs :
       Expire(j) \/ RequeueDetached(j) \/ Rebind(j) \/ Enqueue(j) \/ CancelJob(j)
  \/ \E i \in 1..Len(queue), d \in Devices : Offer(i, d)
  \/ DetachDone \/ Register \/ Restart
  \/ \E d \in Devices, h \in [Jobs -> 0..issued] : Connect(d, h)
  \/ \E s \in 1..opened :
       \/ Disconnect(s)
       \/ \E e \in Events : Accepted(s, e) \/ Rejected(s, e)
       \/ \E j \in Jobs, r \in Reports : SubmitResult(s, j, r)

(* Every step of the coordinator is one or the other. *)
LEMMA StepCases ==
  ASSUME [Next]_vars
  PROVE  Peripheral \/ CoreStep
<1> USE DEF Peripheral, coreVars, lockVars, agentVars, jobVars, callerVars, streamVars
<1>1. CASE UNCHANGED vars
  BY <1>1 DEF vars
<1>2. CASE Tick
  BY <1>2 DEF Tick
<1>3. CASE Reap
  BY <1>3 DEF Reap, ExpiredBody
<1>4. CASE DrainAgents
  BY <1>4 DEF DrainAgents
<1>5. CASE ScheduleDone
  BY <1>5 DEF ScheduleDone
<1>6. ASSUME NEW j \in Jobs, Decline(j)
      PROVE  Peripheral
  BY <1>6 DEF Decline
<1>7. ASSUME NEW j \in Jobs, EnqueueRefused(j)
      PROVE  Peripheral
  BY <1>7 DEF EnqueueRefused
<1>8. ASSUME NEW j \in Jobs, CallerTimeout(j)
      PROVE  Peripheral
  BY <1>8 DEF CallerTimeout
<1>9. ASSUME NEW s \in 1..opened, SendWelcome(s)
      PROVE  Peripheral
  BY <1>9 DEF SendWelcome
<1>10. ASSUME NEW s \in 1..opened, AgentReads(s) \/ HangUp(s) \/ StreamEnds(s)
       PROVE  Peripheral
  BY <1>10 DEF AgentReads, HangUp, StreamEnds
<1>11. ASSUME NEW s \in 1..opened, NEW e \in Events,
              Ready(s, e) \/ Heartbeat(s, e) \/ Draining(s, e)
       PROVE  Peripheral
  BY <1>11 DEF Ready, Heartbeat, Draining, Handles, ExpiredBody
<1>12. ASSUME NEW s \in 1..opened, NEW e \in Events, Refuse(s, e)
       PROVE  Peripheral
  BY <1>12 DEF Refuse, ExpiredBody
<1> QED
  BY <1>1, <1>2, <1>3, <1>4, <1>5, <1>6, <1>7, <1>8, <1>9, <1>10, <1>11, <1>12
  DEF Next, Loop, AgentEvent, CoreStep

(* An event about a lease names a job and a lease identity, and a readiness  *)
(* snapshot carries a number of slots.                                       *)
LEMMA EventTyped ==
  ASSUME NEW e \in Events
  PROVE  /\ e.kind \in {"accepted", "rejected", "heartbeat"} =>
              e.job \in Jobs /\ e.lease \in Leases
         /\ e.kind = "ready" => e.free \in Nat
<1>1. CASE e \in ReadyEvents
  <2>1. PICK d \in Devices : e \in [kind : {"ready"}, free : 0..(Slots[d] + 1)]
    BY <1>1 DEF ReadyEvents
  <2>2. e.kind = "ready" /\ e.free \in 0..(Slots[d] + 1)
    BY <2>1
  <2>3. Slots[d] + 1 \in Nat
    BY SlotsAssumption
  <2> QED BY <2>2, <2>3
<1>2. CASE e \in {[kind |-> "draining"], [kind |-> "hello"]}
  BY <1>2
<1>3. CASE e \in LeaseEvents
  BY <1>3 DEF LeaseEvents
<1> QED BY <1>1, <1>2, <1>3 DEF Events

-----------------------------------------------------------------------------
(* Preservation of SessionsConsistent: connect gives a fresh session id to    *)
(* one device, and only the loops under the mutex run on a detached device.   *)
LEMMA SessionsStep ==
  ASSUME Inductive, [Next]_vars
  PROVE  SessionsConsistent'
<1>a. /\ SessionsConsistent
      /\ lock \in LockStates /\ target \in Devices \cup {0}
      /\ session \in [Devices -> 0..MaxSession] /\ opened \in 0..MaxSession
      /\ owner \in [1..MaxSession -> Devices \cup {0}]
      /\ MaxSession \in Nat
  BY BoundsAssumption DEF Inductive, TypeOK, LockTypeOK, AgentTypeOK, StreamTypeOK, Sessions
<1> USE <1>a DEF SessionsConsistent
<1>1. CASE Peripheral
  BY <1>1 DEF Peripheral, coreVars
<1>2. ASSUME NEW j \in Jobs, Expire(j) \/ RequeueDetached(j)
      PROVE  SessionsConsistent'
  BY <1>2 DEF Expire, RequeueDetached, RequeueActive, RequeueJob, lockVars, streamVars
<1>3. ASSUME NEW j \in Jobs, Rebind(j)
      PROVE  SessionsConsistent'
  BY <1>3 DEF Rebind
<1>4. ASSUME NEW j \in Jobs, Enqueue(j) \/ CancelJob(j)
      PROVE  SessionsConsistent'
  BY <1>4 DEF Enqueue, CancelJob, ExpiredBody, lockVars, LockStates, agentVars, streamVars
<1>5. ASSUME NEW i \in 1..Len(queue), NEW d \in Devices, Offer(i, d)
      PROVE  SessionsConsistent'
  BY <1>5 DEF Offer, DetachAgent, streamVars
<1>6. CASE DetachDone
  BY <1>6 DEF DetachDone, agentVars, streamVars
<1>7. CASE Register
  BY <1>7 DEF Register
<1>8. CASE Restart
  BY <1>8 DEF Restart
<1>9. ASSUME NEW d \in Devices, NEW h \in [Jobs -> 0..issued], Connect(d, h)
      PROVE  SessionsConsistent'
  BY <1>9 DEF Connect, DetachAgent
<1>10. ASSUME NEW s \in 1..opened, Disconnect(s)
       PROVE  SessionsConsistent'
  BY <1>10 DEF Disconnect, DetachAgent
<1>11. ASSUME NEW s \in 1..opened, NEW e \in Events, Accepted(s, e) \/ Rejected(s, e)
       PROVE  SessionsConsistent'
  BY <1>11 DEF Accepted, Rejected, Handles, ExpiredBody, streamVars
<1>12. ASSUME NEW s \in 1..opened, NEW j \in Jobs, NEW r \in Reports,
              SubmitResult(s, j, r)
       PROVE  SessionsConsistent'
  BY <1>12 DEF SubmitResult, streamVars
<1> QED
  BY <1>1, <1>2, <1>3, <1>4, <1>5, <1>6, <1>7, <1>8, <1>9, <1>10, <1>11, <1>12,
     StepCases DEF CoreStep

(* Preservation of QueueConsistent: every change of a job's state to or from  *)
(* Queued comes with the matching change of the queue.                        *)
LEMMA QueueStep ==
  ASSUME Inductive, [Next]_vars
  PROVE  QueueConsistent'
<1> USE DEF Inductive
<1>a. /\ queue \in Seq(Jobs) /\ IsInjective(queue)
      /\ jobState \in [Jobs -> {"none", "queued", "offered", "running"}]
      /\ \A j \in Jobs : jobState[j] = "queued" <=> Contains(queue, j)
  BY DEF TypeOK, JobTypeOK, QueueConsistent
<1>b. ASSUME NEW j \in Jobs, RequeueJob(j, TRUE) \/ RequeueJob(j, FALSE)
      PROVE  QueueConsistent'
  <2>1. CASE Contains(queue, j)
    BY <1>a, <1>b, <2>1 DEF RequeueJob, QueueConsistent
  <2>2. CASE ~Contains(queue, j)
    <3>1. queue' = Append(queue, j) /\ jobState' = [jobState EXCEPT ![j] = "queued"]
      BY <1>b, <2>2 DEF RequeueJob
    <3> QED BY <1>a, <2>2, <3>1, AppendToQueue DEF QueueConsistent
  <2> QED BY <2>1, <2>2
<1>c. ASSUME NEW j \in Jobs, NEW st \in {"none", "running"},
             jobState' = [jobState EXCEPT ![j] = st], queue' = RemoveFirst(queue, j)
      PROVE  QueueConsistent'
  BY <1>a, <1>c, RemoveJobFromQueue DEF QueueConsistent
<1>d. ASSUME UNCHANGED <<jobState, queue>>
      PROVE  QueueConsistent'
  BY <1>a, <1>d DEF QueueConsistent
<1>1. CASE Peripheral
  BY <1>1, <1>d DEF Peripheral, coreVars
<1>2. ASSUME NEW j \in Jobs, Expire(j)
      PROVE  QueueConsistent'
  BY <1>2, <1>b DEF Expire, RequeueActive
<1>3. ASSUME NEW j \in Jobs, RequeueDetached(j)
      PROVE  QueueConsistent'
  <2>1. (jobState[j] = "running") \in BOOLEAN
    OBVIOUS
  <2> QED BY <1>3, <1>b, <1>d, <2>1 DEF RequeueDetached, jobVars
<1>4. ASSUME NEW j \in Jobs, Rebind(j)
      PROVE  QueueConsistent'
  BY <1>4, <1>c DEF Rebind
<1>5. ASSUME NEW j \in Jobs, Enqueue(j)
      PROVE  QueueConsistent'
  <2>1. queue' = Append(queue, j) /\ jobState' = [jobState EXCEPT ![j] = "queued"]
        /\ ~Contains(queue, j)
    BY <1>5, <1>a DEF Enqueue, Admissible, Live
  <2> QED BY <1>a, <2>1, AppendToQueue DEF QueueConsistent
<1>6. ASSUME NEW j \in Jobs, CancelJob(j)
      PROVE  QueueConsistent'
  BY <1>6, <1>c, <1>d DEF CancelJob, RemoveJob, jobVars
<1>7. ASSUME NEW i \in 1..Len(queue), NEW d \in Devices, Offer(i, d)
      PROVE  QueueConsistent'
  <2>1. queue' = RemoveAt(queue, i) /\ jobState' = [jobState EXCEPT ![queue[i]] = "offered"]
        /\ queue[i] \in Jobs
    BY <1>7, <1>a DEF Offer
  <2> QED BY <1>a, <2>1, RemoveFromQueue DEF QueueConsistent
<1>8. CASE DetachDone \/ Register
  BY <1>8, <1>d DEF DetachDone, Register, jobVars
<1>9. CASE Restart
  <2>1. queue' = <<>> /\ jobState' = [j \in Jobs |-> "none"]
    BY <1>9 DEF Restart
  <2> QED BY <2>1 DEF QueueConsistent, Contains, IsInjective
<1>10. ASSUME NEW d \in Devices, NEW h \in [Jobs -> 0..issued], Connect(d, h)
       PROVE  QueueConsistent'
  BY <1>10, <1>d DEF Connect, jobVars
<1>11. ASSUME NEW s \in 1..opened, Disconnect(s)
       PROVE  QueueConsistent'
  BY <1>11, <1>d DEF Disconnect, jobVars
<1>12. ASSUME NEW s \in 1..opened, NEW e \in Events, Accepted(s, e)
       PROVE  QueueConsistent'
  <2>1. jobState' = [jobState EXCEPT ![e.job] = "running"] /\ queue' = queue
        /\ jobState[e.job] # "queued"
    BY <1>12 DEF Accepted, Handles, EventValid
  <2> QED BY <1>a, <2>1 DEF QueueConsistent
<1>13. ASSUME NEW s \in 1..opened, NEW e \in Events, Rejected(s, e)
       PROVE  QueueConsistent'
  BY <1>13, <1>b, EventTyped DEF Rejected, RequeueActive
<1>14. ASSUME NEW s \in 1..opened, NEW j \in Jobs, NEW r \in Reports,
              SubmitResult(s, j, r)
       PROVE  QueueConsistent'
  BY <1>14, <1>c DEF SubmitResult, RemoveJob
<1> QED
  BY <1>1, <1>2, <1>3, <1>4, <1>5, <1>6, <1>7, <1>8, <1>9, <1>10, <1>11, <1>12,
     <1>13, <1>14, StepCases DEF CoreStep

(* Preservation of CommittedIsFinal: only a job without receipt is admitted,  *)
(* rebound or committed.                                                      *)
LEMMA CommitStep ==
  ASSUME Inductive, [Next]_vars
  PROVE  CommittedIsFinal'
<1>a. /\ CommittedIsFinal
      /\ jobState \in [Jobs -> {"none", "queued", "offered", "running"}]
      /\ receipts \in [Jobs -> Reports \cup {NoReport}]
      /\ answer \in [Jobs -> Reports \cup {NoReport}]
  BY DEF Inductive, TypeOK, JobTypeOK, LedgerTypeOK
<1>b. \A r \in Reports : r # NoReport
  BY DEF Reports, NoReport, Leases
<1>c. \A j \in Jobs : jobState[j] = "queued" <=> Contains(queue, j)
  BY DEF Inductive, QueueConsistent
<1> USE <1>a DEF CommittedIsFinal
<1>1. CASE Peripheral
  BY <1>1 DEF Peripheral, coreVars
<1>2. ASSUME NEW j \in Jobs, Expire(j)
      PROVE  CommittedIsFinal'
  BY <1>2 DEF Expire, RequeueActive, RequeueJob, Overdue, Leased, callerVars
<1>3. ASSUME NEW j \in Jobs, RequeueDetached(j)
      PROVE  CommittedIsFinal'
  BY <1>3 DEF RequeueDetached, RequeueJob, Leased, callerVars, jobVars
<1>4. ASSUME NEW j \in Jobs, Rebind(j)
      PROVE  CommittedIsFinal'
  BY <1>4 DEF Rebind, Recoverable, callerVars
<1>5. ASSUME NEW j \in Jobs, Enqueue(j)
      PROVE  CommittedIsFinal'
  BY <1>5 DEF Enqueue, Admissible
<1>6. ASSUME NEW j \in Jobs, CancelJob(j)
      PROVE  CommittedIsFinal'
  BY <1>6 DEF CancelJob, RemoveJob, jobVars
<1>7. ASSUME NEW i \in 1..Len(queue), NEW d \in Devices, Offer(i, d)
      PROVE  CommittedIsFinal'
  <2>1. queue[i] \in Jobs /\ jobState[queue[i]] = "queued"
    BY <1>c DEF Inductive, TypeOK, JobTypeOK, Contains
  <2> QED BY <1>7, <2>1 DEF Offer, callerVars
<1>8. CASE DetachDone \/ Register
  BY <1>8 DEF DetachDone, Register, jobVars, callerVars
<1>9. CASE Restart
  BY <1>9 DEF Restart
<1>10. ASSUME NEW d \in Devices, NEW h \in [Jobs -> 0..issued], Connect(d, h)
       PROVE  CommittedIsFinal'
  BY <1>10 DEF Connect, jobVars, callerVars
<1>11. ASSUME NEW s \in 1..opened, Disconnect(s)
       PROVE  CommittedIsFinal'
  BY <1>11 DEF Disconnect, jobVars, callerVars
<1>12. ASSUME NEW s \in 1..opened, NEW e \in Events, Accepted(s, e)
       PROVE  CommittedIsFinal'
  BY <1>12, EventTyped
  DEF Accepted, Handles, EventValid, LeaseIdsValid, Leased, callerVars
<1>13. ASSUME NEW s \in 1..opened, NEW e \in Events, Rejected(s, e)
       PROVE  CommittedIsFinal'
  BY <1>13, EventTyped
  DEF Rejected, RequeueActive, RequeueJob, Handles, EventValid, LeaseIdsValid,
      Leased, callerVars
<1>14. ASSUME NEW s \in 1..opened, NEW j \in Jobs, NEW r \in Reports,
              SubmitResult(s, j, r)
       PROVE  CommittedIsFinal'
  BY <1>14, <1>b DEF SubmitResult, RemoveJob
<1> QED
  BY <1>1, <1>2, <1>3, <1>4, <1>5, <1>6, <1>7, <1>8, <1>9, <1>10, <1>11, <1>12,
     <1>13, <1>14, StepCases DEF CoreStep

(* Preservation of LeaseConsistent: a lease enters and leaves the job's state *)
(* and the agent's active map together, and a session is replaced only after  *)
(* the leases bound to it were taken away.                                    *)
LEMMA LeaseStep ==
  ASSUME Inductive, [Next]_vars
  PROVE  LeaseConsistent'
<1>a. /\ LeaseConsistent
      /\ jobState \in [Jobs -> {"none", "queued", "offered", "running"}]
      /\ lease \in [Jobs -> ActiveLeases \cup {NoLease}]
      /\ recovery \in [Jobs -> ActiveLeases \cup {NoLease}]
      /\ active \in [Devices -> [Jobs -> 0..MaxLease]]
      /\ session \in [Devices -> 0..MaxSession]
      /\ lock \in LockStates
      /\ target \in Devices \cup {0}
  BY DEF Inductive, TypeOK, LockTypeOK, AgentTypeOK, JobTypeOK
<1>b. \A l \in ActiveLeases :
        /\ l # NoLease /\ l.device \in Devices /\ l.current # 0 /\ l.id # 0
        /\ l.id \in 0..MaxLease
  BY BoundsAssumption DEF ActiveLeases, NoLease, Leases, Sessions
<1>c. \A j \in Jobs : Leased(j) => lease[j] \in ActiveLeases
  BY <1>a DEF LeaseConsistent
<1>d. /\ \A s \in 1..opened : owner[s] \in Devices
      /\ lock \in {"unseat", "supersede", "reconcile"} =>
           target \in Devices /\ session[target] = 0
      /\ \A j \in Jobs : recovery[j] # NoLease => jobState[j] = "queued"
  BY DEF Inductive, SessionsConsistent, IdentityConsistent
<1> USE <1>a DEF LeaseConsistent, Leased
<1>e. ASSUME NEW j \in Jobs, Leased(j), NEW st \in {"none", "queued"},
             jobState' = [jobState EXCEPT ![j] = st],
             lease' = [lease EXCEPT ![j] = NoLease],
             active' = [active EXCEPT ![lease[j].device][j] = 0],
             UNCHANGED <<session, opened, target>>,
             \/ lock' = lock
             \/ lock \in {"free", "expired"} /\ lock' \in {"expired", "schedule"}
      PROVE  LeaseConsistent'
  <2>1. lease[j].device \in Devices
    BY <1>b, <1>c, <1>e
  <2>2. ASSUME NEW k \in Jobs, k # j
        PROVE  /\ jobState'[k] = jobState[k] /\ lease'[k] = lease[k]
               /\ \A d \in Devices : active'[d][k] = active[d][k]
    BY <1>e, <2>1, <2>2
  <2>3. jobState'[j] = st /\ \A d \in Devices : active'[d][j] = 0
    BY <1>e, <2>1
  <2> QED BY <1>b, <1>c, <1>e, <2>2, <2>3
<1>f. ASSUME NEW j \in Jobs, Leased(j), lock \in {"free", "expired"}
      PROVE  /\ session[lease[j].device] = lease[j].current
             /\ active[lease[j].device][j] = lease[j].id
             /\ session[lease[j].device] # 0
  BY <1>b, <1>c, <1>f
<1>1. CASE Peripheral
  BY <1>1 DEF Peripheral, coreVars
<1>2. ASSUME NEW j \in Jobs, Expire(j)
      PROVE  LeaseConsistent'
  BY <1>2, <1>e, <1>f
  DEF Expire, RequeueActive, RequeueJob, Overdue, streamVars
<1>3. ASSUME NEW j \in Jobs, RequeueDetached(j)
      PROVE  LeaseConsistent'
  <2>1. target \in Devices
    BY <1>3, <1>d DEF RequeueDetached
  <2>2. Leased(j) /\ lease[j].id = active[target][j] /\ lease[j].device = target
    BY <1>3, <2>1 DEF RequeueDetached
  <2>3. /\ RequeueJob(j, jobState[j] = "running")
        /\ active' = [active EXCEPT ![lease[j].device][j] = 0]
        /\ UNCHANGED <<session, opened, target, lock>>
    BY <1>3, <2>2 DEF RequeueDetached, lockVars, streamVars
  <2> QED BY <2>2, <2>3, <1>e DEF RequeueJob
<1>4. ASSUME NEW j \in Jobs, Rebind(j)
      PROVE  LeaseConsistent'
  <2> DEFINE l == [recovery[j] EXCEPT !.current = opened]
  <2>1. /\ target \in Devices
        /\ recovery[j] \in ActiveLeases /\ recovery[j].device = target
        /\ recovery[j].id = hello[j] /\ hello[j] # 0
        /\ jobState[j] = "queued"
    BY <1>4, <1>d DEF Rebind, Recoverable
  <2>2. l # NoLease /\ l.device = target /\ l.id = hello[j] /\ l.current = opened
    BY <2>1, <1>b DEF ActiveLeases, NoLease
  <2>3. /\ jobState' = [jobState EXCEPT ![j] = "running"]
        /\ lease' = [lease EXCEPT ![j] = l]
        /\ active' = [active EXCEPT ![target][j] = hello[j]]
        /\ UNCHANGED <<lock, target, session, opened>> /\ lock = "reconcile"
    BY <1>4 DEF Rebind, Rebound
  <2> HIDE DEF l
  <2>4. ASSUME NEW k \in Jobs, k # j
        PROVE  /\ jobState'[k] = jobState[k] /\ lease'[k] = lease[k]
               /\ \A d \in Devices : active'[d][k] = active[d][k]
    BY <2>1, <2>3, <2>4
  <2>5. /\ jobState'[j] = "running" /\ lease'[j] = l
        /\ \A d \in Devices : active'[d][j] = IF d = target THEN hello[j] ELSE 0
    BY <2>1, <2>3
  <2> QED BY <1>c, <2>1, <2>2, <2>3, <2>4, <2>5
<1>5. ASSUME NEW j \in Jobs, Enqueue(j)
      PROVE  LeaseConsistent'
  BY <1>5, <1>b, <1>c DEF Enqueue, Admissible, Live, ExpiredBody, agentVars, streamVars
<1>6. ASSUME NEW j \in Jobs, CancelJob(j)
      PROVE  LeaseConsistent'
  <2>1. CASE ~Live(j)
    BY <1>6, <2>1 DEF CancelJob, jobVars, lockVars, streamVars
  <2>2. CASE Live(j) /\ ~Leased(j)
    BY <1>6, <2>2, <1>b, <1>c DEF CancelJob, RemoveJob, lockVars, streamVars
  <2>3. CASE Live(j) /\ Leased(j)
    <3>1. active' = [active EXCEPT ![lease[j].device][j] = 0]
      BY <1>6, <1>f, <2>3 DEF CancelJob
    <3> QED BY <1>6, <1>e, <2>3, <3>1 DEF CancelJob, RemoveJob, lockVars, streamVars
  <2> QED BY <2>1, <2>2, <2>3 DEF Live
<1>7. ASSUME NEW i \in 1..Len(queue), NEW d \in Devices, Offer(i, d)
      PROVE  LeaseConsistent'
  <2>1. queue[i] \in Jobs /\ jobState[queue[i]] = "queued"
    BY DEF Inductive, TypeOK, JobTypeOK, QueueConsistent, Contains
  <2> DEFINE j == queue[i]
             l == [device |-> d, current |-> session[d], origin |-> session[d],
                   id |-> issued + 1]
  <2>2. /\ l # NoLease /\ issued + 1 # 0
        /\ session[d] # 0
    <3>1. issued \in Nat /\ d # 0
      BY DevicesAssumption, BoundsAssumption DEF Inductive, TypeOK, StreamTypeOK
    <3>2. session[d] # 0
      BY <1>7 DEF Offer, IsAssignment, Candidates, AgentMatches
    <3> QED BY <3>1, <3>2 DEF NoLease
  <2>3. /\ jobState' = [jobState EXCEPT ![j] = "offered"]
        /\ lease' = [lease EXCEPT ![j] = l]
        /\ active' = [active EXCEPT ![d][j] = issued + 1]
        /\ \/ UNCHANGED <<lock, target, session>>
           \/ lock' = "unseat" /\ target' = d /\ session' = [session EXCEPT ![d] = 0]
        /\ lock = "schedule" /\ UNCHANGED opened
    BY <1>7 DEF Offer, DetachAgent, streamVars
  <2> HIDE DEF j
  <2> QED BY <2>1, <2>2, <2>3, <1>b, <1>c DEF j
<1>8. CASE DetachDone
  BY <1>8, <1>b, <1>c DEF DetachDone, ActiveJobs, agentVars, jobVars, streamVars
<1>9. CASE Register
  BY <1>9, <1>b, <1>c, <1>d DEF Register, jobVars
<1>10. CASE Restart
  BY <1>10 DEF Restart
<1>11. ASSUME NEW d \in Devices, NEW h \in [Jobs -> 0..issued], Connect(d, h)
       PROVE  LeaseConsistent'
  BY <1>11, <1>b, <1>c DEF Connect, DetachAgent, jobVars
<1>12. ASSUME NEW s \in 1..opened, Disconnect(s)
       PROVE  LeaseConsistent'
  BY <1>12, <1>b, <1>c, <1>d DEF Disconnect, DetachAgent, jobVars
<1>13. ASSUME NEW s \in 1..opened, NEW e \in Events, Accepted(s, e)
       PROVE  LeaseConsistent'
  BY <1>13, <1>b, <1>c, EventTyped
  DEF Accepted, Handles, EventValid, LeaseIdsValid, ExpiredBody, streamVars
<1>14. ASSUME NEW s \in 1..opened, NEW e \in Events, Rejected(s, e)
       PROVE  LeaseConsistent'
  <2>1. e.job \in Jobs /\ Leased(e.job) /\ lock \in {"free", "expired"}
    BY <1>14, EventTyped
    DEF Rejected, Handles, EventValid, LeaseIdsValid, ExpiredBody
  <2> QED BY <1>14, <1>e, <1>f, <2>1
          DEF Rejected, RequeueActive, RequeueJob, Handles, streamVars
<1>15. ASSUME NEW s \in 1..opened, NEW j \in Jobs, NEW r \in Reports,
              SubmitResult(s, j, r)
       PROVE  LeaseConsistent'
  BY <1>15, <1>b, <1>c, <1>d
  DEF SubmitResult, RemoveJob, ReportValid, streamVars
<1> QED
  BY <1>1, <1>2, <1>3, <1>4, <1>5, <1>6, <1>7, <1>8, <1>9, <1>10, <1>11, <1>12,
     <1>13, <1>14, <1>15, StepCases DEF CoreStep

(* Preservation of IdentityConsistent: only schedule makes a lease identity,  *)
(* a fresh one, and a lost session moves it to recovery and back, unchanged.  *)
LEMMA IdentityStep ==
  ASSUME Inductive, [Next]_vars
  PROVE  IdentityConsistent'
<1>a. /\ IdentityConsistent
      /\ jobState \in [Jobs -> {"none", "queued", "offered", "running"}]
      /\ lease \in [Jobs -> ActiveLeases \cup {NoLease}]
      /\ recovery \in [Jobs -> ActiveLeases \cup {NoLease}]
      /\ issued \in 0..MaxLease /\ opened \in 0..MaxSession
      /\ MaxLease \in Nat /\ MaxSession \in Nat
      /\ owner \in [1..MaxSession -> Devices \cup {0}]
  BY BoundsAssumption DEF Inductive, TypeOK, JobTypeOK, StreamTypeOK, Sessions
<1>b. /\ \A l \in ActiveLeases :
           /\ l # NoLease /\ l.id \in 1..MaxLease /\ l.origin \in 1..MaxSession
           /\ l.device \in Devices
      /\ NoLease.id = 0
  BY DEF ActiveLeases, NoLease, Leases, Sessions
<1> DEFINE Sound(l) == l # NoLease =>
             l.id <= issued /\ l.origin <= opened /\ owner[l.origin] = l.device
<1>c. ASSUME NEW j \in Jobs
      PROVE  /\ HolderOf(j) \in 0..issued
             /\ Leased(j) => /\ lease[j] \in ActiveLeases /\ Sound(lease[j])
                             /\ recovery[j] = NoLease
             /\ ~Leased(j) => lease[j] = NoLease
             /\ recovery[j] # NoLease => /\ recovery[j] \in ActiveLeases
                                         /\ Sound(recovery[j])
                                         /\ jobState[j] = "queued"
             /\ \A k \in Jobs \ {j} : HolderOf(j) # 0 => HolderOf(j) # HolderOf(k)
  BY <1>a, <1>b DEF IdentityConsistent, HolderOf, Leased
<1> HIDE DEF Sound
(* A step that changes one job, whose holder becomes none, stays, or is new. *)
<1>e. ASSUME NEW j \in Jobs,
             \A k \in Jobs \ {j} : /\ jobState'[k] = jobState[k]
                                   /\ lease'[k] = lease[k]
                                   /\ recovery'[k] = recovery[k],
             UNCHANGED <<owner, opened>>, issued' \in {issued, issued + 1},
             lease'[j] # NoLease <=> jobState'[j] \in {"offered", "running"},
             recovery'[j] # NoLease => jobState'[j] = "queued",
             \A l \in {lease'[j], recovery'[j]} : l # NoLease =>
               l.id <= issued' /\ l.origin <= opened /\ owner[l.origin] = l.device,
             \/ HolderOf(j)' \in {0, HolderOf(j)}
             \/ HolderOf(j)' = issued + 1
      PROVE  IdentityConsistent'
  <2>1. ASSUME NEW k \in Jobs, k # j
        PROVE  /\ HolderOf(k)' = HolderOf(k)
               /\ Leased(k)' <=> Leased(k)
               /\ \A l \in {lease'[k], recovery'[k]} : l # NoLease =>
                    l.id <= issued' /\ l.origin <= opened /\ owner[l.origin] = l.device
    BY <1>a, <1>b, <1>c, <1>e, <2>1 DEF HolderOf, Leased, Sound
  <2>2. Leased(j)' <=> jobState'[j] \in {"offered", "running"}
    BY DEF Leased
  <2>3. ASSUME NEW m \in Jobs, NEW n \in Jobs, m # n, HolderOf(m)' # 0
        PROVE  HolderOf(m)' # HolderOf(n)'
    BY <1>a, <1>c, <1>e, <2>1, <2>3
  <2>4. ASSUME NEW k \in Jobs, k # j
        PROVE  /\ lease'[k] # NoLease <=> Leased(k)'
               /\ recovery'[k] # NoLease => jobState'[k] = "queued"
    BY <1>b, <1>c, <1>e, <2>1, <2>4
  <2> QED BY <1>e, <2>1, <2>2, <2>3, <2>4 DEF IdentityConsistent
<1>f. ASSUME UNCHANGED <<jobState, lease, recovery, owner, opened, issued>>
      PROVE  IdentityConsistent'
  BY <1>a, <1>f DEF IdentityConsistent, HolderOf, Leased
(* requeue_active and the removals: the job keeps no lease, or its own.      *)
<1>g. ASSUME NEW j \in Jobs, NEW st \in {"none", "queued"},
             jobState' = [jobState EXCEPT ![j] = st],
             lease' = [lease EXCEPT ![j] = NoLease],
             \/ recovery' = [recovery EXCEPT ![j] = NoLease]
             \/ /\ recovery' = [recovery EXCEPT ![j] = lease[j]]
                /\ Leased(j) /\ st = "queued",
             UNCHANGED <<owner, opened, issued>>
      PROVE  IdentityConsistent'
  <2>1. HolderOf(j)' \in {0, HolderOf(j)}
    BY <1>a, <1>b, <1>g DEF HolderOf, Leased
  <2>2. \A l \in {lease'[j], recovery'[j]} : l # NoLease =>
          l.id <= issued' /\ l.origin <= opened /\ owner[l.origin] = l.device
    BY <1>a, <1>c, <1>g DEF Sound
  <2>3. /\ lease'[j] # NoLease <=> jobState'[j] \in {"offered", "running"}
        /\ recovery'[j] # NoLease => jobState'[j] = "queued"
    BY <1>a, <1>g
  <2> QED BY <1>a, <1>e, <1>g, <2>1, <2>2, <2>3
<1>1. CASE Peripheral
  BY <1>1, <1>f DEF Peripheral, coreVars
<1>2. ASSUME NEW j \in Jobs, Expire(j)
      PROVE  IdentityConsistent'
  BY <1>2, <1>g DEF Expire, RequeueActive, RequeueJob, streamVars
<1>3. ASSUME NEW j \in Jobs, RequeueDetached(j)
      PROVE  IdentityConsistent'
  BY <1>3, <1>f, <1>g DEF RequeueDetached, RequeueJob, jobVars, streamVars
<1>4. ASSUME NEW j \in Jobs, Rebind(j)
      PROVE  IdentityConsistent'
  <2>1. recovery[j] # NoLease
    BY <1>4 DEF Rebind, Recoverable
  <2> DEFINE l == [recovery[j] EXCEPT !.current = opened]
  <2>2. l.id = recovery[j].id /\ l.origin = recovery[j].origin
        /\ l.device = recovery[j].device /\ l # NoLease
    BY <1>b, <1>c, <2>1 DEF ActiveLeases, NoLease
  <2>3. /\ jobState' = [jobState EXCEPT ![j] = "running"]
        /\ lease' = [lease EXCEPT ![j] = l]
        /\ recovery' = [recovery EXCEPT ![j] = NoLease]
        /\ UNCHANGED <<owner, opened, issued>>
    BY <1>4 DEF Rebind, Rebound
  <2> HIDE DEF l
  <2>4. HolderOf(j)' = HolderOf(j)
    BY <1>a, <1>c, <2>1, <2>2, <2>3 DEF HolderOf, Leased
  <2> QED BY <1>a, <1>c, <1>e, <2>1, <2>2, <2>3, <2>4 DEF Sound
<1>5. ASSUME NEW j \in Jobs, Enqueue(j)
      PROVE  IdentityConsistent'
  <2>1. /\ jobState[j] = "none" /\ jobState' = [jobState EXCEPT ![j] = "queued"]
        /\ UNCHANGED <<lease, recovery, owner, opened, issued>>
    BY <1>5 DEF Enqueue, Admissible, Live, streamVars
  <2>2. HolderOf(j)' = HolderOf(j)
    BY <1>a, <2>1 DEF HolderOf, Leased
  <2> QED BY <1>a, <1>c, <1>e, <2>1, <2>2 DEF Leased, Sound
<1>6. ASSUME NEW j \in Jobs, CancelJob(j)
      PROVE  IdentityConsistent'
  BY <1>6, <1>f, <1>g DEF CancelJob, RemoveJob, jobVars, streamVars
<1>7. ASSUME NEW i \in 1..Len(queue), NEW d \in Devices, Offer(i, d)
      PROVE  IdentityConsistent'
  <2>1. PICK j \in Jobs : j = queue[i]
    BY DEF Inductive, TypeOK, JobTypeOK
  <2> DEFINE l == [device |-> d, current |-> session[d], origin |-> session[d],
                   id |-> issued + 1]
  <2>2. session[d] # 0 /\ session[d] <= opened /\ owner[session[d]] = d
    BY <1>7 DEF Offer, IsAssignment, Candidates, AgentMatches, Inductive,
                SessionsConsistent
  <2>3. l # NoLease
    BY <1>a DEF NoLease
  <2>4. /\ jobState' = [jobState EXCEPT ![j] = "offered"]
        /\ lease' = [lease EXCEPT ![j] = l]
        /\ recovery' = [recovery EXCEPT ![j] = NoLease]
        /\ UNCHANGED <<owner, opened>> /\ issued' = issued + 1
    BY <1>7, <2>1 DEF Offer, streamVars
  <2>5. l.id = issued + 1 /\ l.origin = session[d] /\ l.device = d
    OBVIOUS
  <2> HIDE DEF l
  <2>6. HolderOf(j)' = issued + 1
    BY <1>a, <2>4, <2>5 DEF HolderOf, Leased
  <2> QED BY <1>a, <1>e, <2>2, <2>3, <2>4, <2>5, <2>6
<1>8. CASE DetachDone \/ Register
  BY <1>8, <1>f DEF DetachDone, Register, jobVars, streamVars
<1>9. CASE Restart
  BY <1>9, <1>b DEF Restart, IdentityConsistent, HolderOf, Leased
<1>10. ASSUME NEW d \in Devices, NEW h \in [Jobs -> 0..issued], Connect(d, h)
       PROVE  IdentityConsistent'
  <2>1. /\ UNCHANGED <<jobState, lease, recovery, issued>>
        /\ opened' = opened + 1 /\ owner' = [owner EXCEPT ![opened + 1] = d]
    BY <1>10 DEF Connect, jobVars
  <2> QED BY <1>a, <1>b, <1>c, <2>1 DEF IdentityConsistent, HolderOf, Leased, Sound
<1>11. ASSUME NEW s \in 1..opened, Disconnect(s)
       PROVE  IdentityConsistent'
  BY <1>11, <1>f DEF Disconnect, jobVars
<1>12. ASSUME NEW s \in 1..opened, NEW e \in Events, Accepted(s, e)
       PROVE  IdentityConsistent'
  <2>1. /\ e.job \in Jobs /\ Leased(e.job)
        /\ jobState' = [jobState EXCEPT ![e.job] = "running"]
        /\ UNCHANGED <<lease, recovery, owner, opened, issued>>
    BY <1>12, EventTyped
    DEF Accepted, Handles, EventValid, LeaseIdsValid, streamVars
  <2>2. HolderOf(e.job)' = HolderOf(e.job)
    BY <1>a, <2>1 DEF HolderOf, Leased
  <2>3. /\ lease[e.job] # NoLease /\ Sound(lease[e.job])
        /\ recovery[e.job] = NoLease
    BY <1>b, <1>c, <2>1
  <2>4. \A l \in {lease'[e.job], recovery'[e.job]} : l # NoLease =>
          l.id <= issued' /\ l.origin <= opened /\ owner[l.origin] = l.device
    BY <2>1, <2>3 DEF Sound
  <2> QED BY <1>a, <1>e, <2>1, <2>2, <2>3, <2>4
<1>13. ASSUME NEW s \in 1..opened, NEW e \in Events, Rejected(s, e)
       PROVE  IdentityConsistent'
  BY <1>13, <1>g, EventTyped
  DEF Rejected, RequeueActive, RequeueJob, Handles, streamVars
<1>14. ASSUME NEW s \in 1..opened, NEW j \in Jobs, NEW r \in Reports,
              SubmitResult(s, j, r)
       PROVE  IdentityConsistent'
  BY <1>14, <1>g DEF SubmitResult, RemoveJob, streamVars
<1> QED
  BY <1>1, <1>2, <1>3, <1>4, <1>5, <1>6, <1>7, <1>8, <1>9, <1>10, <1>11, <1>12,
     <1>13, <1>14, StepCases DEF CoreStep

(* Reference counts are numbers: a job names a digest finitely often. *)
LEMMA UsesNat ==
  ASSUME NEW j \in Jobs, NEW g \in Digests
  PROVE  Uses(j, g) \in Nat
<1> DEFINE S == Mentions(j, g)
<1>1. DOMAIN Needs[j] = 1..Len(Needs[j]) /\ Len(Needs[j]) \in Nat
  BY ArtifactsAssumption
<1>2. IsFiniteSet(DOMAIN Needs[j])
  BY <1>1, FS_Interval
<1>3. IsFiniteSet(S)
  BY <1>2, FS_Subset DEF Mentions
<1> QED BY <1>3, FS_CardinalityType DEF Uses

(* The active leases of an agent can be counted. *)
LEMMA ActiveJobsNat ==
  ASSUME NEW d
  PROVE  IsFiniteSet(ActiveJobs(d)) /\ Cardinality(ActiveJobs(d)) \in Nat
BY JobsAssumption, FS_Subset, FS_CardinalityType DEF ActiveJobs

(* Preservation of TypeOK, with what the invariant adds about the identities  *)
(* that are written into leases and commands.                                 *)
LEMMA TypeStep ==
  ASSUME Inductive, [Next]_vars
  PROVE  TypeOK'
<1>a. /\ LockTypeOK /\ AgentTypeOK /\ JobTypeOK /\ LedgerTypeOK /\ StreamTypeOK
      /\ \A s \in 1..opened : s \in Sessions /\ owner[s] \in Devices
      /\ lock \in {"unseat", "supersede", "reconcile"} => target \in Devices
      /\ lock \in {"supersede", "reconcile"} => opened \in Sessions
  BY BoundsAssumption DEF Inductive, SessionsConsistent, TypeOK, StreamTypeOK, Sessions
<1>b. \A j \in Jobs : Leased(j) => lease[j] \in ActiveLeases
  BY <1>a DEF Inductive, IdentityConsistent, JobTypeOK
<1>c. /\ MaxSession \in Nat /\ MaxLease \in Nat
      /\ AcceptTicks \in Nat /\ LeaseTicks \in Nat
      /\ Devices \subseteq Nat
  BY BoundsAssumption, TicksAssumption, DevicesAssumption
<1>d. queue \in Seq(Jobs) /\ IsInjective(queue)
  BY DEF Inductive, TypeOK, JobTypeOK, QueueConsistent
<1>e. \A j \in Jobs : queue' = RemoveFirst(queue, j) => queue' \in Seq(Jobs)
  BY <1>d, RemoveJobFromQueue
<1>f. ASSUME NEW j \in Jobs, ReleaseArtifacts(j) \/ RetainArtifacts(j)
      PROVE  refs' \in [Digests -> Nat]
  BY <1>a, <1>f, UsesNat DEF ReleaseArtifacts, RetainArtifacts, LedgerTypeOK
<1>g. NoVerdict \in Verdicts /\ Drain \in Commands
      /\ \A v \in Verdicts : Welcome(v) \in Commands
      /\ \A j \in Jobs, l \in Leases :
           LeaseCommand(j, l) \in Commands /\ CancelCommand(j, l) \in Commands
  BY DEF NoVerdict, Verdicts, Commands, Drain, Welcome, LeaseCommand, CancelCommand
(* The parts that a step leaves alone. *)
<1>h. /\ UNCHANGED lockVars => LockTypeOK'
      /\ UNCHANGED agentVars => AgentTypeOK'
      /\ UNCHANGED jobVars => JobTypeOK'
      /\ UNCHANGED <<artifactVars, callerVars>> => LedgerTypeOK'
      /\ UNCHANGED <<streamVars, cmds, issued, granted>> => StreamTypeOK'
  BY <1>a DEF lockVars, agentVars, jobVars, artifactVars, callerVars, streamVars,
              LockTypeOK, AgentTypeOK, JobTypeOK, LedgerTypeOK, StreamTypeOK
<1>i. ASSUME lock' \in LockStates, UNCHANGED <<target, hello>>
      PROVE  LockTypeOK'
  BY <1>a, <1>i DEF LockTypeOK
<1>j. ASSUME NEW j \in Jobs, NEW keep \in BOOLEAN, Leased(j) \/ ~keep, RequeueJob(j, keep)
      PROVE  JobTypeOK'
  BY <1>a, <1>b, <1>j DEF RequeueJob, JobTypeOK
<1>k. ASSUME NEW j \in Jobs, RemoveJob(j)
      PROVE  JobTypeOK'
  BY <1>a, <1>e, <1>k DEF RemoveJob, JobTypeOK
<1>l. ASSUME NEW j \in Jobs, NEW d, active' = active \/ active' = [active EXCEPT ![d][j] = 0],
             UNCHANGED <<session, free, draining>>
      PROVE  AgentTypeOK'
  BY <1>a, <1>c, <1>l DEF AgentTypeOK
<1>m. ASSUME NEW s, NEW c \in Commands,
             cmds' = cmds \/ cmds' = [cmds EXCEPT ![s] = Append(@, c)]
      PROVE  cmds' \in [Sessions -> Seq(Commands)]
  <2>1. cmds \in [Sessions -> Seq(Commands)]
    BY <1>a DEF StreamTypeOK
  <2>2. s \in Sessions => Append(cmds[s], c) \in Seq(Commands)
    BY <2>1
  <2> QED BY <1>m, <2>1, <2>2
<1>n. ASSUME UNCHANGED streamVars, cmds' \in [Sessions -> Seq(Commands)],
             issued' \in 0..MaxLease, granted' \subseteq Grants
      PROVE  StreamTypeOK'
  BY <1>a, <1>n DEF StreamTypeOK, streamVars
<1>p. ASSUME NEW j \in Jobs, NEW s, NEW v \in {"submit", "committed", "cancel"},
             verdict' = [verdict EXCEPT ![s][j] = v]
      PROVE  verdict' \in [Sessions -> Verdicts]
  <2>1. s \in Sessions => [verdict[s] EXCEPT ![j] = v] \in Verdicts
    BY <1>a DEF StreamTypeOK, Verdicts
  <2>2. verdict \in [Sessions -> Verdicts]
    BY <1>a DEF StreamTypeOK
  <2> QED BY <1>p, <2>1, <2>2
<1>q. ASSUME NEW d \in Devices, DetachAgent(d)
      PROVE  session' \in [Devices -> 0..MaxSession] /\ free' \in [Devices -> Nat]
             /\ draining' \in [Devices -> BOOLEAN]
  <2>1. session' \in [Devices -> 0..MaxSession]
    BY <1>a, <1>c, <1>q DEF DetachAgent, AgentTypeOK
  <2>2. free' \in [Devices -> Nat]
    BY <1>a, <1>c, <1>q DEF DetachAgent, AgentTypeOK
  <2>3. draining' \in [Devices -> BOOLEAN]
    BY <1>a, <1>c, <1>q DEF DetachAgent, AgentTypeOK
  <2> QED BY <2>1, <2>2, <2>3
<1> USE DEF LockStates
<1>1. CASE UNCHANGED vars
  BY <1>1, <1>h DEF vars, TypeOK
<1>2. CASE Tick
  <2>1. JobTypeOK'
    BY <1>2, <1>a DEF Tick, JobTypeOK
  <2> QED BY <1>2, <1>h, <2>1 DEF Tick, TypeOK
<1>3. CASE Reap \/ ScheduleDone
  BY <1>3, <1>h, <1>i DEF Reap, ScheduleDone, TypeOK
<1>4. ASSUME NEW j \in Jobs, Expire(j)
      PROVE  TypeOK'
  BY <1>4, <1>h, <1>i, <1>j, <1>l DEF Expire, RequeueActive, TypeOK
<1>5. ASSUME NEW i \in 1..Len(queue), NEW d \in Devices, Offer(i, d)
      PROVE  TypeOK'
  <2>1. PICK j \in Jobs : j = queue[i]
    BY <1>d
  <2>2. session[d] \in Sessions /\ free[d] > 0 /\ issued + 1 \in Leases
    BY <1>5, <1>a, <1>c DEF Offer, IsAssignment, Candidates, AgentMatches, Sessions,
       Leases, AgentTypeOK, StreamTypeOK
  <2>3. LockTypeOK'
    BY <1>5, <1>a DEF Offer, LockTypeOK
  <2>4. AgentTypeOK'
    <3>1. active' \in [Devices -> [Jobs -> 0..MaxLease]]
      BY <1>5, <1>a, <2>1, <2>2 DEF Offer, AgentTypeOK, Leases
    <3>2. CASE DetachAgent(d)
      BY <3>1, <3>2, <1>q DEF AgentTypeOK
    <3>3. CASE free' = [free EXCEPT ![d] = @ - 1] /\ UNCHANGED <<session, draining>>
      <4>1. free[d] - 1 \in Nat
        BY <1>a, <2>2 DEF AgentTypeOK
      <4>2. free' \in [Devices -> Nat]
        BY <3>3, <1>a, <4>1 DEF AgentTypeOK
      <4> QED BY <3>1, <3>3, <4>2, <1>a DEF AgentTypeOK
    <3> QED BY <1>5, <3>2, <3>3 DEF Offer
  <2>5. JobTypeOK'
    <3>1. lease' \in [Jobs -> ActiveLeases \cup {NoLease}]
      BY <1>5, <1>a, <2>1, <2>2 DEF Offer, JobTypeOK, ActiveLeases
    <3>2. queue' \in Seq(Jobs)
      BY <1>5, <1>d, RemoveFromQueue DEF Offer
    <3> QED BY <1>5, <1>a, <1>c, <2>1, <3>1, <3>2 DEF Offer, JobTypeOK
  <2>6. StreamTypeOK'
    <3>1. LeaseCommand(j, issued + 1) \in Commands
      BY <1>g, <2>2
    <3>2. cmds' = cmds \/ cmds' = [cmds EXCEPT ![session[d]] = Append(@, LeaseCommand(j, issued + 1))]
      BY <1>5, <2>1 DEF Offer
    <3>3. issued' \in 0..MaxLease /\ UNCHANGED streamVars
      BY <1>5, <2>2, <1>c DEF Offer, Leases
    <3>5. granted' \subseteq Grants
      <4>1. [lease |-> issued + 1, job |-> j, device |-> d, session |-> session[d]] \in Grants
        BY <2>2 DEF Grants
      <4> QED BY <1>5, <1>a, <2>1, <4>1 DEF Offer, StreamTypeOK
    <3> HIDE DEF LockStates
    <3>4. cmds' \in [Sessions -> Seq(Commands)]
      BY <1>m, <3>1, <3>2
    <3> QED BY <1>n, <3>3, <3>4, <3>5
  <2> QED BY <1>5, <1>h, <2>3, <2>4, <2>5, <2>6 DEF Offer, TypeOK
<1>7. ASSUME NEW j \in Jobs, RequeueDetached(j)
      PROVE  TypeOK'
  <2>1. (jobState[j] = "running") \in BOOLEAN
    OBVIOUS
  <2>2. JobTypeOK'
    BY <1>7, <1>h, <1>j, <2>1 DEF RequeueDetached
  <2> QED BY <1>7, <1>h, <1>l, <2>2 DEF RequeueDetached, TypeOK
<1>8. CASE DetachDone
  <2>1. LockTypeOK'
    BY <1>8, <1>a DEF DetachDone, LockTypeOK
  <2> QED BY <1>8, <1>h, <2>1 DEF DetachDone, TypeOK
<1>9. ASSUME NEW d \in Devices, NEW h \in [Jobs -> 0..issued], Connect(d, h)
      PROVE  TypeOK'
  <2>1. LockTypeOK'
    BY <1>9, <1>a, <1>c DEF Connect, LockTypeOK, StreamTypeOK
  <2>2. AgentTypeOK'
    BY <1>9, <1>a, <1>c DEF Connect, DetachAgent, AgentTypeOK
  <2>3. StreamTypeOK'
    <3>1. opened' \in 0..MaxSession
      BY <1>9, <1>a, <1>c DEF Connect, StreamTypeOK
    <3>2. owner' \in [Sessions -> Devices \cup {0}]
      BY <1>9, <1>a, <1>c DEF Connect, StreamTypeOK
    <3>3. UNCHANGED <<stream, rx, verdict, cmds, issued, granted>>
      BY <1>9 DEF Connect
    <3> QED BY <1>a, <3>1, <3>2, <3>3 DEF StreamTypeOK
  <2> QED BY <1>9, <1>h, <2>1, <2>2, <2>3 DEF Connect, TypeOK
<1>10. ASSUME NEW j \in Jobs, Rebind(j)
       PROVE  TypeOK'
  <2>1. LockTypeOK'
    BY <1>10, <1>a, <1>c DEF Rebind, LockTypeOK
  <2>2. AgentTypeOK'
    BY <1>10, <1>a DEF Rebind, AgentTypeOK, LockTypeOK
  <2>3. JobTypeOK'
    <3>1. Rebound(j) \in ActiveLeases
      BY <1>10, <1>a DEF Rebind, Rebound, Recoverable, JobTypeOK, ActiveLeases
    <3> QED BY <1>10, <1>a, <1>c, <1>e, <3>1 DEF Rebind, JobTypeOK
  <2>4. StreamTypeOK'
    <3>1. verdict' \in [Sessions -> Verdicts]
      BY <1>10, <1>p DEF Rebind
    <3> QED BY <1>10, <1>a, <3>1 DEF Rebind, StreamTypeOK
  <2> QED BY <1>10, <1>h, <2>1, <2>2, <2>3, <2>4 DEF Rebind, TypeOK
<1>11. ASSUME NEW j \in Jobs, Decline(j)
       PROVE  TypeOK'
  <2>1. LockTypeOK'
    BY <1>11, <1>a, <1>c DEF Decline, LockTypeOK
  <2>2. StreamTypeOK'
    <3>1. verdict' \in [Sessions -> Verdicts]
      BY <1>11, <1>p DEF Decline
    <3> QED BY <1>11, <1>a, <3>1 DEF Decline, StreamTypeOK
  <2> QED BY <1>11, <1>h, <2>1, <2>2 DEF Decline, TypeOK
<1>12. CASE Register
  <2>1. LockTypeOK' /\ AgentTypeOK' /\ StreamTypeOK'
    BY <1>12, <1>a DEF Register, LockTypeOK, AgentTypeOK, StreamTypeOK
  <2> QED BY <1>12, <1>h, <2>1 DEF Register, TypeOK
<1>13. ASSUME NEW s \in 1..opened, SendWelcome(s)
       PROVE  TypeOK'
  <2>1. Welcome(verdict[s]) \in Commands
    BY <1>a, <1>g DEF StreamTypeOK
  <2>2. StreamTypeOK'
    <3>1. verdict' \in [Sessions -> Verdicts]
      BY <1>13, <1>a, <1>g DEF SendWelcome, StreamTypeOK
    <3>2. cmds' \in [Sessions -> Seq(Commands)]
      <4>1. CASE cmds' = [cmds EXCEPT ![s] = Append(@, Welcome(verdict[s]))]
        BY <4>1, <1>m, <2>1
      <4>2. CASE cmds' = [cmds EXCEPT ![s] = <<>>]
        BY <4>2, <1>a DEF StreamTypeOK
      <4> QED BY <1>13, <4>1, <4>2 DEF SendWelcome
    <3>3. stream' \in [Sessions -> {"unborn", "registered", "open", "ended", "closed"}]
          /\ rx' \in [Sessions -> BOOLEAN]
      BY <1>13, <1>a DEF SendWelcome, StreamTypeOK
    <3> QED BY <1>13, <1>a, <3>1, <3>2, <3>3 DEF SendWelcome, StreamTypeOK
  <2> QED BY <1>13, <1>h, <2>2 DEF SendWelcome, TypeOK
<1>14. ASSUME NEW s \in 1..opened, Disconnect(s)
       PROVE  TypeOK'
  <2>1. LockTypeOK' /\ AgentTypeOK'
    <3>1. LockTypeOK'
      BY <1>14, <1>a DEF Disconnect, LockTypeOK
    <3>2. CASE DetachAgent(owner[s])
      BY <3>1, <3>2, <1>14, <1>a, <1>q DEF Disconnect, AgentTypeOK
    <3>3. CASE UNCHANGED <<session, free, draining>>
      BY <3>1, <3>3, <1>14, <1>a DEF Disconnect, AgentTypeOK
    <3> QED BY <1>14, <3>1, <3>2, <3>3 DEF Disconnect
  <2>2. StreamTypeOK'
    BY <1>14, <1>a DEF Disconnect, StreamTypeOK
  <2> QED BY <1>14, <1>h, <2>1, <2>2 DEF Disconnect, TypeOK
<1>15. ASSUME NEW s \in 1..opened, NEW e \in Events, Ready(s, e)
       PROVE  TypeOK'
  <2> DEFINE room == Slots[owner[s]] - Cardinality(ActiveJobs(owner[s]))
  <2>1. e.free \in Nat
    BY <1>15, EventTyped DEF Ready
  <2>2. room \in Int
    BY <1>a, SlotsAssumption, ActiveJobsNat
  <2>3. Credit(owner[s], e.free) \in Nat
    BY <2>1, <2>2 DEF Credit
  <2>4. AgentTypeOK'
    BY <1>15, <1>a, <2>3 DEF Ready, Handles, AgentTypeOK
  <2> QED BY <1>15, <1>h, <1>i, <2>4 DEF Ready, Handles, TypeOK
<1>16. ASSUME NEW s \in 1..opened, NEW e \in Events, Accepted(s, e) \/ Heartbeat(s, e)
       PROVE  TypeOK'
  <2>1. JobTypeOK'
    BY <1>16, <1>a, <1>c DEF Accepted, Heartbeat, JobTypeOK
  <2>2. UNCHANGED agentVars
    BY <1>16 DEF Accepted, Heartbeat, Handles, agentVars
  <2> QED BY <1>16, <1>h, <1>i, <2>1, <2>2 DEF Accepted, Heartbeat, Handles, TypeOK
<1>17. ASSUME NEW s \in 1..opened, NEW e \in Events, Draining(s, e)
       PROVE  TypeOK'
  <2>1. AgentTypeOK'
    BY <1>17, <1>a DEF Draining, Handles, AgentTypeOK
  <2> QED BY <1>17, <1>h, <1>i, <2>1 DEF Draining, Handles, TypeOK
<1>18. ASSUME NEW s \in 1..opened, NEW e \in Events, Rejected(s, e)
       PROVE  TypeOK'
  BY <1>18, <1>h, <1>i, <1>j, <1>l, EventTyped
  DEF Rejected, RequeueActive, Handles, TypeOK
<1>19. ASSUME NEW s \in 1..opened, NEW e \in Events, Refuse(s, e)
       PROVE  TypeOK'
  <2>1. StreamTypeOK'
    BY <1>19, <1>a DEF Refuse, StreamTypeOK
  <2> QED BY <1>19, <1>h, <1>i, <2>1 DEF Refuse, TypeOK
<1>20. ASSUME NEW j \in Jobs, Enqueue(j)
       PROVE  TypeOK'
  <2>1. JobTypeOK'
    BY <1>20, <1>a DEF Enqueue, JobTypeOK
  <2>2. LedgerTypeOK'
    BY <1>20, <1>a, <1>f DEF Enqueue, LedgerTypeOK
  <2> QED BY <1>20, <1>h, <1>i, <2>1, <2>2 DEF Enqueue, TypeOK
<1>21. ASSUME NEW j \in Jobs, EnqueueRefused(j)
       PROVE  TypeOK'
  BY <1>21, <1>h, <1>i DEF EnqueueRefused, TypeOK
<1>22. ASSUME NEW j \in Jobs, CallerTimeout(j)
       PROVE  TypeOK'
  <2>1. LedgerTypeOK'
    BY <1>22, <1>a DEF CallerTimeout, artifactVars, LedgerTypeOK
  <2> QED BY <1>22, <1>h, <2>1 DEF CallerTimeout, TypeOK
<1>23. ASSUME NEW j \in Jobs, CancelJob(j)
       PROVE  TypeOK'
  <2>1. AgentTypeOK'
    BY <1>23, <1>l DEF CancelJob
  <2>2. JobTypeOK'
    BY <1>23, <1>h, <1>k DEF CancelJob
  <2>3. LedgerTypeOK'
    BY <1>23, <1>a, <1>f DEF CancelJob, artifactVars, LedgerTypeOK
  <2>4. StreamTypeOK'
    <3> DEFINE c == CancelCommand(j, lease[j].id)
               s == session[lease[j].device]
    <3>1. Leased(j) => c \in Commands
      BY <1>b, <1>g DEF ActiveLeases
    <3>2. \/ cmds' = cmds
          \/ Leased(j) /\ cmds' = [cmds EXCEPT ![s] = Append(@, c)]
      BY <1>23 DEF CancelJob
    <3>3. UNCHANGED <<streamVars, issued, granted>>
      BY <1>23 DEF CancelJob
    <3> HIDE DEF c, s
    <3>4. issued' \in 0..MaxLease /\ cmds' \in [Sessions -> Seq(Commands)]
          /\ granted' \subseteq Grants
      BY <1>a, <1>m, <3>1, <3>2, <3>3 DEF StreamTypeOK
    <3> QED BY <1>n, <3>3, <3>4
  <2> QED BY <1>23, <1>h, <2>1, <2>2, <2>3, <2>4 DEF CancelJob, TypeOK
<1>24. CASE DrainAgents
  <2>1. AgentTypeOK'
    BY <1>24, <1>a DEF DrainAgents, AgentTypeOK
  <2>2. StreamTypeOK'
    BY <1>24, <1>a, <1>g DEF DrainAgents, StreamTypeOK, streamVars
  <2> QED BY <1>24, <1>h, <2>1, <2>2 DEF DrainAgents, TypeOK
<1>25. ASSUME NEW s \in 1..opened, NEW j \in Jobs, NEW r \in Reports,
              SubmitResult(s, j, r)
       PROVE  TypeOK'
  <2>1. LedgerTypeOK'
    BY <1>25, <1>a, <1>f DEF SubmitResult, LedgerTypeOK
  <2> QED BY <1>25, <1>h, <1>i, <1>k, <1>l, <2>1 DEF SubmitResult, TypeOK
<1>26. ASSUME NEW s \in 1..opened, AgentReads(s) \/ HangUp(s) \/ StreamEnds(s)
       PROVE  TypeOK'
  <2>1. StreamTypeOK'
    <3>1. CASE AgentReads(s)
      BY <3>1, <1>a DEF AgentReads, StreamTypeOK, streamVars
    <3>2. CASE HangUp(s)
      BY <3>2, <1>a DEF HangUp, StreamTypeOK
    <3>3. CASE StreamEnds(s)
      BY <3>3, <1>a DEF StreamEnds, StreamTypeOK
    <3> QED BY <1>26, <3>1, <3>2, <3>3
  <2> QED BY <1>26, <1>h, <2>1 DEF AgentReads, HangUp, StreamEnds, TypeOK
<1>27. CASE Restart
  <2>1. LockTypeOK' /\ AgentTypeOK' /\ JobTypeOK'
    BY <1>27, <1>c DEF Restart, LockTypeOK, AgentTypeOK, JobTypeOK
  <2>2. LedgerTypeOK'
    BY <1>27, <1>a DEF Restart, LedgerTypeOK
  <2>3. StreamTypeOK'
    BY <1>27, <1>a, <1>g DEF Restart, StreamTypeOK
  <2> QED BY <2>1, <2>2, <2>3 DEF TypeOK
<1> QED
  BY <1>1, <1>2, <1>3, <1>4, <1>5, <1>7, <1>8, <1>9, <1>10, <1>11, <1>12,
     <1>13, <1>14, <1>15, <1>16, <1>17, <1>18, <1>19, <1>20, <1>21, <1>22, <1>23,
     <1>24, <1>25, <1>26, <1>27
  DEF Next, Loop, AgentEvent

-----------------------------------------------------------------------------
(* The inductive invariant holds of every reachable state. *)
THEOREM InductiveInvariant == Spec => []Inductive
<1>1. Init => Inductive
  <2> SUFFICES ASSUME Init PROVE Inductive
    OBVIOUS
  <2> USE DEF Init
  <2>1. TypeOK
    BY BoundsAssumption DEF TypeOK, LockTypeOK, AgentTypeOK, JobTypeOK,
       LedgerTypeOK, StreamTypeOK, LockStates, NoVerdict, Verdicts
  <2>2. SessionsConsistent
    BY BoundsAssumption DEF SessionsConsistent
  <2>3. LeaseConsistent
    BY DEF LeaseConsistent, Leased
  <2>4. IdentityConsistent
    BY DEF IdentityConsistent, Leased, HolderOf, NoLease
  <2>5. QueueConsistent
    BY DEF QueueConsistent, Contains, IsInjective
  <2>6. CommittedIsFinal
    BY DEF CommittedIsFinal
  <2> QED BY <2>1, <2>2, <2>3, <2>4, <2>5, <2>6 DEF Inductive
<1>2. Inductive /\ [Next]_vars => Inductive'
  <2> SUFFICES ASSUME Inductive, [Next]_vars PROVE Inductive'
    OBVIOUS
  <2> QED BY TypeStep, SessionsStep, LeaseStep, IdentityStep, QueueStep, CommitStep
          DEF Inductive
<1> QED BY <1>1, <1>2, PTL DEF Spec

(* Type correctness for every number of devices, jobs, slots and artifacts. *)
THEOREM TypeCorrect == Spec => []TypeOK
BY InductiveInvariant, PTL DEF Inductive

(* A lease is exclusive: the active maps of the agents and the states of the *)
(* jobs agree, whatever order expiries, reconnects, stale events, rejected    *)
(* offers, cancellations and commits come in.                                 *)
THEOREM LeaseExclusive == Spec => []LeaseConsistent
BY InductiveInvariant, PTL DEF Inductive

(* The queue is exactly the set of queued jobs, without duplicates. *)
THEOREM QueueExact == Spec => []QueueConsistent
BY InductiveInvariant, PTL DEF Inductive

(* A committed job is never queued, leased or answered differently again. *)
THEOREM CommitFinal == Spec => []CommittedIsFinal
BY InductiveInvariant, PTL DEF Inductive

(* A lease that is kept for recovery is unambiguous: its job waits in the    *)
(* queue, its device is the one it was granted to, and no other job holds or  *)
(* can recover it.                                                            *)
THEOREM RecoveryUnambiguous == Spec => []RecoveryConsistent
<1>1. Inductive => RecoveryConsistent
  <2> SUFFICES ASSUME Inductive, NEW j \in Jobs, recovery[j] # NoLease
               PROVE  /\ jobState[j] = "queued"
                      /\ owner[recovery[j].origin] = recovery[j].device
                      /\ \A k \in Jobs \ {j} :
                           recovery[j].id \notin {recovery[k].id, lease[k].id}
    BY DEF RecoveryConsistent
  <2>1. jobState[j] = "queued" /\ owner[recovery[j].origin] = recovery[j].device
    BY DEF Inductive, IdentityConsistent
  <2>2. recovery[j].id # 0 /\ NoLease.id = 0
    BY BoundsAssumption DEF Inductive, TypeOK, JobTypeOK, ActiveLeases, Leases, NoLease
  <2>3. HolderOf(j) = recovery[j].id
    BY <2>1 DEF HolderOf, Leased
  <2>4. ASSUME NEW k \in Jobs \ {j}
        PROVE  recovery[j].id \notin {recovery[k].id, lease[k].id}
    <3>1. recovery[j].id # HolderOf(k)
      BY <2>2, <2>3 DEF Inductive, IdentityConsistent
    <3>2. CASE Leased(k)
      BY <2>2, <3>1, <3>2 DEF Inductive, IdentityConsistent, HolderOf, Leased
    <3>3. CASE ~Leased(k)
      BY <2>2, <3>1, <3>3 DEF Inductive, IdentityConsistent, HolderOf
    <3> QED BY <3>2, <3>3
  <2> QED BY <2>1, <2>4
<1> QED BY <1>1, InductiveInvariant, PTL

-----------------------------------------------------------------------------
(* The refinement of MeasureJobs.  What a job looks like to its caller and   *)
(* its agent is a function of its state, its lease and its recovery.         *)
Pending == [j \in Jobs |-> Live(j)]
Holder == [j \in Jobs |-> HolderOf(j)]
Agreed(j) == jobState[j] = "running" \/ recovery[j] # NoLease
Agreement == [j \in Jobs |-> Agreed(j)]

OnlyJob(j) ==
  \A k \in Jobs \ {j} :
    jobState'[k] = jobState[k] /\ lease'[k] = lease[k] /\ recovery'[k] = recovery[k]

(* What the invariant says of one job's lease. *)
LEMMA LeaseOfJob ==
  ASSUME Inductive, NEW j \in Jobs
  PROVE  /\ jobState[j] \in {"none", "queued", "offered", "running"}
         /\ Leased(j) => lease[j].id # 0 /\ HolderOf(j) = lease[j].id /\ recovery[j] = NoLease
         /\ recovery[j] # NoLease => jobState[j] = "queued" /\ HolderOf(j) = recovery[j].id
         /\ ~Leased(j) => lease[j] = NoLease
<1>1. /\ jobState[j] \in {"none", "queued", "offered", "running"}
      /\ lease[j] \in ActiveLeases \cup {NoLease}
      /\ lease[j] # NoLease <=> Leased(j)
      /\ recovery[j] # NoLease => jobState[j] = "queued"
  BY DEF Inductive, TypeOK, JobTypeOK, IdentityConsistent
<1>2. \A l \in ActiveLeases : l.id # 0
  BY BoundsAssumption DEF ActiveLeases, Leases
<1> QED BY <1>1, <1>2 DEF Leased, HolderOf

(* A step that changes one job changes its view and no other's. *)
LEMMA OneJob ==
  ASSUME NEW j \in Jobs, OnlyJob(j)
  PROVE  /\ Pending' = [Pending EXCEPT ![j] = Live(j)']
         /\ Holder' = [Holder EXCEPT ![j] = HolderOf(j)']
         /\ Agreement' = [Agreement EXCEPT ![j] = Agreed(j)']
<1>1. ASSUME NEW k \in Jobs, k # j
      PROVE  Live(k)' = Live(k) /\ HolderOf(k)' = HolderOf(k) /\ Agreed(k)' = Agreed(k)
  <2>1. jobState'[k] = jobState[k] /\ lease'[k] = lease[k] /\ recovery'[k] = recovery[k]
    BY <1>1 DEF OnlyJob
  <2> QED BY <2>1 DEF Live, HolderOf, Agreed, Leased
<1>2. Pending' = [Pending EXCEPT ![j] = Live(j)']
  <2>1. ASSUME NEW k \in Jobs
        PROVE  Pending'[k] = [Pending EXCEPT ![j] = Live(j)'][k]
    BY <1>1, <2>1, Zenon DEF Pending
  <2> QED BY <2>1, Zenon DEF Pending
<1>3. Holder' = [Holder EXCEPT ![j] = HolderOf(j)']
  BY <1>1 DEF Holder
<1>4. Agreement' = [Agreement EXCEPT ![j] = Agreed(j)']
  <2>1. ASSUME NEW k \in Jobs
        PROVE  Agreement'[k] = [Agreement EXCEPT ![j] = Agreed(j)'][k]
    BY <1>1, <2>1, Zenon DEF Agreement
  <2> QED BY <2>1, Zenon DEF Agreement
<1> QED BY <1>2, <1>3, <1>4

(* A step that leaves states, leases and recoveries alone is invisible. *)
LEMMA NoJob ==
  ASSUME UNCHANGED <<jobState, lease, recovery>>
  PROVE  UNCHANGED <<Pending, Holder, Agreement>>
<1>1. Pending' = Pending
  BY DEF Pending, Live
<1>2. Holder' = Holder
  BY DEF Holder, HolderOf, Leased
<1>3. Agreement' = Agreement
  BY DEF Agreement, Agreed
<1> QED BY <1>1, <1>2, <1>3

(* A step in which a job's view does not change is invisible. *)
LEMMA SameView ==
  ASSUME NEW j \in Jobs, OnlyJob(j),
         Live(j)' = Live(j), HolderOf(j)' = HolderOf(j), Agreed(j)' = Agreed(j)
  PROVE  UNCHANGED <<Pending, Holder, Agreement>>
<1>1. /\ Pending' = [Pending EXCEPT ![j] = Live(j)]
      /\ Holder' = [Holder EXCEPT ![j] = HolderOf(j)]
      /\ Agreement' = [Agreement EXCEPT ![j] = Agreed(j)]
  BY OneJob
<1>2. Pending' = Pending
  <2>1. \A k \in Jobs : [Pending EXCEPT ![j] = Live(j)][k] = Pending[k]
    BY Zenon DEF Pending
  <2> QED BY <1>1, <2>1, Zenon DEF Pending
<1>3. Holder' = Holder
  BY <1>1 DEF Holder
<1>4. Agreement' = Agreement
  <2>1. \A k \in Jobs : [Agreement EXCEPT ![j] = Agreed(j)][k] = Agreement[k]
    BY Zenon DEF Agreement
  <2> QED BY <1>1, <2>1, Zenon DEF Agreement
<1> QED BY <1>2, <1>3, <1>4

(* Invisible steps stutter. *)
LEMMA StutterView ==
  ASSUME UNCHANGED <<Pending, Holder, Agreement, issued, receipts, answer>>
  PROVE  UNCHANGED Promise!jobs
BY DEF Promise!jobs, Pending, Holder, Agreement, Agreed

(* A job that is withdrawn, without a report, leaves nothing behind. *)
LEMMA WithdrawView ==
  ASSUME NEW j \in Jobs, OnlyJob(j), Live(j), ~Live(j)', HolderOf(j)' = 0, ~Agreed(j)',
         UNCHANGED <<issued, receipts, answer>>
  PROVE  Promise!Next
<1>1. Pending[j]
  BY DEF Pending
<1>2. /\ Pending' = [Pending EXCEPT ![j] = FALSE] /\ Holder' = [Holder EXCEPT ![j] = 0]
      /\ Agreement' = [Agreement EXCEPT ![j] = FALSE]
  BY OneJob
<1>3. Promise!Withdraw(j)
  BY <1>1, <1>2 DEF Promise!Withdraw, Pending, Holder, Agreement, Agreed
<1> QED BY <1>3 DEF Promise!Next

(* An admitted job is pending; nobody holds it. *)
LEMMA AdmitView ==
  ASSUME NEW j \in Jobs, OnlyJob(j), ~Live(j), receipts[j] = NoReport, Live(j)',
         HolderOf(j)' = HolderOf(j), Agreed(j)' = Agreed(j),
         UNCHANGED <<issued, receipts, answer>>
  PROVE  Promise!Next
<1>1. ~Pending[j]
  BY DEF Pending
<1>2. /\ Pending' = [Pending EXCEPT ![j] = TRUE]
      /\ Holder' = [Holder EXCEPT ![j] = HolderOf(j)]
      /\ Agreement' = [Agreement EXCEPT ![j] = Agreed(j)]
  BY OneJob
<1>3. Holder' = Holder
  BY <1>2 DEF Holder
<1>4. Agreement' = Agreement
  <2>1. \A k \in Jobs : [Agreement EXCEPT ![j] = Agreed(j)][k] = Agreement[k]
    BY Zenon DEF Agreement
  <2> QED BY <1>2, <2>1, Zenon DEF Agreement
<1>5. Promise!Admit(j)
  BY <1>1, <1>2, <1>3, <1>4 DEF Promise!Admit, Pending, Holder, Agreement, Agreed
<1> QED BY <1>5 DEF Promise!Next

(* Where the job stays pending, Pending does not change. *)
LEMMA StillPending ==
  ASSUME NEW j \in Jobs, OnlyJob(j), Live(j), Live(j)'
  PROVE  Pending' = Pending /\ Pending[j]
<1>1. Pending' = [Pending EXCEPT ![j] = TRUE]
  BY OneJob
<1>2. Pending[j] = TRUE
  BY Zenon DEF Pending, Live
<1>3. \A k \in Jobs : [Pending EXCEPT ![j] = TRUE][k] = Pending[k]
  BY <1>2, Zenon DEF Pending
<1> QED BY <1>1, <1>2, <1>3, Zenon DEF Pending

(* An offer is a new lease that takes the job over. *)
LEMMA GrantView ==
  ASSUME NEW j \in Jobs, OnlyJob(j), Live(j), Live(j)', HolderOf(j)' = issued + 1, ~Agreed(j)',
         issued' = issued + 1, UNCHANGED <<receipts, answer>>
  PROVE  Promise!Next
<1>1. Pending' = Pending /\ Pending[j]
  BY StillPending
<1>2. /\ Holder' = [Holder EXCEPT ![j] = issued + 1]
      /\ Agreement' = [Agreement EXCEPT ![j] = FALSE]
  BY OneJob
<1>3. Promise!Grant(j)
  BY <1>1, <1>2 DEF Promise!Grant, Pending, Holder, Agreement, Agreed
<1> QED BY <1>3 DEF Promise!Next

(* An offer that is accepted stays with its lease. *)
LEMMA AcceptView ==
  ASSUME NEW j \in Jobs, OnlyJob(j), Live(j), Live(j)', HolderOf(j) # 0,
         HolderOf(j)' = HolderOf(j), ~Agreed(j), Agreed(j)',
         UNCHANGED <<issued, receipts, answer>>
  PROVE  Promise!Next
<1>1. Pending' = Pending
  BY StillPending
<1>2. /\ Holder' = [Holder EXCEPT ![j] = HolderOf(j)]
      /\ Agreement' = [Agreement EXCEPT ![j] = TRUE]
  BY OneJob
<1>3. Holder' = Holder /\ Holder[j] # 0
  BY <1>2 DEF Holder
<1>4. ~Agreement[j]
  BY DEF Agreement
<1>5. Promise!Accept(j)
  BY <1>1, <1>2, <1>3, <1>4 DEF Promise!Accept, Pending, Holder, Agreement, Agreed
<1> QED BY <1>5 DEF Promise!Next

(* A job that is requeued without its lease has no holder. *)
LEMMA RevokeView ==
  ASSUME NEW j \in Jobs, OnlyJob(j), Live(j), Live(j)', HolderOf(j) # 0,
         HolderOf(j)' = 0, ~Agreed(j)', UNCHANGED <<issued, receipts, answer>>
  PROVE  Promise!Next
<1>1. Pending' = Pending
  BY StillPending
<1>2. /\ Holder' = [Holder EXCEPT ![j] = 0]
      /\ Agreement' = [Agreement EXCEPT ![j] = FALSE]
  BY OneJob
<1>3. Holder[j] # 0
  BY DEF Holder
<1>4. Promise!Revoke(j)
  BY <1>1, <1>2, <1>3 DEF Promise!Revoke, Pending, Holder, Agreement, Agreed
<1> QED BY <1>4 DEF Promise!Next

(* A report is committed for the lease that holds the job and was accepted. *)
LEMMA CommitView ==
  ASSUME NEW j \in Jobs, NEW r \in Reports, OnlyJob(j), Live(j), Agreed(j),
         receipts[j] = NoReport, r.lease = HolderOf(j),
         ~Live(j)', HolderOf(j)' = 0, ~Agreed(j)',
         receipts' = [receipts EXCEPT ![j] = r],
         answer' \in {answer, [answer EXCEPT ![j] = r]}, UNCHANGED issued
  PROVE  Promise!Next
<1>1. Pending[j] /\ Agreement[j] /\ Holder[j] = r.lease
  BY DEF Pending, Agreement, Holder
<1>2. /\ Pending' = [Pending EXCEPT ![j] = FALSE] /\ Holder' = [Holder EXCEPT ![j] = 0]
      /\ Agreement' = [Agreement EXCEPT ![j] = FALSE]
  BY OneJob
<1>3. Promise!Commit(j, r)
  BY <1>1, <1>2 DEF Promise!Commit, Pending, Holder, Agreement, Agreed
<1> QED BY <1>3 DEF Promise!Next

(* A restart is what MeasureJobs calls Forget. *)
LEMMA ForgetView ==
  ASSUME \A j \in Jobs : ~Live(j)' /\ HolderOf(j)' = 0 /\ ~Agreed(j)',
         receipts' = IF Durable THEN receipts ELSE [j \in Jobs |-> NoReport],
         answer' = [j \in Jobs |-> NoReport], UNCHANGED issued
  PROVE  Promise!Next
<1>1. Pending' = [j \in Jobs |-> FALSE]
  <2>1. \A j \in Jobs : Live(j)' = FALSE
    OBVIOUS
  <2> QED BY <2>1, Zenon DEF Pending
<1>2. Holder' = [j \in Jobs |-> 0]
  BY DEF Holder
<1>3. Agreement' = [j \in Jobs |-> FALSE]
  <2>1. \A j \in Jobs : Agreed(j)' = FALSE
    OBVIOUS
  <2> QED BY <2>1, Zenon DEF Agreement
<1>4. Promise!Forget
  BY <1>1, <1>2, <1>3 DEF Promise!Forget, Pending, Holder, Agreement, Agreed
<1> QED BY <1>4 DEF Promise!Next

-----------------------------------------------------------------------------
(* Every step of the coordinator is a step of MeasureJobs or invisible. *)
LEMMA PromiseStep ==
  ASSUME Inductive, [Next]_vars
  PROVE  [Promise!Next]_(Promise!jobs)
<1>a. /\ jobState \in [Jobs -> {"none", "queued", "offered", "running"}]
      /\ lease \in [Jobs -> ActiveLeases \cup {NoLease}]
      /\ recovery \in [Jobs -> ActiveLeases \cup {NoLease}]
      /\ NoLease.id = 0
  BY DEF Inductive, TypeOK, JobTypeOK, NoLease
<1>b. \A j \in Jobs :
        /\ Leased(j) => lease[j].id # 0 /\ HolderOf(j) = lease[j].id /\ recovery[j] = NoLease
        /\ recovery[j] # NoLease => jobState[j] = "queued" /\ HolderOf(j) = recovery[j].id
        /\ ~Leased(j) => lease[j] = NoLease
  BY LeaseOfJob
<1>c. ASSUME NEW j \in Jobs, Leased(j), RequeueJob(j, FALSE), UNCHANGED <<issued, receipts, answer>>
      PROVE  Promise!Next
  <2>1. OnlyJob(j) /\ jobState'[j] = "queued" /\ recovery'[j] = NoLease
    BY <1>a, <1>c DEF RequeueJob, OnlyJob
  <2>2. Live(j) /\ HolderOf(j) # 0
    BY <1>b, <1>c DEF Live, Leased
  <2>3. Live(j)' /\ HolderOf(j)' = 0 /\ ~Agreed(j)'
    BY <1>a, <2>1 DEF Live, HolderOf, Leased, Agreed
  <2> QED BY <1>c, <2>1, <2>2, <2>3, RevokeView
<1>d. ASSUME NEW j \in Jobs, RemoveJob(j)
      PROVE  OnlyJob(j) /\ ~Live(j)' /\ HolderOf(j)' = 0 /\ ~Agreed(j)'
  <2>1. OnlyJob(j) /\ jobState'[j] = "none" /\ recovery'[j] = NoLease
    BY <1>a, <1>d DEF RemoveJob, OnlyJob
  <2> QED BY <1>a, <2>1 DEF Live, HolderOf, Leased, Agreed
<1>1. CASE Peripheral
  BY <1>1, NoJob, StutterView DEF Peripheral, coreVars
<1>2. ASSUME NEW j \in Jobs, Expire(j)
      PROVE  Promise!Next
  BY <1>2, <1>c DEF Expire, Overdue, RequeueActive, callerVars
<1>3. ASSUME NEW j \in Jobs, RequeueDetached(j)
      PROVE  [Promise!Next]_(Promise!jobs)
  <2>0. UNCHANGED <<issued, receipts, answer>>
    BY <1>3 DEF RequeueDetached, callerVars
  <2>1. CASE UNCHANGED jobVars
    BY <2>0, <2>1, NoJob, StutterView DEF jobVars
  <2>2. CASE Leased(j) /\ RequeueJob(j, jobState[j] = "running")
    <3>1. CASE jobState[j] = "running"
      <4>1. OnlyJob(j) /\ jobState'[j] = "queued" /\ recovery'[j] = lease[j]
        BY <1>a, <2>2, <3>1 DEF RequeueJob, OnlyJob
      <4>2. lease[j].id # 0 /\ HolderOf(j) = lease[j].id /\ lease[j] # NoLease
        BY <1>a, <1>b, <2>2
      <4>3. Live(j)' = Live(j) /\ HolderOf(j)' = HolderOf(j) /\ Agreed(j)' = Agreed(j)
        BY <3>1, <4>1, <4>2 DEF Live, HolderOf, Leased, Agreed
      <4>4. UNCHANGED <<Pending, Holder, Agreement>>
        BY <4>1, <4>3, SameView
      <4> QED BY <2>0, <4>4, StutterView
    <3>2. CASE jobState[j] # "running"
      <4>1. RequeueJob(j, FALSE)
        BY <2>2, <3>2 DEF RequeueJob
      <4> QED BY <1>c, <2>0, <2>2, <4>1
    <3> QED BY <3>1, <3>2
  <2> QED BY <1>3, <2>1, <2>2 DEF RequeueDetached
<1>4. ASSUME NEW j \in Jobs, Rebind(j)
      PROVE  UNCHANGED Promise!jobs
  <2>0. UNCHANGED <<issued, receipts, answer>>
    BY <1>4 DEF Rebind, callerVars
  <2>1. /\ OnlyJob(j) /\ jobState'[j] = "running" /\ recovery'[j] = NoLease
        /\ lease'[j] = [recovery[j] EXCEPT !.current = opened] /\ recovery[j] # NoLease
    BY <1>a, <1>4 DEF Rebind, Recoverable, Rebound, OnlyJob
  <2>2. jobState[j] = "queued" /\ HolderOf(j) = recovery[j].id
    BY <1>b, <2>1
  <2>3. lease'[j].id = recovery[j].id
    BY <1>a, <2>1 DEF ActiveLeases
  <2>4. Live(j)' = Live(j) /\ HolderOf(j)' = HolderOf(j) /\ Agreed(j)' = Agreed(j)
    BY <2>1, <2>2, <2>3 DEF Live, HolderOf, Leased, Agreed
  <2>5. UNCHANGED <<Pending, Holder, Agreement>>
    BY <2>1, <2>4, SameView
  <2> QED BY <2>0, <2>5, StutterView
<1>5. ASSUME NEW j \in Jobs, Enqueue(j)
      PROVE  Promise!Next
  <2>0. UNCHANGED <<issued, receipts, answer>> /\ ~Live(j) /\ receipts[j] = NoReport
    BY <1>5 DEF Enqueue, Admissible
  <2>1. OnlyJob(j) /\ jobState'[j] = "queued" /\ UNCHANGED <<lease, recovery>>
    BY <1>a, <1>5 DEF Enqueue, OnlyJob
  <2>2. Live(j)' /\ HolderOf(j)' = HolderOf(j) /\ Agreed(j)' = Agreed(j)
    BY <2>0, <2>1 DEF Live, HolderOf, Leased, Agreed
  <2> QED BY <2>0, <2>1, <2>2, AdmitView
<1>6. ASSUME NEW j \in Jobs, CancelJob(j)
      PROVE  [Promise!Next]_(Promise!jobs)
  <2>0. UNCHANGED <<issued, receipts, answer>>
    BY <1>6 DEF CancelJob
  <2>1. CASE UNCHANGED jobVars
    BY <2>0, <2>1, NoJob, StutterView DEF jobVars
  <2>2. CASE Live(j) /\ RemoveJob(j)
    BY <1>d, <2>0, <2>2, WithdrawView
  <2> QED BY <1>6, <2>1, <2>2 DEF CancelJob
<1>7. ASSUME NEW i \in 1..Len(queue), NEW d \in Devices, Offer(i, d)
      PROVE  Promise!Next
  <2>q. queue \in Seq(Jobs)
    BY DEF Inductive, TypeOK, JobTypeOK
  <2>j. PICK j \in Jobs : j = queue[i]
    BY <2>q
  <2>0. jobState[j] = "queued"
    <3>1. Contains(queue, j)
      BY <2>j, <2>q DEF Contains
    <3> QED BY <3>1 DEF Inductive, QueueConsistent
  <2>1. issued' = issued + 1 /\ UNCHANGED <<receipts, answer>>
    BY <1>7 DEF Offer, callerVars
  <2>2. /\ OnlyJob(j) /\ jobState'[j] = "offered" /\ recovery'[j] = NoLease
        /\ lease'[j].id = issued + 1
    BY <1>a, <1>7, <2>j DEF Offer, OnlyJob
  <2>3. Live(j) /\ Live(j)' /\ HolderOf(j)' = issued + 1 /\ ~Agreed(j)'
    BY <2>0, <2>2 DEF Live, HolderOf, Leased, Agreed
  <2> QED BY <2>0, <2>1, <2>2, <2>3, GrantView
<1>8. CASE DetachDone \/ Register
  BY <1>8, NoJob, StutterView DEF DetachDone, Register, jobVars, callerVars
<1>9. CASE Restart
  <2>1. \A j \in Jobs : jobState'[j] = "none" /\ recovery'[j] = NoLease
    BY <1>9 DEF Restart
  <2>2. \A j \in Jobs : ~Live(j)' /\ HolderOf(j)' = 0 /\ ~Agreed(j)'
    BY <1>a, <2>1 DEF Live, HolderOf, Leased, Agreed
  <2> QED BY <1>9, <2>2, ForgetView DEF Restart
<1>10. ASSUME NEW d \in Devices, NEW h \in [Jobs -> 0..issued], Connect(d, h)
       PROVE  UNCHANGED Promise!jobs
  BY <1>10, NoJob, StutterView DEF Connect, jobVars, callerVars
<1>11. ASSUME NEW s \in 1..opened, Disconnect(s)
       PROVE  UNCHANGED Promise!jobs
  BY <1>11, NoJob, StutterView DEF Disconnect, jobVars, callerVars
<1>12. ASSUME NEW s \in 1..opened, NEW e \in Events, Accepted(s, e)
       PROVE  Promise!Next
  <2>0. UNCHANGED <<issued, receipts, answer>>
    BY <1>12 DEF Accepted, Handles, callerVars
  <2>1. e.kind = "accepted" /\ EventValid(s, e) /\ e.job \in Jobs
    BY <1>12, EventTyped DEF Accepted, Handles
  <2> DEFINE j == e.job
  <2>2. jobState[j] = "offered"
    BY <2>1 DEF EventValid
  <2>3. OnlyJob(j) /\ jobState'[j] = "running" /\ UNCHANGED <<lease, recovery>>
    BY <1>a, <1>12, <2>1 DEF Accepted, OnlyJob
  <2>4. /\ Live(j) /\ Live(j)' /\ HolderOf(j) # 0 /\ HolderOf(j)' = HolderOf(j)
        /\ ~Agreed(j) /\ Agreed(j)'
    BY <1>b, <2>1, <2>2, <2>3 DEF Live, HolderOf, Leased, Agreed
  <2> QED BY <2>0, <2>1, <2>3, <2>4, AcceptView
<1>13. ASSUME NEW s \in 1..opened, NEW e \in Events, Rejected(s, e)
       PROVE  Promise!Next
  <2>1. e.kind = "rejected" /\ EventValid(s, e) /\ e.job \in Jobs
    BY <1>13, EventTyped DEF Rejected, Handles
  <2>2. Leased(e.job)
    BY <2>1 DEF EventValid, LeaseIdsValid
  <2>3. RequeueJob(e.job, FALSE) /\ UNCHANGED <<issued, receipts, answer>>
    BY <1>13 DEF Rejected, Handles, RequeueActive, callerVars
  <2> QED BY <1>c, <2>1, <2>2, <2>3
<1>14. ASSUME NEW s \in 1..opened, NEW j \in Jobs, NEW r \in Reports, SubmitResult(s, j, r)
       PROVE  Promise!Next
  <2>1. /\ OnlyJob(j) /\ ~Live(j)' /\ HolderOf(j)' = 0 /\ ~Agreed(j)'
    BY <1>d, <1>14 DEF SubmitResult
  <2>2. jobState[j] = "running" /\ lease[j].id = r.lease
    BY <1>14 DEF SubmitResult, ReportValid
  <2>3. Live(j) /\ Agreed(j) /\ r.lease = HolderOf(j)
    BY <2>2 DEF Live, Agreed, HolderOf, Leased
  <2>4. /\ receipts[j] = NoReport /\ receipts' = [receipts EXCEPT ![j] = r]
        /\ answer' \in {answer, [answer EXCEPT ![j] = r]} /\ UNCHANGED issued
    BY <1>14 DEF SubmitResult
  <2> QED BY <2>1, <2>3, <2>4, CommitView
<1> QED
  BY <1>1, <1>2, <1>3, <1>4, <1>5, <1>6, <1>7, <1>8, <1>9, <1>10, <1>11, <1>12, <1>13, <1>14,
     StepCases DEF CoreStep

(* The coordinator keeps what MeasureJobs promises, for any agents: a lease  *)
(* is exclusive, only the accepted current lease commits, a commit happens   *)
(* once, and the caller is told nothing but the committed report.            *)
THEOREM PromiseKept == Spec => KeepsPromise
<1>1. Init => Promise!Init
  <2> SUFFICES ASSUME Init PROVE Promise!Init
    OBVIOUS
  <2>1. \A j \in Jobs : jobState[j] = "none" /\ recovery[j] = NoLease /\ NoLease.id = 0
    BY DEF Init, NoLease
  <2>2. \A j \in Jobs : Live(j) = FALSE /\ HolderOf(j) = 0 /\ Agreed(j) = FALSE
    BY <2>1 DEF Live, HolderOf, Leased, Agreed
  <2>3. Pending = [j \in Jobs |-> FALSE]
    BY <2>2, Zenon DEF Pending
  <2>4. Holder = [j \in Jobs |-> 0]
    BY <2>2 DEF Holder
  <2>5. Agreement = [j \in Jobs |-> FALSE]
    BY <2>2, Zenon DEF Agreement
  <2> QED BY <2>3, <2>4, <2>5 DEF Init, Promise!Init, Pending, Holder, Agreement, Agreed
<1>2. Inductive /\ [Next]_vars => [Promise!Next]_(Promise!jobs)
  BY PromiseStep
<1> QED BY <1>1, <1>2, InductiveInvariant, PTL DEF Spec, KeepsPromise, Promise!Spec

(* The record of grants: what a step does to a job's lease keeps its device,  *)
(* origin and id, and a lease that is issued is recorded as it is.            *)
LEMMA GrantsStep ==
  ASSUME Inductive, GrantsRecorded, [Next]_vars
  PROVE  GrantsRecorded'
<1> DEFINE Same(l, m) == l.id = m.id /\ l.device = m.device /\ l.origin = m.origin
           Held(j, l) == l = NoLease \/ \E m \in {lease[j], recovery[j]} : m # NoLease /\ Same(l, m)
<1>a. /\ jobState \in [Jobs -> {"none", "queued", "offered", "running"}]
      /\ lease \in [Jobs -> ActiveLeases \cup {NoLease}]
      /\ recovery \in [Jobs -> ActiveLeases \cup {NoLease}]
      /\ receipts \in [Jobs -> Reports \cup {NoReport}]
      /\ issued \in Nat /\ granted \subseteq Grants
  BY BoundsAssumption DEF Inductive, TypeOK, JobTypeOK, LedgerTypeOK, StreamTypeOK
<1>b. \A j \in Jobs : Held(j, lease[j]) /\ Held(j, recovery[j]) /\ Held(j, NoLease)
  OBVIOUS
<1>c. ASSUME UNCHANGED <<issued, granted>>,
             \A j \in Jobs : Held(j, lease'[j]) /\ Held(j, recovery'[j]),
             \A j \in Jobs : receipts'[j] \in {receipts[j], NoReport}
      PROVE  GrantsRecorded'
  <2>1. ASSUME NEW j \in Jobs, NEW l, Held(j, l), l # NoLease PROVE Grant(j, l) \in granted
    BY <2>1 DEF GrantsRecorded, LeaseIdentityKept, Grant
  <2> HIDE DEF Held
  <2> QED BY <1>c, <2>1 DEF GrantsRecorded, LeaseIdentityKept, Grant
<1>1. CASE Peripheral
  BY <1>1, <1>b, <1>c DEF Peripheral, coreVars
<1>2. ASSUME NEW k \in Jobs, NEW keep \in BOOLEAN, RequeueJob(k, keep) \/ RemoveJob(k),
             UNCHANGED <<issued, granted, receipts>>
      PROVE  GrantsRecorded'
  <2>1. \A j \in Jobs : /\ lease'[j] \in {lease[j], NoLease}
                        /\ recovery'[j] \in {lease[j], recovery[j], NoLease}
    BY <1>a, <1>2 DEF RequeueJob, RemoveJob
  <2> HIDE DEF Held
  <2> QED BY <1>2, <1>b, <1>c, <2>1
<1>3. ASSUME NEW k \in Jobs, Expire(k) \/ RequeueDetached(k) \/ CancelJob(k) \/ Enqueue(k)
      PROVE  GrantsRecorded'
  <2>1. UNCHANGED <<issued, granted, receipts>>
    BY <1>3 DEF Expire, RequeueDetached, CancelJob, Enqueue, callerVars
  <2>2. (jobState[k] = "running") \in BOOLEAN
    OBVIOUS
  <2>3. \/ \E keep \in BOOLEAN : RequeueJob(k, keep)
        \/ RemoveJob(k)
        \/ UNCHANGED <<lease, recovery>>
    BY <1>3, <2>2 DEF Expire, RequeueDetached, CancelJob, Enqueue, RequeueActive, jobVars
  <2> HIDE DEF Held
  <2> QED BY <1>2, <1>b, <1>c, <2>1, <2>3
<1>4. ASSUME NEW k \in Jobs, Rebind(k)
      PROVE  GrantsRecorded'
  <2>1. /\ recovery[k] # NoLease /\ UNCHANGED <<issued, granted, receipts>>
        /\ lease' = [lease EXCEPT ![k] = Rebound(k)]
        /\ recovery' = [recovery EXCEPT ![k] = NoLease]
    BY <1>4 DEF Rebind, Recoverable, callerVars
  <2>2. Same(Rebound(k), recovery[k])
    <3>1. recovery[k] \in ActiveLeases
      BY <1>a, <2>1
    <3> QED BY <3>1 DEF Rebound, ActiveLeases
  <2>3. \A j \in Jobs : /\ j = k => lease'[j] = Rebound(k) /\ recovery'[j] = NoLease
                        /\ j # k => lease'[j] = lease[j] /\ recovery'[j] = recovery[j]
    BY <1>a, <2>1
  <2>4. Held(k, Rebound(k))
    BY <2>1, <2>2
  <2> HIDE DEF Held
  <2> QED BY <1>b, <1>c, <2>1, <2>3, <2>4
<1>5. ASSUME NEW i \in 1..Len(queue), NEW d \in Devices, Offer(i, d)
      PROVE  GrantsRecorded'
  <2> DEFINE k == queue[i]
             l == [device |-> d, current |-> session[d], origin |-> session[d], id |-> issued + 1]
  <2>1. /\ lease' = [lease EXCEPT ![k] = l] /\ recovery' = [recovery EXCEPT ![k] = NoLease]
        /\ granted' = granted \cup {Grant(k, l)} /\ issued' = issued + 1 /\ receipts' = receipts
    BY <1>5 DEF Offer, Grant, callerVars
  <2>2. Grant(k, l).lease = issued + 1
    BY DEF Grant
  <2> HIDE DEF l, k
  <2>3. ASSUME NEW j \in Jobs, NEW m \in {lease'[j], recovery'[j]}, m # NoLease
        PROVE  Grant(j, m) \in granted'
    <3>1. \/ j = k /\ m = l
          \/ m \in {lease[j], recovery[j]}
      BY <1>a, <2>1, <2>3
    <3> QED BY <2>1, <2>3, <3>1 DEF GrantsRecorded, LeaseIdentityKept
  <2>4. ASSUME NEW g \in granted', NEW h \in granted', g.lease = h.lease PROVE g = h
    BY <1>a, <2>1, <2>2, <2>4 DEF GrantsRecorded, LeaseIdentityKept
  <2>5. \A g \in granted' : g.lease <= issued'
    BY <1>a, <2>1, <2>2 DEF GrantsRecorded, Grants, Leases
  <2>6. \A j \in Jobs : receipts'[j] # NoReport =>
          \E g \in granted' : /\ g.lease = receipts'[j].lease /\ g.session = receipts'[j].origin
                              /\ g.job = j
    BY <2>1 DEF GrantsRecorded, LeaseIdentityKept
  <2> QED BY <2>3, <2>4, <2>5, <2>6 DEF GrantsRecorded, LeaseIdentityKept
<1>6. CASE DetachDone \/ Register
  <2>1. UNCHANGED <<issued, granted, receipts, lease, recovery>>
    BY <1>6 DEF DetachDone, Register, jobVars, callerVars
  <2> HIDE DEF Held
  <2> QED BY <1>b, <1>c, <2>1
<1>7. CASE Restart
  <2>1. /\ UNCHANGED <<issued, granted>> /\ lease' = [j \in Jobs |-> NoLease]
        /\ recovery' = [j \in Jobs |-> NoLease]
        /\ receipts' = receipts \/ receipts' = [j \in Jobs |-> NoReport]
    BY <1>7 DEF Restart
  <2> HIDE DEF Held
  <2> QED BY <1>b, <1>c, <2>1
<1>8. ASSUME NEW d \in Devices, NEW h \in [Jobs -> 0..issued], Connect(d, h)
      PROVE  GrantsRecorded'
  <2>1. UNCHANGED <<issued, granted, receipts, lease, recovery>>
    BY <1>8 DEF Connect, jobVars, callerVars
  <2> HIDE DEF Held
  <2> QED BY <1>b, <1>c, <2>1
<1>9. ASSUME NEW s \in 1..opened, Disconnect(s)
      PROVE  GrantsRecorded'
  <2>1. UNCHANGED <<issued, granted, receipts, lease, recovery>>
    BY <1>9 DEF Disconnect, jobVars, callerVars
  <2> HIDE DEF Held
  <2> QED BY <1>b, <1>c, <2>1
<1>10. ASSUME NEW s \in 1..opened, NEW e \in Events, Accepted(s, e)
       PROVE  GrantsRecorded'
  <2>1. UNCHANGED <<issued, granted, receipts, lease, recovery>>
    BY <1>10 DEF Accepted, Handles, callerVars
  <2> HIDE DEF Held
  <2> QED BY <1>b, <1>c, <2>1
<1>11. ASSUME NEW s \in 1..opened, NEW e \in Events, Rejected(s, e)
       PROVE  GrantsRecorded'
  <2>1. e.job \in Jobs /\ RequeueJob(e.job, FALSE) /\ UNCHANGED <<issued, granted, receipts>>
    BY <1>11, EventTyped DEF Rejected, Handles, RequeueActive, callerVars
  <2> QED BY <1>2, <2>1
<1>12. ASSUME NEW s \in 1..opened, NEW k \in Jobs, NEW r \in Reports, SubmitResult(s, k, r)
       PROVE  GrantsRecorded'
  <2>1. /\ RemoveJob(k) /\ UNCHANGED <<issued, granted>>
        /\ receipts' = [receipts EXCEPT ![k] = r]
        /\ jobState[k] = "running" /\ lease[k].id = r.lease /\ lease[k].origin = r.origin
    BY <1>12 DEF SubmitResult, ReportValid
  <2>2. \A j \in Jobs : lease'[j] \in {lease[j], NoLease} /\ recovery'[j] \in {recovery[j], NoLease}
    BY <1>a, <2>1 DEF RemoveJob
  <2>3. lease[k] # NoLease /\ Grant(k, lease[k]) \in granted
    BY <2>1 DEF Inductive, IdentityConsistent, Leased, GrantsRecorded, LeaseIdentityKept
  <2>4. ASSUME NEW j \in Jobs, receipts'[j] # NoReport
        PROVE  \E g \in granted : /\ g.lease = receipts'[j].lease /\ g.session = receipts'[j].origin
                                  /\ g.job = j
    <3>1. CASE j = k
      <4>1. receipts'[j] = r
        BY <1>a, <2>1, <3>1
      <4> QED BY <2>1, <2>3, <3>1, <4>1 DEF Grant
    <3>2. CASE j # k
      BY <1>a, <2>1, <2>4, <3>2 DEF GrantsRecorded, LeaseIdentityKept
    <3> QED BY <3>1, <3>2
  <2>5. ASSUME NEW j \in Jobs, NEW m \in {lease'[j], recovery'[j]}, m # NoLease
        PROVE  Grant(j, m) \in granted
    BY <2>2, <2>5 DEF GrantsRecorded, LeaseIdentityKept
  <2> QED BY <2>1, <2>4, <2>5 DEF GrantsRecorded, LeaseIdentityKept, Grant
<1> HIDE DEF Held
<1> QED BY <1>1, <1>3, <1>4, <1>5, <1>6, <1>7, <1>8, <1>9, <1>10, <1>11, <1>12, StepCases
    DEF CoreStep

(* What an agent was told when it got a lease stays true through the loss of  *)
(* its session, recovery by a later one and further losses, and a committed   *)
(* report names a lease that was issued for that job in that session.         *)
THEOREM LeasesKeepIdentity == Spec => []LeaseIdentityKept
<1>1. Init => GrantsRecorded
  BY DEF Init, GrantsRecorded, LeaseIdentityKept
<1>2. Inductive /\ GrantsRecorded /\ [Next]_vars => GrantsRecorded'
  BY GrantsStep
<1>3. GrantsRecorded => LeaseIdentityKept
  BY DEF GrantsRecorded
<1> QED BY <1>1, <1>2, <1>3, InductiveInvariant, PTL DEF Spec

-----------------------------------------------------------------------------
(* Credit and artifacts are accounted exactly. *)

(* A finite family of finite sets has finitely many members in all. *)
LEMMA FamilyFinite ==
  ASSUME NEW S, IsFiniteSet(S), NEW F, \A x \in S : IsFiniteSet(F[x])
  PROVE  IsFiniteSet(UNION {F[x] : x \in S})
<1> DEFINE T == {F[x] : x \in S}
           f == [x \in S |-> F[x]]
<1>1. f \in Surjection(S, T)
  BY DEF Surjection
<1>2. IsFiniteSet(T)
  BY <1>1, FS_Surjection
<1> QED BY <1>2, FS_UNION

(* The number of elements of two disjoint sets together. *)
LEMMA DisjointUnion ==
  ASSUME NEW S, IsFiniteSet(S), NEW T, IsFiniteSet(T), S \cap T = {}
  PROVE  IsFiniteSet(S \cup T)
         /\ Cardinality(S \cup T) = Cardinality(S) + Cardinality(T)
         /\ Cardinality(S) \in Nat /\ Cardinality(T) \in Nat
<1>1. Cardinality(S) \in Nat /\ Cardinality(T) \in Nat /\ Cardinality(S \cap T) = 0
  BY FS_CardinalityType, FS_EmptySet
<1>2. Cardinality(S \cup T) = Cardinality(S) + Cardinality(T) - Cardinality(S \cap T)
      /\ IsFiniteSet(S \cup T)
  BY FS_Union
<1> QED BY <1>1, <1>2

(* The bytes of finitely many artifacts can be counted. *)
LEMMA BytesFinite ==
  ASSUME NEW S \in SUBSET Digests
  PROVE  IsFiniteSet(Bytes(S)) /\ ByteCount(S) \in Nat
<1> DEFINE F == [g \in S |-> {g} \X (1..Size[g])]
<1>1. IsFiniteSet(S)
  BY ArtifactsAssumption, FS_Subset
<1>2. ASSUME NEW g \in S
      PROVE  IsFiniteSet(F[g])
  <2>1. Size[g] \in Nat
    BY ArtifactsAssumption
  <2>2. IsFiniteSet({g}) /\ IsFiniteSet(1..Size[g])
    <3>1. PICK n \in Int : n = Size[g]
      BY <2>1
    <3>2. IsFiniteSet(1..n)
      BY FS_Interval
    <3> QED BY <3>1, <3>2, FS_Singleton
  <2>3. IsFiniteSet({g} \X (1..Size[g]))
    BY <2>2, FS_Product
  <2>4. F[g] = {g} \X (1..Size[g])
    OBVIOUS
  <2> HIDE DEF F
  <2> QED BY <2>3, <2>4
<1>3. IsFiniteSet(UNION {F[g] : g \in S})
  <2> HIDE DEF F
  <2> QED BY <1>1, <1>2, FamilyFinite
<1>4. Bytes(S) = UNION {F[g] : g \in S}
  BY DEF Bytes
<1>5. IsFiniteSet(Bytes(S))
  BY <1>3, <1>4
<1> QED BY <1>5, FS_CardinalityType DEF ByteCount

(* The bytes of two disjoint sets of artifacts add up: each artifact's bytes *)
(* are its own.                                                               *)
LEMMA BytesAdd ==
  ASSUME NEW S \in SUBSET Digests, NEW T \in SUBSET Digests, S \cap T = {}
  PROVE  ByteCount(S \cup T) = ByteCount(S) + ByteCount(T)
<1>1. Bytes(S \cup T) = Bytes(S) \cup Bytes(T)
  BY DEF Bytes
<1>2. Bytes(S) \cap Bytes(T) = {}
  <2> SUFFICES ASSUME NEW x \in Bytes(S), x \in Bytes(T) PROVE FALSE
    OBVIOUS
  <2>1. PICK g \in S : x \in {g} \X (1..Size[g])
    BY DEF Bytes
  <2>2. PICK h \in T : x \in {h} \X (1..Size[h])
    BY DEF Bytes
  <2>3. x[1] = g /\ x[1] = h
    BY <2>1, <2>2
  <2> QED BY <2>3
<1> QED BY <1>1, <1>2, BytesFinite, DisjointUnion DEF ByteCount

(* The places at which one job names an artifact. *)
LEMMA MentionsCounted ==
  ASSUME NEW j \in Jobs, NEW g
  PROVE  /\ IsFiniteSet({j} \X Mentions(j, g))
         /\ Cardinality({j} \X Mentions(j, g)) = Uses(j, g)
         /\ Uses(j, g) \in Nat
         /\ Uses(j, g) > 0 <=> g \in Subjects(j)
<1>1. DOMAIN Needs[j] = 1..Len(Needs[j]) /\ Len(Needs[j]) \in Nat
  BY ArtifactsAssumption
<1>2. IsFiniteSet(DOMAIN Needs[j])
  BY <1>1, FS_Interval
<1>3. IsFiniteSet(Mentions(j, g))
  BY <1>2, FS_Subset DEF Mentions
<1>4. Uses(j, g) \in Nat
  BY <1>3, FS_CardinalityType DEF Uses
<1>5. IsFiniteSet({j}) /\ Cardinality({j}) = 1
  BY FS_Singleton
<1>6. /\ IsFiniteSet({j} \X Mentions(j, g))
      /\ Cardinality({j} \X Mentions(j, g)) = Cardinality({j}) * Cardinality(Mentions(j, g))
  BY <1>3, <1>5, FS_Product
<1>7. Cardinality({j} \X Mentions(j, g)) = Uses(j, g)
  <2>1. PICK n \in Nat : n = Uses(j, g)
    BY <1>4
  <2>2. 1 * n = n
    OBVIOUS
  <2> QED BY <1>5, <1>6, <2>1, <2>2 DEF Uses
<1>8. Uses(j, g) = 0 <=> Mentions(j, g) = {}
  BY <1>3, FS_EmptySet DEF Uses
<1>9. Mentions(j, g) # {} <=> g \in Subjects(j)
  BY DEF Mentions, Subjects, ToSet
<1> QED BY <1>4, <1>6, <1>7, <1>8, <1>9

(* All of them can be counted. *)
LEMMA ReferencesFinite ==
  ASSUME NEW g, NEW L \in SUBSET Jobs
  PROVE  IsFiniteSet(UNION {{j} \X Mentions(j, g) : j \in L})
<1> DEFINE F == [j \in L |-> {j} \X Mentions(j, g)]
<1>1. IsFiniteSet(L)
  BY JobsAssumption, FS_Subset
<1>2. \A j \in L : IsFiniteSet(F[j])
  BY MentionsCounted
<1>3. IsFiniteSet(UNION {F[j] : j \in L})
  <2> HIDE DEF F
  <2> QED BY <1>1, <1>2, FamilyFinite
<1> QED BY <1>3


LiveJobs == {j \in Jobs : Live(j)}

(* A step that changes neither the live jobs nor the store. *)
LEMMA ArtifactsSame ==
  ASSUME ArtifactAccounting, UNCHANGED artifactVars, LiveJobs' = LiveJobs
  PROVE  ArtifactAccounting'
<1>1. \A g : References(g)' = References(g)
  BY DEF References, LiveJobs
<1>2. Stored' = Stored
  BY DEF Stored, artifactVars
<1>3. ByteCount(Stored)' = ByteCount(Stored)
  BY <1>2 DEF ByteCount, Bytes
<1> QED BY <1>1, <1>2, <1>3 DEF ArtifactAccounting, artifactVars

(* What a job that is not live adds to the references. *)
LEMMA ReferencesOfOne ==
  ASSUME NEW g, NEW L \in SUBSET Jobs, NEW j \in Jobs, j \notin L
  PROVE  Cardinality(UNION {{k} \X Mentions(k, g) : k \in L \cup {j}})
           = Cardinality(UNION {{k} \X Mentions(k, g) : k \in L}) + Uses(j, g)
         /\ Cardinality(UNION {{k} \X Mentions(k, g) : k \in L}) \in Nat
<1> DEFINE A == UNION {{k} \X Mentions(k, g) : k \in L}
           B == {j} \X Mentions(j, g)
<1>1. IsFiniteSet(A)
  BY ReferencesFinite
<1>2. IsFiniteSet(B) /\ Cardinality(B) = Uses(j, g)
  BY MentionsCounted
<1>3. A \cap B = {}
  <2> SUFFICES ASSUME NEW x \in A, x \in B PROVE FALSE
    OBVIOUS
  <2>1. PICK k \in L : x \in {k} \X Mentions(k, g)
    OBVIOUS
  <2>2. x[1] = k /\ x[1] = j
    BY <2>1
  <2> QED BY <2>2
<1>4. UNION {{k} \X Mentions(k, g) : k \in L \cup {j}} = A \cup B
  OBVIOUS
<1>5. Cardinality(A \cup B) = Cardinality(A) + Cardinality(B) /\ Cardinality(A) \in Nat
  <2> HIDE DEF A, B
  <2> QED BY <1>1, <1>2, <1>3, DisjointUnion
<1> QED BY <1>2, <1>4, <1>5

(* The subjects of a job are artifacts. *)
LEMMA SubjectsTyped ==
  ASSUME NEW j \in Jobs
  PROVE  Subjects(j) \in SUBSET Digests
<1>1. Needs[j] \in Seq(Digests)
  BY ArtifactsAssumption
<1> QED BY <1>1 DEF Subjects, ToSet

(* retain_artifacts of an admitted job: every mention is counted, every new *)
(* artifact's bytes are, and both capacities were checked.                  *)
LEMMA RetainAccounts ==
  ASSUME TypeOK, ArtifactAccounting, NEW j \in Jobs, ~Live(j),
         ArtifactsFit(j), RetainArtifacts(j), LiveJobs' = LiveJobs \cup {j}
  PROVE  ArtifactAccounting'
<1>1. ASSUME NEW g \in Digests
      PROVE  refs'[g] = Cardinality(References(g)')
  <2>1. refs'[g] = refs[g] + Uses(j, g)
    BY DEF RetainArtifacts
  <2>2. refs[g] = Cardinality(UNION {{k} \X Mentions(k, g) : k \in LiveJobs})
    BY DEF ArtifactAccounting, References, LiveJobs
  <2>3. References(g)' = UNION {{k} \X Mentions(k, g) : k \in LiveJobs \cup {j}}
    BY DEF References, LiveJobs
  <2>4. LiveJobs \in SUBSET Jobs /\ j \notin LiveJobs
    BY DEF LiveJobs
  <2>5. Cardinality(References(g)') = Cardinality(UNION {{k} \X Mentions(k, g) : k \in LiveJobs}) + Uses(j, g)
    BY <2>3, <2>4, ReferencesOfOne
  <2> QED BY <2>1, <2>2, <2>5
<1>2. Stored' = Stored \cup Subjects(j)
  <2>1. ASSUME NEW g \in Digests
        PROVE  g \in Stored' <=> g \in Stored \/ g \in Subjects(j)
    <3>1. refs'[g] = refs[g] + Uses(j, g)
      BY DEF RetainArtifacts
    <3>2. refs[g] \in Nat /\ Uses(j, g) \in Nat /\ (Uses(j, g) > 0 <=> g \in Subjects(j))
      BY MentionsCounted DEF TypeOK, LedgerTypeOK
    <3> QED BY <3>1, <3>2 DEF Stored
  <2> QED BY <2>1, SubjectsTyped DEF Stored
<1>3. /\ Stored \in SUBSET Digests /\ (Subjects(j) \ Stored) \in SUBSET Digests
      /\ Stored' = Stored \cup (Subjects(j) \ Stored)
      /\ Stored \cap (Subjects(j) \ Stored) = {}
  BY <1>2, SubjectsTyped DEF Stored
<1>4. ByteCount(Stored \cup (Subjects(j) \ Stored)) = ByteCount(Stored) + NewBytes(j)
  BY <1>3, BytesAdd DEF NewBytes
<1>5. ByteCount(Stored)' = ByteCount(Stored')
  BY DEF ByteCount, Bytes
<1>6. artifactBytes' = ByteCount(Stored)' /\ artifactBytes' <= ByteCapacity
  BY <1>3, <1>4, <1>5 DEF RetainArtifacts, ArtifactAccounting, ArtifactsFit
<1>7. Cardinality(Stored)' <= ItemCapacity
  BY <1>2 DEF ArtifactsFit
<1> QED BY <1>1, <1>6, <1>7 DEF ArtifactAccounting

(* release_artifacts of a job that leaves: exactly its mentions are given    *)
(* back, and a record goes with the last of them, its bytes too.             *)
LEMMA ReleaseAccounts ==
  ASSUME TypeOK, ArtifactAccounting, NEW j \in Jobs, Live(j),
         ReleaseArtifacts(j), LiveJobs' = LiveJobs \ {j}
  PROVE  ArtifactAccounting'
<1>1. ASSUME NEW g \in Digests
      PROVE  refs'[g] = Cardinality(References(g)') /\ refs'[g] = refs[g] - Uses(j, g)
             /\ refs[g] >= Uses(j, g) /\ Uses(j, g) \in Nat /\ refs[g] \in Nat
  <2> DEFINE L == LiveJobs \ {j}
  <2>1. refs'[g] = IF refs[g] > Uses(j, g) THEN refs[g] - Uses(j, g) ELSE 0
    BY DEF ReleaseArtifacts
  <2>2. refs[g] = Cardinality(UNION {{k} \X Mentions(k, g) : k \in LiveJobs})
    BY DEF ArtifactAccounting, References, LiveJobs
  <2>3. References(g)' = UNION {{k} \X Mentions(k, g) : k \in L}
    BY DEF References, LiveJobs
  <2>4. L \in SUBSET Jobs /\ j \notin L /\ LiveJobs = L \cup {j}
    BY DEF LiveJobs
  <2> HIDE DEF L
  <2>5. refs[g] = Cardinality(References(g)') + Uses(j, g)
        /\ Cardinality(References(g)') \in Nat
    <3>1. Cardinality(UNION {{k} \X Mentions(k, g) : k \in L \cup {j}})
            = Cardinality(UNION {{k} \X Mentions(k, g) : k \in L}) + Uses(j, g)
          /\ Cardinality(UNION {{k} \X Mentions(k, g) : k \in L}) \in Nat
      BY <2>4, ReferencesOfOne
    <3>2. refs[g] = Cardinality(UNION {{k} \X Mentions(k, g) : k \in L \cup {j}})
      BY <2>2, <2>4, Zenon
    <3> QED BY <2>3, <3>1, <3>2
  <2>6. refs[g] \in Nat /\ Uses(j, g) \in Nat
    BY MentionsCounted DEF TypeOK, LedgerTypeOK
  <2> QED BY <2>1, <2>5, <2>6
<1> DEFINE gone == {g \in Subjects(j) \cap Stored : refs[g] <= Uses(j, g)}
<1>2. Stored' = Stored \ gone
  <2>1. ASSUME NEW g \in Digests
        PROVE  g \in Stored' <=> g \in Stored \ gone
    <3>1. refs'[g] = refs[g] - Uses(j, g) /\ refs[g] >= Uses(j, g)
          /\ Uses(j, g) \in Nat /\ refs[g] \in Nat
      BY <1>1
    <3>2. Uses(j, g) > 0 <=> g \in Subjects(j)
      BY MentionsCounted
    <3> QED BY <3>1, <3>2 DEF Stored
  <2> QED BY <2>1 DEF Stored
<1>3. artifactBytes' = IF artifactBytes > ByteCount(gone) THEN artifactBytes - ByteCount(gone) ELSE 0
  BY DEF ReleaseArtifacts
<1>4. /\ Stored \in SUBSET Digests /\ gone \in SUBSET Digests /\ Stored' \in SUBSET Digests
      /\ Stored = Stored' \cup gone
      /\ Stored' \cap gone = {}
  BY <1>2 DEF Stored
<1> HIDE DEF gone
<1>5. ByteCount(Stored' \cup gone) = ByteCount(Stored') + ByteCount(gone)
  BY <1>4, BytesAdd
<1>6. ByteCount(Stored') \in Nat /\ ByteCount(gone) \in Nat
  BY <1>4, BytesFinite
<1>7. ByteCount(Stored)' = ByteCount(Stored')
  BY DEF ByteCount, Bytes
<1>8. artifactBytes = ByteCount(Stored') + ByteCount(gone) /\ artifactBytes <= ByteCapacity
  BY <1>4, <1>5 DEF ArtifactAccounting
<1>9. artifactBytes' = ByteCount(Stored)' /\ artifactBytes' <= ByteCapacity
  BY <1>3, <1>6, <1>7, <1>8, BoundsAssumption
<1>10. Cardinality(Stored)' <= ItemCapacity
  <2>1. IsFiniteSet(Stored)
    BY <1>4, ArtifactsAssumption, FS_Subset
  <2>2. Stored' \in SUBSET Stored
    BY <1>4
  <2>3. IsFiniteSet(Stored') /\ Cardinality(Stored') <= Cardinality(Stored)
    BY <2>1, <2>2, FS_Subset
  <2>4. Cardinality(Stored) \in Nat /\ Cardinality(Stored') \in Nat
    BY <2>1, <2>3, FS_CardinalityType
  <2>5. Cardinality(Stored) <= ItemCapacity
    BY DEF ArtifactAccounting
  <2> QED BY <2>3, <2>4, <2>5, BoundsAssumption
<1> QED BY <1>1, <1>9, <1>10 DEF ArtifactAccounting


(* Preservation of the artifact accounting: jobs enter and leave the jobs    *)
(* map only with their references.                                           *)
LEMMA ArtifactStep ==
  ASSUME Inductive, ArtifactAccounting, [Next]_vars
  PROVE  ArtifactAccounting'
<1>a. TypeOK /\ jobState \in [Jobs -> {"none", "queued", "offered", "running"}]
  BY DEF Inductive, TypeOK, JobTypeOK
<1>b. ASSUME NEW j \in Jobs, NEW v, v # "none", Live(j),
             jobState' = [jobState EXCEPT ![j] = v]
      PROVE  LiveJobs' = LiveJobs
  BY <1>a, <1>b DEF LiveJobs, Live
<1>c. ASSUME NEW j \in Jobs, Live(j), RemoveJob(j)
      PROVE  LiveJobs' = LiveJobs \ {j}
  BY <1>a, <1>c DEF LiveJobs, Live, RemoveJob
<1>d. ASSUME UNCHANGED <<artifactVars, jobState>>
      PROVE  ArtifactAccounting'
  BY <1>d, ArtifactsSame DEF LiveJobs, Live
<1>e. ASSUME NEW j \in Jobs, NEW keep, RequeueJob(j, keep), Leased(j), UNCHANGED artifactVars
      PROVE  ArtifactAccounting'
  <2>1. LiveJobs' = LiveJobs
    BY <1>b, <1>e DEF RequeueJob, Live, Leased
  <2> QED BY <1>e, <2>1, ArtifactsSame
<1> USE DEF jobVars
<1>1. CASE UNCHANGED vars \/ Tick \/ Reap \/ DrainAgents \/ ScheduleDone \/ DetachDone \/ Register
  BY <1>1, <1>d DEF vars, Tick, Reap, DrainAgents, ScheduleDone, DetachDone, Register
<1>2. ASSUME NEW j \in Jobs, Decline(j) \/ EnqueueRefused(j) \/ CallerTimeout(j)
      PROVE  ArtifactAccounting'
  BY <1>2, <1>d DEF Decline, EnqueueRefused, CallerTimeout
<1>3. ASSUME NEW j \in Jobs, Expire(j)
      PROVE  ArtifactAccounting'
  BY <1>3, <1>e DEF Expire, Overdue, RequeueActive
<1>4. ASSUME NEW j \in Jobs, RequeueDetached(j)
      PROVE  ArtifactAccounting'
  <2>1. CASE Leased(j) /\ lease[j].id = active[target][j]
    BY <1>4, <1>e, <2>1 DEF RequeueDetached
  <2>2. CASE ~(Leased(j) /\ lease[j].id = active[target][j])
    BY <1>4, <1>d, <2>2 DEF RequeueDetached
  <2> QED BY <2>1, <2>2
<1>5. ASSUME NEW j \in Jobs, Rebind(j)
      PROVE  ArtifactAccounting'
  <2>1. jobState[j] = "queued"
    BY <1>5 DEF Rebind, Recoverable, Inductive, IdentityConsistent
  <2>2. LiveJobs' = LiveJobs
    BY <1>5, <1>b, <2>1 DEF Rebind, Live
  <2> QED BY <1>5, <2>2, ArtifactsSame DEF Rebind
<1>6. ASSUME NEW i \in 1..Len(queue), NEW d \in Devices, Offer(i, d)
      PROVE  ArtifactAccounting'
  <2>1. queue[i] \in Jobs /\ Contains(queue, queue[i])
    BY <1>6 DEF Inductive, TypeOK, JobTypeOK, Contains
  <2>2. jobState[queue[i]] = "queued"
    BY <2>1 DEF Inductive, QueueConsistent
  <2>3. LiveJobs' = LiveJobs
    BY <1>6, <1>b, <2>1, <2>2 DEF Offer, Live
  <2> QED BY <1>6, <2>3, ArtifactsSame DEF Offer
<1>7. ASSUME NEW d \in Devices, NEW h \in [Jobs -> 0..issued], Connect(d, h)
      PROVE  ArtifactAccounting'
  BY <1>7, <1>d DEF Connect
<1>8. ASSUME NEW s \in 1..opened,
             SendWelcome(s) \/ Disconnect(s) \/ AgentReads(s) \/ HangUp(s) \/ StreamEnds(s)
      PROVE  ArtifactAccounting'
  BY <1>8, <1>d DEF SendWelcome, Disconnect, AgentReads, HangUp, StreamEnds
<1>9. ASSUME NEW s \in 1..opened, NEW e \in Events,
             Ready(s, e) \/ Heartbeat(s, e) \/ Draining(s, e) \/ Refuse(s, e)
      PROVE  ArtifactAccounting'
  BY <1>9, <1>d DEF Ready, Heartbeat, Draining, Refuse, Handles
<1>10. ASSUME NEW s \in 1..opened, NEW e \in Events, Accepted(s, e)
       PROVE  ArtifactAccounting'
  <2>1. e.job \in Jobs
    BY <1>10, EventTyped DEF Accepted
  <2>2. Live(e.job)
    BY <1>10 DEF Accepted, Handles, EventValid, LeaseIdsValid, Live
  <2>3. LiveJobs' = LiveJobs
    BY <1>10, <1>b, <2>1, <2>2 DEF Accepted
  <2> QED BY <1>10, <2>3, ArtifactsSame DEF Accepted, Handles
<1>11. ASSUME NEW s \in 1..opened, NEW e \in Events, Rejected(s, e)
       PROVE  ArtifactAccounting'
  <2>1. e.job \in Jobs
    BY <1>11, EventTyped DEF Rejected
  <2>2. Leased(e.job)
    BY <1>11 DEF Rejected, Handles, EventValid, LeaseIdsValid
  <2> QED BY <1>11, <1>e, <2>1, <2>2 DEF Rejected, RequeueActive, Handles
<1>12. ASSUME NEW j \in Jobs, Enqueue(j)
       PROVE  ArtifactAccounting'
  <2>1. ~Live(j) /\ ArtifactsFit(j) /\ RetainArtifacts(j)
    BY <1>12 DEF Enqueue, Admissible
  <2>2. LiveJobs' = LiveJobs \cup {j}
    BY <1>12, <1>a DEF Enqueue, LiveJobs, Live
  <2> QED BY <1>a, <2>1, <2>2, RetainAccounts
<1>13. ASSUME NEW j \in Jobs, CancelJob(j)
       PROVE  ArtifactAccounting'
  <2>1. CASE ~Live(j)
    BY <1>13, <1>d, <2>1 DEF CancelJob
  <2>2. CASE Live(j)
    <3>1. RemoveJob(j) /\ ReleaseArtifacts(j)
      BY <1>13, <2>2 DEF CancelJob
    <3> QED BY <1>a, <1>c, <2>2, <3>1, ReleaseAccounts
  <2> QED BY <2>1, <2>2
<1>14. ASSUME NEW s \in 1..opened, NEW j \in Jobs, NEW r \in Reports, SubmitResult(s, j, r)
       PROVE  ArtifactAccounting'
  <2>1. Live(j) /\ RemoveJob(j) /\ ReleaseArtifacts(j)
    BY <1>14 DEF SubmitResult, ReportValid, Live
  <2> QED BY <1>a, <1>c, <2>1, ReleaseAccounts
<1>15. CASE Restart
  <2>1. /\ LiveJobs' = {}
        /\ refs' = [g \in Digests |-> 0] /\ artifactBytes' = 0
    BY <1>15 DEF Restart, LiveJobs, Live
  <2>2. Stored' = {} /\ ByteCount(Stored)' = 0 /\ Cardinality(Stored)' = 0
    BY <2>1, FS_EmptySet DEF Stored, ByteCount, Bytes
  <2>3. \A g : References(g)' = {}
    BY <2>1 DEF References, LiveJobs
  <2> QED BY <2>1, <2>2, <2>3, FS_EmptySet, BoundsAssumption DEF ArtifactAccounting
<1> QED
  BY <1>1, <1>2, <1>3, <1>4, <1>5, <1>6, <1>7, <1>8, <1>9, <1>10, <1>11, <1>12,
     <1>13, <1>14, <1>15
  DEF Next, Loop, AgentEvent


(* A step that grants nothing: no agent gains credit or a lease, and a Hello *)
(* that is being worked on asks for nothing new.                             *)
LEMMA CreditShrinks ==
  ASSUME Inductive, CreditBounded, SeatingBounded,
         \A d \in Devices : /\ ActiveJobs(d)' \subseteq ActiveJobs(d)
                            /\ free'[d] \in Nat /\ free'[d] <= free[d],
         Asked' \subseteq Asked,
         lock' \in {"supersede", "reconcile"} => lock' = lock /\ target' = target
  PROVE  CreditBounded' /\ SeatingBounded'
<1>1. ASSUME NEW d \in Devices
      PROVE  /\ Cardinality(ActiveJobs(d)') <= Cardinality(ActiveJobs(d))
             /\ Cardinality(ActiveJobs(d)) \in Nat /\ Cardinality(ActiveJobs(d)') \in Nat
             /\ free[d] \in Nat /\ Slots[d] \in Nat
  <2>1. IsFiniteSet(ActiveJobs(d)) /\ ActiveJobs(d)' \in SUBSET ActiveJobs(d)
    BY ActiveJobsNat
  <2>2. IsFiniteSet(ActiveJobs(d)') /\ Cardinality(ActiveJobs(d)') <= Cardinality(ActiveJobs(d))
    BY <2>1, FS_Subset
  <2> QED BY <2>1, <2>2, FS_CardinalityType, SlotsAssumption
      DEF Inductive, TypeOK, AgentTypeOK
<1>2. /\ Cardinality(Asked') <= Cardinality(Asked)
      /\ Cardinality(Asked) \in Nat /\ Cardinality(Asked') \in Nat
  <2>1. IsFiniteSet(Asked) /\ Asked' \in SUBSET Asked
    BY JobsAssumption, FS_Subset DEF Asked
  <2>2. IsFiniteSet(Asked') /\ Cardinality(Asked') <= Cardinality(Asked)
    BY <2>1, FS_Subset
  <2> QED BY <2>1, <2>2, FS_CardinalityType
<1>3. CreditBounded'
  <2> SUFFICES ASSUME NEW d \in Devices
               PROVE  free'[d] + Cardinality(ActiveJobs(d)') <= Slots[d]
    BY DEF CreditBounded
  <2>1. free[d] + Cardinality(ActiveJobs(d)) <= Slots[d]
    BY DEF CreditBounded
  <2> QED BY <1>1, <2>1
<1>4. SeatingBounded'
  <2> SUFFICES ASSUME lock' \in {"supersede", "reconcile"} PROVE SeatingBounded'
    BY DEF SeatingBounded
  <2>1. lock' = lock /\ target' = target /\ target \in Devices
    BY DEF Inductive, SessionsConsistent
  <2>2. PICK t \in Devices : t = target /\ t = target'
    BY <2>1
  <2>3. /\ free[t] = 0 /\ Cardinality(Asked) <= Slots[t]
        /\ lock = "reconcile" => Cardinality(ActiveJobs(t)) + Cardinality(Asked) <= Slots[t]
    BY <2>1, <2>2 DEF SeatingBounded
  <2>4. /\ free'[t] = 0 /\ Cardinality(Asked') <= Slots[t]
        /\ lock = "reconcile" => Cardinality(ActiveJobs(t)') + Cardinality(Asked') <= Slots[t]
    BY <1>1, <1>2, <2>3
  <2> QED BY <2>1, <2>2, <2>4 DEF SeatingBounded, ActiveJobs
<1> QED BY <1>3, <1>4


(* A step that adds at most one lease to an agent's active map. *)
LEMMA OneLeaseMore ==
  ASSUME NEW d, NEW j, ActiveJobs(d)' \subseteq ActiveJobs(d) \cup {j}
  PROVE  /\ Cardinality(ActiveJobs(d)') <= Cardinality(ActiveJobs(d)) + 1
         /\ Cardinality(ActiveJobs(d)) \in Nat /\ Cardinality(ActiveJobs(d)') \in Nat
<1>1. IsFiniteSet(ActiveJobs(d)) /\ Cardinality(ActiveJobs(d)) \in Nat
  BY ActiveJobsNat
<1> DEFINE S == ActiveJobs(d) \cup {j}
<1>2. IsFiniteSet(S) /\ Cardinality(S) <= Cardinality(ActiveJobs(d)) + 1
  BY <1>1, FS_AddElement
<1>3. ActiveJobs(d)' \in SUBSET S
  OBVIOUS
<1> HIDE DEF S
<1>4. IsFiniteSet(ActiveJobs(d)') /\ Cardinality(ActiveJobs(d)') <= Cardinality(S)
  BY <1>2, <1>3, FS_Subset
<1>5. Cardinality(ActiveJobs(d)') \in Nat /\ Cardinality(S) \in Nat
  BY <1>2, <1>4, FS_CardinalityType
<1> QED BY <1>1, <1>2, <1>4, <1>5

(* Preservation of the credit bounds: credit is spent on every offer, an     *)
(* announcement counts the leases that are out, and a Hello gets back no     *)
(* more leases than it has slots.                                            *)
LEMMA CreditStep ==
  ASSUME Inductive, CreditBounded, SeatingBounded, [Next]_vars
  PROVE  CreditBounded' /\ SeatingBounded'
<1>a. /\ free \in [Devices -> Nat] /\ Slots \in [Devices -> Nat \ {0}]
      /\ active \in [Devices -> [Jobs -> 0..MaxLease]]
      /\ hello \in [Jobs -> 0..MaxLease]
      /\ lock \in {"unseat", "supersede", "reconcile"} => target \in Devices
      /\ \A s \in 1..opened : owner[s] \in Devices
  BY SlotsAssumption
  DEF Inductive, TypeOK, AgentTypeOK, LockTypeOK, SessionsConsistent
<1>b. \A d \in Devices : free[d] \in Nat /\ free[d] <= free[d] /\ 0 <= free[d] /\ 0 \in Nat
  BY <1>a
<1>c. \A d \in Devices : active' = active => ActiveJobs(d)' = ActiveJobs(d)
  BY DEF ActiveJobs
<1>d. hello' = hello => Asked' = Asked
  BY DEF Asked
<1>e. ASSUME NEW d, NEW j, active' = active \/ active' = [active EXCEPT ![d][j] = 0]
      PROVE  \A c \in Devices : ActiveJobs(c)' \subseteq ActiveJobs(c)
  BY <1>a, <1>e DEF ActiveJobs
<1>f. ASSUME NEW d, DetachAgent(d)
      PROVE  \A c \in Devices : free'[c] \in Nat /\ free'[c] <= free[c]
  BY <1>a, <1>f DEF DetachAgent
<1>g. ASSUME UNCHANGED <<free, active, hello>>,
             lock' \in {"supersede", "reconcile"} => lock' = lock /\ target' = target
      PROVE  CreditBounded' /\ SeatingBounded'
  BY <1>b, <1>c, <1>d, <1>g, CreditShrinks
<1> USE DEF lockVars, agentVars
<1>1. CASE UNCHANGED vars \/ Tick \/ Reap \/ ScheduleDone \/ Register
  BY <1>1, <1>g DEF vars, Tick, Reap, ScheduleDone, Register
<1>2. ASSUME NEW j \in Jobs, EnqueueRefused(j) \/ CallerTimeout(j) \/ Enqueue(j)
      PROVE  CreditBounded' /\ SeatingBounded'
  BY <1>2, <1>g DEF EnqueueRefused, CallerTimeout, Enqueue
<1>3. ASSUME NEW s \in 1..opened, SendWelcome(s) \/ AgentReads(s) \/ HangUp(s) \/ StreamEnds(s)
      PROVE  CreditBounded' /\ SeatingBounded'
  BY <1>3, <1>g DEF SendWelcome, AgentReads, HangUp, StreamEnds
<1>4. ASSUME NEW s \in 1..opened, NEW e \in Events,
             Heartbeat(s, e) \/ Accepted(s, e) \/ Refuse(s, e)
      PROVE  CreditBounded' /\ SeatingBounded'
  BY <1>4, <1>g DEF Heartbeat, Accepted, Refuse, Handles
<1>5. CASE DrainAgents
  <2>1. \A c \in Devices : free'[c] \in Nat /\ free'[c] <= free[c]
    BY <1>5, <1>a DEF DrainAgents
  <2> QED BY <1>5, <2>1, <1>c, <1>d, CreditShrinks DEF DrainAgents
<1>6. ASSUME NEW j \in Jobs, Decline(j)
      PROVE  CreditBounded' /\ SeatingBounded'
  <2>1. Asked' \subseteq Asked
    BY <1>6, <1>a DEF Decline, Asked
  <2> QED BY <1>6, <1>b, <1>c, <2>1, CreditShrinks DEF Decline
<1>7. ASSUME NEW j \in Jobs, Expire(j)
      PROVE  CreditBounded' /\ SeatingBounded'
  <2>1. PICK d : active' = active \/ active' = [active EXCEPT ![d][j] = 0]
    BY <1>7 DEF Expire, RequeueActive
  <2>2. \A c \in Devices : ActiveJobs(c)' \subseteq ActiveJobs(c)
    BY <1>e, <2>1
  <2> QED BY <1>7, <1>b, <1>d, <2>2, CreditShrinks DEF Expire
<1>8. ASSUME NEW j \in Jobs, RequeueDetached(j)
      PROVE  CreditBounded' /\ SeatingBounded'
  <2>1. \A c \in Devices : ActiveJobs(c)' \subseteq ActiveJobs(c)
    BY <1>8, <1>e DEF RequeueDetached
  <2> QED BY <1>8, <1>b, <1>d, <2>1, CreditShrinks DEF RequeueDetached
<1>9. ASSUME NEW j \in Jobs, CancelJob(j)
      PROVE  CreditBounded' /\ SeatingBounded'
  <2>1. PICK d : active' = active \/ active' = [active EXCEPT ![d][j] = 0]
    BY <1>9 DEF CancelJob
  <2>2. \A c \in Devices : ActiveJobs(c)' \subseteq ActiveJobs(c)
    BY <1>e, <2>1
  <2> QED BY <1>9, <1>b, <1>d, <2>2, CreditShrinks DEF CancelJob
<1>10. ASSUME NEW s \in 1..opened, NEW j \in Jobs, NEW r \in Reports, SubmitResult(s, j, r)
       PROVE  CreditBounded' /\ SeatingBounded'
  <2>1. \A c \in Devices : ActiveJobs(c)' \subseteq ActiveJobs(c)
    BY <1>10, <1>e DEF SubmitResult
  <2> QED BY <1>10, <1>b, <1>d, <2>1, CreditShrinks DEF SubmitResult
<1>11. ASSUME NEW s \in 1..opened, NEW e \in Events, Rejected(s, e)
       PROVE  CreditBounded' /\ SeatingBounded'
  <2>1. PICK d : active' = active \/ active' = [active EXCEPT ![d][e.job] = 0]
    BY <1>11 DEF Rejected, RequeueActive
  <2>2. \A c \in Devices : ActiveJobs(c)' \subseteq ActiveJobs(c)
    BY <1>e, <2>1
  <2> QED BY <1>11, <1>b, <1>d, <2>2, CreditShrinks DEF Rejected, Handles
<1>12. ASSUME NEW s \in 1..opened, Disconnect(s)
       PROVE  CreditBounded' /\ SeatingBounded'
  <2>1. CASE session[owner[s]] = s
    BY <1>12, <2>1, <1>c, <1>d, <1>f, CreditShrinks DEF Disconnect
  <2>2. CASE session[owner[s]] # s
    BY <1>12, <2>2, <1>g DEF Disconnect
  <2> QED BY <2>1, <2>2
<1>13. ASSUME NEW s \in 1..opened, NEW e \in Events, Draining(s, e)
       PROVE  CreditBounded' /\ SeatingBounded'
  <2>1. \A c \in Devices : free'[c] \in Nat /\ free'[c] <= free[c]
    BY <1>13, <1>a DEF Draining
  <2> QED BY <1>13, <2>1, <1>c, <1>d, CreditShrinks DEF Draining, Handles
<1>14. CASE Restart
  <2>1. \A c \in Devices : /\ ActiveJobs(c)' \subseteq ActiveJobs(c)
                           /\ free'[c] \in Nat /\ free'[c] <= free[c]
    BY <1>14, <1>a DEF Restart, ActiveJobs
  <2>2. Asked' \subseteq Asked
    BY <1>14 DEF Restart, Asked
  <2> QED BY <1>14, <2>1, <2>2, CreditShrinks DEF Restart
<1>15. ASSUME NEW s \in 1..opened, NEW e \in Events, Ready(s, e)
       PROVE  CreditBounded' /\ SeatingBounded'
  <2>1. PICK d \in Devices : d = owner[s]
    BY <1>a
  <2>2. e.free \in Nat
    BY <1>15, EventTyped DEF Ready
  <2>3. free' = [free EXCEPT ![d] = Credit(d, e.free)]
        /\ \A c \in Devices : ActiveJobs(c)' = ActiveJobs(c)
    BY <1>15, <1>c, <2>1 DEF Ready
  <2>4. \A c \in Devices : Cardinality(ActiveJobs(c)) \in Nat
    BY ActiveJobsNat
  <2>5. PICK n \in Nat : n = Cardinality(ActiveJobs(d))
    BY <2>4
  <2>6. n <= Slots[d]
    BY <1>a, <2>5 DEF CreditBounded
  <2>7. Credit(d, e.free) + n <= Slots[d]
    BY <1>a, <2>2, <2>5, <2>6 DEF Credit
  <2>8. CreditBounded'
    <3> SUFFICES ASSUME NEW c \in Devices
                 PROVE  free'[c] + Cardinality(ActiveJobs(c)') <= Slots[c]
      BY DEF CreditBounded
    <3>1. CASE c = d
      BY <1>a, <2>3, <2>5, <2>7, <3>1
    <3>2. CASE c # d
      BY <1>a, <2>3, <3>2 DEF CreditBounded
    <3> QED BY <3>1, <3>2
  <2>9. SeatingBounded'
    BY <1>15 DEF Ready, Handles, SeatingBounded
  <2> QED BY <2>8, <2>9
<1>16. ASSUME NEW i \in 1..Len(queue), NEW d \in Devices, Offer(i, d)
       PROVE  CreditBounded' /\ SeatingBounded'
  <2>1. ActiveJobs(d)' \subseteq ActiveJobs(d) \cup {queue[i]}
        /\ \A c \in Devices \ {d} : ActiveJobs(c)' = ActiveJobs(c)
    BY <1>16, <1>a DEF Offer, ActiveJobs
  <2>2. free[d] > 0
    BY <1>16 DEF Offer, IsAssignment, Candidates, AgentMatches
  <2>3. /\ free'[d] \in Nat /\ free'[d] + 1 <= free[d]
        /\ \A c \in Devices \ {d} : free'[c] = free[c]
    BY <1>16, <1>a, <2>2 DEF Offer, DetachAgent
  <2>4. CreditBounded'
    <3> SUFFICES ASSUME NEW c \in Devices
                 PROVE  free'[c] + Cardinality(ActiveJobs(c)') <= Slots[c]
      BY DEF CreditBounded
    <3>1. CASE c = d
      <4>1. free[d] + Cardinality(ActiveJobs(d)) <= Slots[d]
        BY DEF CreditBounded
      <4>2. /\ Cardinality(ActiveJobs(d)') <= Cardinality(ActiveJobs(d)) + 1
            /\ Cardinality(ActiveJobs(d)) \in Nat /\ Cardinality(ActiveJobs(d)') \in Nat
        BY <2>1, OneLeaseMore
      <4>3. free'[d] + Cardinality(ActiveJobs(d)') <= Slots[d]
        BY <1>a, <2>3, <4>1, <4>2
      <4> QED BY <3>1, <4>3
    <3>2. CASE c # d
      BY <2>1, <2>3, <3>2 DEF CreditBounded
    <3> QED BY <3>1, <3>2
  <2>5. SeatingBounded'
    BY <1>16 DEF Offer, SeatingBounded
  <2> QED BY <2>4, <2>5
<1>17. ASSUME NEW d \in Devices, NEW h \in [Jobs -> 0..issued], Connect(d, h)
       PROVE  CreditBounded' /\ SeatingBounded'
  <2>1. \A c \in Devices : free'[c] \in Nat /\ free'[c] <= free[c]
    BY <1>17, <1>f DEF Connect
  <2>2. CreditBounded'
    <3> SUFFICES ASSUME NEW c \in Devices
                 PROVE  free'[c] + Cardinality(ActiveJobs(c)') <= Slots[c]
      BY DEF CreditBounded
    <3>1. ActiveJobs(c)' = ActiveJobs(c)
      BY <1>17, <1>c DEF Connect
    <3>2. Cardinality(ActiveJobs(c)) \in Nat
      BY ActiveJobsNat
    <3>3. free[c] + Cardinality(ActiveJobs(c)) <= Slots[c]
      BY DEF CreditBounded
    <3> QED BY <1>a, <2>1, <3>1, <3>2, <3>3
  <2>3. SeatingBounded'
    BY <1>17, <1>a DEF Connect, SeatingBounded, DetachAgent, HelloValid, Asked
  <2> QED BY <2>2, <2>3
<1>18. CASE DetachDone
  <2>1. CASE lock = "unseat"
    BY <1>18, <2>1, <1>g DEF DetachDone
  <2>2. CASE lock = "supersede"
    <3>1. PICK t \in Devices : t = target /\ t = target'
      BY <1>18, <2>2, <1>a DEF DetachDone
    <3>2. /\ free[t] = 0 /\ Cardinality(Asked) <= Slots[t]
          /\ Cardinality(ActiveJobs(t)) = 0
      BY <1>18, <2>2, <3>1, FS_EmptySet DEF DetachDone, SeatingBounded
    <3>3. Cardinality(Asked) \in Nat
      BY JobsAssumption, FS_Subset, FS_CardinalityType DEF Asked
    <3>4. ActiveJobs(t)' = ActiveJobs(t) /\ Asked' = Asked /\ free' = free /\ lock' = "reconcile"
      BY <1>18, <1>c, <1>d, <2>2 DEF DetachDone
    <3>5. Cardinality(ActiveJobs(t)') + Cardinality(Asked') <= Slots[t]
      BY <3>2, <3>3, <3>4
    <3>6. SeatingBounded'
      BY <3>1, <3>2, <3>4, <3>5 DEF SeatingBounded, ActiveJobs
    <3>7. CreditBounded'
      BY <1>18, <1>c DEF CreditBounded, DetachDone
    <3> QED BY <3>6, <3>7
  <2> QED BY <1>18, <2>1, <2>2 DEF DetachDone
<1>19. ASSUME NEW j \in Jobs, Rebind(j)
       PROVE  CreditBounded' /\ SeatingBounded'
  <2>1. PICK t \in Devices : t = target /\ t = target'
    BY <1>19, <1>a DEF Rebind
  <2>2. /\ free[t] = 0 /\ Cardinality(ActiveJobs(t)) + Cardinality(Asked) <= Slots[t]
        /\ free' = free
    BY <1>19, <2>1 DEF Rebind, SeatingBounded
  <2>3. ActiveJobs(t)' \subseteq ActiveJobs(t) \cup {j}
        /\ \A c \in Devices \ {t} : ActiveJobs(c)' = ActiveJobs(c)
    BY <1>19, <1>a, <2>1 DEF Rebind, ActiveJobs
  <2>4. /\ Cardinality(ActiveJobs(t)') <= Cardinality(ActiveJobs(t)) + 1
        /\ Cardinality(ActiveJobs(t)) \in Nat /\ Cardinality(ActiveJobs(t)') \in Nat
    BY <2>3, OneLeaseMore
  <2>5. j \in Asked /\ Asked' = Asked \ {j}
    BY <1>19, <1>a DEF Rebind, Asked
  <2>6. IsFiniteSet(Asked) /\ Cardinality(Asked) \in Nat
    BY JobsAssumption, FS_Subset, FS_CardinalityType DEF Asked
  <2>7. Cardinality(Asked') = Cardinality(Asked) - 1 /\ Cardinality(Asked') \in Nat
    <3>1. IsFiniteSet(Asked \ {j}) /\ Cardinality(Asked \ {j}) = Cardinality(Asked) - 1
      BY <2>5, <2>6, FS_RemoveElement
    <3> QED BY <2>5, <3>1, FS_CardinalityType
  <2>8. Cardinality(ActiveJobs(t)') + Cardinality(Asked') <= Slots[t]
    BY <1>a, <2>2, <2>4, <2>6, <2>7
  <2>9. CreditBounded'
    <3> SUFFICES ASSUME NEW c \in Devices
                 PROVE  free'[c] + Cardinality(ActiveJobs(c)') <= Slots[c]
      BY DEF CreditBounded
    <3>1. free'[t] + Cardinality(ActiveJobs(t)') <= Slots[t]
      BY <1>a, <2>2, <2>4, <2>7, <2>8
    <3>2. CASE c # t
      BY <2>2, <2>3, <3>2 DEF CreditBounded
    <3> QED BY <3>1, <3>2
  <2>10. SeatingBounded'
    <3>1. Cardinality(Asked') <= Slots[t]
      BY <1>a, <2>4, <2>7, <2>8
    <3> QED BY <1>19, <2>1, <2>2, <2>8, <3>1 DEF Rebind, SeatingBounded, ActiveJobs
  <2> QED BY <2>9, <2>10
<1> QED
  BY <1>1, <1>2, <1>3, <1>4, <1>5, <1>6, <1>7, <1>8, <1>9, <1>10, <1>11, <1>12,
     <1>13, <1>14, <1>15, <1>16, <1>17, <1>18, <1>19
  DEF Next, Loop, AgentEvent

(* Credit, references, bytes and the seating of agents are accounted in every *)
(* reachable state.                                                           *)
THEOREM AccountingInvariant == Spec => []Accounted
<1>1. Init => Accounted
  <2> SUFFICES ASSUME Init PROVE Accounted
    OBVIOUS
  <2>a. free = [d \in Devices |-> 0]
    BY DEF Init
  <2>b. refs = [g \in Digests |-> 0] /\ artifactBytes = 0
    BY DEF Init
  <2>1. \A d \in Devices : ActiveJobs(d) = {}
    BY DEF Init, ActiveJobs
  <2>2. CreditBounded
    <3>1. \A d \in Devices : Cardinality(ActiveJobs(d)) = 0 /\ free[d] = 0
      BY <2>a, <2>1, FS_EmptySet
    <3> QED BY <3>1, SlotsAssumption DEF CreditBounded
  <2>3. SeatingBounded
    BY DEF Init, SeatingBounded
  <2>4. Stored = {} /\ ByteCount(Stored) = 0 /\ Cardinality(Stored) = 0
    BY <2>b, FS_EmptySet DEF Stored, ByteCount, Bytes
  <2>5. \A g : References(g) = {}
    BY DEF Init, References, Live
  <2>6. ArtifactAccounting
    BY <2>b, <2>4, <2>5, FS_EmptySet, BoundsAssumption DEF ArtifactAccounting
  <2> QED BY <2>2, <2>3, <2>6 DEF Accounted
<1>2. Inductive /\ Accounted /\ [Next]_vars => Accounted'
  BY ArtifactStep, CreditStep DEF Accounted
<1> QED BY <1>1, <1>2, InductiveInvariant, PTL DEF Spec

(* What the coordinator hands out is there and is counted: no agent has more *)
(* leases than slots, the store is exactly what the live jobs refer to,      *)
(* within its capacities, and whoever may fetch the subjects of a job finds  *)
(* them, whatever jobs share them and in whatever order jobs come and go.    *)
THEOREM ResourcesSound == Spec => []ResourcesAccounted
<1>1. Inductive /\ Accounted => ResourcesAccounted
  <2> SUFFICES ASSUME Inductive, Accounted PROVE LeasedArtifactsPresent
    BY DEF ResourcesAccounted, Accounted
  <2> SUFFICES ASSUME NEW j \in Jobs, Leased(j) PROVE Subjects(j) \subseteq Stored
    BY DEF LeasedArtifactsPresent, FetchAuthorized, ActiveLease
  <2> SUFFICES ASSUME NEW g \in Subjects(j) PROVE g \in Stored
    OBVIOUS
  <2>1. g \in Digests /\ LiveJobs \in SUBSET Jobs /\ j \in LiveJobs
    BY SubjectsTyped DEF Leased, Live, LiveJobs
  <2>2. IsFiniteSet(References(g))
    BY <2>1, ReferencesFinite DEF References, LiveJobs
  <2>3. PICK k \in DOMAIN Needs[j] : Needs[j][k] = g
    BY DEF Subjects, ToSet
  <2>4. <<j, k>> \in References(g)
    BY <2>1, <2>3 DEF References, Mentions, LiveJobs
  <2>5. Cardinality(References(g)) \in Nat /\ Cardinality(References(g)) # 0
    BY <2>2, <2>4, FS_EmptySet, FS_CardinalityType
  <2> QED BY <2>1, <2>5 DEF Accounted, ArtifactAccounting, Stored
<1> QED BY <1>1, AccountingInvariant, InductiveInvariant, PTL
=============================================================================
