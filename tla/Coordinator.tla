----------------------------- MODULE Coordinator -----------------------------
(***************************************************************************)
(* The lease coordinator of the measurement fleet                          *)
(* (crates/gz-measure-service/src/coordinator.rs).                         *)
(*                                                                         *)
(* All coordinator state lives behind one mutex.  A handler that loops     *)
(* over several jobs while it holds the mutex (expire_leases, schedule,    *)
(* remove_agent_session, reconcile_recoveries) is one step per iteration   *)
(* here, in any order the hash map may yield, and the variable lock says   *)
(* which loop the holder is in, so nobody else can run in between.         *)
(*                                                                         *)
(* Agents are open: they may send any well-formed event, report or Hello,  *)
(* with any job and any lease identity that was ever issued.               *)
(***************************************************************************)
EXTENDS Integers, Sequences, SequencesExt, FiniteSets

CONSTANTS
  Devices,          \* enrolled device ids, ordered (BTreeMap order of agents)
  Jobs,             \* job ids: hash of measurement key and request nonce
  Digests,          \* artifact digests
  Compatible,       \* <<device, job>> pairs whose profile and capability match
  Slots,            \* Slots[d]: job_slots the agent of d advertises
  Needs,            \* Needs[j]: the artifact digests of the job's subjects
  Size,             \* Size[g]: bytes of an artifact
  Outcomes,         \* outcomes of well-formed reports
  QueueCapacity, ItemCapacity, ByteCapacity, ReceiptCapacity, CommandCapacity,
  AcceptTicks,      \* accept_timeout, in ticks of the abstract clock
  LeaseTicks,       \* lease_duration, in ticks
  Durable,          \* ReceiptLedgerConfig::Directory (TRUE) or ::Memory
  MaxSession,       \* bound: sessions ever opened
  MaxLease          \* bound: leases ever issued

ASSUME DevicesAssumption == Devices \subseteq Nat \ {0} /\ IsFiniteSet(Devices)
ASSUME JobsAssumption == IsFiniteSet(Jobs)
ASSUME SlotsAssumption == Slots \in [Devices -> Nat \ {0}]
ASSUME ArtifactsAssumption ==
  /\ IsFiniteSet(Digests)
  /\ Needs \in [Jobs -> Seq(Digests)]
  /\ Size \in [Digests -> Nat]
ASSUME OutcomesAssumption == "none" \notin Outcomes
ASSUME TicksAssumption == AcceptTicks \in Nat \ {0} /\ LeaseTicks \in Nat \ {0}
ASSUME BoundsAssumption ==
  /\ MaxSession \in Nat
  /\ MaxLease \in Nat
  /\ CommandCapacity \in Nat
  /\ ReceiptCapacity \in Nat
  /\ ItemCapacity \in Nat
  /\ ByteCapacity \in Nat
  /\ Durable \in BOOLEAN

VARIABLES
  lock,        \* what the holder of the state mutex is doing
  target,      \* the device a loop under the mutex works on, 0 otherwise
  hello,       \* recoveries of a Hello not yet reconciled: job -> lease, or 0
  session,     \* current session of a device, 0 when it is not in agents
  free,        \* free_slots of an agent
  draining,    \* draining flag of an agent
  active,      \* active[d][j]: lease of j in the agent's active map, 0 if none
  jobState,    \* "none" (not in jobs), "queued", "offered", "running"
  lease,       \* the ActiveLease inside Offered or Running
  ttl,         \* ticks left before that lease's deadline
  recovery,    \* Job::recovery
  queue,       \* VecDeque of job ids
  refs,        \* references of each artifact record, 0 when absent
  artifactBytes,
  receipts,    \* the report committed for a job
  caller,      \* the caller of measure: idle, waiting, cancelling, ...
  answer,      \* what the reply oneshot delivered
  opened,      \* sessions opened so far; session ids are 1..opened
  owner,       \* owner[s]: device of session s
  stream,      \* the event stream of a session and its spawned task
  rx,          \* the receiving half of the session's command channel is alive
  cmds,        \* commands buffered in that channel
  verdict,     \* verdict[s]: recovery actions for the Welcome of session s
  issued,      \* leases issued so far; lease ids are 1..issued
  granted      \* history: to whom and for which job each lease was issued

lockVars == <<lock, target, hello>>
agentVars == <<session, free, draining, active>>
jobVars == <<jobState, lease, ttl, recovery, queue>>
artifactVars == <<refs, artifactBytes>>
callerVars == <<receipts, caller, answer>>
streamVars == <<opened, owner, stream, rx, verdict>>
vars == <<lockVars, agentVars, jobVars, artifactVars, callerVars, streamVars,
          cmds, issued, granted>>

-----------------------------------------------------------------------------
Sessions == 1..MaxSession
Leases == 1..MaxLease

ActiveLeases ==
  [device : Devices, current : Sessions, origin : Sessions, id : Leases]
NoLease == [device |-> 0, current |-> 0, origin |-> 0, id |-> 0]

(* What a lease was issued for. *)
Grant(j, l) == [lease |-> l.id, job |-> j, device |-> l.device, session |-> l.origin]
Grants == [lease : Leases, job : Jobs, device : Devices, session : Sessions]

Reports == [lease : Leases, origin : Sessions, outcome : Outcomes]
NoReport == [lease |-> 0, origin |-> 0, outcome |-> "none"]

NoVerdict == [j \in Jobs |-> "none"]
Verdicts == [Jobs -> {"none", "submit", "committed", "cancel"}]

Welcome(v) == [kind |-> "welcome", verdict |-> v]
Drain == [kind |-> "drain"]
LeaseCommand(j, l) == [kind |-> "lease", job |-> j, lease |-> l]
CancelCommand(j, l) == [kind |-> "cancel", job |-> j, lease |-> l]
Commands ==
  {Drain} \cup [kind : {"welcome"}, verdict : Verdicts]
  \cup [kind : {"lease", "cancel"}, job : Jobs, lease : Leases]

(* Events an agent sends after its Hello. *)
LeaseEvents ==
  [kind : {"accepted", "rejected", "heartbeat"}, job : Jobs, lease : Leases]
ReadyEvents == UNION {[kind : {"ready"}, free : 0..(Slots[d] + 1)] : d \in Devices}
Events ==
  LeaseEvents \cup ReadyEvents \cup {[kind |-> "draining"], [kind |-> "hello"]}

Live(j) == jobState[j] # "none"
Leased(j) == jobState[j] \in {"offered", "running"}
Overdue == {j \in Jobs : Leased(j) /\ ttl[j] = 0}
ActiveJobs(d) == {j \in Jobs : active[d][j] # 0}
Committed == {j \in Jobs : receipts[j] # NoReport}

(* An expiring handler runs its body once expire_leases found nothing more *)
(* to expire; a handler that does not expire needs the mutex untouched.    *)
ExpiredBody == lock \in {"free", "expired"} /\ Overdue = {}

(* mpsc try_send: fails when the channel is full or its receiver is gone. *)
CanSend(s) == rx[s] /\ Len(cmds[s]) < CommandCapacity

-----------------------------------------------------------------------------
Init ==
  /\ lock = "free" /\ target = 0 /\ hello = [j \in Jobs |-> 0]
  /\ session = [d \in Devices |-> 0]
  /\ free = [d \in Devices |-> 0]
  /\ draining = [d \in Devices |-> FALSE]
  /\ active = [d \in Devices |-> [j \in Jobs |-> 0]]
  /\ jobState = [j \in Jobs |-> "none"]
  /\ lease = [j \in Jobs |-> NoLease]
  /\ ttl = [j \in Jobs |-> 0]
  /\ recovery = [j \in Jobs |-> NoLease]
  /\ queue = <<>>
  /\ refs = [g \in Digests |-> 0] /\ artifactBytes = 0
  /\ receipts = [j \in Jobs |-> NoReport]
  /\ caller = [j \in Jobs |-> "idle"]
  /\ answer = [j \in Jobs |-> NoReport]
  /\ opened = 0 /\ owner = [s \in Sessions |-> 0]
  /\ stream = [s \in Sessions |-> "unborn"]
  /\ rx = [s \in Sessions |-> FALSE]
  /\ cmds = [s \in Sessions |-> <<>>]
  /\ verdict = [s \in Sessions |-> NoVerdict]
  /\ issued = 0 /\ granted = {}

-----------------------------------------------------------------------------
(* Building blocks shared by the handlers. *)

(* requeue_active, the job's side.  The agent's side is the caller's. *)
RequeueJob(j, preserve) ==
  /\ jobState' = [jobState EXCEPT ![j] = "queued"]
  /\ recovery' = [recovery EXCEPT ![j] = IF preserve THEN lease[j] ELSE NoLease]
  /\ lease' = [lease EXCEPT ![j] = NoLease]
  /\ ttl' = [ttl EXCEPT ![j] = 0]
  /\ queue' = IF Contains(queue, j) THEN queue ELSE Append(queue, j)

(* Mutant: the lease stays in the agent's active map. *)
RequeueActiveLeaky(j, preserve) == RequeueJob(j, preserve) /\ UNCHANGED active

(* requeue_active with a live agent: forget the lease in its active map. *)
RequeueActive(j, preserve) ==
  LET l == lease[j]
  IN  /\ RequeueJob(j, preserve)
      /\ active' = IF session[l.device] = l.current /\ active[l.device][j] = l.id
                   THEN [active EXCEPT ![l.device][j] = 0]
                   ELSE active

(* remove_agent_session takes the agent out of the map; its active map stays *)
(* in active[d] until the loop below has emptied it.                         *)
DetachAgent(d) ==
  /\ session' = [session EXCEPT ![d] = 0]
  /\ free' = [free EXCEPT ![d] = 0]
  /\ draining' = [draining EXCEPT ![d] = FALSE]

RemoveJobNotRecovery(j) ==
  /\ jobState' = [jobState EXCEPT ![j] = "none"]
  /\ lease' = [lease EXCEPT ![j] = NoLease]
  /\ ttl' = [ttl EXCEPT ![j] = 0]
  /\ queue' = RemoveFirst(queue, j)
  /\ UNCHANGED recovery

(* The job leaves the jobs map. *)
RemoveJob(j) ==
  /\ jobState' = [jobState EXCEPT ![j] = "none"]
  /\ lease' = [lease EXCEPT ![j] = NoLease]
  /\ ttl' = [ttl EXCEPT ![j] = 0]
  /\ recovery' = [recovery EXCEPT ![j] = NoLease]
  /\ queue' = RemoveFirst(queue, j)

(* Artifact store: a pair may name the same digest twice. *)
Subjects(j) == ToSet(Needs[j])
Mentions(j, g) == {k \in DOMAIN Needs[j] : Needs[j][k] = g}
Uses(j, g) == Cardinality(Mentions(j, g))
Stored == {g \in Digests : refs[g] > 0}

(* The bytes of a set of artifacts: each is counted once, by artifact and place. *)
Bytes(S) == UNION {{g} \X (1..Size[g]) : g \in S}
ByteCount(S) == Cardinality(Bytes(S))

NewBytes(j) == ByteCount(Subjects(j) \ Stored)
ArtifactsFit(j) ==
  /\ Cardinality(Stored \cup Subjects(j)) <= ItemCapacity
  /\ artifactBytes + NewBytes(j) <= ByteCapacity

RetainArtifacts(j) ==
  /\ refs' = [g \in Digests |-> refs[g] + Uses(j, g)]
  /\ artifactBytes' = artifactBytes + NewBytes(j)

(* Mutant: a digest that both subjects of a pair name is released once. *)
ReleaseArtifactsOnce(j) ==
  LET gone == {g \in Subjects(j) \cap Stored : refs[g] = 1}
  IN  /\ refs' = [g \in Digests |-> IF g \in Subjects(j) \cap Stored
                                    THEN refs[g] - 1 ELSE refs[g]]
      /\ artifactBytes' = artifactBytes - ByteCount(gone)

ReleaseArtifacts(j) ==
  LET gone == {g \in Subjects(j) \cap Stored : refs[g] <= Uses(j, g)}
      bytes == ByteCount(gone)
  IN  /\ refs' = [g \in Digests |->
                    IF refs[g] > Uses(j, g) THEN refs[g] - Uses(j, g) ELSE 0]
      /\ artifactBytes' = IF artifactBytes > bytes THEN artifactBytes - bytes ELSE 0

-----------------------------------------------------------------------------
(* Time, and the loops that run while the mutex is held. *)

(* One tick of the clock the deadlines are compared with. *)
Tick ==
  /\ lock = "free"
  /\ \E j \in Jobs : Leased(j) /\ ttl[j] > 0
  /\ ttl' = [j \in Jobs |-> IF Leased(j) /\ ttl[j] > 0 THEN ttl[j] - 1 ELSE ttl[j]]
  /\ UNCHANGED <<lockVars, agentVars, jobState, lease, recovery, queue,
                 artifactVars, callerVars, streamVars, cmds, issued, granted>>

(* expire_leases: one expired lease per step, in any order. *)
Expire(j) ==
  /\ lock \in {"free", "expired"}
  /\ j \in Overdue
  /\ RequeueActive(j, FALSE)
  /\ lock' = "expired"
  /\ UNCHANGED <<target, hello, session, free, draining, artifactVars,
                 callerVars, streamVars, cmds, issued, granted>>

(* Mutant: the reaper expires leases and schedules nothing. *)
ReapOnly ==
  /\ ExpiredBody
  /\ lock' = "free"
  /\ UNCHANGED <<target, hello, agentVars, jobVars, artifactVars, callerVars,
                 streamVars, cmds, issued, granted>>

(* reap_expired, called every 250 ms. *)
Reap ==
  /\ ExpiredBody
  /\ lock' = "schedule"
  /\ UNCHANGED <<target, hello, agentVars, jobVars, artifactVars, callerVars,
                 streamVars, cmds, issued, granted>>

(* Mutant: the agent's credit is not consulted. *)
AgentMatchesAnyCredit(d, j) ==
  session[d] # 0 /\ ~draining[d] /\ <<d, j>> \in Compatible

AgentMatches(d, j) ==
  session[d] # 0 /\ free[d] > 0 /\ ~draining[d] /\ <<d, j>> \in Compatible

Candidates(i) == {d \in Devices : AgentMatches(d, queue[i])}

(* The first queued job that some agent can take, and the first such agent. *)
IsAssignment(i, d) ==
  /\ i \in DOMAIN queue
  /\ \A k \in 1..(i - 1) : Candidates(k) = {}
  /\ d \in Candidates(i)
  /\ \A e \in Candidates(i) : d <= e

Assignable == issued < MaxLease /\ \E i \in DOMAIN queue : Candidates(i) # {}

(* One iteration of the schedule loop: offer a new lease; an agent whose    *)
(* command channel does not take it loses its session.                      *)
Offer(i, d) ==
  LET j == queue[i]
      s == session[d]
      l == issued + 1
  IN  /\ lock = "schedule"
      /\ issued < MaxLease
      /\ IsAssignment(i, d)
      /\ queue' = RemoveAt(queue, i)
      /\ issued' = l
      /\ jobState' = [jobState EXCEPT ![j] = "offered"]
      /\ lease' = [lease EXCEPT ![j] = [device |-> d, current |-> s,
                                        origin |-> s, id |-> l]]
      /\ granted' = granted \cup {[lease |-> l, job |-> j, device |-> d, session |-> s]}
      /\ ttl' = [ttl EXCEPT ![j] = AcceptTicks]
      /\ recovery' = [recovery EXCEPT ![j] = NoLease]
      /\ active' = [active EXCEPT ![d][j] = l]
      /\ \/ /\ CanSend(s)
            /\ cmds' = [cmds EXCEPT ![s] = Append(@, LeaseCommand(j, l))]
            /\ free' = [free EXCEPT ![d] = @ - 1]
            /\ UNCHANGED <<lock, target, session, draining>>
         \/ /\ ~CanSend(s)
            /\ DetachAgent(d)
            /\ lock' = "unseat" /\ target' = d
            /\ UNCHANGED cmds
      /\ UNCHANGED <<hello, artifactVars, callerVars, streamVars>>

ScheduleDone ==
  /\ lock = "schedule"
  /\ ~Assignable
  /\ lock' = "free"
  /\ UNCHANGED <<target, hello, agentVars, jobVars, artifactVars, callerVars,
                 streamVars, cmds, issued, granted>>

(* remove_agent_session: one entry of the removed agent's active map.  Only *)
(* an accepted lease is kept for recovery.                                  *)
RequeueDetached(j) ==
  /\ lock \in {"unseat", "supersede"}
  /\ active[target][j] # 0
  /\ active' = [active EXCEPT ![target][j] = 0]
  /\ IF Leased(j) /\ lease[j].id = active[target][j]
     THEN RequeueJob(j, jobState[j] = "running")
     ELSE UNCHANGED jobVars
  /\ UNCHANGED <<lockVars, session, free, draining, artifactVars, callerVars,
                 streamVars, cmds, issued, granted>>

DetachDone ==
  /\ lock \in {"unseat", "supersede"}
  /\ ActiveJobs(target) = {}
  /\ IF lock = "unseat"
     THEN lock' = "schedule" /\ target' = 0
     ELSE lock' = "reconcile" /\ UNCHANGED target
  /\ UNCHANGED <<hello, agentVars, jobVars, artifactVars, callerVars,
                 streamVars, cmds, issued, granted>>

-----------------------------------------------------------------------------
(* connect: a Hello supersedes the device's session, its recoveries are      *)
(* reconciled, the agent is inserted; then, outside the mutex, Welcome is    *)
(* sent and the event task spawned.                                          *)

(* validate_hello: one recovery per job and no more than there are slots. *)
HelloValid(d, recoveries) ==
  Cardinality({j \in Jobs : recoveries[j] # 0}) <= Slots[d]

Connect(d, recoveries) ==
  /\ lock = "free"
  /\ opened < MaxSession
  /\ HelloValid(d, recoveries)
  /\ opened' = opened + 1
  /\ owner' = [owner EXCEPT ![opened + 1] = d]
  /\ hello' = recoveries
  /\ target' = d
  /\ lock' = "supersede"
  /\ DetachAgent(d)
  /\ UNCHANGED <<active, jobVars, artifactVars, callerVars, stream, rx,
                 verdict, cmds, issued, granted>>

(* Mutant: the recovered lease starts over in the new session. *)
ReboundAfresh(j) == [recovery[j] EXCEPT !.current = opened, !.origin = opened]

(* The lease as it is rebound to the session being installed. *)
Rebound(j) == [recovery[j] EXCEPT !.current = opened]

(* reconcile_recoveries: one recovery of the Hello. *)
Recoverable(j) ==
  /\ receipts[j] = NoReport
  /\ recovery[j] # NoLease
  /\ recovery[j].device = target
  /\ recovery[j].id = hello[j]

Rebind(j) ==
  /\ lock = "reconcile" /\ hello[j] # 0
  /\ Recoverable(j)
  /\ jobState' = [jobState EXCEPT ![j] = "running"]
  /\ lease' = [lease EXCEPT ![j] = Rebound(j)]
  /\ ttl' = [ttl EXCEPT ![j] = LeaseTicks]
  /\ recovery' = [recovery EXCEPT ![j] = NoLease]
  /\ queue' = RemoveFirst(queue, j)
  /\ active' = [active EXCEPT ![target][j] = hello[j]]
  /\ verdict' = [verdict EXCEPT ![opened][j] = "submit"]
  /\ hello' = [hello EXCEPT ![j] = 0]
  /\ UNCHANGED <<lock, target, session, free, draining, artifactVars,
                 callerVars, opened, owner, stream, rx, cmds, issued, granted>>

Decline(j) ==
  /\ lock = "reconcile" /\ hello[j] # 0
  /\ ~Recoverable(j)
  /\ verdict' = [verdict EXCEPT ![opened][j] =
                   IF receipts[j] # NoReport THEN "committed" ELSE "cancel"]
  /\ hello' = [hello EXCEPT ![j] = 0]
  /\ UNCHANGED <<lock, target, agentVars, jobVars, artifactVars, callerVars,
                 opened, owner, stream, rx, cmds, issued, granted>>

Register ==
  /\ lock = "reconcile"
  /\ \A j \in Jobs : hello[j] = 0
  /\ session' = [session EXCEPT ![target] = opened]
  /\ stream' = [stream EXCEPT ![opened] = "registered"]
  /\ rx' = [rx EXCEPT ![opened] = TRUE]
  /\ lock' = "free" /\ target' = 0
  /\ UNCHANGED <<hello, free, draining, active, jobVars, artifactVars,
                 callerVars, opened, owner, verdict, cmds, issued, granted>>

(* If the channel is already full, connect fails: the receiver is dropped   *)
(* and no task will ever disconnect the registered agent.                   *)
SendWelcome(s) ==
  /\ stream[s] = "registered"
  /\ \/ /\ CanSend(s)
        /\ cmds' = [cmds EXCEPT ![s] = Append(@, Welcome(verdict[s]))]
        /\ stream' = [stream EXCEPT ![s] = "open"]
        /\ UNCHANGED rx
     \/ /\ ~CanSend(s)
        /\ cmds' = [cmds EXCEPT ![s] = <<>>]
        /\ stream' = [stream EXCEPT ![s] = "closed"]
        /\ rx' = [rx EXCEPT ![s] = FALSE]
  /\ verdict' = [verdict EXCEPT ![s] = NoVerdict]
  /\ UNCHANGED <<lockVars, agentVars, jobVars, artifactVars, callerVars,
                 opened, owner, issued, granted>>

(* The event task left its loop: disconnect. *)
Disconnect(s) ==
  LET d == owner[s]
  IN  /\ lock = "free"
      /\ stream[s] = "ended"
      /\ stream' = [stream EXCEPT ![s] = "closed"]
      /\ \/ /\ session[d] = s
            /\ DetachAgent(d)
            /\ lock' = "unseat" /\ target' = d
         \/ /\ session[d] # s
            /\ UNCHANGED <<lock, target, session, free, draining>>
      /\ UNCHANGED <<hello, active, jobVars, artifactVars, callerVars, opened,
                     owner, rx, verdict, cmds, issued, granted>>

-----------------------------------------------------------------------------
(* handle_agent_event *)

(* validate_agent_lease_ids *)
LeaseIdsValid(d, s, j, l) ==
  /\ active[d][j] = l
  /\ Leased(j)
  /\ lease[j].device = d /\ lease[j].current = s /\ lease[j].id = l

EventValid(s, e) ==
  LET d == owner[s]
  IN  /\ session[d] = s
      /\ CASE e.kind = "ready" -> e.free <= Slots[d]
           [] e.kind = "accepted" ->
                LeaseIdsValid(d, s, e.job, e.lease) /\ jobState[e.job] = "offered"
           [] e.kind = "rejected" -> LeaseIdsValid(d, s, e.job, e.lease)
           [] e.kind = "heartbeat" ->
                LeaseIdsValid(d, s, e.job, e.lease) /\ jobState[e.job] = "running"
           [] e.kind = "draining" -> TRUE
           [] e.kind = "hello" -> FALSE

(* A handler that returns Ok ends in schedule. *)
Handles(s, e) ==
  /\ ExpiredBody
  /\ stream[s] = "open"
  /\ EventValid(s, e)
  /\ lock' = "schedule"
  /\ UNCHANGED <<target, hello, session, artifactVars, callerVars, streamVars,
                 cmds, issued, granted>>

(* Credit left to an agent that announces free slots: never more than its    *)
(* job slots less the leases it holds.                                       *)
Credit(d, announced) ==
  LET room == Slots[d] - Cardinality(ActiveJobs(d))
  IN  IF room <= 0 THEN 0 ELSE IF announced < room THEN announced ELSE room

Ready(s, e) ==
  /\ e.kind = "ready"
  /\ Handles(s, e)
  /\ free' = [free EXCEPT ![owner[s]] = Credit(owner[s], e.free)]
  /\ UNCHANGED <<draining, active, jobVars>>

Accepted(s, e) ==
  /\ e.kind = "accepted"
  /\ Handles(s, e)
  /\ jobState' = [jobState EXCEPT ![e.job] = "running"]
  /\ ttl' = [ttl EXCEPT ![e.job] = LeaseTicks]
  /\ UNCHANGED <<free, draining, active, lease, recovery, queue>>

Rejected(s, e) ==
  /\ e.kind = "rejected"
  /\ Handles(s, e)
  /\ RequeueActive(e.job, FALSE)
  /\ UNCHANGED <<free, draining>>

Heartbeat(s, e) ==
  /\ e.kind = "heartbeat"
  /\ Handles(s, e)
  /\ ttl' = [ttl EXCEPT ![e.job] = LeaseTicks]
  /\ UNCHANGED <<free, draining, active, jobState, lease, recovery, queue>>

Draining(s, e) ==
  /\ e.kind = "draining"
  /\ Handles(s, e)
  /\ draining' = [draining EXCEPT ![owner[s]] = TRUE]
  /\ free' = [free EXCEPT ![owner[s]] = 0]
  /\ UNCHANGED <<active, jobVars>>

(* An event the handler refuses breaks the event loop; nothing is scheduled. *)
Refuse(s, e) ==
  /\ ExpiredBody
  /\ stream[s] = "open"
  /\ ~EventValid(s, e)
  /\ stream' = [stream EXCEPT ![s] = "ended"]
  /\ lock' = "free"
  /\ UNCHANGED <<target, hello, agentVars, jobVars, artifactVars, callerVars,
                 opened, owner, rx, verdict, cmds, issued, granted>>

AgentEvent(s, e) ==
  \/ Ready(s, e) \/ Accepted(s, e) \/ Rejected(s, e) \/ Heartbeat(s, e)
  \/ Draining(s, e) \/ Refuse(s, e)

-----------------------------------------------------------------------------
(* The caller's side: measure, cancel_job, drain_agents. *)

(* ReceiptLedger::can_admit *)
CanAdmit ==
  Durable \/ Cardinality({j \in Jobs : Live(j)}) + Cardinality(Committed)
               < ReceiptCapacity

(* Mutant: a committed job id is admitted again. *)
AdmissibleAgain(j) ==
  ~Live(j) /\ Len(queue) < QueueCapacity /\ CanAdmit /\ ArtifactsFit(j)

Admissible(j) ==
  /\ ~Live(j) /\ receipts[j] = NoReport
  /\ Len(queue) < QueueCapacity
  /\ CanAdmit
  /\ ArtifactsFit(j)

Enqueue(j) ==
  /\ ExpiredBody
  /\ caller[j] \in {"idle", "timedout"}
  /\ Admissible(j)
  /\ RetainArtifacts(j)
  /\ jobState' = [jobState EXCEPT ![j] = "queued"]
  /\ queue' = Append(queue, j)
  /\ caller' = [caller EXCEPT ![j] = "waiting"]
  /\ lock' = "schedule"
  /\ UNCHANGED <<target, hello, agentVars, lease, ttl, recovery, receipts,
                 answer, streamVars, cmds, issued, granted>>

(* An inadmissible submission returns after expire_leases, with no schedule. *)
EnqueueRefused(j) ==
  /\ lock = "expired" /\ Overdue = {}
  /\ ~Admissible(j)
  /\ lock' = "free"
  /\ UNCHANGED <<target, hello, agentVars, jobVars, artifactVars, callerVars,
                 streamVars, cmds, issued, granted>>

(* The caller's own deadline elapses before the reply is there; cancel_job  *)
(* then has to wait for the mutex.                                          *)
CallerTimeout(j) ==
  /\ caller[j] = "waiting"
  /\ caller' = [caller EXCEPT ![j] = "cancelling"]
  /\ UNCHANGED <<lockVars, agentVars, jobVars, artifactVars, receipts, answer,
                 streamVars, cmds, issued, granted>>

CancelJob(j) ==
  LET l == lease[j]
      s == session[l.device]
      told == Leased(j) /\ s # 0
  IN  /\ lock = "free"
      /\ caller[j] = "cancelling"
      /\ caller' = [caller EXCEPT ![j] = "timedout"]
      /\ \/ /\ ~Live(j)
            /\ UNCHANGED <<active, jobVars, artifactVars, cmds>>
         \/ /\ Live(j)
            /\ RemoveJob(j)
            /\ ReleaseArtifacts(j)
            /\ active' = IF told /\ active[l.device][j] = l.id
                         THEN [active EXCEPT ![l.device][j] = 0] ELSE active
            /\ cmds' = IF told /\ CanSend(s)
                       THEN [cmds EXCEPT ![s] = Append(@, CancelCommand(j, l.id))]
                       ELSE cmds
      /\ UNCHANGED <<lockVars, session, free, draining, receipts, answer,
                     streamVars, issued, granted>>

DrainAgents ==
  /\ lock = "free"
  /\ draining' = [d \in Devices |-> draining[d] \/ session[d] # 0]
  /\ free' = [d \in Devices |-> 0]
  /\ cmds' = [s \in Sessions |->
                IF CanSend(s) /\ \E d \in Devices : session[d] = s
                THEN Append(cmds[s], Drain) ELSE cmds[s]]
  /\ UNCHANGED <<lockVars, session, active, jobVars, artifactVars, callerVars,
                 streamVars, issued, granted>>

-----------------------------------------------------------------------------
(* submit_result: commits under the mutex, without expiring leases first. *)

(* Mutant: the report's lease id is not compared with the job's. *)
ReportValidAnyLease(s, j, r) ==
  /\ session[owner[s]] = s
  /\ jobState[j] = "running"
  /\ lease[j].device = owner[s] /\ lease[j].current = s

(* Conditions of authenticate_session and validate_report. *)
ReportValid(s, j, r) ==
  /\ session[owner[s]] = s
  /\ jobState[j] = "running"
  /\ lease[j].device = owner[s] /\ lease[j].current = s
  /\ lease[j].id = r.lease /\ active[owner[s]][j] = r.lease
  /\ lease[j].origin = r.origin

LedgerHasRoom == Durable \/ Cardinality(Committed) < ReceiptCapacity

SubmitResult(s, j, r) ==
  /\ lock = "free"
  /\ receipts[j] = NoReport
  /\ ReportValid(s, j, r)
  /\ LedgerHasRoom
  /\ receipts' = [receipts EXCEPT ![j] = r]
  /\ RemoveJob(j)
  /\ active' = [active EXCEPT ![owner[s]][j] = 0]
  /\ ReleaseArtifacts(j)
  /\ IF caller[j] = "waiting"
     THEN /\ answer' = [answer EXCEPT ![j] = r]
          /\ caller' = [caller EXCEPT ![j] = "answered"]
     ELSE UNCHANGED <<answer, caller>>
  /\ lock' = "schedule"
  /\ UNCHANGED <<target, hello, session, free, draining, streamVars, cmds, issued, granted>>

(* The data plane takes a session that is still an agent's, and the lease it  *)
(* has for the job (authenticate_session, validate_active_lease).             *)
Authentic(s) == session[owner[s]] = s

ActiveLease(s, j, l) ==
  /\ Leased(j)
  /\ lease[j].device = owner[s] /\ lease[j].current = s /\ lease[j].id = l
  /\ active[owner[s]][j] = l

(* fetch_artifact (it changes nothing): who may fetch the subjects of j. *)
FetchAuthorized(s, j, l) == Authentic(s) /\ ActiveLease(s, j, l)

-----------------------------------------------------------------------------
(* The transport between agent and coordinator, and the coordinator's own    *)
(* process.  A buffered event may still be handled after the agent is gone.  *)

AgentReads(s) ==
  /\ rx[s] /\ cmds[s] # <<>> /\ stream[s] # "registered"
  /\ cmds' = [cmds EXCEPT ![s] = Tail(@)]
  /\ UNCHANGED <<lockVars, agentVars, jobVars, artifactVars, callerVars,
                 streamVars, issued, granted>>

HangUp(s) ==
  /\ rx[s] /\ stream[s] # "registered"
  /\ rx' = [rx EXCEPT ![s] = FALSE]
  /\ cmds' = [cmds EXCEPT ![s] = <<>>]
  /\ UNCHANGED <<lockVars, agentVars, jobVars, artifactVars, callerVars,
                 opened, owner, stream, verdict, issued, granted>>

StreamEnds(s) ==
  /\ stream[s] = "open" /\ ~rx[s]
  /\ stream' = [stream EXCEPT ![s] = "ended"]
  /\ UNCHANGED <<lockVars, agentVars, jobVars, artifactVars, callerVars,
                 opened, owner, rx, verdict, cmds, issued, granted>>

(* The coordinator's process dies, the callers in it too, and starts again   *)
(* with what the receipt ledger kept.                                        *)
Restart ==
  /\ lock' = "free" /\ target' = 0 /\ hello' = [j \in Jobs |-> 0]
  /\ session' = [d \in Devices |-> 0]
  /\ free' = [d \in Devices |-> 0]
  /\ draining' = [d \in Devices |-> FALSE]
  /\ active' = [d \in Devices |-> [j \in Jobs |-> 0]]
  /\ jobState' = [j \in Jobs |-> "none"]
  /\ lease' = [j \in Jobs |-> NoLease]
  /\ ttl' = [j \in Jobs |-> 0]
  /\ recovery' = [j \in Jobs |-> NoLease]
  /\ queue' = <<>>
  /\ refs' = [g \in Digests |-> 0] /\ artifactBytes' = 0
  /\ receipts' = IF Durable THEN receipts ELSE [j \in Jobs |-> NoReport]
  /\ caller' = [j \in Jobs |-> "idle"]
  /\ answer' = [j \in Jobs |-> NoReport]
  /\ stream' = [s \in Sessions |-> IF s <= opened THEN "closed" ELSE "unborn"]
  /\ rx' = [s \in Sessions |-> FALSE]
  /\ cmds' = [s \in Sessions |-> <<>>]
  /\ verdict' = [s \in Sessions |-> NoVerdict]
  /\ UNCHANGED <<opened, owner, issued, granted>>

-----------------------------------------------------------------------------
Loop ==
  \/ \E i \in 1..Len(queue), d \in Devices : Offer(i, d)
  \/ ScheduleDone
  \/ \E j \in Jobs : RequeueDetached(j) \/ Rebind(j) \/ Decline(j)
  \/ DetachDone
  \/ Register

Next ==
  \/ Loop
  \/ Tick \/ Reap \/ DrainAgents \/ Restart
  \/ \E j \in Jobs :
       Expire(j) \/ Enqueue(j) \/ EnqueueRefused(j) \/ CallerTimeout(j)
       \/ CancelJob(j)
  \/ \E d \in Devices, h \in [Jobs -> 0..issued] : Connect(d, h)
  \/ \E s \in 1..opened :
       \/ SendWelcome(s) \/ Disconnect(s)
       \/ AgentReads(s) \/ HangUp(s) \/ StreamEnds(s)
       \/ \E e \in Events : AgentEvent(s, e)
       \/ \E j \in Jobs, r \in Reports : SubmitResult(s, j, r)

Spec == Init /\ [][Next]_vars
-----------------------------------------------------------------------------
LockStates == {"free", "expired", "schedule", "unseat", "supersede", "reconcile"}

LockTypeOK ==
  /\ lock \in LockStates
  /\ target \in Devices \cup {0}
  /\ hello \in [Jobs -> 0..MaxLease]

AgentTypeOK ==
  /\ session \in [Devices -> 0..MaxSession]
  /\ free \in [Devices -> Nat]
  /\ draining \in [Devices -> BOOLEAN]
  /\ active \in [Devices -> [Jobs -> 0..MaxLease]]

JobTypeOK ==
  /\ jobState \in [Jobs -> {"none", "queued", "offered", "running"}]
  /\ lease \in [Jobs -> ActiveLeases \cup {NoLease}]
  /\ ttl \in [Jobs -> Nat]
  /\ recovery \in [Jobs -> ActiveLeases \cup {NoLease}]
  /\ queue \in Seq(Jobs)

LedgerTypeOK ==
  /\ refs \in [Digests -> Nat]
  /\ receipts \in [Jobs -> Reports \cup {NoReport}]
  /\ caller \in [Jobs -> {"idle", "waiting", "cancelling", "timedout", "answered"}]
  /\ answer \in [Jobs -> Reports \cup {NoReport}]

StreamTypeOK ==
  /\ opened \in 0..MaxSession
  /\ owner \in [Sessions -> Devices \cup {0}]
  /\ stream \in [Sessions -> {"unborn", "registered", "open", "ended", "closed"}]
  /\ rx \in [Sessions -> BOOLEAN]
  /\ cmds \in [Sessions -> Seq(Commands)]
  /\ verdict \in [Sessions -> Verdicts]
  /\ issued \in 0..MaxLease
  /\ granted \subseteq Grants

(* Every variable keeps its type: lease and session identities stay within    *)
(* those ever issued, the queue is a sequence of jobs, credit and reference    *)
(* counts never go below zero.  (artifactBytes is pinned down exactly by       *)
(* ArtifactAccounting.)                                                        *)
TypeOK ==
  LockTypeOK /\ AgentTypeOK /\ JobTypeOK /\ LedgerTypeOK /\ StreamTypeOK

(* A lease an agent's active map names is the lease of that job and nobody   *)
(* else's: every leased job is in the active map of exactly the device its   *)
(* lease names, under that lease id and with that device's current session   *)
(* (while remove_agent_session or connect runs, the session being removed or *)
(* installed).  This is what makes a lease exclusive, whatever stale events, *)
(* expiries, reconnects and cancellations interleave.                        *)
LeaseConsistent ==
  \A j \in Jobs :
    /\ \A d \in Devices :
         active[d][j] # 0 <=> Leased(j) /\ lease[j].device = d
    /\ Leased(j) =>
         /\ lease[j] # NoLease
         /\ active[lease[j].device][j] = lease[j].id
         /\ \/ lease[j].current = session[lease[j].device]
            \/ lock \in {"unseat", "supersede"} /\ lease[j].device = target
            \/ lock = "reconcile" /\ lease[j].device = target
                 /\ lease[j].current = opened

(* The queue holds exactly the jobs whose state is Queued, each once: no      *)
(* requeue path (expiry, rejection, lost session, supersession, failed send)  *)
(* loses a job or queues it twice, and no removal path leaves a stale entry.  *)
QueueConsistent ==
  /\ \A j \in Jobs : jobState[j] = "queued" <=> Contains(queue, j)
  /\ IsInjective(queue)

(* A job is in jobs or in the receipt ledger, never in both: nothing that     *)
(* was committed can be leased, requeued or recovered again.                  *)
CommittedIsFinal ==
  \A j \in Jobs :
    /\ receipts[j] # NoReport => jobState[j] = "none"
    /\ answer[j] # NoReport => receipts[j] = answer[j]

(* A recoverable lease belongs to a job that waits in the queue; its device   *)
(* and origin session are those it was granted to, and no other job holds or  *)
(* can recover that lease id.                                                 *)
RecoveryConsistent ==
  \A j \in Jobs : recovery[j] # NoLease =>
    /\ jobState[j] = "queued"
    /\ owner[recovery[j].origin] = recovery[j].device
    /\ \A k \in Jobs \ {j} :
         recovery[j].id \notin {recovery[k].id, lease[k].id}

(* The other half of LeaseConsistent's hazard: what an agent was told when it *)
(* got a lease stays true.  Through the loss of the session, the recovery by  *)
(* a later session of the device and further losses, the lease is held, or    *)
(* kept for recovery, for the job, the device and the origin session it was   *)
(* issued for, so the report computed before still matches; every committed   *)
(* report names a lease that was issued for that job in that session.         *)
LeaseIdentityKept ==
  /\ \A j \in Jobs : \A l \in {lease[j], recovery[j]} \ {NoLease} : Grant(j, l) \in granted
  /\ \A j \in Jobs : receipts[j] # NoReport =>
       \E g \in granted :
         /\ g.lease = receipts[j].lease /\ g.session = receipts[j].origin
         /\ g.job = j
  /\ \A g, h \in granted : g.lease = h.lease => g = h

(* A scheduler never hands an agent more work than the slots it advertised:   *)
(* free credit and active leases together stay within job_slots.              *)
CreditBounded ==
  \A d \in Devices :
    free[d] + Cardinality(ActiveJobs(d)) <= Slots[d]

(* References(g): the places at which the live jobs name artifact g. *)
References(g) == UNION {{j} \X Mentions(j, g) : j \in {k \in Jobs : Live(k)}}

(* Each artifact record counts exactly the references of the admitted jobs,   *)
(* so every leased artifact can be fetched and nothing outlives its jobs; the *)
(* byte total and both capacities hold.                                       *)
ArtifactAccounting ==
  /\ \A g \in Digests : refs[g] = Cardinality(References(g))
  /\ artifactBytes = ByteCount(Stored)
  /\ Cardinality(Stored) <= ItemCapacity
  /\ artifactBytes <= ByteCapacity

(* fetch_artifact never answers "leased artifact is missing": whoever holds   *)
(* a lease, offered or accepted, finds all subjects of the job, although jobs *)
(* that share a digest come and go meanwhile.                                 *)
LeasedArtifactsPresent ==
  lock = "free" =>
    \A s \in 1..opened, j \in Jobs, l \in 1..issued :
      FetchAuthorized(s, j, l) => Subjects(j) \subseteq Stored

(* What the coordinator hands out is there and is counted: no agent has more  *)
(* leases than slots, counts and bytes of artifacts are those of the live     *)
(* jobs, and a leased job finds its subjects, in whatever order jobs that     *)
(* share them are admitted, committed, cancelled and recovered.               *)
ResourcesAccounted == CreditBounded /\ ArtifactAccounting /\ LeasedArtifactsPresent

-----------------------------------------------------------------------------
(* HolderOf(j): the lease whose report may still be committed for j, the one *)
(* in its state or the one kept for recovery, 0 if there is none.            *)
HolderOf(j) == IF Leased(j) THEN lease[j].id ELSE recovery[j].id

(* Sessions and the mutex: session ids are fresh and belong to one device,   *)
(* and a loop under the mutex works on a device that is not in agents.       *)
SessionsConsistent ==
  /\ \A s \in 1..opened : owner[s] \in Devices
  /\ \A d \in Devices : session[d] # 0 =>
       session[d] <= opened /\ owner[session[d]] = d
  /\ lock \in {"unseat", "supersede", "reconcile"} =>
       target \in Devices /\ session[target] = 0
  /\ lock \in {"supersede", "reconcile"} =>
       /\ opened # 0 /\ owner[opened] = target
       /\ \A d \in Devices : session[d] # opened

(* Lease identities: a lease is in a job's state exactly while the job is    *)
(* leased and in its recovery only while it is queued, was issued before,    *)
(* names the device of its origin session, and no two jobs share one.        *)
IdentityConsistent ==
  \A j \in Jobs :
    /\ lease[j] # NoLease <=> Leased(j)
    /\ recovery[j] # NoLease => jobState[j] = "queued"
    /\ \A l \in {lease[j], recovery[j]} : l # NoLease =>
         l.id <= issued /\ l.origin <= opened /\ owner[l.origin] = l.device
    /\ \A k \in Jobs \ {j} : HolderOf(j) # 0 => HolderOf(j) # HolderOf(k)

(* The grants on record are those of the leases issued so far. *)
GrantsRecorded == LeaseIdentityKept /\ \A g \in granted : g.lease <= issued

(* The inductive invariant of the proofs: what every handler, and every      *)
(* iteration of a loop under the mutex, preserves.                           *)
Inductive ==
  /\ TypeOK /\ SessionsConsistent /\ LeaseConsistent /\ IdentityConsistent
  /\ QueueConsistent /\ CommittedIsFinal

(* Credit while a Hello is worked on: the agent being seated has none, and   *)
(* the leases it has got back and those it still asks for fit its slots.     *)
Asked == {j \in Jobs : hello[j] # 0}
SeatingBounded ==
  /\ lock \in {"supersede", "reconcile"} =>
       free[target] = 0 /\ Cardinality(Asked) <= Slots[target]
  /\ lock = "reconcile" =>
       Cardinality(ActiveJobs(target)) + Cardinality(Asked) <= Slots[target]

(* What every step preserves about credit and artifacts. *)
Accounted == CreditBounded /\ SeatingBounded /\ ArtifactAccounting

-----------------------------------------------------------------------------
(* The promise to callers and agents. *)
Promise == INSTANCE MeasureJobs WITH
  pending <- [j \in Jobs |-> Live(j)],
  holder <- [j \in Jobs |-> HolderOf(j)],
  accepted <- [j \in Jobs |-> jobState[j] = "running" \/ recovery[j] # NoLease],
  granted <- issued,
  receipt <- receipts

(* Every step of the coordinator is a step of MeasureJobs or invisible to it: *)
(* exclusive leases, commits by the current accepted lease only, exactly one  *)
(* commit, and no answer but the committed report, whatever is interleaved.   *)
KeepsPromise == Promise!Spec

-----------------------------------------------------------------------------
(* Fairness: a thread that holds or waits for the mutex goes on, the reaper   *)
(* and the event tasks of the runtime are scheduled, a broken transport is    *)
(* noticed, and time passes.  Nothing is assumed of agents and callers.       *)
Fairness ==
  /\ WF_vars(Loop) /\ WF_vars(Reap) /\ SF_vars(Tick)
  /\ \A j \in Jobs : WF_vars(Expire(j))
  /\ \A s \in Sessions :
       /\ WF_vars(s <= opened /\ SendWelcome(s))
       /\ WF_vars(s <= opened /\ StreamEnds(s))
       /\ SF_vars(s <= opened /\ Disconnect(s))

FairSpec == Spec /\ Fairness

(* schedule terminates, and so does every loop under the mutex: although the  *)
(* loop requeues the jobs of an agent whose channel is full or closed, the    *)
(* mutex is always given back.                                                *)
MutexReleased == lock # "free" ~> lock = "free"

(* No lost wakeup: some paths requeue a job and return without scheduling (a  *)
(* refused event, a refused submission, connect); a queued job that some      *)
(* connected agent could take is offered all the same.                        *)
WorkDispatched == Assignable ~> ~Assignable

(* A lease does not outlive its agent: once the receiver of a session is gone *)
(* every job leased to it is taken away, also when no event task is left to   *)
(* disconnect it.                                                             *)
OrphanReclaimed ==
  \A j \in Jobs, s \in Sessions :
    Leased(j) /\ lease[j].current = s /\ ~rx[s]
      ~> ~(Leased(j) /\ lease[j].current = s)

(* No job is left behind: every loop under the mutex ends, what can be        *)
(* assigned is assigned, and what is leased to an agent that is gone is taken *)
(* back.                                                                      *)
NoJobLeftBehind == MutexReleased /\ WorkDispatched /\ OrphanReclaimed
=============================================================================
