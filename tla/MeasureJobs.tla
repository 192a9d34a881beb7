----------------------------- MODULE MeasureJobs -----------------------------
(***************************************************************************)
(* What the measurement coordinator promises, without sessions, queues,    *)
(* channels or clocks: a job that was admitted is granted to at most one   *)
(* lease at a time, only an accepted lease that is still the job's current *)
(* one can commit a report, a commit happens once and is never changed,    *)
(* and the caller is only ever told the committed report.                  *)
(***************************************************************************)
EXTENDS Naturals

CONSTANTS Jobs, Reports, NoReport, Durable

VARIABLES
  pending,   \* pending[j]: the job is admitted and not finished
  holder,    \* the lease that may still deliver the job's report, 0 if none
  accepted,  \* that lease was accepted by its agent
  granted,   \* leases granted so far: lease identities are 1..granted
  receipt,   \* the committed report, NoReport if none
  answer     \* what the caller was told

jobs == <<pending, holder, accepted, granted, receipt, answer>>

Init ==
  /\ pending = [j \in Jobs |-> FALSE]
  /\ holder = [j \in Jobs |-> 0]
  /\ accepted = [j \in Jobs |-> FALSE]
  /\ granted = 0
  /\ receipt = [j \in Jobs |-> NoReport]
  /\ answer = [j \in Jobs |-> NoReport]

Admit(j) ==
  /\ ~pending[j] /\ receipt[j] = NoReport
  /\ pending' = [pending EXCEPT ![j] = TRUE]
  /\ UNCHANGED <<holder, accepted, granted, receipt, answer>>

(* A new lease takes the job from whoever could still have recovered it. *)
Grant(j) ==
  /\ pending[j]
  /\ granted' = granted + 1
  /\ holder' = [holder EXCEPT ![j] = granted + 1]
  /\ accepted' = [accepted EXCEPT ![j] = FALSE]
  /\ UNCHANGED <<pending, receipt, answer>>

Accept(j) ==
  /\ holder[j] # 0 /\ ~accepted[j]
  /\ accepted' = [accepted EXCEPT ![j] = TRUE]
  /\ UNCHANGED <<pending, holder, granted, receipt, answer>>

Revoke(j) ==
  /\ holder[j] # 0
  /\ holder' = [holder EXCEPT ![j] = 0]
  /\ accepted' = [accepted EXCEPT ![j] = FALSE]
  /\ UNCHANGED <<pending, granted, receipt, answer>>

Commit(j, r) ==
  /\ pending[j] /\ accepted[j] /\ receipt[j] = NoReport
  /\ r.lease = holder[j]
  /\ receipt' = [receipt EXCEPT ![j] = r]
  /\ answer' \in {answer, [answer EXCEPT ![j] = r]}
  /\ pending' = [pending EXCEPT ![j] = FALSE]
  /\ holder' = [holder EXCEPT ![j] = 0]
  /\ accepted' = [accepted EXCEPT ![j] = FALSE]
  /\ UNCHANGED granted

Withdraw(j) ==
  /\ pending[j]
  /\ pending' = [pending EXCEPT ![j] = FALSE]
  /\ holder' = [holder EXCEPT ![j] = 0]
  /\ accepted' = [accepted EXCEPT ![j] = FALSE]
  /\ UNCHANGED <<granted, receipt, answer>>

(* A restart forgets everything but the receipts of a durable ledger. *)
Forget ==
  /\ pending' = [j \in Jobs |-> FALSE]
  /\ holder' = [j \in Jobs |-> 0]
  /\ accepted' = [j \in Jobs |-> FALSE]
  /\ receipt' = IF Durable THEN receipt ELSE [j \in Jobs |-> NoReport]
  /\ answer' = [j \in Jobs |-> NoReport]
  /\ UNCHANGED granted

Next ==
  \/ \E j \in Jobs :
       \/ Admit(j) \/ Grant(j) \/ Accept(j) \/ Revoke(j) \/ Withdraw(j)
       \/ \E r \in Reports : Commit(j, r)
  \/ Forget

Spec == Init /\ [][Next]_jobs
=============================================================================
