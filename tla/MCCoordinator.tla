---------------------------- MODULE MCCoordinator ----------------------------
(* Small instances of Coordinator for TLC. *)
EXTENDS Coordinator

CONSTANTS JobA, JobB, JobC, GraphX, GraphY, GraphZ

MCDigests == {GraphX, GraphY, GraphZ}
(* Device 1 can measure every job, device 2 only JobB. *)
MCCompatible == {<<1, j>> : j \in Jobs} \cup {<<2, JobB>>}
MCOneSlot == [d \in Devices |-> 1]
MCTwoSlots == [d \in Devices |-> 2]
(* A pair that names one digest twice, a pair that shares that digest, and a *)
(* single subject that does not fit beside the second.                       *)
MCNeeds == [j \in Jobs |-> CASE j = JobA -> <<GraphX, GraphX>>
                             [] j = JobB -> <<GraphX, GraphY>>
                             [] j = JobC -> <<GraphZ>>]
MCSize == GraphX :> 1 @@ GraphY :> 2 @@ GraphZ :> 1

(* What the open coordinator's future depends on: of a command channel only  *)
(* how full it is while somebody may still send to it, of a receiver only    *)
(* whether it is alive while somebody may still notice.                      *)
InUse(s) == stream[s] = "registered" \/ \E d \in Devices : session[d] = s
(* A grant matters as long as its lease is held, recoverable or committed. *)
OnRecord(g) == \E j \in Jobs : g.lease \in {lease[j].id, recovery[j].id, receipts[j].lease}
View ==
  <<lockVars, agentVars, jobVars, artifactVars, callerVars, opened, owner,
    stream, issued, {g \in granted : OnRecord(g)},
    [s \in Sessions |-> IF InUse(s) THEN Len(cmds[s]) ELSE 0],
    [s \in Sessions |-> rx[s] /\ (InUse(s) \/ stream[s] = "open")]>>
=============================================================================
