--------------------------- MODULE MCMeasureAgent ---------------------------
(***************************************************************************)
(* An agent process seen from its two sides: the session runtime, to which *)
(* a measure call is a thread that returns, and the compiler backend, to   *)
(* which the threads of this session and of aborted ones are calls.  A     *)
(* behaviour follows one side; the calls outnumber the slots, as they do   *)
(* after a session was aborted.  The runtime has one slot, so that reports *)
(* that were written after their session can lock the agent out, or two,   *)
(* so that two tasks and the loop compete for the event channel.           *)
(***************************************************************************)
EXTENDS MeasureAgent, CompilerBackend

VARIABLE side

TwoSlots == INSTANCE MeasureAgent WITH Slots <- 2

\* A pair, a single state and a pair with the states of the first exchanged.
MCJobOf == ("c1" :> [subjects |-> <<"x", "y">>, parity |-> 0])
           @@ ("c2" :> [subjects |-> <<"y">>, parity |-> 0])
           @@ ("c3" :> [subjects |-> <<"y", "x">>, parity |-> 1])

MCInit == Init /\ BackendInit /\ side \in {"one slot", "two slots", "backend"}

AgentNext ==
  /\ \/ side = "one slot" /\ Next
     \/ side = "two slots" /\ TwoSlots!Next
  /\ UNCHANGED <<backendVars, side>>
MeasureNext == side = "backend" /\ BackendNext /\ UNCHANGED <<vars, side>>
MCNext == AgentNext \/ MeasureNext

\* Every call is a thread of its own.  On either side the actions of the other
\* one are disabled for good, so the fairness of both can be asked for; that
\* of the runtime does not depend on the number of slots.
CallsRun == \A c \in Calls : WF_backendVars(side = "backend" /\ CallStep(c))

MCSpec == MCInit /\ [][MCNext]_<<vars, backendVars, side>> /\ Fairness /\ CallsRun

\* The runtime's reports are accounted for, whichever session or thread left
\* them (see MeasureAgent).
RuntimeSound ==
  /\ TypeOK
  /\ side = "one slot" => ReportsAccounted
  /\ side = "two slots" => TwoSlots!ReportsAccounted

\* The backend's slots, retained states and samples are sound (see
\* CompilerBackend).
BackendSound == SlotsSound /\ SamplesFair

\* CallsReturn, of the behaviours in which the backend is at work.
BackendReturns == side = "backend" => CallsReturn

\* Nothing hangs on either side: a lease gives its slot back and a measure call
\* returns.
NothingHangs == LeaseFinishes /\ BackendReturns
=============================================================================
