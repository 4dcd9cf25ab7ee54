-------------------------- MODULE AgentRunsHistory --------------------------
(***************************************************************************)
(* Agent runs beside a record of what was committed: who ever asked for a  *)
(* step's approval, and whether all steps of the run were ever done at     *)
(* once.  The calls overlap, so the database alone no longer tells.        *)
(***************************************************************************)
EXTENDS AgentRuns

VARIABLES
    asked,      \* [Steps -> the users who asked for approval of the step]
    wasDone     \* at some moment every step of the run was done

hvars == <<run, checkpoint, op, asked, wasDone>>

AllDone == Exists /\ Remaining = {}

HInit == Init /\ asked = [s \in Steps |-> {}] /\ wasDone = FALSE

Note == wasDone' = (wasDone \/ AllDone')

HCreateRun(steps) == CreateRun(steps) /\ Note /\ UNCHANGED asked
HCompleteStep(w, s) == CompleteStep(w, s) /\ Note /\ UNCHANGED asked
HRequestApproval(w, u, s) ==
    RequestApproval(w, u, s) /\ Note /\ asked' = [asked EXCEPT ![s] = @ \cup {u}]
HReadApproval(w, u, s, verdict) ==
    ReadApproval(w, u, s, verdict) /\ Note /\ UNCHANGED asked
HWriteVerdict(w) == WriteVerdict(w) /\ Note /\ UNCHANGED asked
HReadProgress(w) == ReadProgress(w) /\ Note /\ UNCHANGED asked
HWriteResumed(w) == WriteResumed(w) /\ Note /\ UNCHANGED asked
HAbort(w) == Abort(w) /\ Note /\ UNCHANGED asked

HNext ==
    \/ \E steps \in SUBSET Steps : HCreateRun(steps)
    \/ \E w \in Workers :
          \/ \E s \in Steps : HCompleteStep(w, s)
          \/ \E u \in Users, s \in Steps :
                \/ HRequestApproval(w, u, s)
                \/ \E verdict \in DecidedStates : HReadApproval(w, u, s, verdict)
          \/ HWriteVerdict(w) \/ HReadProgress(w) \/ HWriteResumed(w) \/ HAbort(w)

HSpec == HInit /\ [][HNext]_hvars

(* Every call ends, the run is resumed from time to time, and not every    *)
(* resume finds the database locked.                                       *)
Resuming ==
    /\ \A w \in Workers : WF_hvars(HWriteVerdict(w) \/ HAbort(w))
    /\ \A w \in Workers : SF_hvars(HReadProgress(w)) /\ SF_hvars(HWriteResumed(w))
HFairSpec == HSpec /\ Resuming

HTypeOK == TypeOK /\ asked \in [Steps -> SUBSET Users] /\ wasDone \in BOOLEAN

-----------------------------------------------------------------------------
(* However calls overlap, whoever decided a step is not the only one who   *)
(* ever asked for it: the requester the decider read, not the one the row  *)
(* shows by now, is another user (decide_agent_approval).                  *)
DecidedBySomebodyElse ==
    \A s \in Steps : checkpoint[s].state \in DecidedStates =>
        asked[s] \ {checkpoint[s].reviewer} # {}

(* A run is COMPLETED only if at one moment all its steps were done: the   *)
(* finding of a resume is stale when it is written, never wrong.           *)
CompletedOnceDone == run.state = "COMPLETED" => wasDone

(* When all steps of a run stay done it ends up COMPLETED, whatever a      *)
(* resume that read the checkpoints earlier, or a late verdict, makes of   *)
(* its state in between.                                                   *)
DoneRunCompletes == <>[]AllDone => []<>(run.state = "COMPLETED")
=============================================================================
