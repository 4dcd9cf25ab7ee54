----------------------------- MODULE AgentRuns -----------------------------
(***************************************************************************)
(* Checkpointed agent runs of control_plane.py: callers create a run,      *)
(* complete its steps, ask for approval of a step, decide such a request   *)
(* and resume the run, each on an SQLite connection of its own.            *)
(*                                                                         *)
(* The connection commits a SELECT by itself and opens a transaction only  *)
(* at the first write, so `decide_agent_approval` and `resume_agent_run`   *)
(* read in one step and write in another; the writes of one call are one   *)
(* transaction.  `op` holds what a caller read and has not acted on yet.   *)
(* The ids and the outputs of checkpoints are left out.                    *)
(***************************************************************************)
EXTENDS Integers

CONSTANTS
    Workers,    \* threads that serve calls, one call at a time
    Users,      \* names that requesters and reviewers give
    Steps,      \* step names
    Nobody      \* NULL in the requester and reviewer columns

ASSUME AgentAssumption == Nobody \notin Users

VARIABLES
    run,            \* the run: its steps and its state
    checkpoint,     \* [Steps -> the row of (run, step), or NoRow]
    op              \* [Workers -> the call in progress]

storeVars == <<run, checkpoint>>
vars == <<run, checkpoint, op>>

RunStates == {"ABSENT", "RUNNING", "WAITING_APPROVAL", "PAUSED", "COMPLETED", "FAILED"}
DoneStates == {"COMPLETED", "APPROVED"}
DecidedStates == {"APPROVED", "REJECTED"}
CheckpointStates == {"NONE", "WAITING_APPROVAL"} \cup DoneStates \cup DecidedStates

Row == [state: CheckpointStates, requester: Users \cup {Nobody},
        reviewer: Users \cup {Nobody}]
NoRow == [state |-> "NONE", requester |-> Nobody, reviewer |-> Nobody]

Idle == [call |-> "none"]
Calls == {Idle}
         \cup [call: {"decide"}, step: Steps, reviewer: Users, verdict: DecidedStates]
         \cup [call: {"resume"}, remaining: SUBSET Steps]

TypeOK ==
    /\ run \in [state: RunStates, steps: SUBSET Steps]
    /\ checkpoint \in [Steps -> Row]
    /\ op \in [Workers -> Calls]

Exists == run.state # "ABSENT"
Done(s) == checkpoint[s].state \in DoneStates
Remaining == {s \in run.steps : ~Done(s)}

-----------------------------------------------------------------------------
(* Faulty variants, each with the slip its name says.  No specification    *)
(* uses them: a run that checks a property is shown to notice one of them  *)
(* put in the place of the definition.                                     *)

ReadUncheckedRequester(w, u, s, verdict) ==
    /\ Exists /\ op[w] = Idle
    /\ checkpoint[s].state = "WAITING_APPROVAL"
    /\ op' = [op EXCEPT ![w] = [call |-> "decide", step |-> s, reviewer |-> u, verdict |-> verdict]]
    /\ UNCHANGED storeVars

ResumeSkipsWaiting(w) ==
    /\ Exists /\ op[w] = Idle
    /\ op' = [op EXCEPT ![w] = [call |-> "resume", remaining |->
                 {s \in run.steps : checkpoint[s].state = "NONE"}]]
    /\ UNCHANGED storeVars

ResumeRepeatsApproved(w) ==
    /\ Exists /\ op[w] = Idle
    /\ op' = [op EXCEPT ![w] = [call |-> "resume", remaining |->
                 {s \in run.steps : checkpoint[s].state # "COMPLETED"}]]
    /\ UNCHANGED storeVars

-----------------------------------------------------------------------------
Init ==
    /\ run = [state |-> "ABSENT", steps |-> {}]
    /\ checkpoint = [s \in Steps |-> NoRow]
    /\ op = [w \in Workers |-> Idle]

(* create_agent_run: the id it returns is what the other calls are given,  *)
(* so none of them happens before it.  An empty step list is refused.      *)
CreateRun(steps) ==
    /\ ~Exists /\ steps # {}
    /\ run' = [state |-> "RUNNING", steps |-> steps]
    /\ UNCHANGED <<checkpoint, op>>

(* complete_agent_step: INSERT OR REPLACE, whatever the row was and even   *)
(* for a step the run does not have; the run's state is not touched.       *)
CompleteStep(w, s) ==
    /\ Exists /\ op[w] = Idle
    /\ checkpoint' = [checkpoint EXCEPT ![s] =
                         [state |-> "COMPLETED", requester |-> Nobody, reviewer |-> Nobody]]
    /\ UNCHANGED <<run, op>>

(* request_agent_approval: two writes of one transaction.                  *)
RequestApproval(w, u, s) ==
    /\ Exists /\ op[w] = Idle
    /\ checkpoint' = [checkpoint EXCEPT ![s] =
                         [state |-> "WAITING_APPROVAL", requester |-> u, reviewer |-> Nobody]]
    /\ run' = [run EXCEPT !.state = "WAITING_APPROVAL"]
    /\ UNCHANGED op

(* decide_agent_approval up to its checks, which raise unless the step is  *)
(* waiting and was requested by somebody else.                             *)
ReadApproval(w, u, s, verdict) ==
    /\ Exists /\ op[w] = Idle
    /\ checkpoint[s].state = "WAITING_APPROVAL"
    /\ checkpoint[s].requester # u
    /\ op' = [op EXCEPT ![w] = [call |-> "decide", step |-> s, reviewer |-> u, verdict |-> verdict]]
    /\ UNCHANGED storeVars

(* ... and its transaction, which looks at nothing again.                  *)
WriteVerdict(w) ==
    /\ op[w].call = "decide"
    /\ checkpoint' = [checkpoint EXCEPT ![op[w].step].state = op[w].verdict,
                                        ![op[w].step].reviewer = op[w].reviewer]
    /\ run' = [run EXCEPT !.state = IF op[w].verdict = "APPROVED" THEN "PAUSED" ELSE "FAILED"]
    /\ op' = [op EXCEPT ![w] = Idle]

(* resume_agent_run: its reads (the step list never changes) and its       *)
(* write; it resumes a run in any state.                                   *)
ReadProgress(w) ==
    /\ Exists /\ op[w] = Idle
    /\ op' = [op EXCEPT ![w] = [call |-> "resume", remaining |-> Remaining]]
    /\ UNCHANGED storeVars

WriteResumed(w) ==
    /\ op[w].call = "resume"
    /\ run' = [run EXCEPT !.state = IF op[w].remaining = {} THEN "COMPLETED" ELSE "RUNNING"]
    /\ op' = [op EXCEPT ![w] = Idle]
    /\ UNCHANGED checkpoint

(* The write finds the database locked for too long, or the process ends:  *)
(* the transaction is rolled back and what was read is forgotten.          *)
Abort(w) ==
    /\ op[w] # Idle
    /\ op' = [op EXCEPT ![w] = Idle]
    /\ UNCHANGED storeVars

Next ==
    \/ \E steps \in SUBSET Steps : CreateRun(steps)
    \/ \E w \in Workers :
          \/ \E s \in Steps : CompleteStep(w, s)
          \/ \E u \in Users, s \in Steps :
                \/ RequestApproval(w, u, s)
                \/ \E verdict \in DecidedStates : ReadApproval(w, u, s, verdict)
          \/ WriteVerdict(w) \/ ReadProgress(w) \/ WriteResumed(w) \/ Abort(w)

Spec == Init /\ [][Next]_vars

-----------------------------------------------------------------------------
(* A decision carries the name of its reviewer, and only a decision does:  *)
(* a row that was asked for, or completed, again after a verdict is a new  *)
(* one (decide_agent_approval, INSERT OR REPLACE).                         *)
ReviewerIffDecided ==
    \A s \in Steps : checkpoint[s].reviewer # Nobody
                        <=> checkpoint[s].state \in DecidedStates

(* What docs/control-plane.md and api-reference.md say: the requester of a *)
(* step never decides it.                                                  *)
NoSelfApproval ==
    \A s \in Steps : checkpoint[s].state \in DecidedStates =>
                        checkpoint[s].requester # checkpoint[s].reviewer
=============================================================================
