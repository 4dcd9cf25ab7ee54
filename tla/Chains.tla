------------------------------- MODULE Chains -------------------------------
(***************************************************************************)
(* The sequential chains of chain_templates.py (SequentialChain,           *)
(* ConditionalChain, MapReduceChain, AgentWithToolsChain, HITLStep) and    *)
(* AgentPipeline of agent_templates.py.  Each is a run over sections of    *)
(* steps; they differ in what a step that raises does to the rest of the   *)
(* run and to its status.  A step of a conditional chain may be another    *)
(* one: the outer run waits for it, then takes over its records and,       *)
(* sometimes, its status.                                                  *)
(***************************************************************************)
EXTENDS Integers, SequencesExt
CONSTANTS SectionSteps,  \* steps of each section, chunks, agents
          MaxTries,      \* SequentialChain.max_retries, AgentWithToolsChain.max_iterations
          ExtraGates,    \* additional_gates of a ConditionalChain
          Nests,         \* the places <<section, step>> of a ConditionalChain that hold another
          MaxDepth       \* bounds how deep they nest
ASSUME ChainAssumption ==
    /\ SectionSteps \in Nat \ {0} /\ MaxTries \in Nat \ {0} /\ {ExtraGates, MaxDepth} \subseteq Nat
    /\ Nests \subseteq (Nat \ {0}) \X (Nat \ {0})

Kinds == {"sequential", "conditional", "mapreduce", "tools", "approval", "pipeline"}
Statuses == {"completed", "failed", "denied"}
VARIABLES chain,     \* which of them runs
          section, step, tries,   \* where it is: section 0 is the gate
          records,   \* those of failed steps in its result, see Fail
          status,    \* the status of its result
          outer,     \* the runs that wait for this one, the innermost last
          phase      \* "running", "returned" or "raised"
cvars == <<chain, section, step, tries, records, status, outer, phase>>

(* A failed record: the sections it lies in, one of each run around it, and *)
(* whether the step raised or returned a ChainStep that says "failed".     *)
StepRecord == [within : SUBSET Nat, raised : BOOLEAN]
Fail(raised) == records' = records \cup {[within |-> {section}, raised |-> raised]}

\* A conditional chain: its branch is section 1, its converge steps 2, the rest extra branches.
LastSection == CASE chain = "conditional" -> 2 + ExtraGates
                 [] chain = "mapreduce" -> 2
                 [] OTHER -> 1
StepsOf(s) == CASE chain = "tools" -> MaxTries
                [] chain = "mapreduce" /\ s = 2 -> 1
                [] OTHER -> SectionSteps
At(c) == phase = "running" /\ chain = c
IsChain == chain = "conditional" /\ <<section, step>> \in Nests /\ Len(outer) < MaxDepth
\* At a step that is called, neither a gate nor another chain.
AtStep == phase = "running" /\ section > 0 /\ step > 0 /\ ~IsChain

ChainTypeOK ==
    /\ chain \in Kinds /\ section \in 0..(2 + ExtraGates) /\ tries \in 0..(MaxTries - 1)
    /\ status \in Statuses /\ phase \in {"running", "returned", "raised"}
    /\ records \subseteq StepRecord
    /\ \A i \in DOMAIN outer : outer[i].records \subseteq StepRecord /\ outer[i].status \in Statuses

ChainInit ==
    /\ chain \in Kinds /\ step = 1 /\ tries = 0 /\ records = {} /\ outer = <<>>
    /\ section = (IF chain \in {"conditional", "approval"} THEN 0 ELSE 1)
    /\ status = "completed" /\ phase = "running"

Finish == phase' = "returned" /\ UNCHANGED <<section, step>>
Go(s, k) == section' = s /\ step' = k /\ phase' = "running"
\* What follows section s: a section with a gate of its own starts with that gate, as step 0.
AfterSection(s) ==
    IF s = LastSection THEN Finish
    ELSE Go(s + 1, IF chain = "conditional" /\ s >= 2 THEN 0 ELSE 1)
AfterStep(s, k) == IF k = StepsOf(s) THEN AfterSection(s) ELSE Go(s, k + 1)

\* A step of any chain that returns.  Where what it returns may be a ChainStep, that is the
\* record, whatever its status; only a step that raises counts for the chain's own.
StepReturns(failed) ==
    /\ AtStep
    /\ failed => chain \in {"sequential", "conditional", "approval"}
    /\ IF failed THEN Fail(FALSE) ELSE UNCHANGED records
    /\ AfterStep(section, step) /\ tries' = 0 /\ UNCHANGED <<chain, status, outer>>

\* SequentialChain: a failed step is tried again, then fails the chain.
RetryStep ==
    /\ At("sequential") /\ tries + 1 < MaxTries /\ tries' = tries + 1
    /\ UNCHANGED <<chain, section, step, records, status, outer, phase>>
SequentialFails ==
    /\ At("sequential") /\ tries + 1 = MaxTries
    /\ Fail(TRUE) /\ status' = "failed" /\ Finish /\ UNCHANGED <<chain, tries, outer>>

\* ConditionalChain: a gate that raises fails the chain, an additional one is only recorded.
AtGate == At("conditional") /\ (section = 0 \/ step = 0)
GatePasses ==
    /\ AtGate /\ Go(IF section = 0 THEN 1 ELSE section, 1)
    /\ UNCHANGED <<chain, tries, records, status, outer>>
GateFails ==
    /\ AtGate /\ Fail(TRUE)
    /\ IF section = 0 THEN status' = "failed" /\ Finish ELSE AfterSection(section) /\ UNCHANGED status
    /\ UNCHANGED <<chain, tries, outer>>

\* _run_branch_steps: a step that raises ends its section, and fails the chain unless the
\* section is that of an additional gate.  The sections after it still run.
BranchFails ==
    /\ At("conditional") /\ AtStep /\ Fail(TRUE)
    /\ status' = (IF section <= 2 THEN "failed" ELSE status)
    /\ AfterSection(section) /\ UNCHANGED <<chain, tries, outer>>

\* A step that is a ConditionalChain runs, from its gate and with a result of its own.
Nest ==
    /\ At("conditional") /\ section > 0 /\ step > 0 /\ IsChain
    /\ outer' = Append(outer, [section |-> section, step |-> step, records |-> records, status |-> status])
    /\ section' = 0 /\ step' = 1 /\ records' = {} /\ status' = "completed"
    /\ UNCHANGED <<chain, tries, phase>>

Around(s, rs) == {[r EXCEPT !.within = @ \cup {s}] : r \in rs}

\* A faulty variant of the definition below; see CircuitBreaker.
ResumeByRecords ==
    /\ phase = "returned" /\ outer # <<>>
    /\ LET frame == Last(outer) IN
        /\ records' = frame.records \cup Around(frame.section, records)
        /\ status' = (IF records # {} /\ frame.section <= 2 THEN "failed" ELSE frame.status)
        /\ AfterStep(frame.section, frame.step)
    /\ outer' = Front(outer) /\ UNCHANGED <<chain, tries>>

\* It has returned: the run around it takes over all its records, and a status "failed" as
\* it would that of a step that raises, but goes on with its section.
Resume ==
    /\ phase = "returned" /\ outer # <<>>
    /\ LET frame == Last(outer) IN
        /\ records' = frame.records \cup Around(frame.section, records)
        /\ status' = (IF status = "failed" /\ frame.section <= 2 THEN "failed" ELSE frame.status)
        /\ AfterStep(frame.section, frame.step)
    /\ outer' = Front(outer) /\ UNCHANGED <<chain, tries>>

\* MapReduceChain: map_fn raises out of run, and reduce_fn fails its step only: the chain is
\* completed all the same.
MapRaises ==
    /\ At("mapreduce") /\ section = 1 /\ step = 1 /\ phase' = "raised"
    /\ UNCHANGED <<chain, section, step, tries, records, status, outer>>
ReduceFails ==
    /\ At("mapreduce") /\ section = 2 /\ Fail(TRUE) /\ Finish /\ UNCHANGED <<chain, tries, status, outer>>

\* AgentWithToolsChain: an iteration without a tool call is the answer, one that raises is
\* recorded, and the next follows.
ToolsAnswer == At("tools") /\ Finish /\ UNCHANGED <<chain, tries, records, status, outer>>
ToolsRaise ==
    /\ At("tools") /\ Fail(TRUE) /\ AfterStep(section, step) /\ UNCHANGED <<chain, tries, status, outer>>

\* HITLStep: a channel that denies or raises leads to the steps on_denied.
Approve ==
    /\ At("approval") /\ section = 0 /\ Finish /\ UNCHANGED <<chain, tries, records, status, outer>>
Deny ==
    /\ At("approval") /\ section = 0 /\ status' = "denied"
    /\ AfterSection(section) /\ UNCHANGED <<chain, tries, records, outer>>
DeniedStepFails ==
    /\ At("approval") /\ section = 1 /\ Fail(TRUE) /\ AfterStep(section, step)
    /\ UNCHANGED <<chain, tries, status, outer>>

\* AgentPipeline: an open circuit skips the agent, an agent that raises ends the run.
SkipAgent ==
    /\ At("pipeline") /\ AfterStep(section, step) /\ UNCHANGED <<chain, tries, records, status, outer>>
AgentRaises ==
    /\ At("pipeline") /\ Fail(TRUE) /\ status' = "failed" /\ phase' = "raised"
    /\ UNCHANGED <<chain, section, step, tries, outer>>

ChainNext ==
    \/ \E failed \in BOOLEAN : StepReturns(failed)
    \/ RetryStep \/ SequentialFails
    \/ GatePasses \/ GateFails \/ BranchFails \/ Nest \/ Resume
    \/ MapRaises \/ ReduceFails \/ ToolsAnswer \/ ToolsRaise
    \/ Approve \/ Deny \/ DeniedStepFails \/ SkipAgent \/ AgentRaises
ChainSpec == ChainInit /\ [][ChainNext]_cvars

\* A step or a gate raised, and so did no section around it that nobody asks for its status.
Raised(rs) == \E r \in rs : r.raised /\ r.within \subseteq 0..2
\* A sequential chain, and a conditional one, has failed if and only if its result holds a
\* step or gate that raised and lies, at every depth of nesting, in the first gate, the branch
\* or the converge steps: what runs later never covers it up, and neither a failed additional
\* gate below it nor a step that returns "failed" passes for one.  No other chain ever fails
\* (SequentialChain.run, ConditionalChain.run, _run_branch_steps).
StatusTellsFailure ==
    phase = "returned" =>
        (status = "failed" <=> chain \in {"sequential", "conditional"} /\ Raised(records))
=============================================================================
