------------------------------- MODULE FanOut -------------------------------
(***************************************************************************)
(* The two runs of a thread pool: AgentFanOut.run of agent_templates.py    *)
(* and ParallelChain.run of chain_templates.py.  The pool starts the       *)
(* tasks in order as workers come free; the caller gathers them as they    *)
(* complete, and leaves the `with` only when every task has ended.         *)
(***************************************************************************)
EXTENDS Integers, FiniteSets
CONSTANTS Tasks,       \* number of agents or steps
          MaxWorkers   \* max_workers
ASSUME FanOutAssumption == Tasks \in Nat \ {0} /\ MaxWorkers \in Nat \ {0}

VARIABLES kind,      \* "agents" (AgentFanOut) or "steps" (ParallelChain)
          task,      \* each task
          gathered,  \* tasks whose result the caller has taken
          context,   \* the outputs in ctx.steps, which the chain's steps may read
          saw,       \* history: [task -> the tasks whose output it has read]
          caller     \* "outside", "gathering", "timed out", "returned" or "raised"
fvars == <<kind, task, gathered, context, saw, caller>>

Ids == 1..Tasks
Ended(i) == task[i] \in {"done", "failed"}

FanOutTypeOK ==
    /\ kind \in {"agents", "steps"}
    /\ task \in [Ids -> {"queued", "running", "done", "failed"}]
    /\ gathered \subseteq Ids /\ context \subseteq Ids
    /\ saw \in [Ids -> SUBSET Ids]
    /\ caller \in {"outside", "gathering", "timed out", "returned", "raised"}

FanOutInit ==
    /\ kind \in {"agents", "steps"} /\ task = [i \in Ids |-> "queued"]
    /\ gathered = {} /\ context = {} /\ saw = [i \in Ids |-> {}] /\ caller = "outside"

\* The caller enters run and submits every task.
Submit ==
    /\ caller = "outside" /\ caller' = "gathering"
    /\ UNCHANGED <<kind, task, gathered, context, saw>>

Start(i) ==
    /\ caller # "outside" /\ task[i] = "queued" /\ \A j \in 1..(i - 1) : task[j] # "queued"
    /\ Cardinality({j \in Ids : task[j] = "running"}) < MaxWorkers
    /\ task' = [task EXCEPT ![i] = "running"]
    /\ UNCHANGED <<kind, gathered, context, saw, caller>>

End(i, how) ==
    /\ task[i] = "running" /\ task' = [task EXCEPT ![i] = how]
    /\ UNCHANGED <<kind, gathered, context, saw, caller>>

\* A step reads the context it shares with the caller and the other steps.
Read(i) ==
    /\ kind = "steps" /\ task[i] = "running"
    /\ saw' = [saw EXCEPT ![i] = @ \union context]
    /\ UNCHANGED <<kind, task, gathered, context, caller>>

\* A faulty variant of the definition below; see CircuitBreaker.
GatherEarly(i) ==
    /\ caller = "gathering" /\ task[i] # "queued" /\ i \notin gathered
    /\ gathered' = gathered \union {i}
    /\ context' = IF kind = "steps" /\ task[i] # "failed" THEN context \union {i} ELSE context
    /\ UNCHANGED <<kind, task, saw, caller>>

\* The next completed future.  A task that raised is a result too: None, or a failed step.
Gather(i) ==
    /\ caller = "gathering" /\ Ended(i) /\ i \notin gathered
    /\ gathered' = gathered \union {i}
    /\ context' = IF kind = "steps" /\ task[i] = "done" THEN context \union {i} ELSE context
    /\ UNCHANGED <<kind, task, saw, caller>>

\* as_completed runs out of time (AgentFanOut only); the exception leaves the `with`, which
\* waits for the tasks, the queued ones included.
Timeout ==
    /\ kind = "agents" /\ caller = "gathering" /\ gathered # Ids /\ caller' = "timed out"
    /\ UNCHANGED <<kind, task, gathered, context, saw>>

\* The `with` lets the caller out when every task has ended.
Leave ==
    /\ \A i \in Ids : Ended(i)
    /\ \/ caller = "gathering" /\ gathered = Ids /\ caller' = "returned"
       \/ caller = "timed out" /\ caller' = "raised"
    /\ UNCHANGED <<kind, task, gathered, context, saw>>

FanOutNext ==
    \/ \E i \in Ids : Start(i) \/ Read(i) \/ Gather(i) \/ \E how \in {"done", "failed"} : End(i, how)
    \/ Submit \/ Timeout \/ Leave
FanOutSpec == FanOutInit /\ [][FanOutNext]_fvars

\* The steps of a parallel chain share one context and may find the outputs of others in it,
\* which ones is a matter of luck; but no two of them see each other's, nor any in a ring:
\* there is always an order of the steps in which each has read only from those before it
\* (ParallelChain.run, whose caller alone writes, what has been completed).
SightIsOrdered ==
    \A S \in SUBSET Ids : S # {} => \E i \in S : saw[i] \cap S = {}
=============================================================================
