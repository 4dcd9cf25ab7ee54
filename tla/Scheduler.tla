----------------------------- MODULE Scheduler -----------------------------
(***************************************************************************)
(* The Scheduler of scheduled_scanning.py: tasks that become due, threads  *)
(* that run them (background loops, and callers of run_due and run_all),   *)
(* and controllers that start, stop and reset the scheduler.               *)
(*                                                                         *)
(* The tasks are behind a lock, which is released while a callback runs.   *)
(* `_running` and `_thread` are not: start and stop are modelled read by   *)
(* read and write by write, so that they interleave with each other and    *)
(* with the loops.                                                         *)
(*                                                                         *)
(* A task is a number, given when add_task makes its record: an id that is *)
(* removed and added again is a new task.  Instead of next_run the model   *)
(* keeps the ticks that are left until then.  All tasks have one interval. *)
(* Results, and which callbacks fail, are left out: a failed one is        *)
(* rescheduled like any other.                                             *)
(***************************************************************************)
EXTENDS Integers, FiniteSets, FiniteSetsExt

CONSTANTS
    MaxTasks,       \* bound: tasks ever added
    Interval,       \* ticks between two runs of a task
    Loops,          \* bound: background threads that exist at a time
    Runners,        \* threads that call run_due or run_all themselves
    Controllers,    \* threads that call start, stop and reset
    None            \* no thread

ASSUME SchedulerAssumption ==
    /\ MaxTasks \in Nat /\ Interval \in Nat \ {0}
    /\ Loops \cap Runners = {} /\ None \notin Loops
    /\ IsFiniteSet(Loops) /\ IsFiniteSet(Controllers)

VARIABLES
    added,          \* tasks 1..added have been made
    registered,     \* the ones in _tasks
    left,           \* [1..MaxTasks -> ticks until the task is due]
    worker,         \* [Loops \cup Runners -> what the thread is doing]
    running,        \* _running
    thread,         \* _thread
    control,        \* [Controllers -> the start, stop or reset in progress]
    raised          \* history: a start has raised since the last stop

taskVars == <<added, registered, left>>
controlVars == <<running, thread, control, raised>>
vars == <<added, registered, left, worker, running, thread, control, raised>>

Tasks == 1..MaxTasks
Alive == {"testing", "taking", "calling", "sleeping"}
WorkerPhases == {"off", "made"} \cup Alive
ControlPhases == {"idle", "starting", "making", "launching",
                  "stopping", "joining", "clearing", "emptying"}

TypeOK ==
    /\ added \in 0..MaxTasks /\ registered \subseteq 1..added
    /\ left \in [Tasks -> 0..Interval]
    /\ worker \in [Loops \cup Runners -> [phase: WorkerPhases, held: SUBSET Tasks]]
    /\ running \in BOOLEAN /\ raised \in BOOLEAN
    /\ thread \in Loops \cup {None}
    /\ control \in [Controllers -> [at: ControlPhases, reset: BOOLEAN]]

-----------------------------------------------------------------------------
(* The next phase of a worker that holds the given tasks; it calls them in *)
(* the order in which they were added.                                     *)
Holding(w, tasks) ==
    [phase |-> IF tasks # {} THEN "calling" ELSE IF w \in Loops THEN "sleeping" ELSE "off",
     held |-> tasks]

Due == {t \in registered : left[t] = 0}

LoopGoes(l, phase) == worker' = [worker EXCEPT ![l].phase = phase]
Goes(c, phase) == control' = [control EXCEPT ![c].at = phase]
Returns(c) == control' = [control EXCEPT ![c] = [at |-> "idle", reset |-> FALSE]]

(* A thread object that nobody refers to any more, or not yet.             *)
Free == {l \in Loops : worker[l].phase \in {"off", "made"} /\ l # thread}
Reserved == {c \in Controllers : control[c].at \in {"starting", "making"}}

-----------------------------------------------------------------------------
(* Faulty variants, each with the slip its name says.  No specification    *)
(* uses them: a run that checks a property is shown to notice one of them  *)
(* put in the place of the definition.                                     *)

FinishUnscheduled(w) ==
    /\ worker[w].phase = "calling"
    /\ worker' = [worker EXCEPT ![w] = Holding(w, @.held \ {Min(@.held)})]
    /\ UNCHANGED <<taskVars, controlVars>>

WakeUntested(l) ==
    /\ worker[l].phase = "sleeping"
    /\ LoopGoes(l, "taking")
    /\ UNCHANGED <<taskVars, controlVars>>

LaunchIfThere(c) ==
    /\ control[c].at = "launching"
    /\ worker' = IF thread # None /\ worker[thread].phase = "made"
                 THEN [worker EXCEPT ![thread].phase = "testing"] ELSE worker
    /\ Returns(c)
    /\ UNCHANGED <<taskVars, running, thread, raised>>

-----------------------------------------------------------------------------
Init ==
    /\ added = 0 /\ registered = {}
    /\ left = [t \in Tasks |-> Interval]
    /\ worker = [w \in Loops \cup Runners |-> [phase |-> "off", held |-> {}]]
    /\ running = FALSE /\ thread = None /\ raised = FALSE
    /\ control = [c \in Controllers |-> [at |-> "idle", reset |-> FALSE]]

(* add_task of an id that is free (it raises otherwise), and remove_task.  *)
AddTask ==
    /\ added < MaxTasks
    /\ added' = added + 1
    /\ registered' = registered \cup {added'}
    /\ UNCHANGED <<left, worker, controlVars>>

RemoveTask(t) ==
    /\ t \in registered
    /\ registered' = registered \ {t}
    /\ UNCHANGED <<added, left, worker, controlVars>>

Tick ==
    /\ left' = [t \in Tasks |-> IF t \in registered /\ left[t] > 0
                                THEN left[t] - 1 ELSE left[t]]
    /\ UNCHANGED <<added, registered, worker, controlVars>>

-----------------------------------------------------------------------------
(* run_due and run_all take what they are going to run under the lock ...  *)
RunDue(r) ==
    /\ worker[r].phase = "off"
    /\ worker' = [worker EXCEPT ![r] = Holding(r, Due)]
    /\ UNCHANGED <<taskVars, controlVars>>

RunAll(r) ==
    /\ worker[r].phase = "off"
    /\ worker' = [worker EXCEPT ![r] = Holding(r, registered)]
    /\ UNCHANGED <<taskVars, controlVars>>

(* ... and call one after the other without it.  When a callback is over   *)
(* its task is rescheduled, removed or not.                                *)
Finish(w) ==
    LET t == Min(worker[w].held) IN
    /\ worker[w].phase = "calling"
    /\ left' = [left EXCEPT ![t] = Interval]
    /\ worker' = [worker EXCEPT ![w] = Holding(w, @.held \ {t})]
    /\ UNCHANGED <<added, registered, controlVars>>

(* _run_loop: test _running, run_due, sleep.                               *)
Test(l) ==
    /\ worker[l].phase = "testing"
    /\ LoopGoes(l, IF running THEN "taking" ELSE "off")
    /\ UNCHANGED <<taskVars, controlVars>>

LoopRunDue(l) ==
    /\ worker[l].phase = "taking"
    /\ worker' = [worker EXCEPT ![l] = Holding(l, Due)]
    /\ UNCHANGED <<taskVars, controlVars>>

Wake(l) ==
    /\ worker[l].phase = "sleeping"
    /\ LoopGoes(l, "testing")
    /\ UNCHANGED <<taskVars, controlVars>>

-----------------------------------------------------------------------------
(* start: returns if `_running`; else sets it, makes a thread and starts   *)
(* what is in `_thread` by then.                                           *)
StartCalled(c) ==
    /\ control[c].at = "idle" /\ ~running
    /\ Cardinality(Free) > Cardinality(Reserved)
    /\ Goes(c, "starting")
    /\ UNCHANGED <<taskVars, worker, running, thread, raised>>

SetRunning(c) ==
    /\ control[c].at = "starting"
    /\ running' = TRUE
    /\ Goes(c, "making")
    /\ UNCHANGED <<taskVars, worker, thread, raised>>

MakeThread(c, l) ==
    /\ control[c].at = "making" /\ l \in Free
    /\ thread' = l
    /\ LoopGoes(l, "made")
    /\ Goes(c, "launching")
    /\ UNCHANGED <<taskVars, running, raised>>

(* Another stop may have cleared `_thread`, and another start may have     *)
(* started what this one finds there: both raise.                          *)
Launch(c) ==
    LET ready == thread # None /\ worker[thread].phase = "made" IN
    /\ control[c].at = "launching"
    /\ worker' = IF ready THEN [worker EXCEPT ![thread].phase = "testing"] ELSE worker
    /\ raised' = (raised \/ ~ready)
    /\ Returns(c)
    /\ UNCHANGED <<taskVars, running, thread>>

(* stop, and reset, which calls it first.                                  *)
StopCalled(c, reset) ==
    /\ control[c].at = "idle"
    /\ running' = FALSE /\ raised' = FALSE
    /\ control' = [control EXCEPT ![c] = [at |-> "stopping", reset |-> reset]]
    /\ UNCHANGED <<taskVars, worker, thread>>

CheckThread(c) ==
    /\ control[c].at = "stopping"
    /\ Goes(c, IF thread # None /\ worker[thread].phase \in Alive
               THEN "joining" ELSE "clearing")
    /\ UNCHANGED <<taskVars, worker, running, thread, raised>>

(* `join` ends with the thread or after 5 seconds, whichever comes first,  *)
(* so that the next step waits for nothing.  It raises when it finds no    *)
(* thread, or one that has not been started.                               *)
JoinThread(c) ==
    /\ control[c].at = "joining"
    /\ IF thread = None \/ (thread # None /\ worker[thread].phase = "made")
       THEN Returns(c) ELSE Goes(c, "clearing")
    /\ UNCHANGED <<taskVars, worker, running, thread, raised>>

ClearThread(c) ==
    /\ control[c].at = "clearing"
    /\ thread' = None
    /\ IF control[c].reset THEN Goes(c, "emptying") ELSE Returns(c)
    /\ UNCHANGED <<taskVars, worker, running, raised>>

EmptyTasks(c) ==
    /\ control[c].at = "emptying"
    /\ registered' = {}
    /\ Returns(c)
    /\ UNCHANGED <<added, left, worker, running, thread, raised>>

-----------------------------------------------------------------------------
LoopStep(l) == Test(l) \/ LoopRunDue(l) \/ Wake(l)
ControlStep(c) ==
    \/ SetRunning(c) \/ (\E l \in Loops : MakeThread(c, l)) \/ Launch(c)
    \/ CheckThread(c) \/ JoinThread(c) \/ ClearThread(c) \/ EmptyTasks(c)

Next ==
    \/ AddTask \/ Tick \/ \E t \in Tasks : RemoveTask(t)
    \/ \E r \in Runners : RunDue(r) \/ RunAll(r)
    \/ \E w \in Loops \cup Runners : Finish(w)
    \/ \E l \in Loops : LoopStep(l)
    \/ \E c \in Controllers :
          \/ StartCalled(c) \/ ControlStep(c)
          \/ \E reset \in BOOLEAN : StopCalled(c, reset)

Spec == Init /\ [][Next]_vars

(* Threads run and callbacks come to an end.                               *)
Fairness ==
    /\ \A w \in Loops \cup Runners : WF_vars(Finish(w))
    /\ \A l \in Loops : WF_vars(LoopStep(l))
    /\ \A c \in Controllers : WF_vars(ControlStep(c))

FairSpec == Spec /\ Fairness

-----------------------------------------------------------------------------
(* While the scheduler is running there is a loop to serve it, or a start  *)
(* that is about to launch one: no interleaving of starts and stops, and   *)
(* no loop that ends late, leaves it running with nobody at work and       *)
(* nobody told (start, stop, _run_loop).                                   *)
Served == \E l \in Loops : worker[l].phase \in Alive
Starting == \E c \in Controllers : control[c].at \in {"making", "launching"}

RunningIsServed == running => Served \/ Starting \/ raised

(* After the last stop every loop ends, the ones that stop no longer       *)
(* waited for and the ones started while it was under way included.        *)
StoppedLoopsEnd == <>[]~running => <>[]~Served

(* As long as the scheduler is left running, a task that becomes due is    *)
(* run, or removed: no other task, loop or caller keeps it waiting.        *)
DueTaskRuns ==
    <>[](running /\ ~raised) => \A t \in Tasks : []<>(t \notin Due)
=============================================================================
