-------------------------- MODULE Scheduler_proofs --------------------------
(***************************************************************************)
(* Proofs about the scheduler, for any tasks, loops, runners and           *)
(* controllers.  Being served is inductive once the types are known: only  *)
(* a loop that sees the scheduler stopped ends, and whoever sets it        *)
(* running is on the way to launch a loop or to raise.                     *)
(***************************************************************************)
EXTENDS Scheduler, TLAPS

Workers == Loops \cup Runners
WorkerStates == [phase: WorkerPhases, held: SUBSET Tasks]
ControlStates == [at: ControlPhases, reset: BOOLEAN]

IInv == TypeOK /\ RunningIsServed

LEMMA HoldingType ==
    ASSUME NEW w \in Workers, NEW tasks \in SUBSET Tasks
    PROVE  /\ Holding(w, tasks) \in WorkerStates
           /\ w \in Loops => Holding(w, tasks).phase \in Alive
  BY DEF Holding, WorkerStates, WorkerPhases, Alive

(* One worker moves to another phase.                                      *)
LEMMA LoopGoesType ==
    ASSUME TypeOK, NEW l \in Loops, NEW phase \in WorkerPhases, LoopGoes(l, phase)
    PROVE  /\ worker' \in [Workers -> WorkerStates]
           /\ worker'[l].phase = phase
           /\ \A k \in Workers : k # l => worker'[k] = worker[k]
  BY DEF TypeOK, LoopGoes, Workers, WorkerStates

(* One controller moves on or returns.                                     *)
LEMMA GoesType ==
    ASSUME TypeOK, NEW c \in Controllers, NEW phase \in ControlPhases, Goes(c, phase)
    PROVE  /\ control' \in [Controllers -> ControlStates]
           /\ control'[c].at = phase
           /\ \A d \in Controllers : d # c => control'[d] = control[d]
  BY DEF TypeOK, Goes, ControlStates

LEMMA ReturnsType ==
    ASSUME TypeOK, NEW c \in Controllers, Returns(c)
    PROVE  /\ control' \in [Controllers -> ControlStates]
           /\ control'[c].at = "idle"
           /\ \A d \in Controllers : d # c => control'[d] = control[d]
  BY DEF TypeOK, Returns, ControlStates, ControlPhases

-----------------------------------------------------------------------------
LEMMA InitIInv == ASSUME SchedulerAssumption, Init PROVE IInv
<1> USE DEF Init
<1>1. added \in 0..MaxTasks /\ registered \subseteq 1..added /\ left \in [Tasks -> 0..Interval]
  BY DEF SchedulerAssumption
<1>2. worker \in [Workers -> WorkerStates]
  BY DEF Workers, WorkerStates, WorkerPhases
<1>3. control \in [Controllers -> ControlStates]
  BY DEF ControlStates, ControlPhases
<1>4. TypeOK
  BY <1>1, <1>2, <1>3 DEF TypeOK, Workers, WorkerStates, ControlStates
<1> QED
  BY <1>4 DEF IInv, RunningIsServed

(* A step of no controller and no loop that is at work.                    *)
LEMMA ServedKept ==
    ASSUME RunningIsServed, UNCHANGED controlVars,
           \A l \in Loops : worker[l].phase \in Alive => worker'[l].phase \in Alive
    PROVE  RunningIsServed'
  BY DEF RunningIsServed, Served, Starting, controlVars

LEMMA TaskStepKeeps ==
    ASSUME SchedulerAssumption, IInv,
           AddTask \/ Tick \/ \E t \in Tasks : RemoveTask(t)
    PROVE  IInv'
<1>1. TypeOK'
  <2>1. CASE AddTask
    BY <2>1 DEF SchedulerAssumption, IInv, TypeOK, AddTask, controlVars, Tasks
  <2>2. CASE Tick
    BY <2>2 DEF SchedulerAssumption, IInv, TypeOK, Tick, controlVars, Tasks
  <2>3. ASSUME NEW t \in Tasks, RemoveTask(t) PROVE TypeOK'
    BY <2>3 DEF IInv, TypeOK, RemoveTask, controlVars, Tasks
  <2> QED
    BY <2>1, <2>2, <2>3
<1>2. UNCHANGED controlVars /\ worker' = worker
  BY DEF AddTask, Tick, RemoveTask
<1> QED
  BY <1>1, <1>2, ServedKept DEF IInv

(* What a worker may be given, and how a task is rescheduled.              *)
LEMMA TaskTypes ==
    ASSUME SchedulerAssumption, TypeOK
    PROVE  /\ registered \in SUBSET Tasks /\ Due \in SUBSET Tasks
           /\ left \in [Tasks -> 0..Interval]
           /\ \A t : [left EXCEPT ![t] = Interval] \in [Tasks -> 0..Interval]
<1>1. left \in [Tasks -> 0..Interval] /\ Interval \in 0..Interval
  BY DEF SchedulerAssumption, TypeOK
<1>2. added \in 0..MaxTasks /\ MaxTasks \in Nat /\ registered \subseteq 1..added
  BY DEF SchedulerAssumption, TypeOK
<1>3. \A n \in 1..added : n \in 1..MaxTasks
  BY <1>2
<1>4. registered \in SUBSET Tasks
  BY <1>2, <1>3 DEF Tasks
<1>5. Due \in SUBSET Tasks
  BY <1>4 DEF Due
<1>6. \A t : [left EXCEPT ![t] = Interval] \in [Tasks -> 0..Interval]
  BY <1>1
<1> QED
  BY <1>1, <1>4, <1>5, <1>6

(* A worker takes or finishes tasks; a loop among them is at work before   *)
(* and after, or was not before.                                           *)
LEMMA HoldingKeeps ==
    ASSUME IInv, UNCHANGED controlVars, UNCHANGED <<added, registered>>,
           left' \in [Tasks -> 0..Interval],
           NEW w \in Workers, NEW tasks \in SUBSET Tasks,
           worker' = [worker EXCEPT ![w] = Holding(w, tasks)]
    PROVE  IInv'
<1>1. Holding(w, tasks) \in WorkerStates /\ (w \in Loops => Holding(w, tasks).phase \in Alive)
  BY HoldingType
<1>2. worker \in [Workers -> WorkerStates]
  BY DEF IInv, TypeOK, Workers, WorkerStates
<1>3. worker' \in [Workers -> WorkerStates]
  BY <1>1, <1>2
<1>4. TypeOK'
  BY <1>3 DEF IInv, TypeOK, controlVars, Workers, WorkerStates
<1>5. \A l \in Loops : worker[l].phase \in Alive => worker'[l].phase \in Alive
  BY <1>1, <1>2 DEF Workers
<1> QED
  BY <1>4, <1>5, ServedKept DEF IInv

LEMMA RunnerKeeps ==
    ASSUME SchedulerAssumption, IInv, NEW r \in Runners, RunDue(r) \/ RunAll(r)
    PROVE  IInv'
<1>1. registered \in SUBSET Tasks /\ Due \in SUBSET Tasks /\ left \in [Tasks -> 0..Interval]
  BY TaskTypes DEF IInv
<1>2. /\ UNCHANGED controlVars /\ UNCHANGED <<added, registered>> /\ left' = left
      /\ \E tasks \in SUBSET Tasks : worker' = [worker EXCEPT ![r] = Holding(r, tasks)]
  BY <1>1 DEF RunDue, RunAll, taskVars
<1> QED
  BY <1>1, <1>2, HoldingKeeps DEF Workers

LEMMA FinishKeeps ==
    ASSUME SchedulerAssumption, IInv, NEW w \in Workers, Finish(w) PROVE IInv'
<1> DEFINE t == Min(worker[w].held)
<1>1. worker[w] \in WorkerStates
  BY DEF IInv, TypeOK, Workers, WorkerStates
<1>2. worker[w].held \ {t} \in SUBSET Tasks
  BY <1>1 DEF WorkerStates
<1>3. left' \in [Tasks -> 0..Interval]
  BY TaskTypes DEF Finish, IInv
<1>4. worker' = [worker EXCEPT ![w] = Holding(w, worker[w].held \ {t})]
  BY DEF Finish
<1>5. UNCHANGED controlVars /\ UNCHANGED <<added, registered>>
  BY DEF Finish
<1> HIDE DEF t
<1> QED
  BY <1>2, <1>3, <1>4, <1>5, HoldingKeeps

LEMMA LoopKeeps ==
    ASSUME SchedulerAssumption, IInv, NEW l \in Loops, LoopStep(l) PROVE IInv'
<1>1. ASSUME Test(l) PROVE IInv'
  <2> DEFINE phase == IF running THEN "taking" ELSE "off"
  <2>1. phase \in WorkerPhases /\ LoopGoes(l, phase)
    BY <1>1 DEF Test, WorkerPhases, Alive
  <2> HIDE DEF phase
  <2>2. worker' \in [Workers -> WorkerStates] /\ worker'[l].phase = phase
        /\ \A k \in Workers : k # l => worker'[k] = worker[k]
    BY <2>1, LoopGoesType DEF IInv
  <2>3. TypeOK'
    BY <1>1, <2>2 DEF IInv, TypeOK, Test, taskVars, controlVars, Workers, WorkerStates
  <2>4. CASE running
    BY <1>1, <2>2, <2>3, <2>4, ServedKept DEF IInv, Test, phase, Alive, Workers
  <2>5. CASE ~running
    BY <1>1, <2>3, <2>5 DEF IInv, Test, controlVars, RunningIsServed
  <2> QED
    BY <2>4, <2>5
<1>2. ASSUME LoopRunDue(l) PROVE IInv'
  <2>1. Due \in SUBSET Tasks /\ left \in [Tasks -> 0..Interval]
    BY TaskTypes DEF IInv
  <2>2. /\ UNCHANGED controlVars /\ UNCHANGED <<added, registered>> /\ left' = left
        /\ worker' = [worker EXCEPT ![l] = Holding(l, Due)]
    BY <1>2 DEF LoopRunDue, taskVars
  <2> QED
    BY <2>1, <2>2, HoldingKeeps DEF Workers
<1>3. ASSUME Wake(l) PROVE IInv'
  <2>1. worker' \in [Workers -> WorkerStates] /\ worker'[l].phase = "testing"
        /\ \A k \in Workers : k # l => worker'[k] = worker[k]
    BY <1>3, LoopGoesType DEF IInv, Wake, WorkerPhases, Alive
  <2>2. TypeOK'
    BY <1>3, <2>1 DEF IInv, TypeOK, Wake, taskVars, controlVars, Workers, WorkerStates
  <2> QED
    BY <1>3, <2>1, <2>2, ServedKept DEF IInv, Wake, Alive, Workers
<1> QED
  BY <1>1, <1>2, <1>3 DEF LoopStep

-----------------------------------------------------------------------------
(* A controller that moves between phases in which it is not starting.     *)
LEMMA OtherStartersStay ==
    ASSUME NEW c \in Controllers, control[c].at \notin {"making", "launching"},
           \A d \in Controllers : d # c => control'[d] = control[d]
    PROVE  Starting => Starting'
  BY DEF Starting

(* The controllers' phases after a step of one of them.                    *)
ControlMoved(c) ==
    /\ control' \in [Controllers -> ControlStates]
    /\ \A d \in Controllers : d # c => control'[d] = control[d]

LEMMA ControlTypes ==
    ASSUME TypeOK, NEW c \in Controllers,
           \/ \E phase \in ControlPhases : Goes(c, phase)
           \/ Returns(c)
    PROVE  ControlMoved(c)
  BY GoesType, ReturnsType DEF ControlMoved

(* start ... *)
LEMMA StartKeeps ==
    ASSUME IInv, NEW c \in Controllers,
           StartCalled(c) \/ SetRunning(c) \/ (\E l \in Loops : MakeThread(c, l)) \/ Launch(c)
    PROVE  IInv'
<1>1. ASSUME StartCalled(c) PROVE IInv'
  <2>1. ControlMoved(c)
    BY <1>1, ControlTypes DEF IInv, StartCalled, ControlPhases
  <2>2. TypeOK'
    BY <1>1, <2>1 DEF IInv, TypeOK, StartCalled, taskVars, ControlMoved, ControlStates
  <2> QED
    BY <1>1, <2>2 DEF IInv, StartCalled, RunningIsServed
<1>2. ASSUME SetRunning(c) PROVE IInv'
  <2>1. ControlMoved(c) /\ control'[c].at = "making"
    BY <1>2, ControlTypes, GoesType DEF IInv, SetRunning, ControlPhases
  <2>2. TypeOK'
    BY <1>2, <2>1 DEF IInv, TypeOK, SetRunning, taskVars, ControlMoved, ControlStates
  <2> QED
    BY <2>1, <2>2 DEF IInv, RunningIsServed, Starting
<1>3. ASSUME NEW l \in Loops, MakeThread(c, l) PROVE IInv'
  <2>1. ControlMoved(c) /\ control'[c].at = "launching"
    BY <1>3, ControlTypes, GoesType DEF IInv, MakeThread, ControlPhases
  <2>2. worker' \in [Workers -> WorkerStates]
    BY <1>3, LoopGoesType DEF IInv, MakeThread, WorkerPhases
  <2>3. TypeOK'
    BY <1>3, <2>1, <2>2
    DEF IInv, TypeOK, MakeThread, taskVars, ControlMoved, ControlStates, Workers, WorkerStates
  <2> QED
    BY <2>1, <2>3 DEF IInv, RunningIsServed, Starting
<1>4. ASSUME Launch(c) PROVE IInv'
  <2> DEFINE ready == thread # None /\ worker[thread].phase = "made"
  <2>1. ControlMoved(c)
    BY <1>4, ControlTypes DEF IInv, Launch
  <2>2. worker \in [Workers -> WorkerStates] /\ (ready => thread \in Loops)
    BY DEF IInv, TypeOK, Workers, WorkerStates
  <2>3. worker' = IF ready THEN [worker EXCEPT ![thread].phase = "testing"] ELSE worker
    BY <1>4 DEF Launch
  <2>4. /\ worker' \in [Workers -> WorkerStates]
        /\ ready => worker'[thread].phase = "testing"
    BY <2>2, <2>3 DEF Workers, WorkerStates, WorkerPhases, Alive
  <2>5. raised' \in BOOLEAN /\ (~ready => raised')
    BY <1>4 DEF Launch
  <2>6. TypeOK'
    BY <1>4, <2>1, <2>4, <2>5
    DEF IInv, TypeOK, Launch, taskVars, ControlMoved, ControlStates, Workers, WorkerStates
  <2>7. CASE ready
    BY <2>2, <2>4, <2>6, <2>7 DEF IInv, RunningIsServed, Served, Alive
  <2>8. CASE ~ready
    BY <2>5, <2>6, <2>8 DEF IInv, RunningIsServed
  <2> QED
    BY <2>7, <2>8
<1> QED
  BY <1>1, <1>2, <1>3, <1>4

(* ... and stop.  Setting _running to False is the only step of it that    *)
(* could matter, and what it does is to end the need for a loop.           *)
LEMMA StopKeeps ==
    ASSUME IInv, NEW c \in Controllers,
           \/ \E reset \in BOOLEAN : StopCalled(c, reset)
           \/ CheckThread(c) \/ JoinThread(c) \/ ClearThread(c) \/ EmptyTasks(c)
    PROVE  IInv'
<1>1. ASSUME NEW reset \in BOOLEAN, StopCalled(c, reset) PROVE IInv'
  <2>1. control' \in [Controllers -> ControlStates]
    BY <1>1 DEF IInv, TypeOK, StopCalled, ControlStates, ControlPhases
  <2>2. TypeOK'
    BY <1>1, <2>1 DEF IInv, TypeOK, StopCalled, taskVars, ControlStates
  <2> QED
    BY <1>1, <2>2 DEF IInv, StopCalled, RunningIsServed
<1>2. ASSUME CheckThread(c) \/ JoinThread(c) \/ ClearThread(c) \/ EmptyTasks(c) PROVE IInv'
  <2>1. ControlMoved(c) /\ control[c].at \notin {"making", "launching"}
    BY <1>2, ControlTypes
    DEF IInv, CheckThread, JoinThread, ClearThread, EmptyTasks, ControlPhases
  <2>2. /\ added' = added /\ left' = left /\ worker' = worker /\ running' = running /\ raised' = raised
        /\ registered' \in {registered, {}} /\ thread' \in {thread, None}
    BY <1>2 DEF CheckThread, JoinThread, ClearThread, EmptyTasks, taskVars
  <2>3. TypeOK'
    BY <2>1, <2>2 DEF IInv, TypeOK, ControlMoved, ControlStates
  <2>4. Starting => Starting'
    BY <2>1, OtherStartersStay DEF ControlMoved
  <2> QED
    BY <2>2, <2>3, <2>4 DEF IInv, RunningIsServed, Served
<1> QED
  BY <1>1, <1>2

-----------------------------------------------------------------------------
LEMMA NextIInv == ASSUME SchedulerAssumption, IInv, [Next]_vars PROVE IInv'
<1>1. CASE Next
  BY <1>1, TaskStepKeeps, RunnerKeeps, FinishKeeps, LoopKeeps, StartKeeps, StopKeeps
  DEF Next, ControlStep, Workers
<1>2. CASE UNCHANGED vars
  BY <1>2 DEF IInv, TypeOK, RunningIsServed, Served, Starting, vars
<1> QED
  BY <1>1, <1>2

(* The types, and that a running scheduler is served (start, _run_loop).   *)
THEOREM IInvAlways == Spec => []IInv
<1>1. SchedulerAssumption /\ Init => IInv
  BY InitIInv
<1>2. SchedulerAssumption /\ IInv /\ [Next]_vars => IInv'
  BY NextIInv
<1> QED
  BY <1>1, <1>2, SchedulerAssumption, PTL DEF Spec

(* Tasks, threads and controllers have their types, for any number of each. *)
THEOREM SchedulerTypeCorrect == Spec => []TypeOK
  BY IInvAlways, PTL DEF IInv

(* However many threads start, stop and reset the scheduler at the same    *)
(* time, it is never left running with no loop, none on the way and        *)
(* nobody told (start, stop, _run_loop).                                   *)
THEOREM RunningServed == Spec => []RunningIsServed
  BY IInvAlways, PTL DEF IInv
=============================================================================
