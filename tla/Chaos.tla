-------------------------------- MODULE Chaos --------------------------------
(***************************************************************************)
(* chaos_engineering.py: the FaultInjector whose faults the calls of a     *)
(* provider meet until they expire, the ObservabilityHook that keeps the   *)
(* snapshots, and the ExperimentRunner that takes an experiment through    *)
(* its phases.  One thread drives the runner; calls meet faults, and       *)
(* others clear them, between any two of its reads of injection_count,     *)
(* which takes no lock: observe reads it twice for one snapshot, and clean *)
(* once, after it has removed the faults.  Of the snapshots the totals are *)
(* kept, all that the error rate uses.                                     *)
(***************************************************************************)
EXTENDS Integers, Sequences, SequencesExt, FiniteSets
CONSTANTS Scenarios,      \* names of scenarios, of one provider
          Duration,       \* duration_seconds of a scenario, in ticks
          MaxInjections,  \* bound: faults injected
          MaxFaults,      \* bound: faults registered at once
          MaxCounted,     \* bound: errors, and requests, in the snapshots
          MaxTime         \* bound: the clock
ASSUME ChaosAssumption ==
    Duration \in Nat \ {0} /\ {MaxInjections, MaxFaults, MaxCounted, MaxTime} \subseteq Nat

VARIABLES faults,       \* _active_faults
          injections,   \* _injection_count
          totals,       \* of the hook's _snapshots: their error_count and request_count
          scenario,     \* _current_scenario
          stage,        \* _phase
          runner,       \* where its thread is: idle, or inside observe or clean
          errorCount,   \* the error_count that observe has read, until its snapshot is kept
          result,       \* the status of the last clean's result
          clock,        \* ticks passed
          seen,         \* history: injections that the observations since the reset set out from
          missed,       \* history: injections between the two reads of those observations
          interrupted   \* history: the count was cleared between the two reads of one
runVars == <<totals, scenario, stage, runner, errorCount, result>>
histVars == <<seen, missed, interrupted>>
xvars == <<faults, injections, clock, runVars, histVars>>

NoScenario == "none"
Expired(f) == clock - f.start >= Duration
ChaosTypeOK ==
    /\ faults \in Seq([name : Scenarios, start : 0..MaxTime])
    /\ injections \in 0..MaxInjections /\ totals \in [errors : 0..MaxCounted, requests : 0..MaxCounted]
    /\ scenario \in Scenarios \union {NoScenario} /\ clock \in 0..MaxTime
    /\ stage \in {"pending", "preparing", "injecting", "observing", "cleaning", "completed"}
    /\ runner \in {"idle", "observing", "cleaning"} /\ errorCount \in 0..MaxInjections
    /\ result \in {"none", "passed", "failed", "partial"}
    /\ seen \in 0..MaxCounted /\ missed \in 0..MaxCounted /\ interrupted \in BOOLEAN

ChaosInit ==
    /\ faults = <<>> /\ injections = 0 /\ totals = [errors |-> 0, requests |-> 0]
    /\ scenario = NoScenario /\ stage = "pending" /\ runner = "idle" /\ errorCount = 0
    /\ result = "none" /\ clock = 0 /\ seen = 0 /\ missed = 0 /\ interrupted = FALSE

\* inject_fault: the expired faults go; one of the others may hit the call.
Injected == injections < MaxInjections /\ injections' = injections + 1
Call ==
    /\ faults' = SelectSeq(faults, LAMBDA f : ~Expired(f))
    /\ \/ UNCHANGED <<injections, missed>>
       \/ /\ faults' # <<>> /\ Injected
          /\ missed' = IF runner = "observing" /\ ~interrupted THEN missed + 1 ELSE missed
    /\ UNCHANGED <<runVars, clock, seen, interrupted>>

ClearFaults ==
    /\ faults' = <<>> /\ injections' = 0
    /\ interrupted' = (interrupted \/ runner = "observing")
    /\ UNCHANGED <<runVars, clock, seen, missed>>

\* prepare: one that fails its validation has changed the scenario and the phase already.
Prepare(s) ==
    /\ runner = "idle" /\ scenario' = s /\ stage' = "preparing"
    /\ \/ /\ totals' = [errors |-> 0, requests |-> 0]
          /\ seen' = 0 /\ missed' = 0 /\ interrupted' = FALSE
       \/ UNCHANGED <<totals, histVars>>
    /\ UNCHANGED <<faults, injections, runner, errorCount, result, clock>>

\* inject: the fault, and a snapshot without counts.
Inject ==
    /\ runner = "idle" /\ scenario # NoScenario /\ Len(faults) < MaxFaults
    /\ stage' = "injecting" /\ faults' = Append(faults, [name |-> scenario, start |-> clock])
    /\ UNCHANGED <<injections, totals, scenario, runner, errorCount, result, clock, histVars>>

\* observe: the injections of the injector's whole life are read for the errors of a snapshot...
ReadErrors ==
    /\ runner = "idle" /\ scenario # NoScenario
    /\ {totals.errors + MaxInjections, totals.requests + MaxInjections} \subseteq 0..MaxCounted
    /\ stage' = "observing" /\ runner' = "observing" /\ errorCount' = injections
    /\ seen' = seen + injections
    /\ UNCHANGED <<faults, injections, totals, scenario, result, clock, missed, interrupted>>

\* A faulty variant of the definition below; see CircuitBreaker.
CaptureNothing ==
    /\ runner = "observing" /\ runner' = "idle" /\ errorCount' = 0
    /\ UNCHANGED <<faults, injections, totals, scenario, stage, result, clock, histVars>>

\* ... and once more for its requests.
CaptureSnapshot ==
    /\ runner = "observing" /\ runner' = "idle" /\ errorCount' = 0
    /\ totals' = [errors |-> totals.errors + errorCount, requests |-> totals.requests + injections]
    /\ UNCHANGED <<faults, injections, scenario, stage, result, clock, histVars>>

\* get_error_rate is a quotient, or 0 without requests; clean compares it with a half.
ErrorRateAboveHalf == totals.requests # 0 /\ 2 * totals.errors > totals.requests
Outcome == CASE ErrorRateAboveHalf -> "failed"
             [] ~ErrorRateAboveHalf /\ injections = 0 -> "partial"
             [] OTHER -> "passed"

\* clean: the faults of the scenario go...
Unregistered(name) == SelectSeq(faults, LAMBDA f : f.name # name)
Unregister ==
    /\ runner = "idle" /\ scenario # NoScenario
    /\ stage' = "cleaning" /\ runner' = "cleaning" /\ faults' = Unregistered(scenario)
    /\ UNCHANGED <<injections, totals, scenario, errorCount, result, clock, histVars>>
\* ... and the injections, which faults of other scenarios may go on raising, are judged.
Report ==
    /\ runner = "cleaning" /\ runner' = "idle"
    /\ result' = Outcome /\ stage' = "completed" /\ scenario' = NoScenario
    /\ UNCHANGED <<faults, injections, totals, errorCount, clock, histVars>>

ChaosTick == clock < MaxTime /\ clock' = clock + 1
             /\ UNCHANGED <<faults, injections, runVars, histVars>>

ChaosNext ==
    \/ \E s \in Scenarios : Prepare(s)
    \/ Call \/ ClearFaults \/ Inject \/ ReadErrors \/ CaptureSnapshot
    \/ Unregister \/ Report \/ ChaosTick
ChaosSpec == ChaosInit /\ [][ChaosNext]_xvars

\* An experiment that observed injections passes only if calls went on while it looked: between
\* the two reads of its observations came at least as many injections as these observations
\* had found, or the count was cleared.  What no call disturbed makes it fail, even when the
\* injections were those of an experiment before (ExperimentRunner.observe and clean).
PassedMissedWhatItSaw ==
    [][stage = "cleaning" /\ stage' = "completed" /\ result' = "passed" =>
          injections > 0 /\ (interrupted \/ missed >= seen)]_xvars
=============================================================================
