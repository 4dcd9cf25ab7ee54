--------------------------- MODULE CircuitBreaker ---------------------------
(***************************************************************************)
(* The per-provider circuit breaker of resilience.py (class                *)
(* CircuitBreaker): one record per provider, driven by the outcomes that   *)
(* callers report and by the clock.                                        *)
(*                                                                         *)
(* The code keeps `opened_at` and compares `time_func() - opened_at` with  *)
(* `open_timeout`.  The model keeps that difference instead, as the field  *)
(* `age`, and stops it at OpenTimeout: the code asks nothing of it but     *)
(* whether the timeout is reached, so the clock needs no bound.  A record  *)
(* that `_get_or_create` would make on first use is the Fresh one every    *)
(* provider starts with.                                                   *)
(***************************************************************************)
EXTENDS Integers

CONSTANTS
    Providers,          \* provider names
    FailureThreshold,   \* consecutive failures that open a CLOSED circuit
    SuccessThreshold,   \* successes that close a HALF_OPEN circuit
    OpenTimeout         \* ticks an OPEN circuit waits before HALF_OPEN

ASSUME BreakerAssumption ==
    /\ FailureThreshold \in Nat \ {0}
    /\ SuccessThreshold \in Nat \ {0}
    /\ OpenTimeout \in Nat

VARIABLE circuit        \* [Providers -> CircuitRecord]

States == {"CLOSED", "OPEN", "HALF_OPEN"}

CircuitRecord == [state: States, fail_count: Nat, success_count: Nat,
                  age: 0..OpenTimeout]

Fresh == [state |-> "CLOSED", fail_count |-> 0, success_count |-> 0,
          age |-> OpenTimeout]

TypeOK == circuit \in [Providers -> CircuitRecord]

-----------------------------------------------------------------------------
(* Faulty variants of the definitions below, each with the slip its name   *)
(* says.  No specification uses them: a run that checks a property is      *)
(* shown to notice one of them put in the place of the definition.         *)

CloseKeepsFailures(c)     == [c EXCEPT !.state = "CLOSED", !.success_count = 0]
PolledWithoutClock(c)     == IF c.state = "OPEN" THEN [c EXCEPT !.state = "HALF_OPEN"] ELSE c
PolledWithoutTransition(c) == c

-----------------------------------------------------------------------------
(* `_transition` to each of the three states.  Entering HALF_OPEN keeps    *)
(* both counters, entering OPEN keeps fail_count.                          *)

Close(c)    == [c EXCEPT !.state = "CLOSED", !.fail_count = 0, !.success_count = 0]
Open(c)     == [c EXCEPT !.state = "OPEN", !.age = 0, !.success_count = 0]
HalfOpen(c) == [c EXCEPT !.state = "HALF_OPEN"]

(* The success that brings the count to n closes the circuit at the        *)
(* threshold.                                                              *)
CountSuccess(c, n) ==
    LET counted == [c EXCEPT !.success_count = n]
    IN  IF n >= SuccessThreshold THEN Close(counted) ELSE counted

(* A failure heard while OPEN restarts the timeout. *)
RestartTimeout(c) == [c EXCEPT !.age = 0]

(* The failure that brings a CLOSED circuit to the threshold opens it.     *)
CountFailure(c) ==
    LET counted == [c EXCEPT !.fail_count = @ + 1]
    IN  IF c.fail_count + 1 >= FailureThreshold THEN Open(counted) ELSE counted

AfterFailure(c) ==
    CASE c.state = "CLOSED"    -> CountFailure(c)
      [] c.state = "HALF_OPEN" -> Open(c)
      [] c.state = "OPEN"      -> RestartTimeout(c)

AfterSuccess(c) ==
    CASE c.state = "CLOSED"    -> [c EXCEPT !.fail_count = 0]
      [] c.state = "HALF_OPEN" -> CountSuccess(c, c.success_count + 1)
      [] c.state = "OPEN"      -> CountSuccess(HalfOpen(c), 1)

(* What `get_state` leaves behind: an OPEN circuit whose timeout elapsed   *)
(* moves to HALF_OPEN, and the caller is told the new state.               *)
Polled(c) ==
    IF c.state = "OPEN" /\ c.age >= OpenTimeout THEN HalfOpen(c) ELSE c

Aged(c) == [c EXCEPT !.age = IF @ < OpenTimeout THEN @ + 1 ELSE @]

-----------------------------------------------------------------------------
Init == circuit = [p \in Providers |-> Fresh]

RecordFailure(p) == circuit' = [circuit EXCEPT ![p] = AfterFailure(@)]
RecordSuccess(p) == circuit' = [circuit EXCEPT ![p] = AfterSuccess(@)]
GetState(p)      == circuit' = [circuit EXCEPT ![p] = Polled(@)]

(* `check` raises exactly when the state it polls is OPEN. *)
CheckRaises(p) == Polled(circuit[p]).state = "OPEN"

Tick == circuit' = [p \in Providers |-> Aged(circuit[p])]

Next ==
    \/ \E p \in Providers : RecordFailure(p) \/ RecordSuccess(p) \/ GetState(p)
    \/ Tick

Spec == Init /\ [][Next]_circuit
=============================================================================
