---------------------------- MODULE AgentGuards -----------------------------
(***************************************************************************)
(* The error handling of agent_templates.py: AgentCircuitBreaker, whose    *)
(* operations each hold its lock; AgentRetryPolicy, one object whose       *)
(* retry_count every thread that runs it overwrites, with its dead-letter  *)
(* queue; AgentFallback, which tries its agents in order.                  *)
(***************************************************************************)
EXTENDS Integers, FiniteSets
CONSTANTS Threads,           \* threads that share the policy and the breaker
          FailureThreshold,  \* failure_threshold
          MaxRetries,        \* max_retries
          FallbackAgents,    \* number of agents of a fallback, the primary first
          MaxFailures        \* bound: failures the breaker records
ASSUME GuardAssumption ==
    /\ FailureThreshold \in Nat \ {0} /\ MaxRetries \in Nat /\ FallbackAgents \in Nat \ {0}
    /\ MaxFailures \in Nat

VARIABLES failures, open,     \* the breaker's record of a provider
          openings, probes,   \* history: times it opened, try_probe calls that returned True
          retryCount,         \* AgentRetryPolicy.retry_count
          attempt,            \* run_with_retry of each thread
          calls,              \* history: calls of the agent each run has made
          deadLetters,        \* messages on the dead-letter queue
          turn                \* the agent each thread's fallback is at, 0 for none
breaker == <<failures, open, openings, probes>>
policy == <<retryCount, attempt, calls, deadLetters>>
gvars == <<failures, open, openings, probes, retryCount, attempt, calls, deadLetters, turn>>

GuardTypeOK ==
    /\ failures \in 0..MaxFailures /\ open \in BOOLEAN
    /\ openings \in Nat /\ probes \in Nat
    /\ retryCount \in 0..(MaxRetries + 1)
    /\ attempt \in [Threads -> {"idle", "calling", "sleeping", "failed", "done"}]
    /\ calls \in [Threads -> 0..(MaxRetries + 1)]
    /\ deadLetters \subseteq [by : Threads, retries : 0..(MaxRetries + 1)]
    /\ turn \in [Threads -> 0..FallbackAgents]

GuardInit ==
    /\ failures = 0 /\ open = FALSE /\ openings = 0 /\ probes = 0
    /\ retryCount = 0 /\ deadLetters = {}
    /\ attempt = [t \in Threads |-> "idle"] /\ calls = [t \in Threads |-> 0]
    /\ turn = [t \in Threads |-> 0]

\* Counts on: a probe that closes the circuit leaves the failures, so the next one opens it.
RecordFailure ==
    /\ failures < MaxFailures /\ failures' = failures + 1
    /\ open' = (open \/ failures' >= FailureThreshold)
    /\ openings' = openings + (IF open' /\ ~open THEN 1 ELSE 0)
    /\ UNCHANGED <<probes, policy, turn>>

\* try_probe that returns True closes the circuit.
TryProbe ==
    /\ open /\ open' = FALSE /\ probes' = probes + 1
    /\ UNCHANGED <<failures, openings, policy, turn>>

\* run_with_retry: an attempt of `t` sets retry_count to the attempts before it.
Attempt(t) ==
    /\ attempt[t] \in {"idle", "sleeping"}
    /\ attempt' = [attempt EXCEPT ![t] = "calling"]
    /\ retryCount' = calls[t]
    /\ UNCHANGED <<breaker, calls, deadLetters, turn>>

AttemptSucceeds(t) ==
    /\ attempt[t] = "calling" /\ attempt' = [attempt EXCEPT ![t] = "done"]
    /\ calls' = [calls EXCEPT ![t] = @ + 1]
    /\ UNCHANGED <<breaker, retryCount, deadLetters, turn>>

Exhausted(made) == made > MaxRetries
\* A faulty variant of the definition below; see CircuitBreaker.
AttemptFailsOnceLess(t) ==
    /\ attempt[t] = "calling" /\ calls' = [calls EXCEPT ![t] = @ + 1]
    /\ attempt' = [attempt EXCEPT ![t] = IF calls'[t] >= MaxRetries THEN "failed" ELSE "sleeping"]
    /\ retryCount' = calls'[t]
    /\ UNCHANGED <<breaker, deadLetters, turn>>

AttemptFails(t) ==
    /\ attempt[t] = "calling" /\ calls' = [calls EXCEPT ![t] = @ + 1]
    /\ attempt' = [attempt EXCEPT ![t] = IF Exhausted(calls'[t]) THEN "failed" ELSE "sleeping"]
    /\ retryCount' = calls'[t]
    /\ UNCHANGED <<breaker, deadLetters, turn>>

\* The dead letter tells the retry_count of the object; if the queue's publish raises there
\* is none.  The run then raises its last error.
DeadLetter(t) ==
    /\ attempt[t] = "failed" /\ attempt' = [attempt EXCEPT ![t] = "done"]
    /\ deadLetters' \in {deadLetters, deadLetters \union {[by |-> t, retries |-> retryCount]}}
    /\ UNCHANGED <<breaker, retryCount, calls, turn>>

RunAgain(t) ==
    /\ attempt[t] = "done" /\ attempt' = [attempt EXCEPT ![t] = "idle"]
    /\ calls' = [calls EXCEPT ![t] = 0]
    /\ deadLetters' = {letter \in deadLetters : letter.by # t}
    /\ UNCHANGED <<breaker, retryCount, turn>>

\* AgentFallback.run: the next agent after one that raised; after the last it raises.
Fallback(t) ==
    /\ turn[t] = 0 /\ turn' = [turn EXCEPT ![t] = 1] /\ UNCHANGED <<breaker, policy>>
FallbackRaises(t) ==
    /\ turn[t] # 0 /\ turn' = [turn EXCEPT ![t] = IF @ = FallbackAgents THEN 0 ELSE @ + 1]
    /\ UNCHANGED <<breaker, policy>>
FallbackAnswers(t) ==
    /\ turn[t] # 0 /\ turn' = [turn EXCEPT ![t] = 0] /\ UNCHANGED <<breaker, policy>>

GuardNext ==
    \/ RecordFailure \/ TryProbe
    \/ \E t \in Threads :
          \/ Attempt(t) \/ AttemptSucceeds(t) \/ AttemptFails(t) \/ DeadLetter(t) \/ RunAgain(t)
          \/ Fallback(t) \/ FallbackRaises(t) \/ FallbackAnswers(t)
GuardSpec == GuardInit /\ [][GuardNext]_gvars

\* Of all the threads that ask to probe, one wins for each time the circuit opened, and the
\* circuit is closed from then until a failure opens it again (AgentCircuitBreaker).
OneProbePerOpening == openings = probes + (IF open THEN 1 ELSE 0)

\* A dead letter is one of a run that made all its attempts, though the retries it tells may
\* be those of another thread's run (AgentRetryPolicy.run_with_retry).
DeadAfterAllAttempts ==
    \A letter \in deadLetters :
       /\ calls[letter.by] = MaxRetries + 1 /\ attempt[letter.by] = "done"
       /\ \A other \in deadLetters : other.by = letter.by => other = letter
=============================================================================
