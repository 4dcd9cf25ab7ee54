---------------------------- MODULE FallbackChain ----------------------------
(***************************************************************************)
(* Health-gated fallback of resilience.py: class HealthChecker, and the    *)
(* calls of FallbackChain.execute that share one chain, one health checker *)
(* and one circuit breaker.                                                *)
(*                                                                         *)
(* The chain asks the health checker and then the breaker before it calls  *)
(* a provider, and tells neither of them how the call went: the            *)
(* provider_call it is given does, when it returns.  The breaker has other *)
(* users besides (HNext).  Latencies are left out: DEGRADED gates nothing. *)
(***************************************************************************)
EXTENDS CircuitBreakerHistory, Sequences, SequencesExt

CONSTANTS
    Chain,          \* the providers in the order execute tries them
    Callers,        \* threads in execute
    WindowSize,     \* samples the health checker keeps of a provider
    ErrorDivisor    \* UNHEALTHY above one failure in so many samples

ASSUME ChainAssumption ==
    /\ Chain \in Seq(Providers) /\ Chain # <<>>    \* an empty one fails at once
    /\ WindowSize \in Nat \ {0}
    /\ ErrorDivisor \in Nat \ {0}

VARIABLES
    samples,        \* [Providers -> the last outcomes recorded, newest last]
    caller          \* [Callers -> the call of execute in progress or just over]

fvars == <<circuit, seen, samples, caller>>

Phases == {"idle", "checking", "gating", "calling", "reading", "failed"}

Call == [phase: Phases, at: 1..(Len(Chain) + 1), error: BOOLEAN]

FTypeOK ==
    /\ samples \in [Providers -> SeqOf(BOOLEAN, WindowSize)]
    /\ caller \in [Callers -> Call]

Idle == [phase |-> "idle", at |-> 1, error |-> FALSE]

Provider(c) == Chain[caller[c].at]

(* HealthChecker.check: a provider without samples is healthy. *)
Failures(s) == Cardinality({i \in DOMAIN s : ~s[i]})
Unhealthy(s) == Failures(s) * ErrorDivisor > Len(s)

(* record_sample: a deque that drops its oldest sample when it is full. *)
Sampled(s, ok) ==
    IF Len(s) < WindowSize THEN Append(s, ok) ELSE Append(Tail(s), ok)

(* The step to the next provider; after the last one the call has failed.  *)
Onward(r) ==
    [r EXCEPT !.at = @ + 1, !.phase = IF r.at < Len(Chain) THEN "checking" ELSE "failed"]

-----------------------------------------------------------------------------
(* A faulty variant of the definition below; see CircuitBreaker. *)

CheckHealthAtStart(c) ==
    /\ caller[c].phase = "checking"
    /\ caller' = [caller EXCEPT ![c] =
            IF caller[c].at = 1 /\ Unhealthy(samples[Provider(c)])
            THEN Onward(@) ELSE [@ EXCEPT !.phase = "gating"]]
    /\ UNCHANGED <<circuit, seen, samples>>

-----------------------------------------------------------------------------
FInit ==
    /\ HInit
    /\ samples = [p \in Providers |-> <<>>]
    /\ caller = [c \in Callers |-> Idle]

Execute(c) ==
    /\ caller[c].phase \in {"idle", "failed"}
    /\ caller' = [caller EXCEPT ![c] = [Idle EXCEPT !.phase = "checking"]]
    /\ UNCHANGED <<circuit, seen, samples>>

(* Health gating: an UNHEALTHY provider is passed over.                    *)
CheckHealth(c) ==
    /\ caller[c].phase = "checking"
    /\ caller' = [caller EXCEPT ![c] =
            IF Unhealthy(samples[Provider(c)])
            THEN Onward(@) ELSE [@ EXCEPT !.phase = "gating"]]
    /\ UNCHANGED <<circuit, seen, samples>>

(* Circuit gating: an OPEN circuit is passed over, else the call goes out. *)
CheckCircuit(c) ==
    /\ caller[c].phase = "gating"
    /\ HGetState(Provider(c))
    /\ caller' = [caller EXCEPT ![c] =
            IF CheckRaises(Provider(c)) THEN Onward(@) ELSE [@ EXCEPT !.phase = "calling"]]
    /\ UNCHANGED samples

(* The provider answers or raises what is in `fallback_on`; either way the call reports the outcome *)
(* to the breaker and to the health checker before execute goes on.        *)
CallReturns(c, ok) ==
    /\ caller[c].phase = "calling"
    /\ IF ok THEN HSuccess(Provider(c)) ELSE HFailure(Provider(c))
    /\ samples' = [samples EXCEPT ![Provider(c)] = Sampled(@, ok)]
    /\ caller' = [caller EXCEPT ![c].phase = "reading", ![c].error = ~ok]

(* The provider raises what is not in `fallback_on`: the call reports the  *)
(* failure and the exception leaves execute, whatever providers are left.  *)
CallEscapes(c) ==
    /\ caller[c].phase = "calling"
    /\ HFailure(Provider(c))
    /\ samples' = [samples EXCEPT ![Provider(c)] = Sampled(@, FALSE)]
    /\ caller' = [caller EXCEPT ![c] = Idle]

(* execute polls the circuit once more for its result: it returns the      *)
(* provider that answered, or keeps the state and goes on to the next one. *)
ReadState(c) ==
    /\ caller[c].phase = "reading"
    /\ HGetState(Provider(c))
    /\ caller' = [caller EXCEPT ![c] =
            IF caller[c].error THEN Onward(@) ELSE Idle]
    /\ UNCHANGED samples

FNext ==
    \/ HNext /\ UNCHANGED <<samples, caller>>
    \/ \E c \in Callers :
          \/ Execute(c) \/ CheckHealth(c) \/ CheckCircuit(c) \/ CallEscapes(c) \/ ReadState(c)
          \/ \E ok \in BOOLEAN : CallReturns(c, ok)

FSpec == FInit /\ [][FNext]_fvars

(* The breaker's other users keep polling it and time passes.              *)
FFairSpec ==
    /\ FSpec
    /\ WF_fvars(HTick /\ UNCHANGED <<samples, caller>>)
    /\ \A p \in Providers : WF_fvars(HGetState(p) /\ UNCHANGED <<samples, caller>>)

-----------------------------------------------------------------------------
(* Only calls produce samples and health gating comes before everything    *)
(* else, so a provider found UNHEALTHY can be sampled only by calls that   *)
(* passed their check before: once none of those is left it is given up    *)
(* for good, whatever becomes of it and of its circuit (execute).          *)
Bound(p) == \E c \in Callers :
                caller[c].phase \in {"gating", "calling"} /\ Provider(c) = p

GivenUp(p) == Unhealthy(samples[p]) /\ ~Bound(p)

UnhealthyIsGivenUp ==
    [][\A p \in Providers : GivenUp(p) => GivenUp(p)']_fvars
=============================================================================
