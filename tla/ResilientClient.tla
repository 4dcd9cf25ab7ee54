-------------------------- MODULE ResilientClient --------------------------
(***************************************************************************)
(* ResilientLLMClient of resilience.py: callers run `_execute_with_failover` *)
(* at the same time on one client, sharing its circuit breaker and its     *)
(* response cache.  A caller walks the provider chain; at each provider it *)
(* asks the breaker once, then the cache, then makes up to MaxAttempts     *)
(* calls, and moves on when they are used up or one of them timed out.     *)
(*                                                                         *)
(* Every use of a shared object is a step of its own.  All callers ask the *)
(* same question, so the cache holds at most one entry per provider, kept  *)
(* as its age.  The response's text, its retry count and the latency are   *)
(* left out, as are back-off delays: time may pass between any two steps.  *)
(***************************************************************************)
EXTENDS Integers, Sequences

CONSTANTS
    Requests,           \* callers of chat_with_failover
    Chain,              \* the client's providers, in order of preference
    MaxAttempts,        \* max(1, max_retries + 1)
    TTL, SWR,           \* ticks a cache entry is served, and kept
    FailureThreshold, SuccessThreshold, OpenTimeout

VARIABLES
    circuit,            \* the breaker's records
    cache,              \* [Providers -> age of the entry, or NoEntry]
    req                 \* [Requests -> what the caller is doing]

vars == <<circuit, cache, req>>

Providers == {Chain[i] : i \in DOMAIN Chain}

Breaker == INSTANCE CircuitBreaker

ASSUME ClientAssumption ==
    /\ Chain \in Seq(Providers) /\ Chain # <<>>
    /\ \A i, j \in DOMAIN Chain : Chain[i] = Chain[j] => i = j
    /\ MaxAttempts \in Nat \ {0}
    /\ TTL \in Nat /\ SWR \in Nat /\ TTL <= SWR
    /\ {FailureThreshold, SuccessThreshold} \subseteq Nat \ {0} /\ OpenTimeout \in Nat

NoEntry == -1
Forever == SWR + 1      \* an entry this old is treated like any older one

Finished == {"answered", "exhausted"}
Phases == {"idle", "checking", "looking_up", "waiting", "expired", "succeeded",
           "storing", "replying", "failed", "timed_out", "late"} \cup Finished
Events == {"none", "circuit_open", "cache_hit", "fallback"}

TypeOK ==
    /\ Breaker!TypeOK
    /\ cache \in [Providers -> NoEntry..Forever]
    /\ req \in [Requests -> [phase: Phases, at: DOMAIN Chain,
                             attempt: 0..MaxAttempts,
                             event: [Providers -> Events]]]

Provider(r) == Chain[req[r].at]

-----------------------------------------------------------------------------
(* Moves of one caller's control; `event` keeps the observability event it *)
(* emitted about each provider of this request.                            *)

Goto(r, phase) == req' = [req EXCEPT ![r].phase = phase]

(* The attempts on this provider are over; their number is forgotten.      *)
DoneCalling(r, phase) == req' = [req EXCEPT ![r].phase = phase, ![r].attempt = 0]

Emitting(r, event) == [req[r] EXCEPT !.event[Provider(r)] = event]

(* The next iteration of `for provider in primary_providers`, or its end.  *)
NextProvider(r, event) ==
    req' = [req EXCEPT ![r] =
        IF req[r].at < Len(Chain)
        THEN [Emitting(r, event) EXCEPT !.phase = "checking", !.at = req[r].at + 1,
                                        !.attempt = 0]
        ELSE [Emitting(r, event) EXCEPT !.phase = "exhausted", !.attempt = 0]]

-----------------------------------------------------------------------------
(* Faulty variants, as in CircuitBreaker. *)

AdmitUnchecked(r) ==
    /\ req[r].phase = "checking"
    /\ Breaker!GetState(Provider(r))
    /\ Goto(r, "looking_up")
    /\ UNCHANGED cache

ErrorRetriesForever(r) ==
    /\ req[r].phase = "failed"
    /\ Breaker!RecordFailure(Provider(r))
    /\ req' = [req EXCEPT ![r].phase = "waiting"]
    /\ UNCHANGED cache

ErrorSilent(r) ==
    /\ req[r].phase = "failed"
    /\ Breaker!RecordFailure(Provider(r))
    /\ IF req[r].attempt < MaxAttempts
       THEN req' = [req EXCEPT ![r].phase = "waiting", ![r].attempt = @ + 1]
       ELSE NextProvider(r, "none")
    /\ UNCHANGED cache

SuccessUnrecorded(r) ==
    /\ req[r].phase = "succeeded"
    /\ Goto(r, "storing")
    /\ UNCHANGED <<circuit, cache>>

-----------------------------------------------------------------------------
Init ==
    /\ Breaker!Init
    /\ cache = [p \in Providers |-> NoEntry]
    /\ req = [r \in Requests |-> [phase |-> "idle", at |-> 1, attempt |-> 0,
                                  event |-> [p \in Providers |-> "none"]]]

Start(r) ==
    /\ req[r].phase \in {"idle"} \cup Finished
    /\ req' = [req EXCEPT ![r] = [phase |-> "checking", at |-> 1, attempt |-> 0,
                                  event |-> [p \in Providers |-> "none"]]]
    /\ UNCHANGED <<circuit, cache>>

(* The breaker is asked once per provider, before the attempts.            *)
SkipOpen(r) ==
    /\ req[r].phase = "checking"
    /\ Breaker!CheckRaises(Provider(r))
    /\ Breaker!GetState(Provider(r))
    /\ NextProvider(r, "circuit_open")
    /\ UNCHANGED cache

Admit(r) ==
    /\ req[r].phase = "checking"
    /\ ~Breaker!CheckRaises(Provider(r))
    /\ Breaker!GetState(Provider(r))
    /\ Goto(r, "looking_up")
    /\ UNCHANGED cache

(* ResponseCache.get: an entry past its TTL is a miss, and is deleted when *)
(* it is past the SWR window too.                                          *)
CacheHit(r) ==
    /\ req[r].phase = "looking_up"
    /\ cache[Provider(r)] \in 0..TTL
    /\ req' = [req EXCEPT ![r] = [Emitting(r, "cache_hit") EXCEPT !.phase = "replying"]]
    /\ UNCHANGED <<circuit, cache>>

CacheMiss(r) ==
    /\ req[r].phase = "looking_up"
    /\ cache[Provider(r)] \notin 0..TTL
    /\ cache' = [cache EXCEPT ![Provider(r)] = IF @ > SWR THEN NoEntry ELSE @]
    /\ req' = [req EXCEPT ![r].phase = "waiting", ![r].attempt = 1]
    /\ UNCHANGED circuit

(* The wrapped client answers, raises, or raises CircuitBreakerOpenError   *)
(* (which is neither retried nor recorded).                                *)
ProviderAnswers(r) ==
    /\ req[r].phase = "waiting"
    /\ DoneCalling(r, "succeeded")
    /\ UNCHANGED <<circuit, cache>>

ProviderRaises(r) ==
    /\ req[r].phase = "waiting"
    /\ Goto(r, "failed")
    /\ UNCHANGED <<circuit, cache>>

ProviderRefuses(r) ==
    /\ req[r].phase = "waiting"
    /\ NextProvider(r, "fallback")
    /\ UNCHANGED <<circuit, cache>>

(* `future.result(timeout)` gives up, but leaving the `with` block of the  *)
(* executor waits for the call all the same: only when the provider is     *)
(* done does TimeoutBudgetError reach the caller.                          *)
Expire(r) ==
    /\ req[r].phase = "waiting"
    /\ DoneCalling(r, "expired")
    /\ UNCHANGED <<circuit, cache>>

ExpiredCallReturns(r) ==
    /\ req[r].phase = "expired"
    /\ Goto(r, "timed_out")
    /\ UNCHANGED <<circuit, cache>>

RecordSuccess(r) ==
    /\ req[r].phase = "succeeded"
    /\ Breaker!RecordSuccess(Provider(r))
    /\ Goto(r, "storing")
    /\ UNCHANGED cache

StoreAnswer(r) ==
    /\ req[r].phase = "storing"
    /\ cache' = [cache EXCEPT ![Provider(r)] = 0]
    /\ Goto(r, "replying")
    /\ UNCHANGED circuit

(* The response carries the state of the circuit as it now is.             *)
Reply(r) ==
    /\ req[r].phase = "replying"
    /\ Breaker!GetState(Provider(r))
    /\ Goto(r, "answered")
    /\ UNCHANGED cache

(* A timeout is recorded and not retried; the state is polled first.       *)
PollAfterTimeout(r) ==
    /\ req[r].phase = "timed_out"
    /\ Breaker!GetState(Provider(r))
    /\ Goto(r, "late")
    /\ UNCHANGED cache

RecordTimeout(r) ==
    /\ req[r].phase = "late"
    /\ Breaker!RecordFailure(Provider(r))
    /\ NextProvider(r, "fallback")
    /\ UNCHANGED cache

(* Any other exception is recorded and retried while attempts are left,    *)
(* whatever the breaker has come to think of the provider meanwhile.       *)
RecordError(r) ==
    /\ req[r].phase = "failed"
    /\ Breaker!RecordFailure(Provider(r))
    /\ IF req[r].attempt < MaxAttempts
       THEN req' = [req EXCEPT ![r].phase = "waiting", ![r].attempt = @ + 1]
       ELSE NextProvider(r, "fallback")
    /\ UNCHANGED cache

(* ResponseCache.invalidate, from any thread; clear() invalidates them all. *)
Invalidate(p) ==
    /\ cache' = [cache EXCEPT ![p] = NoEntry]
    /\ UNCHANGED <<circuit, req>>

Tick ==
    /\ Breaker!Tick
    /\ cache' = [p \in Providers |->
                    IF cache[p] \in 0..SWR THEN cache[p] + 1 ELSE cache[p]]
    /\ UNCHANGED req

-----------------------------------------------------------------------------
ProviderReturns(r) == ProviderAnswers(r) \/ ProviderRaises(r) \/ ProviderRefuses(r)

ClientStep(r) ==
    \/ SkipOpen(r) \/ Admit(r)
    \/ CacheHit(r) \/ CacheMiss(r)
    \/ RecordSuccess(r) \/ StoreAnswer(r) \/ Reply(r)
    \/ PollAfterTimeout(r) \/ RecordTimeout(r) \/ RecordError(r)

Next ==
    \/ \E r \in Requests :
          \/ Start(r) \/ ClientStep(r)
          \/ ProviderReturns(r) \/ Expire(r) \/ ExpiredCallReturns(r)
    \/ \E p \in Providers : Invalidate(p)
    \/ Tick

(* Callers' threads run, callers keep coming, time passes, and a provider's *)
(* call ends sooner or later: the client adds no bound of its own to it.   *)
Fairness ==
    /\ WF_vars(Tick)
    /\ \A r \in Requests :
          /\ WF_vars(Start(r)) /\ WF_vars(ClientStep(r))
          /\ WF_vars(ProviderReturns(r) \/ Expire(r))
          /\ WF_vars(ExpiredCallReturns(r))

Spec == Init /\ [][Next]_vars
FairSpec == Spec /\ Fairness

(* The same without the last: a provider's call may hang for ever.  The    *)
(* client's timeout goes off all the same.                                 *)
HangingFairness ==
    /\ WF_vars(Tick)
    /\ \A r \in Requests :
          /\ WF_vars(Start(r)) /\ WF_vars(ClientStep(r))
          /\ WF_vars(ProviderReturns(r) \/ Expire(r))

-----------------------------------------------------------------------------
(* A request that ends can account for every provider: the ones before the *)
(* one that answered were skipped as OPEN or given up, each reported once, *)
(* the answering one reported nothing but a cache hit, and the later ones  *)
(* were left alone; with no answer, all of them were skipped or given up.  *)
PassedOver(r, i) == req[r].event[Chain[i]] \in {"circuit_open", "fallback"}

OutcomeAccountsForChain ==
    \A r \in Requests :
        /\ req[r].phase = "answered" =>
              /\ \A i \in 1..(req[r].at - 1) : PassedOver(r, i)
              /\ req[r].event[Provider(r)] \in {"none", "cache_hit"}
              /\ \A i \in (req[r].at + 1)..Len(Chain) : req[r].event[Chain[i]] = "none"
        /\ req[r].phase = "exhausted" =>
              \A i \in DOMAIN Chain : PassedOver(r, i)

(* Every request ends, whatever its providers answer, however the breaker  *)
(* flips under it and whatever is in the cache.                            *)
EveryRequestEnds ==
    \A r \in Requests :
        req[r].phase = "checking" ~> req[r].phase \in Finished

(* Once the preferred provider stops failing and timing out, its circuit   *)
(* closes for good, although the cache answers some of the requests that   *)
(* would have proved it healthy and calls from the outage end late.        *)
Trouble(p) ==
    \E r \in Requests : /\ Provider(r) = p
                        /\ ProviderRaises(r) \/ ProviderRefuses(r) \/ Expire(r)

RecoveredProviderReturns ==
    <>[][~Trouble(Head(Chain))]_vars => <>[](circuit[Head(Chain)].state = "CLOSED")

(* What the docstring of _call_with_timeout and the comment on its call    *)
(* promise: a call has an end when its timeout has, whatever the provider. *)
TimeoutEnforced ==
    \A r \in Requests :
        req[r].phase = "waiting" ~> req[r].phase \notin {"waiting", "expired"}
=============================================================================
