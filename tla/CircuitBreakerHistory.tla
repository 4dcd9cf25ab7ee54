------------------------ MODULE CircuitBreakerHistory ------------------------
(***************************************************************************)
(* The circuit breaker beside a record of what its callers reported: the   *)
(* history variable `seen` counts outcomes and time without looking at the *)
(* breaker, so the properties below compare the breaker's state with what  *)
(* really happened.                                                        *)
(***************************************************************************)
EXTENDS CircuitBreaker

VARIABLE seen   \* [Providers -> Evidence], each field stopped at its threshold

hvars == <<circuit, seen>>

Evidence == [fails: 0..FailureThreshold,    \* failures since the last success
             oks: 0..SuccessThreshold,      \* successes since the last failure
             quiet: 0..OpenTimeout]         \* ticks since the last failure

UpTo(bound, n) == IF n < bound THEN n ELSE bound

HInit == /\ Init
         /\ seen = [p \in Providers |->
                       [fails |-> 0, oks |-> 0, quiet |-> OpenTimeout]]

HFailure(p) ==
    /\ RecordFailure(p)
    /\ seen' = [seen EXCEPT ![p] =
                   [fails |-> UpTo(FailureThreshold, @.fails + 1),
                    oks |-> 0, quiet |-> 0]]

HSuccess(p) ==
    /\ RecordSuccess(p)
    /\ seen' = [seen EXCEPT ![p].fails = 0,
                            ![p].oks = UpTo(SuccessThreshold, @ + 1)]

HGetState(p) == GetState(p) /\ UNCHANGED seen

HTick ==
    /\ Tick
    /\ seen' = [p \in Providers |->
                   [seen[p] EXCEPT !.quiet = UpTo(OpenTimeout, @ + 1)]]

HNext ==
    \/ \E p \in Providers : HFailure(p) \/ HSuccess(p) \/ HGetState(p)
    \/ HTick

HSpec == HInit /\ [][HNext]_hvars

(* Callers keep asking for the state and time passes.                      *)
HFairSpec == HSpec /\ WF_hvars(HTick) /\ \A p \in Providers : WF_hvars(HGetState(p))

HTypeOK == TypeOK /\ seen \in [Providers -> Evidence]

-----------------------------------------------------------------------------
(* A CLOSED circuit has seen fewer consecutive failures than the threshold *)
(* and its fail_count is that number: failures of an earlier outage, which *)
(* OPEN and HALF_OPEN keep in fail_count, never count towards the next     *)
(* one (record_failure, record_success, _transition).                      *)
ClosedCountsConsecutiveFailures ==
    \A p \in Providers : circuit[p].state = "CLOSED" =>
        /\ circuit[p].fail_count = seen[p].fails
        /\ seen[p].fails < FailureThreshold

(* A HALF_OPEN circuit counts the successes since the last failure, and    *)
(* has not seen enough of them to close: successes seen before the outage  *)
(* or between two outages are never carried over.                          *)
HalfOpenCountsConsecutiveSuccesses ==
    \A p \in Providers : circuit[p].state = "HALF_OPEN" =>
        /\ circuit[p].success_count = seen[p].oks
        /\ seen[p].oks < SuccessThreshold

(* An OPEN circuit has heard nothing good since a failure, and its timeout *)
(* runs from the most recent failure of all, the ones reported late (by    *)
(* calls started before it opened) included.                               *)
OpenSinceLastFailure ==
    \A p \in Providers : circuit[p].state = "OPEN" =>
        /\ seen[p].oks = 0
        /\ seen[p].fails >= 1
        /\ circuit[p].age = seen[p].quiet

(* In every state the breaker tells what its callers reported, and nothing *)
(* older (record_failure, record_success, get_state).                      *)
CircuitTellsEvidence ==
    /\ ClosedCountsConsecutiveFailures
    /\ HalfOpenCountsConsecutiveSuccesses
    /\ OpenSinceLastFailure

(* A circuit stops being OPEN only on a success or after OpenTimeout       *)
(* without any failure, and it closes only on enough successes in a row.   *)
LeavesOpenOnEvidence ==
    [][\A p \in Providers :
          /\ circuit[p].state = "OPEN" /\ circuit'[p].state # "OPEN" =>
                seen[p].quiet = OpenTimeout \/ seen'[p].oks >= 1
          /\ circuit[p].state # "CLOSED" /\ circuit'[p].state = "CLOSED" =>
                seen'[p].oks = SuccessThreshold]_hvars

(* Once callers stop reporting failures of a provider, its circuit never   *)
(* stays OPEN: it is offered for a probe again and again.                  *)
QuietProviderIsProbed ==
    \A p \in Providers :
        <>[][~HFailure(p)]_hvars => []<>(circuit[p].state # "OPEN")
=============================================================================
