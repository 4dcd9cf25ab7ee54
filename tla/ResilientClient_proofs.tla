------------------------ MODULE ResilientClient_proofs ------------------------
(***************************************************************************)
(* Requests that fail over along one chain, for any chain, any number of   *)
(* requests and attempts: each accounts for every provider when it ends,   *)
(* and while a circuit is OPEN each makes no more calls than one admission *)
(* allows.                                                                 *)
(*                                                                         *)
(* The first speaks of requests that are over only.  What makes it         *)
(* inductive is an account kept on the way: the providers before the one a *)
(* request is at were passed over, the later ones are untouched.           *)
(***************************************************************************)
EXTENDS ResilientClientHistory, TLAPS

Call == [phase: Phases, at: DOMAIN Chain, attempt: 0..MaxAttempts, event: [Providers -> Events]]
Passed == {"circuit_open", "fallback"}

EventHere(phase) ==
    CASE phase = "exhausted" -> Passed
      [] phase \in {"replying", "answered"} -> {"none", "cache_hit"}
      [] OTHER -> {"none"}

Accounted(q) ==
    /\ \A i \in DOMAIN Chain :
          /\ i < q.at => q.event[Chain[i]] \in Passed
          /\ i > q.at => q.event[Chain[i]] = "none"
    /\ q.event[Chain[q.at]] \in EventHere(q.phase)
    /\ q.phase = "exhausted" => q.at = Len(Chain)

IInv == TypeOK /\ \A r \in Requests : Accounted(req[r])

LEMMA ChainFacts ==
    /\ Len(Chain) \in Nat /\ Len(Chain) >= 1 /\ DOMAIN Chain = 1..Len(Chain)
    /\ \A i \in DOMAIN Chain : Chain[i] \in Providers
    /\ \A i, j \in DOMAIN Chain : Chain[i] = Chain[j] => i = j
BY ClientAssumption DEF Providers

LEMMA FreshCall ==
    ASSUME NEW phase \in {"idle", "checking"}
    PROVE  LET q == [phase |-> phase, at |-> 1, attempt |-> 0,
                     event |-> [p \in Providers |-> "none"]]
           IN  q \in Call /\ Accounted(q)
BY ChainFacts, ClientAssumption DEF Call, Accounted, EventHere, Phases, Events, Finished

(* The record of a request that goes on at the next provider, or is        *)
(* exhausted: NextProvider's.                                              *)
MovedOn(q, event) ==
    LET told == [q EXCEPT !.event[Chain[q.at]] = event] IN
    IF q.at < Len(Chain)
    THEN [told EXCEPT !.phase = "checking", !.at = q.at + 1, !.attempt = 0]
    ELSE [told EXCEPT !.phase = "exhausted", !.attempt = 0]

LEMMA CallUpdated ==
    ASSUME NEW q \in Call
    PROVE  /\ q.at + 1 \in DOMAIN Chain =>
                LET m == [q EXCEPT !.phase = "checking", !.at = q.at + 1, !.attempt = 0] IN
                m \in Call /\ m.event = q.event /\ m.at = q.at + 1 /\ m.phase = "checking"
           /\ LET m == [q EXCEPT !.phase = "exhausted", !.attempt = 0] IN
              m \in Call /\ m.event = q.event /\ m.at = q.at /\ m.phase = "exhausted"
<1>1. 0 \in 0..MaxAttempts /\ {"checking", "exhausted"} \subseteq Phases
  BY ClientAssumption DEF Phases, Finished
<1>2. ASSUME q.at + 1 \in DOMAIN Chain
      PROVE  LET m == [q EXCEPT !.phase = "checking", !.at = q.at + 1, !.attempt = 0] IN
             m \in Call /\ m.event = q.event /\ m.at = q.at + 1 /\ m.phase = "checking"
  BY <1>1, <1>2 DEF Call
<1>3. LET m == [q EXCEPT !.phase = "exhausted", !.attempt = 0] IN
      m \in Call /\ m.event = q.event /\ m.at = q.at /\ m.phase = "exhausted"
  BY <1>1 DEF Call
<1> QED
  BY <1>2, <1>3

LEMMA MovedOnAccounts ==
    ASSUME NEW q \in Call, Accounted(q), NEW event \in Passed
    PROVE  /\ MovedOn(q, event) \in Call /\ Accounted(MovedOn(q, event))
           /\ MovedOn(q, event).phase \in {"checking", "exhausted"}
<1> DEFINE told == [q EXCEPT !.event[Chain[q.at]] = event]
           m == MovedOn(q, event)
<1>1. told \in Call /\ told.event \in [Providers -> Events] /\ q.at \in 1..Len(Chain)
      /\ told.at = q.at /\ told.phase = q.phase
  BY ChainFacts DEF Call, Passed, Events
<1>2. \A i \in DOMAIN Chain :
         told.event[Chain[i]] = IF i = q.at THEN event ELSE q.event[Chain[i]]
  BY ChainFacts DEF Call
<1>3. /\ m \in Call /\ m.event = told.event
      /\ m.at = IF q.at < Len(Chain) THEN q.at + 1 ELSE q.at
      /\ m.phase = IF q.at < Len(Chain) THEN "checking" ELSE "exhausted"
  <2>1. CASE q.at < Len(Chain)
    <3>1. m = [told EXCEPT !.phase = "checking", !.at = told.at + 1, !.attempt = 0]
      BY <1>1, <2>1 DEF MovedOn
    <3>2. told.at + 1 \in DOMAIN Chain /\ told.at + 1 = q.at + 1
      BY <1>1, <2>1, ChainFacts
    <3> HIDE DEF told, m
    <3>3. LET n == [told EXCEPT !.phase = "checking", !.at = told.at + 1, !.attempt = 0] IN
          n \in Call /\ n.event = told.event /\ n.at = told.at + 1 /\ n.phase = "checking"
      BY <3>2, <1>1, CallUpdated
    <3>4. m \in Call /\ m.event = told.event /\ m.at = told.at + 1 /\ m.phase = "checking"
      BY <3>1, <3>3
    <3> QED
      BY <2>1, <3>2, <3>4
  <2>2. CASE ~(q.at < Len(Chain))
    <3>1. m = [told EXCEPT !.phase = "exhausted", !.attempt = 0]
      BY <2>2 DEF MovedOn
    <3> HIDE DEF told, m
    <3>2. LET n == [told EXCEPT !.phase = "exhausted", !.attempt = 0] IN
          n \in Call /\ n.event = told.event /\ n.at = told.at /\ n.phase = "exhausted"
      BY <1>1, CallUpdated
    <3>3. m \in Call /\ m.event = told.event /\ m.at = told.at /\ m.phase = "exhausted"
      BY <3>1, <3>2
    <3> QED
      BY <2>2, <3>3, <1>1
  <2> QED
    BY <2>1, <2>2
<1>4. Accounted(m)
  <2> HIDE DEF told, m
  <2> QED
    BY <1>1, <1>2, <1>3, ChainFacts DEF Accounted, EventHere, Passed
<1> QED
  BY <1>3, <1>4

LEMMA NextProviderMovesOn ==
    ASSUME NEW r \in Requests, NEW event, NextProvider(r, event), req \in [Requests -> Call]
    PROVE  req' = [req EXCEPT ![r] = MovedOn(req[r], event)]
BY DEF NextProvider, Emitting, Provider, MovedOn

-----------------------------------------------------------------------------
(* What the shared objects are left with.                                  *)

LEMMA CircuitTyped ==
    ASSUME Breaker!TypeOK, NEW p \in Providers,
           \/ Breaker!RecordFailure(p) \/ Breaker!RecordSuccess(p) \/ Breaker!GetState(p)
           \/ Breaker!Tick \/ UNCHANGED circuit
    PROVE  Breaker!TypeOK'
<1>1. ASSUME NEW c \in Breaker!CircuitRecord
      PROVE  /\ Breaker!AfterFailure(c) \in Breaker!CircuitRecord
             /\ Breaker!AfterSuccess(c) \in Breaker!CircuitRecord
             /\ Breaker!Polled(c) \in Breaker!CircuitRecord
             /\ Breaker!Aged(c) \in Breaker!CircuitRecord
  <2>1. OpenTimeout \in Nat /\ 0 \in 0..OpenTimeout /\ c.fail_count + 1 \in Nat
        /\ c.success_count + 1 \in Nat
    BY ClientAssumption DEF Breaker!CircuitRecord
  <2>2. Breaker!HalfOpen(c) \in Breaker!CircuitRecord /\ Breaker!Open(c) \in Breaker!CircuitRecord
        /\ Breaker!RestartTimeout(c) \in Breaker!CircuitRecord
    BY <2>1 DEF Breaker!CircuitRecord, Breaker!States, Breaker!HalfOpen, Breaker!Open,
                Breaker!RestartTimeout
  <2>3. ASSUME NEW d \in Breaker!CircuitRecord, NEW n \in Nat
        PROVE  Breaker!CountSuccess(d, n) \in Breaker!CircuitRecord
    BY <2>1 DEF Breaker!CircuitRecord, Breaker!States, Breaker!CountSuccess, Breaker!Close
  <2>4. Breaker!CountFailure(c) \in Breaker!CircuitRecord
    BY <2>1 DEF Breaker!CircuitRecord, Breaker!States, Breaker!CountFailure, Breaker!Open
  <2>5. Breaker!AfterFailure(c) \in Breaker!CircuitRecord
    <3>1. c.state \in {"CLOSED", "OPEN", "HALF_OPEN"}
      BY DEF Breaker!CircuitRecord, Breaker!States
    <3> QED
      BY <2>2, <2>4, <3>1 DEF Breaker!AfterFailure
  <2>6. Breaker!AfterSuccess(c) \in Breaker!CircuitRecord
    <3>1. c.state \in {"CLOSED", "OPEN", "HALF_OPEN"}
      BY DEF Breaker!CircuitRecord, Breaker!States
    <3>2. [c EXCEPT !.fail_count = 0] \in Breaker!CircuitRecord
      BY DEF Breaker!CircuitRecord
    <3> QED
      BY <2>1, <2>2, <2>3, <3>1, <3>2 DEF Breaker!AfterSuccess
  <2>7. Breaker!Aged(c) \in Breaker!CircuitRecord
    BY <2>1 DEF Breaker!CircuitRecord, Breaker!Aged
  <2> QED
    BY <2>2, <2>5, <2>6, <2>7 DEF Breaker!Polled
<1> QED
  BY <1>1 DEF Breaker!TypeOK, Breaker!RecordFailure, Breaker!RecordSuccess, Breaker!GetState,
              Breaker!Tick

(* A step of one request that leaves it with an account of its own, and    *)
(* the shared objects with their types.                                    *)
LEMMA RequestKeepsIInv ==
    ASSUME IInv, NEW r \in Requests, NEW q \in Call, Accounted(q),
           req' = [req EXCEPT ![r] = q], Breaker!TypeOK',
           (cache \in [Providers -> NoEntry..Forever])'
    PROVE  IInv'
BY DEF IInv, TypeOK, Call

(* The same for a step that moves a request to another phase and leaves it *)
(* where it is.                                                            *)
LEMMA PhaseKeepsIInv ==
    ASSUME IInv, NEW r \in Requests, NEW q \in Call,
           q.at = req[r].at, q.event = req[r].event,
           q.phase # "exhausted", req[r].phase # "exhausted",
           EventHere(req[r].phase) \subseteq EventHere(q.phase),
           req' = [req EXCEPT ![r] = q], Breaker!TypeOK',
           (cache \in [Providers -> NoEntry..Forever])'
    PROVE  IInv'
<1>1. Accounted(q)
  BY DEF IInv, Accounted
<1> QED
  BY <1>1, RequestKeepsIInv

LEMMA InitIInv == Init => IInv
<1> SUFFICES ASSUME Init
             PROVE  IInv
  OBVIOUS
<1>1. Breaker!TypeOK
  BY ClientAssumption DEF Init, Breaker!Init, Breaker!Fresh, Breaker!TypeOK,
                          Breaker!CircuitRecord, Breaker!States
<1>2. cache \in [Providers -> NoEntry..Forever]
  BY ClientAssumption DEF Init, NoEntry, Forever
<1>3. \A r \in Requests : req[r] \in Call /\ Accounted(req[r])
  BY FreshCall DEF Init
<1>4. req \in [Requests -> Call]
  BY <1>3 DEF Init
<1> QED
  BY <1>1, <1>2, <1>3, <1>4 DEF IInv, TypeOK, Call

LEMMA RequestTyped ==
    ASSUME IInv, NEW r \in Requests
    PROVE  /\ req \in [Requests -> Call] /\ req[r] \in Call /\ Accounted(req[r])
           /\ req[r].at \in DOMAIN Chain /\ Provider(r) \in Providers
           /\ cache \in [Providers -> NoEntry..Forever] /\ Breaker!TypeOK
BY ChainFacts DEF IInv, TypeOK, Call, Provider

LEMMA NextProviderKeepsIInv ==
    ASSUME IInv, NEW r \in Requests, NEW event \in Passed, NextProvider(r, event),
           Breaker!TypeOK', UNCHANGED cache
    PROVE  IInv'
<1>1. req[r] \in Call /\ Accounted(req[r]) /\ req \in [Requests -> Call]
      /\ (cache \in [Providers -> NoEntry..Forever])'
  BY RequestTyped
<1>2. req' = [req EXCEPT ![r] = MovedOn(req[r], event)]
  BY <1>1, NextProviderMovesOn
<1> QED
  BY <1>1, <1>2, MovedOnAccounts, RequestKeepsIInv

-----------------------------------------------------------------------------
LEMMA RequestStepKeepsIInv ==
    ASSUME IInv, NEW r \in Requests,
           Start(r) \/ ClientStep(r) \/ ProviderReturns(r) \/ Expire(r) \/ ExpiredCallReturns(r)
    PROVE  IInv'
<1> DEFINE Caches == [Providers -> NoEntry..Forever]
<1>1. /\ req \in [Requests -> Call] /\ req[r] \in Call /\ Accounted(req[r])
      /\ Provider(r) \in Providers /\ cache \in Caches /\ Breaker!TypeOK
  BY RequestTyped
<1>2. UNCHANGED cache => (cache \in Caches)'
  BY <1>1
<1>3. UNCHANGED circuit => Breaker!TypeOK'
  BY <1>1, CircuitTyped
<1>4. 0 \in 0..MaxAttempts /\ 1 \in 0..MaxAttempts
  BY ClientAssumption
<1>5. ASSUME NEW phase \in Phases \ {"exhausted"}, Goto(r, phase),
             req[r].phase \notin {"exhausted", "replying", "answered"}
                \/ (req[r].phase = "replying" /\ phase = "answered"),
             Breaker!TypeOK', (cache \in Caches)'
      PROVE  IInv'
  <2>1. req' = [req EXCEPT ![r] = [req[r] EXCEPT !.phase = phase]]
    BY <1>1, <1>5 DEF Goto
  <2>2. [req[r] EXCEPT !.phase = phase] \in Call
    BY <1>1 DEF Call
  <2>3. EventHere(req[r].phase) \subseteq EventHere(phase)
    BY <1>5 DEF EventHere
  <2> QED
    BY <1>1, <1>5, <2>1, <2>2, <2>3, PhaseKeepsIInv DEF Call
<1>6. ASSUME NEW phase \in Phases \ {"exhausted"}, NEW n \in 0..MaxAttempts,
             req' = [req EXCEPT ![r].phase = phase, ![r].attempt = n],
             req[r].phase \notin {"exhausted", "replying", "answered"},
             Breaker!TypeOK', (cache \in Caches)'
      PROVE  IInv'
  <2>1. req' = [req EXCEPT ![r] = [req[r] EXCEPT !.phase = phase, !.attempt = n]]
    BY <1>1, <1>6
  <2>2. [req[r] EXCEPT !.phase = phase, !.attempt = n] \in Call
    BY <1>1 DEF Call
  <2>3. EventHere(req[r].phase) \subseteq EventHere(phase)
    BY <1>6 DEF EventHere
  <2> QED
    BY <1>1, <1>6, <2>1, <2>2, <2>3, PhaseKeepsIInv DEF Call
<1>7. CASE Start(r)
  BY <1>1, <1>2, <1>3, <1>7, FreshCall, RequestKeepsIInv DEF Start
<1>8. CASE SkipOpen(r)
  BY <1>1, <1>8, CircuitTyped, NextProviderKeepsIInv DEF SkipOpen, Passed
<1>9. CASE Admit(r)
  BY <1>1, <1>2, <1>5, <1>9, CircuitTyped DEF Admit, Phases
<1>10. CASE CacheHit(r)
  <2> DEFINE q == [[req[r] EXCEPT !.event[Provider(r)] = "cache_hit"] EXCEPT !.phase = "replying"]
  <2>1. /\ q \in Call /\ q.at = req[r].at /\ q.phase = "replying"
        /\ q.event = [req[r].event EXCEPT ![Provider(r)] = "cache_hit"]
    BY <1>1 DEF Call, Phases, Events
  <2>2. \A i \in DOMAIN Chain : q.event[Chain[i]] =
           IF i = req[r].at THEN "cache_hit" ELSE req[r].event[Chain[i]]
    BY <1>1, <2>1, ChainFacts DEF Provider, Call
  <2>3. Accounted(q)
    <3> HIDE DEF q
    <3> QED
      BY <1>1, <2>1, <2>2, ChainFacts DEF Accounted, EventHere, Call
  <2>4. req' = [req EXCEPT ![r] = q]
    BY <1>10 DEF CacheHit, Emitting
  <2> HIDE DEF q
  <2> QED
    BY <1>1, <1>2, <1>3, <1>10, <2>1, <2>3, <2>4, RequestKeepsIInv DEF CacheHit
<1>11. CASE CacheMiss(r)
  <2>1. (cache \in Caches)'
    BY <1>1, <1>11, ClientAssumption DEF CacheMiss, NoEntry, Forever
  <2> QED
    BY <1>3, <1>4, <1>6, <1>11, <2>1 DEF CacheMiss, Phases
<1>12. CASE ProviderAnswers(r) \/ Expire(r)
  BY <1>2, <1>3, <1>4, <1>6, <1>12 DEF ProviderAnswers, Expire, DoneCalling, Phases
<1>13. CASE ProviderRaises(r) \/ ExpiredCallReturns(r)
  BY <1>2, <1>3, <1>5, <1>13 DEF ProviderRaises, ExpiredCallReturns, Phases
<1>14. CASE ProviderRefuses(r)
  BY <1>3, <1>14, NextProviderKeepsIInv DEF ProviderRefuses, Passed
<1>15. CASE RecordSuccess(r)
  BY <1>1, <1>2, <1>5, <1>15, CircuitTyped DEF RecordSuccess, Phases
<1>16. CASE StoreAnswer(r)
  <2>1. (cache \in Caches)'
    BY <1>1, <1>16, ClientAssumption DEF StoreAnswer, NoEntry, Forever
  <2> QED
    BY <1>3, <1>5, <1>16, <2>1 DEF StoreAnswer, Phases
<1>17. CASE Reply(r)
  BY <1>1, <1>2, <1>5, <1>17, CircuitTyped DEF Reply, Phases, Finished
<1>18. CASE PollAfterTimeout(r)
  BY <1>1, <1>2, <1>5, <1>18, CircuitTyped DEF PollAfterTimeout, Phases
<1>19. CASE RecordTimeout(r)
  BY <1>1, <1>19, CircuitTyped, NextProviderKeepsIInv DEF RecordTimeout, Passed
<1>20. CASE RecordError(r)
  <2>1. Breaker!TypeOK' /\ UNCHANGED cache /\ req[r].phase = "failed"
    BY <1>1, <1>20, CircuitTyped DEF RecordError
  <2>2. CASE req[r].attempt < MaxAttempts
    <3>1. req' = [req EXCEPT ![r].phase = "waiting", ![r].attempt = req[r].attempt + 1]
      BY <1>1, <1>20, <2>2 DEF RecordError
    <3>2. req[r].attempt + 1 \in 0..MaxAttempts
      BY <1>1, <2>2, ClientAssumption DEF Call
    <3> QED
      BY <1>2, <1>6, <2>1, <3>1, <3>2 DEF Phases
  <2>3. CASE ~(req[r].attempt < MaxAttempts)
    BY <1>20, <2>1, <2>3, NextProviderKeepsIInv DEF RecordError, Passed
  <2> QED
    BY <2>2, <2>3
<1> QED
  BY <1>7, <1>8, <1>9, <1>10, <1>11, <1>12, <1>13, <1>14, <1>15, <1>16, <1>17, <1>18, <1>19, <1>20
     DEF ClientStep, ProviderReturns

LEMMA NextIInv ==
    ASSUME IInv, [Next]_vars
    PROVE  IInv'
<1>1. /\ req \in [Requests -> Call] /\ Breaker!TypeOK
      /\ cache \in [Providers -> NoEntry..Forever]
  BY DEF IInv, TypeOK, Call
<1>2. ASSUME NEW p \in Providers, Invalidate(p)
      PROVE  IInv'
  <2>1. Breaker!TypeOK'
    BY <1>1, <1>2, CircuitTyped DEF Invalidate
  <2>2. (cache \in [Providers -> NoEntry..Forever])'
    BY <1>1, <1>2, ClientAssumption DEF Invalidate, NoEntry, Forever
  <2> QED
    BY <1>2, <2>1, <2>2 DEF Invalidate, IInv, TypeOK
<1>3. CASE Tick
  <2>1. \E p \in Providers : TRUE
    BY ChainFacts
  <2>2. Breaker!TypeOK'
    BY <1>1, <1>3, <2>1, CircuitTyped DEF Tick
  <2>3. (cache \in [Providers -> NoEntry..Forever])'
    BY <1>1, <1>3, ClientAssumption DEF Tick, NoEntry, Forever
  <2> QED
    BY <1>3, <2>2, <2>3 DEF Tick, IInv, TypeOK
<1>4. CASE UNCHANGED vars
  BY <1>4 DEF vars, IInv, TypeOK, Breaker!TypeOK
<1> QED
  BY <1>2, <1>3, <1>4, RequestStepKeepsIInv DEF Next

(* Every request on its way accounts for the providers behind it (execute). *)
THEOREM IInvAlways == Spec => []IInv
<1>1. IInv /\ [Next]_vars => IInv'
  BY NextIInv
<1> QED
  BY InitIInv, <1>1, PTL DEF Spec

(* Circuits, cache and requests have their types, for any chain, number of *)
(* requests, attempts and thresholds.                                      *)
THEOREM ClientTypeCorrect == Spec => []TypeOK
<1>1. IInv => TypeOK
  BY DEF IInv
<1> QED
  BY <1>1, IInvAlways, PTL

(* Every request that ends accounts for every provider of the chain        *)
(* (_execute_with_failover, Observability).                                *)
THEOREM OutcomesAccount == Spec => []OutcomeAccountsForChain
<1>1. ASSUME IInv
      PROVE  OutcomeAccountsForChain
  <2> SUFFICES ASSUME NEW r \in Requests
               PROVE  /\ req[r].phase = "answered" =>
                            /\ \A i \in 1..(req[r].at - 1) : PassedOver(r, i)
                            /\ req[r].event[Provider(r)] \in {"none", "cache_hit"}
                            /\ \A i \in (req[r].at + 1)..Len(Chain) :
                                  req[r].event[Chain[i]] = "none"
                      /\ req[r].phase = "exhausted" => \A i \in DOMAIN Chain : PassedOver(r, i)
    BY DEF OutcomeAccountsForChain
  <2>1. req[r].at \in 1..Len(Chain) /\ Len(Chain) \in Nat /\ DOMAIN Chain = 1..Len(Chain)
        /\ Accounted(req[r])
    BY <1>1, RequestTyped, ChainFacts
  <2>2. \A i \in 1..(req[r].at - 1) : i \in DOMAIN Chain /\ i < req[r].at
    BY <2>1
  <2>3. \A i \in (req[r].at + 1)..Len(Chain) : i \in DOMAIN Chain /\ i > req[r].at
    BY <2>1
  <2>4. ASSUME req[r].phase = "exhausted", NEW i \in DOMAIN Chain
        PROVE  i < req[r].at \/ i = req[r].at
    BY <2>1, <2>4 DEF Accounted
  <2> QED
    BY <2>1, <2>2, <2>3, <2>4 DEF Accounted, EventHere, PassedOver, Passed, Provider
<1> QED
  BY <1>1, IInvAlways, PTL

-----------------------------------------------------------------------------
(* The circuit's own steps, as far as OPEN is concerned.                   *)

LEMMA OnlyFailuresOpen ==
    ASSUME NEW c \in Breaker!CircuitRecord, c.state # "OPEN"
    PROVE  /\ Breaker!AfterSuccess(c).state # "OPEN"
           /\ Breaker!Polled(c).state # "OPEN"
           /\ Breaker!Aged(c).state # "OPEN"
<1>1. c.state \in {"CLOSED", "HALF_OPEN"}
  BY DEF Breaker!CircuitRecord, Breaker!States
<1>2. Breaker!AfterSuccess(c).state # "OPEN"
  <2>1. [c EXCEPT !.fail_count = 0].state = c.state
    BY DEF Breaker!CircuitRecord
  <2>2. ASSUME NEW n
        PROVE  Breaker!CountSuccess(c, n).state # "OPEN"
    BY DEF Breaker!CountSuccess, Breaker!Close, Breaker!CircuitRecord
  <2> QED
    BY <1>1, <2>1, <2>2 DEF Breaker!AfterSuccess
<1> QED
  BY <1>2 DEF Breaker!Polled, Breaker!Aged, Breaker!CircuitRecord

(* A request is at work on one provider only.                              *)
LEMMA OthersStandStill ==
    ASSUME IInv, NEW o \in Requests, NEW r \in Requests, o # r,
           Start(o) \/ ClientStep(o) \/ ProviderReturns(o) \/ Expire(o) \/ ExpiredCallReturns(o)
    PROVE  req'[r] = req[r]
BY RequestTyped DEF Start, ClientStep, ProviderReturns, Expire, ExpiredCallReturns, SkipOpen,
   Admit, CacheHit, CacheMiss, RecordSuccess, StoreAnswer, Reply, PollAfterTimeout, RecordTimeout,
   RecordError, ProviderAnswers, ProviderRaises, ProviderRefuses, Goto, DoneCalling, NextProvider

(* A circuit opens on the report of a request whose call has failed or     *)
(* expired.                                                                *)
LEMMA OpenerHasCalled ==
    ASSUME IInv, Next, NEW p \in Providers,
           circuit[p].state # "OPEN", circuit'[p].state = "OPEN"
    PROVE  \E o \in Requests : Provider(o) = p /\ req[o].phase \in {"failed", "late"}
<1>1. circuit \in [Providers -> Breaker!CircuitRecord] /\ circuit[p] \in Breaker!CircuitRecord
  BY DEF IInv, TypeOK, Breaker!TypeOK
<1>2. ~Tick
  BY <1>1, OnlyFailuresOpen DEF Tick, Breaker!Tick
<1>3. \A q \in Providers : ~Invalidate(q)
  BY DEF Invalidate
<1>4. PICK o \in Requests :
         Start(o) \/ ClientStep(o) \/ ProviderReturns(o) \/ Expire(o) \/ ExpiredCallReturns(o)
  BY <1>2, <1>3 DEF Next
<1>5. ASSUME Breaker!GetState(Provider(o)) \/ Breaker!RecordSuccess(Provider(o))
      PROVE  FALSE
  <2>1. Provider(o) \in Providers
    BY RequestTyped
  <2> QED
    BY <1>1, <1>5, <2>1, OnlyFailuresOpen DEF Breaker!GetState, Breaker!RecordSuccess
<1>6. RecordTimeout(o) \/ RecordError(o)
  BY <1>4, <1>5 DEF Start, ClientStep, ProviderReturns, Expire, ExpiredCallReturns, SkipOpen,
     Admit, CacheHit, CacheMiss, RecordSuccess, StoreAnswer, Reply, PollAfterTimeout,
     ProviderAnswers, ProviderRaises, ProviderRefuses
<1>7. Provider(o) = p
  BY <1>1, <1>6, RequestTyped DEF RecordTimeout, RecordError, Breaker!RecordFailure
<1> QED
  BY <1>6, <1>7 DEF RecordTimeout, RecordError

-----------------------------------------------------------------------------
(* What bounds the calls to an OPEN circuit is what a request may still    *)
(* make of its admission: all attempts before the first, and with each     *)
(* call one less.  Nothing adds to it while the circuit is OPEN.           *)
Allowance(r, p) ==
    IF Provider(r) # p THEN 0
    ELSE CASE req[r].phase = "looking_up" -> MaxAttempts
           [] req[r].phase \in {"waiting", "failed"} -> MaxAttempts - req[r].attempt
           [] OTHER -> 0

AttemptsCounted ==
    \A r \in Requests : req[r].phase \in {"waiting", "failed"} => req[r].attempt >= 1

LateInv ==
    /\ AttemptsCounted
    /\ late \in [Requests -> [Providers -> Nat]]
    /\ \A r \in Requests, p \in Providers :
          /\ circuit[p].state # "OPEN" => late[r][p] = 0
          /\ late[r][p] + Allowance(r, p) <= MaxAttempts
    /\ \A p \in Providers : circuit[p].state = "OPEN" =>
          \E r \in Requests : late[r][p] + Allowance(r, p) < MaxAttempts

Call1(r, p) == IF Calls(r, p) THEN 1 ELSE 0

LEMMA AllowanceTyped ==
    ASSUME IInv, NEW r \in Requests, NEW p \in Providers
    PROVE  Allowance(r, p) \in 0..MaxAttempts
BY RequestTyped, ClientAssumption DEF Allowance, Call

(* One step of a request spends its allowance, call by call.               *)
LEMMA StepSpends ==
    ASSUME IInv, AttemptsCounted, NEW r \in Requests, NEW p \in Providers,
           Start(r) \/ ClientStep(r) \/ ProviderReturns(r) \/ Expire(r) \/ ExpiredCallReturns(r)
    PROVE  /\ req'[r].phase \in {"waiting", "failed"} => req'[r].attempt >= 1
           /\ circuit'[p].state = "OPEN" =>
                 Allowance(r, p)' + Call1(r, p) <= Allowance(r, p)
<1> DEFINE Goal == /\ req'[r].phase \in {"waiting", "failed"} => req'[r].attempt >= 1
                   /\ circuit'[p].state = "OPEN" =>
                         Allowance(r, p)' + Call1(r, p) <= Allowance(r, p)
<1>1. /\ req \in [Requests -> Call] /\ req[r] \in Call /\ Provider(r) \in Providers
      /\ req[r].attempt \in 0..MaxAttempts /\ req[r].at \in DOMAIN Chain
  BY RequestTyped DEF Call
<1>2. Allowance(r, p) \in 0..MaxAttempts /\ MaxAttempts \in Nat \ {0}
  BY AllowanceTyped, ClientAssumption
<1>3. ASSUME req'[r].phase \notin {"looking_up", "waiting", "failed"}
      PROVE  Goal
  BY <1>2, <1>3 DEF Allowance, Call1, Calls
<1>4. ASSUME NEW event, NextProvider(r, event)
      PROVE  Goal
  <2>1. req' = [req EXCEPT ![r] = MovedOn(req[r], event)]
    BY <1>1, <1>4, NextProviderMovesOn
  <2>2. req[r].event \in [Providers -> Events] /\ req[r].at \in Nat
    BY <1>1, ChainFacts DEF Call
  <2>3. MovedOn(req[r], event).phase \in {"checking", "exhausted"}
    BY <1>1, <2>2 DEF MovedOn, Call
  <2> QED
    BY <1>1, <1>3, <2>1, <2>3
<1>5. ASSUME NEW n \in Nat, n >= 1, n <= MaxAttempts, req'[r].phase = "waiting",
             req'[r].attempt = n, req'[r].at = req[r].at,
             Provider(r) = p => Allowance(r, p) >= MaxAttempts - n + 1
      PROVE  Goal
  <2>1. Provider(r)' = Provider(r)
    BY <1>5 DEF Provider
  <2>2. CASE Provider(r) = p
    <3>1. Allowance(r, p)' = MaxAttempts - n
      BY <1>5, <2>1, <2>2 DEF Allowance
    <3> QED
      BY <1>2, <1>5, <2>2, <3>1 DEF Call1
  <2>3. CASE Provider(r) # p
    BY <1>2, <1>5, <2>1, <2>3 DEF Allowance, Call1, Calls
  <2> QED
    BY <2>2, <2>3
<1>6. CASE Start(r) \/ CacheHit(r)
  <2>1. req'[r].phase \in {"checking", "replying"}
    <3>1. CASE Start(r)
      BY <1>1, <3>1 DEF Start
    <3>2. CASE CacheHit(r)
      <4>1. req' = [req EXCEPT ![r] = [Emitting(r, "cache_hit") EXCEPT !.phase = "replying"]]
        BY <3>2 DEF CacheHit
      <4>2. Emitting(r, "cache_hit") \in Call
        BY <1>1 DEF Emitting, Call, Events
      <4> QED
        BY <1>1, <4>1, <4>2 DEF Call
    <3> QED
      BY <1>6, <3>1, <3>2
  <2> QED
    BY <1>3, <2>1
<1>7. CASE SkipOpen(r) \/ ProviderRefuses(r) \/ RecordTimeout(r)
  BY <1>4, <1>7 DEF SkipOpen, ProviderRefuses, RecordTimeout
<1>8. CASE Admit(r)
  <2>1. /\ req'[r].phase = "looking_up" /\ req'[r].at = req[r].at
        /\ Breaker!GetState(Provider(r)) /\ ~Breaker!CheckRaises(Provider(r))
    BY <1>1, <1>8 DEF Admit, Goto, Call
  <2>2. Provider(r)' = Provider(r)
    BY <2>1 DEF Provider
  <2>3. CASE Provider(r) = p
    <3>1. circuit'[p].state # "OPEN"
      BY <2>1, <2>3, RequestTyped DEF Breaker!GetState, Breaker!CheckRaises, Breaker!TypeOK
    <3> QED
      BY <2>1, <3>1
  <2>4. CASE Provider(r) # p
    BY <1>2, <2>1, <2>2, <2>4 DEF Allowance, Call1, Calls
  <2> QED
    BY <2>3, <2>4
<1>9. CASE CacheMiss(r)
  <2>1. /\ req'[r].phase = "waiting" /\ req'[r].attempt = 1 /\ req'[r].at = req[r].at
        /\ req[r].phase = "looking_up"
    BY <1>1, <1>9 DEF CacheMiss, Call
  <2>2. Provider(r) = p => Allowance(r, p) >= MaxAttempts - 1 + 1
    BY <1>2, <2>1 DEF Allowance
  <2> QED
    BY <1>2, <1>5, <2>1, <2>2
<1>10. CASE \/ ProviderAnswers(r) \/ Expire(r) \/ ExpiredCallReturns(r)
            \/ RecordSuccess(r) \/ StoreAnswer(r) \/ Reply(r) \/ PollAfterTimeout(r)
  BY <1>1, <1>3, <1>10 DEF ProviderAnswers, Expire, ExpiredCallReturns, RecordSuccess, StoreAnswer,
     Reply, PollAfterTimeout, Goto, DoneCalling, Call
<1>11. CASE ProviderRaises(r)
  <2>1. /\ req'[r].phase = "failed" /\ req'[r].attempt = req[r].attempt
        /\ req'[r].at = req[r].at /\ req[r].phase = "waiting"
    BY <1>1, <1>11 DEF ProviderRaises, Goto, Call
  <2>2. Provider(r)' = Provider(r)
    BY <2>1 DEF Provider
  <2>3. Allowance(r, p)' = Allowance(r, p) /\ Call1(r, p) = 0
    BY <2>1, <2>2 DEF Allowance, Call1, Calls
  <2> QED
    BY <1>2, <2>1, <2>3 DEF AttemptsCounted
<1>12. CASE RecordError(r)
  <2>1. CASE req[r].attempt < MaxAttempts
    <3>1. /\ req'[r].phase = "waiting" /\ req'[r].attempt = req[r].attempt + 1
          /\ req'[r].at = req[r].at /\ req[r].phase = "failed"
      BY <1>1, <1>12, <2>1 DEF RecordError, Call
    <3>2. Provider(r) = p => Allowance(r, p) >= MaxAttempts - (req[r].attempt + 1) + 1
      BY <1>1, <1>2, <3>1 DEF Allowance
    <3>3. /\ req[r].attempt + 1 \in Nat /\ req[r].attempt + 1 >= 1
          /\ req[r].attempt + 1 <= MaxAttempts
      BY <1>1, <1>2, <2>1
    <3> QED
      BY <1>5, <3>1, <3>2, <3>3
  <2>2. CASE ~(req[r].attempt < MaxAttempts)
    BY <1>4, <1>12, <2>2 DEF RecordError
  <2> QED
    BY <2>1, <2>2
<1> QED
  BY <1>6, <1>7, <1>8, <1>9, <1>10, <1>11, <1>12 DEF ClientStep, ProviderReturns

(* The same of any step of the system, for every request.                  *)
LEMMA NextSpends ==
    ASSUME IInv, AttemptsCounted, Next, NEW r \in Requests, NEW p \in Providers
    PROVE  /\ req'[r].phase \in {"waiting", "failed"} => req'[r].attempt >= 1
           /\ circuit'[p].state = "OPEN" =>
                 Allowance(r, p)' + Call1(r, p) <= Allowance(r, p)
<1>1. Allowance(r, p) \in 0..MaxAttempts
  BY AllowanceTyped
<1>2. ASSUME req'[r] = req[r]
      PROVE  /\ req'[r].phase \in {"waiting", "failed"} => req'[r].attempt >= 1
             /\ Allowance(r, p)' + Call1(r, p) <= Allowance(r, p)
  BY <1>1, <1>2, ClientAssumption DEF AttemptsCounted, Allowance, Call1, Calls, Provider
<1>3. CASE Tick \/ \E q \in Providers : Invalidate(q)
  BY <1>2, <1>3 DEF Tick, Invalidate
<1>4. CASE \E o \in Requests :
              Start(o) \/ ClientStep(o) \/ ProviderReturns(o) \/ Expire(o) \/ ExpiredCallReturns(o)
  <2>1. PICK o \in Requests :
           Start(o) \/ ClientStep(o) \/ ProviderReturns(o) \/ Expire(o) \/ ExpiredCallReturns(o)
    BY <1>4
  <2>2. CASE o = r
    BY <2>1, <2>2, StepSpends
  <2>3. CASE o # r
    BY <1>2, <2>1, <2>3, OthersStandStill
  <2> QED
    BY <2>2, <2>3
<1> QED
  BY <1>3, <1>4 DEF Next

LEMMA InitLate == HInit => LateInv
<1> SUFFICES ASSUME HInit
             PROVE  LateInv
  OBVIOUS
<1>1. \A r \in Requests : req[r].phase = "idle"
  BY DEF HInit, Init
<1>2. \A p \in Providers : circuit[p].state = "CLOSED"
  BY DEF HInit, Init, Breaker!Init, Breaker!Fresh
<1> QED
  BY <1>1, <1>2, ClientAssumption DEF HInit, LateInv, AttemptsCounted, Allowance

LEMMA NextLate ==
    ASSUME IInv, LateInv, [HNext]_hvars
    PROVE  LateInv'
<1>1. CASE UNCHANGED hvars
  BY <1>1 DEF hvars, LateInv, AttemptsCounted, Allowance, Provider
<1>2. CASE HNext
  <2>1. /\ Next /\ Counted /\ AttemptsCounted /\ MaxAttempts \in Nat
        /\ late \in [Requests -> [Providers -> Nat]]
    BY <1>2, ClientAssumption DEF HNext, LateInv
  <2>2. AttemptsCounted'
    <3>1. \E p \in Providers : TRUE
      BY ChainFacts
    <3> QED
      BY <2>1, <3>1, NextSpends DEF AttemptsCounted
  <2>3. \A r \in Requests, p \in Providers :
           late'[r][p] = IF circuit'[p].state # "OPEN" THEN 0 ELSE late[r][p] + Call1(r, p)
    BY <2>1 DEF Counted, Call1
  <2>4. late' \in [Requests -> [Providers -> Nat]]
    BY <2>1 DEF Counted
  <2>5. \A r \in Requests, p \in Providers :
           Allowance(r, p) \in 0..MaxAttempts /\ Allowance(r, p)' \in 0..MaxAttempts
    <3>1. IInv'
      BY <2>1, NextIInv
    <3>2. \A r \in Requests : req'[r].attempt \in 0..MaxAttempts
      BY <3>1 DEF IInv, TypeOK
    <3>3. \A r \in Requests, p \in Providers : Allowance(r, p)' \in 0..MaxAttempts
      BY <2>1, <3>2 DEF Allowance
    <3> QED
      BY <3>3, AllowanceTyped
  <2>6. ASSUME NEW r \in Requests, NEW p \in Providers
        PROVE  /\ circuit'[p].state # "OPEN" => late'[r][p] = 0
               /\ circuit'[p].state = "OPEN" =>
                     late'[r][p] + Allowance(r, p)' <= late[r][p] + Allowance(r, p)
               /\ late'[r][p] + Allowance(r, p)' <= MaxAttempts
    <3>1. late[r][p] \in Nat /\ Call1(r, p) \in Nat
      BY <2>1 DEF Call1
    <3>2. late[r][p] + Allowance(r, p) <= MaxAttempts
      BY DEF LateInv
    <3> QED
      BY <2>1, <2>3, <2>5, <3>1, <3>2, NextSpends
  <2>7. ASSUME NEW p \in Providers, circuit'[p].state = "OPEN"
        PROVE  \E r \in Requests : late'[r][p] + Allowance(r, p)' < MaxAttempts
    <3>1. \E o \in Requests : late[o][p] + Allowance(o, p) < MaxAttempts
      <4>1. CASE circuit[p].state = "OPEN"
        BY <4>1 DEF LateInv
      <4>2. CASE circuit[p].state # "OPEN"
        <5>1. PICK o \in Requests : Provider(o) = p /\ req[o].phase \in {"failed", "late"}
          BY <2>1, <2>7, <4>2, OpenerHasCalled
        <5>2. req[o].attempt \in 0..MaxAttempts
          BY RequestTyped DEF Call
        <5>3. Allowance(o, p) < MaxAttempts
          BY <2>1, <5>1, <5>2, ClientAssumption DEF Allowance, AttemptsCounted
        <5>4. late[o][p] = 0
          BY <4>2 DEF LateInv
        <5> QED
          BY <2>5, <5>3, <5>4
      <4> QED
        BY <4>1, <4>2
    <3>2. PICK o \in Requests : late[o][p] + Allowance(o, p) < MaxAttempts
      BY <3>1
    <3>3. late'[o][p] + Allowance(o, p)' <= late[o][p] + Allowance(o, p)
      BY <2>6, <2>7
    <3> QED
      BY <2>1, <2>4, <2>5, <3>2, <3>3
  <2> QED
    BY <2>2, <2>4, <2>6, <2>7 DEF LateInv
<1> QED
  BY <1>1, <1>2

(* However the requests interleave, while a circuit is OPEN each of them   *)
(* makes at most the calls of one admission, and the one that opened it    *)
(* fewer, for any number of requests, attempts and thresholds              *)
(* (_execute_with_failover, CircuitBreaker.check).                         *)
THEOREM OpenCallsLimited == HSpec => []OpenLimitsCalls
<1>1. HInit => IInv /\ LateInv
  BY InitIInv, InitLate DEF HInit
<1>2. IInv /\ LateInv /\ [HNext]_hvars => (IInv /\ LateInv)'
  <2>1. [HNext]_hvars => [Next]_vars
    BY DEF HNext, hvars, vars
  <2> QED
    BY <2>1, NextIInv, NextLate
<1>3. IInv /\ LateInv => OpenLimitsCalls
  <2> SUFFICES ASSUME IInv, LateInv, NEW p \in Providers, circuit[p].state = "OPEN"
               PROVE  WithinOneAdmission(p)
    BY DEF OpenLimitsCalls
  <2>1. \A r \in Requests : /\ late[r][p] \in Nat /\ Allowance(r, p) \in 0..MaxAttempts
                           /\ late[r][p] + Allowance(r, p) <= MaxAttempts
    BY AllowanceTyped DEF LateInv
  <2>2. PICK o \in Requests : late[o][p] + Allowance(o, p) < MaxAttempts
    BY DEF LateInv
  <2> QED
    BY <2>1, <2>2, ClientAssumption DEF WithinOneAdmission
<1> QED
  BY <1>1, <1>2, <1>3, PTL DEF HSpec
=============================================================================
