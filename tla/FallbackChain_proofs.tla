------------------------ MODULE FallbackChain_proofs ------------------------
(***************************************************************************)
(* The circuit breaker's state always agrees with the evidence its callers *)
(* reported, for every set of providers, thresholds and timeout, and so it *)
(* does when the callers are those of a fallback chain.                    *)
(***************************************************************************)
EXTENDS FallbackChain, TLAPS

-----------------------------------------------------------------------------
(* The breaker.  The inductive invariant says, provider by provider, what  *)
(* each state knows of the evidence.  It is local: a step changes one      *)
(* provider's pair of records, or ages all of them, so the proof first shows *)
(* what each operation does to one pair (the lemmas) and then lifts it to  *)
(* Next.                                                                   *)

(* What a circuit c and the evidence e of the same provider agree on.      *)
Agree(c, e) ==
    /\ c \in CircuitRecord
    /\ e \in Evidence
    /\ c.state = "CLOSED" =>
          /\ c.fail_count = e.fails
          /\ e.fails < FailureThreshold
    /\ c.state = "HALF_OPEN" =>
          /\ c.success_count = e.oks
          /\ e.oks < SuccessThreshold
    /\ c.state = "OPEN" =>
          /\ c.success_count = 0
          /\ e.oks = 0
          /\ e.fails >= 1
          /\ c.age = e.quiet

IInv ==
    /\ circuit \in [Providers -> CircuitRecord]
    /\ seen \in [Providers -> Evidence]
    /\ \A p \in Providers : Agree(circuit[p], seen[p])

FailureSeen(e) == [fails |-> UpTo(FailureThreshold, e.fails + 1),
                   oks |-> 0, quiet |-> 0]
SuccessSeen(e) == [e EXCEPT !.fails = 0, !.oks = UpTo(SuccessThreshold, @ + 1)]
TimeSeen(e) == [e EXCEPT !.quiet = UpTo(OpenTimeout, @ + 1)]

(* A circuit that opens agrees with evidence whose last outcome failed.    *)
LEMMA OpenAgrees ==
    ASSUME NEW c \in CircuitRecord, NEW e \in Evidence,
           e.fails >= 1, e.oks = 0, e.quiet = 0
    PROVE  Agree(Open(c), e)
<1>1. 0 \in 0..OpenTimeout
  BY BreakerAssumption
<1>2. /\ Open(c) \in CircuitRecord
      /\ Open(c).state = "OPEN"
      /\ Open(c).success_count = 0
      /\ Open(c).age = 0
  BY <1>1 DEF Open, CircuitRecord, States
<1>3. QED
  BY <1>2 DEF Agree

(* A circuit that closes agrees with evidence whose last outcome succeeded. *)
LEMMA CloseAgrees ==
    ASSUME NEW c \in CircuitRecord, NEW e \in Evidence, e.fails = 0
    PROVE  Agree(Close(c), e)
<1>1. /\ Close(c) \in CircuitRecord
      /\ Close(c).state = "CLOSED"
      /\ Close(c).fail_count = 0
  BY DEF Close, CircuitRecord, States
<1>2. QED
  BY <1>1, BreakerAssumption DEF Agree

(* The evidence of a failure, and of a success, is evidence.               *)
LEMMA FailureSeenType ==
    ASSUME NEW e \in Evidence
    PROVE  /\ FailureSeen(e) \in Evidence
           /\ FailureSeen(e).fails >= 1
           /\ e.fails + 1 < FailureThreshold => FailureSeen(e).fails = e.fails + 1
           /\ FailureSeen(e).oks = 0
           /\ FailureSeen(e).quiet = 0
<1>1. /\ e.fails \in Nat
      /\ e.fails <= FailureThreshold
  BY BreakerAssumption DEF Evidence
<1>2. /\ UpTo(FailureThreshold, e.fails + 1) \in 1..FailureThreshold
      /\ e.fails + 1 < FailureThreshold =>
            UpTo(FailureThreshold, e.fails + 1) = e.fails + 1
  BY <1>1, BreakerAssumption DEF UpTo
<1>3. QED
  BY <1>2, BreakerAssumption DEF FailureSeen, Evidence

LEMMA SuccessSeenType ==
    ASSUME NEW e \in Evidence
    PROVE  /\ SuccessSeen(e) \in Evidence
           /\ SuccessSeen(e).fails = 0
           /\ e.oks + 1 < SuccessThreshold => SuccessSeen(e).oks = e.oks + 1
<1>1. /\ e.oks \in Nat
      /\ e.oks <= SuccessThreshold
  BY BreakerAssumption DEF Evidence
<1>2. /\ UpTo(SuccessThreshold, e.oks + 1) \in 0..SuccessThreshold
      /\ e.oks + 1 < SuccessThreshold =>
            UpTo(SuccessThreshold, e.oks + 1) = e.oks + 1
  BY <1>1, BreakerAssumption DEF UpTo
<1>3. 0 \in 0..FailureThreshold
  BY BreakerAssumption
<1>4. QED
  BY <1>2, <1>3 DEF SuccessSeen, Evidence

(* record_failure keeps a circuit and its evidence in agreement.           *)
LEMMA FailureAgrees ==
    ASSUME NEW c, NEW e, Agree(c, e)
    PROVE  Agree(AfterFailure(c), FailureSeen(e))
<1>1. c \in CircuitRecord /\ e \in Evidence
  BY DEF Agree
<1>2. CASE c.state = "CLOSED"
  <2> DEFINE counted == [c EXCEPT !.fail_count = @ + 1]
  <2>1. counted = [state |-> "CLOSED", fail_count |-> c.fail_count + 1,
                   success_count |-> c.success_count, age |-> c.age]
    BY <1>1, <1>2 DEF CircuitRecord
  <2>2. counted \in CircuitRecord
    BY <1>1, <2>1 DEF CircuitRecord, States
  <2>3. CASE c.fail_count + 1 >= FailureThreshold
    BY <1>1, <1>2, <2>2, <2>3, OpenAgrees, FailureSeenType
       DEF AfterFailure, CountFailure
  <2>4. CASE ~(c.fail_count + 1 >= FailureThreshold)
    <3>1. AfterFailure(c) = counted
      BY <1>2, <2>4 DEF AfterFailure, CountFailure
    <3>2. c.fail_count = e.fails /\ c.fail_count \in Nat
      BY <1>1, <1>2 DEF Agree, CircuitRecord
    <3>3. e.fails + 1 < FailureThreshold
      BY <3>2, <2>4, BreakerAssumption
    <3>4. FailureSeen(e) \in Evidence /\ FailureSeen(e).fails = e.fails + 1
      BY <1>1, <3>3, FailureSeenType
    <3>5. Agree(counted, FailureSeen(e))
      <4> HIDE DEF counted
      <4>1. QED
        BY <2>1, <2>2, <3>2, <3>3, <3>4 DEF Agree
    <3>6. QED
      BY <3>1, <3>5
  <2>5. QED
    BY <2>3, <2>4
<1>3. CASE c.state = "HALF_OPEN"
  BY <1>1, <1>3, OpenAgrees, FailureSeenType DEF AfterFailure
<1>4. CASE c.state = "OPEN"
  <2>1. AfterFailure(c) = [state |-> "OPEN", fail_count |-> c.fail_count,
                           success_count |-> c.success_count, age |-> 0]
    BY <1>1, <1>4 DEF AfterFailure, RestartTimeout, CircuitRecord
  <2>2. c.success_count = 0 /\ c.fail_count \in Nat
    BY <1>1, <1>4 DEF Agree, CircuitRecord
  <2>3. QED
    BY <1>1, <2>1, <2>2, FailureSeenType, BreakerAssumption
       DEF Agree, CircuitRecord, States
<1>5. QED
  BY <1>1, <1>2, <1>3, <1>4 DEF CircuitRecord, States

(* Counting a success of a HALF_OPEN circuit keeps the agreement.          *)
LEMMA CountAgrees ==
    ASSUME NEW c \in CircuitRecord, NEW e \in Evidence,
           c.state = "HALF_OPEN", e.oks < SuccessThreshold
    PROVE  Agree(CountSuccess(c, e.oks + 1), SuccessSeen(e))
<1> DEFINE counted == [c EXCEPT !.success_count = e.oks + 1]
<1>1. e.oks \in Nat
  BY DEF Evidence
<1>2. counted = [state |-> "HALF_OPEN", fail_count |-> c.fail_count,
                 success_count |-> e.oks + 1, age |-> c.age]
  BY DEF CircuitRecord
<1>3. counted \in CircuitRecord
  BY <1>1, <1>2 DEF CircuitRecord, States
<1>4. CASE e.oks + 1 >= SuccessThreshold
  BY <1>3, <1>4, CloseAgrees, SuccessSeenType DEF CountSuccess
<1>5. CASE ~(e.oks + 1 >= SuccessThreshold)
  <2>1. e.oks + 1 < SuccessThreshold
    BY <1>1, <1>5, BreakerAssumption
  <2>2. SuccessSeen(e) \in Evidence /\ SuccessSeen(e).oks = e.oks + 1
    BY <2>1, SuccessSeenType
  <2>3. Agree(counted, SuccessSeen(e))
    <3> HIDE DEF counted
    <3>1. QED
      BY <1>2, <1>3, <2>1, <2>2 DEF Agree
  <2>4. QED
    BY <1>5, <2>3 DEF CountSuccess
<1>6. QED
  BY <1>4, <1>5

(* record_success keeps a circuit and its evidence in agreement.           *)
LEMMA SuccessAgrees ==
    ASSUME NEW c, NEW e, Agree(c, e)
    PROVE  Agree(AfterSuccess(c), SuccessSeen(e))
<1>1. c \in CircuitRecord /\ e \in Evidence
  BY DEF Agree
<1>2. CASE c.state = "CLOSED"
  <2>1. AfterSuccess(c) = [state |-> "CLOSED", fail_count |-> 0,
                           success_count |-> c.success_count, age |-> c.age]
    BY <1>1, <1>2 DEF AfterSuccess, CircuitRecord
  <2>2. QED
    BY <1>1, <2>1, SuccessSeenType, BreakerAssumption
       DEF Agree, CircuitRecord, States
<1>3. CASE c.state = "HALF_OPEN"
  <2>1. c.success_count = e.oks /\ e.oks < SuccessThreshold
    BY <1>3 DEF Agree
  <2>2. AfterSuccess(c) = CountSuccess(c, e.oks + 1)
    BY <1>3, <2>1 DEF AfterSuccess
  <2>3. QED
    BY <1>1, <1>3, <2>1, <2>2, CountAgrees
<1>4. CASE c.state = "OPEN"
  <2>1. e.oks = 0
    BY <1>4 DEF Agree
  <2>2. AfterSuccess(c) = CountSuccess(HalfOpen(c), e.oks + 1)
    BY <1>4, <2>1 DEF AfterSuccess
  <2>3. HalfOpen(c) \in CircuitRecord /\ HalfOpen(c).state = "HALF_OPEN"
    BY <1>1 DEF HalfOpen, CircuitRecord, States
  <2>4. e.oks < SuccessThreshold
    BY <2>1, BreakerAssumption
  <2>5. QED
    BY <1>1, <2>2, <2>3, <2>4, CountAgrees
<1>5. QED
  BY <1>1, <1>2, <1>3, <1>4 DEF CircuitRecord, States

(* get_state and the passing of time keep the agreement.                   *)
LEMMA PollAgrees ==
    ASSUME NEW c, NEW e, Agree(c, e)
    PROVE  Agree(Polled(c), e)
BY BreakerAssumption DEF Agree, CircuitRecord, Evidence, States, Polled, HalfOpen

LEMMA TimeAgrees ==
    ASSUME NEW c, NEW e, Agree(c, e)
    PROVE  Agree(Aged(c), TimeSeen(e))
BY BreakerAssumption
   DEF Agree, CircuitRecord, Evidence, States, Aged, TimeSeen, UpTo

(* The agreement holds initially and every step keeps it.                  *)
LEMMA InitAgrees == HInit => IInv
BY BreakerAssumption
   DEF HInit, Init, IInv, Agree, Fresh, CircuitRecord, Evidence, States

LEMMA NextAgrees == IInv /\ [HNext]_hvars => IInv'
<1> SUFFICES ASSUME IInv, [HNext]_hvars
             PROVE  IInv'
  OBVIOUS
<1>1. ASSUME NEW p \in Providers, HFailure(p)
      PROVE  IInv'
  <2>1. /\ circuit' = [circuit EXCEPT ![p] = AfterFailure(circuit[p])]
        /\ seen' = [seen EXCEPT ![p] = FailureSeen(seen[p])]
    BY <1>1 DEF IInv, HFailure, RecordFailure, FailureSeen
  <2>2. Agree(AfterFailure(circuit[p]), FailureSeen(seen[p]))
    BY FailureAgrees DEF IInv
  <2>3. QED
    BY <2>1, <2>2 DEF IInv, Agree
<1>2. ASSUME NEW p \in Providers, HSuccess(p)
      PROVE  IInv'
  <2>1. /\ circuit' = [circuit EXCEPT ![p] = AfterSuccess(circuit[p])]
        /\ seen' = [seen EXCEPT ![p] = SuccessSeen(seen[p])]
    BY <1>2 DEF IInv, HSuccess, RecordSuccess, SuccessSeen, Evidence
  <2>2. Agree(AfterSuccess(circuit[p]), SuccessSeen(seen[p]))
    BY SuccessAgrees DEF IInv
  <2>3. QED
    BY <2>1, <2>2 DEF IInv, Agree
<1>3. ASSUME NEW p \in Providers, HGetState(p)
      PROVE  IInv'
  <2>1. circuit' = [circuit EXCEPT ![p] = Polled(circuit[p])] /\ seen' = seen
    BY <1>3 DEF HGetState, GetState
  <2>2. Agree(Polled(circuit[p]), seen[p])
    BY PollAgrees DEF IInv
  <2>3. QED
    BY <2>1, <2>2 DEF IInv, Agree
<1>4. CASE HTick
  <2>1. /\ circuit' = [p \in Providers |-> Aged(circuit[p])]
        /\ seen' = [p \in Providers |-> TimeSeen(seen[p])]
    BY <1>4 DEF HTick, Tick, TimeSeen
  <2>2. \A p \in Providers : Agree(Aged(circuit[p]), TimeSeen(seen[p]))
    BY TimeAgrees DEF IInv
  <2>3. QED
    BY <2>1, <2>2 DEF IInv, Agree
<1>5. CASE UNCHANGED hvars
  BY <1>5 DEF IInv, hvars
<1>6. QED
  BY <1>1, <1>2, <1>3, <1>4, <1>5 DEF HNext

(* The breaker never leaves its type (class CircuitBreaker).               *)
THEOREM BreakerTypeCorrect == HSpec => []HTypeOK
<1>1. IInv => HTypeOK
  BY DEF IInv, HTypeOK, TypeOK
<1>2. QED
  BY InitAgrees, NextAgrees, <1>1, PTL DEF HSpec

(* A CLOSED circuit counts exactly the consecutive failures since the last *)
(* success, and never as many as the threshold (record_failure).           *)
THEOREM ClosedCorrect == HSpec => []ClosedCountsConsecutiveFailures
<1>1. IInv => ClosedCountsConsecutiveFailures
  BY DEF IInv, Agree, ClosedCountsConsecutiveFailures
<1>2. QED
  BY InitAgrees, NextAgrees, <1>1, PTL DEF HSpec

(* A HALF_OPEN circuit counts exactly the successes since the last failure *)
(* (record_success).                                                       *)
THEOREM HalfOpenCorrect == HSpec => []HalfOpenCountsConsecutiveSuccesses
<1>1. IInv => HalfOpenCountsConsecutiveSuccesses
  BY DEF IInv, Agree, HalfOpenCountsConsecutiveSuccesses
<1>2. QED
  BY InitAgrees, NextAgrees, <1>1, PTL DEF HSpec

(* An OPEN circuit has heard only failures since it opened and times out   *)
(* from the last of them (record_failure, get_state).                      *)
THEOREM OpenCorrect == HSpec => []OpenSinceLastFailure
<1>1. IInv => OpenSinceLastFailure
  BY DEF IInv, Agree, OpenSinceLastFailure
<1>2. QED
  BY InitAgrees, NextAgrees, <1>1, PTL DEF HSpec

(* Whatever state a circuit is in, its record agrees with the evidence.    *)
THEOREM EvidenceCorrect == HSpec => []CircuitTellsEvidence
<1>1. IInv => CircuitTellsEvidence
  BY DEF IInv, Agree, CircuitTellsEvidence, ClosedCountsConsecutiveFailures,
         HalfOpenCountsConsecutiveSuccesses, OpenSinceLastFailure
<1>2. QED
  BY InitAgrees, NextAgrees, <1>1, PTL DEF HSpec

(* Leaving OPEN and reaching CLOSED need the evidence that their rules     *)
(* name, in every step (get_state, record_success).                        *)
Earned(p) ==
    /\ circuit[p].state = "OPEN" /\ circuit'[p].state # "OPEN" =>
          seen[p].quiet = OpenTimeout \/ seen'[p].oks >= 1
    /\ circuit[p].state # "CLOSED" /\ circuit'[p].state = "CLOSED" =>
          seen'[p].oks = SuccessThreshold

LEMMA StepEarned == IInv /\ [HNext]_hvars => \A p \in Providers : Earned(p)
<1> SUFFICES ASSUME IInv, [HNext]_hvars, NEW p \in Providers
             PROVE  Earned(p)
  OBVIOUS
<1>1. Agree(circuit[p], seen[p])
  BY DEF IInv
<1>2. circuit[p] \in CircuitRecord /\ seen[p] \in Evidence
  BY <1>1 DEF Agree
<1>3. CASE circuit'[p].state = circuit[p].state
  BY <1>3 DEF Earned
<1>4. ASSUME NEW q \in Providers, HFailure(q), p = q
      PROVE  Earned(p)
  <2>1. circuit'[p] = AfterFailure(circuit[p])
    BY <1>4 DEF HFailure, RecordFailure, IInv
  <2>2. circuit[p].state # "CLOSED" => circuit'[p].state = "OPEN"
    BY <1>2, <2>1 DEF AfterFailure, Open, RestartTimeout, CircuitRecord, States
  <2>3. QED
    BY <2>2 DEF Earned
<1>5. ASSUME NEW q \in Providers, HSuccess(q), p = q
      PROVE  Earned(p)
  <2>1. /\ circuit'[p] = AfterSuccess(circuit[p])
        /\ seen'[p] = SuccessSeen(seen[p])
    BY <1>5 DEF HSuccess, RecordSuccess, IInv, SuccessSeen, Evidence
  <2>2. seen[p].oks \in Nat
    BY <1>2 DEF Evidence
  <2>3. seen'[p].oks = UpTo(SuccessThreshold, seen[p].oks + 1)
    BY <1>2, <2>1 DEF SuccessSeen, Evidence
  <2>4. seen'[p].oks >= 1
    BY <2>2, <2>3, BreakerAssumption DEF UpTo
  <2>5. ASSUME circuit[p].state # "CLOSED", circuit'[p].state = "CLOSED"
        PROVE  seen[p].oks + 1 >= SuccessThreshold
    <3>1. CASE circuit[p].state = "HALF_OPEN"
      <4>1. circuit[p].success_count = seen[p].oks
        BY <1>1, <3>1 DEF Agree
      <4>2. circuit'[p] = CountSuccess(circuit[p], seen[p].oks + 1)
        BY <2>1, <3>1, <4>1 DEF AfterSuccess
      <4>3. ASSUME ~(seen[p].oks + 1 >= SuccessThreshold)
            PROVE  circuit'[p].state = "HALF_OPEN"
        BY <1>2, <3>1, <4>2, <4>3 DEF CountSuccess, CircuitRecord
      <4>4. QED
        BY <2>5, <4>3
    <3>2. CASE circuit[p].state = "OPEN"
      <4>1. seen[p].oks = 0
        BY <1>1, <3>2 DEF Agree
      <4>2. circuit'[p] = CountSuccess(HalfOpen(circuit[p]), 1)
        BY <2>1, <3>2 DEF AfterSuccess
      <4>3. ASSUME ~(1 >= SuccessThreshold)
            PROVE  circuit'[p].state = "HALF_OPEN"
        BY <1>2, <4>2, <4>3 DEF CountSuccess, HalfOpen, CircuitRecord
      <4>4. QED
        BY <2>5, <4>1, <4>3
    <3>3. QED
      BY <1>2, <2>5, <3>1, <3>2 DEF CircuitRecord, States
  <2>6. QED
    BY <2>2, <2>3, <2>4, <2>5, BreakerAssumption DEF Earned, UpTo
<1>6. ASSUME NEW q \in Providers, HGetState(q), p = q
      PROVE  Earned(p)
  <2>1. circuit'[p] = Polled(circuit[p])
    BY <1>6 DEF HGetState, GetState, IInv
  <2>2. circuit[p].state # "OPEN" => circuit'[p].state = circuit[p].state
    BY <2>1 DEF Polled
  <2>3. CASE circuit[p].state = "OPEN" /\ circuit[p].age >= OpenTimeout
    <3>1. seen[p].quiet = circuit[p].age /\ seen[p].quiet \in 0..OpenTimeout
      BY <1>1, <1>2, <2>3 DEF Agree, Evidence
    <3>2. seen[p].quiet = OpenTimeout
      BY <2>3, <3>1, BreakerAssumption
    <3>3. circuit'[p].state = "HALF_OPEN"
      BY <1>2, <2>1, <2>3 DEF Polled, HalfOpen, CircuitRecord
    <3>4. QED
      BY <3>2, <3>3 DEF Earned
  <2>4. QED
    BY <2>1, <2>2, <2>3 DEF Polled, Earned
<1>7. CASE HTick
  <2>1. circuit'[p] = Aged(circuit[p])
    BY <1>7 DEF HTick, Tick
  <2>2. circuit'[p].state = circuit[p].state
    BY <1>2, <2>1 DEF Aged, CircuitRecord
  <2>3. QED
    BY <1>3, <2>2
<1>8. ASSUME NEW q \in Providers, HFailure(q) \/ HSuccess(q) \/ HGetState(q), p # q
      PROVE  Earned(p)
  <2>1. circuit'[p] = circuit[p]
    BY <1>8 DEF HFailure, RecordFailure, HSuccess, RecordSuccess,
                HGetState, GetState, IInv
  <2>2. QED
    BY <1>3, <2>1
<1>9. QED
  BY <1>3, <1>4, <1>5, <1>6, <1>7, <1>8 DEF HNext, hvars

(* A circuit leaves OPEN only after a quiet timeout or on a success, and   *)
(* closes only on SuccessThreshold successes in a row (get_state,          *)
(* record_success).                                                        *)
THEOREM TransitionsEarned == HSpec => LeavesOpenOnEvidence
<1>1. IInv /\ [HNext]_hvars =>
        [\A p \in Providers :
            /\ circuit[p].state = "OPEN" /\ circuit'[p].state # "OPEN" =>
                  seen[p].quiet = OpenTimeout \/ seen'[p].oks >= 1
            /\ circuit[p].state # "CLOSED" /\ circuit'[p].state = "CLOSED" =>
                  seen'[p].oks = SuccessThreshold]_hvars
  BY StepEarned DEF Earned
<1>2. QED
  BY InitAgrees, NextAgrees, <1>1, PTL DEF HSpec, LeavesOpenOnEvidence

-----------------------------------------------------------------------------
(* Calls that share a chain, a health checker and the breaker, for any chain *)
(* and any number of callers.  To the breaker the chain is just more callers *)
(* (a step of it is one of HNext or a stutter), so everything proved of the *)
(* breaker holds of its use here; and an UNHEALTHY provider nobody is bound *)
(* for is given up for good.                                               *)

FInv ==
    /\ FTypeOK
    /\ \A c \in Callers : caller[c].phase # "failed" => caller[c].at <= Len(Chain)

LEMMA WindowIsSeq ==
    ASSUME NEW s
    PROVE  s \in SeqOf(BOOLEAN, WindowSize) <=> s \in Seq(BOOLEAN) /\ Len(s) <= WindowSize
<1>1. ASSUME s \in SeqOf(BOOLEAN, WindowSize)
      PROVE  s \in Seq(BOOLEAN) /\ Len(s) <= WindowSize
  <2>1. PICK m \in 0..WindowSize : s \in [1..m -> BOOLEAN]
    BY <1>1 DEF SeqOf
  <2>2. m \in Nat /\ m <= WindowSize
    BY ChainAssumption
  <2> QED
    BY <2>1, <2>2
<1>2. ASSUME s \in Seq(BOOLEAN), Len(s) <= WindowSize
      PROVE  s \in SeqOf(BOOLEAN, WindowSize)
  <2>1. Len(s) \in 0..WindowSize /\ s \in [1..Len(s) -> BOOLEAN]
    BY <1>2, ChainAssumption
  <2> QED
    BY <2>1 DEF SeqOf
<1> QED
  BY <1>1, <1>2

(* The window stays full once it is, and never holds more.                 *)
LEMMA SampledFits ==
    ASSUME NEW s \in SeqOf(BOOLEAN, WindowSize), NEW ok \in BOOLEAN
    PROVE  Sampled(s, ok) \in SeqOf(BOOLEAN, WindowSize)
<1>1. s \in Seq(BOOLEAN) /\ Len(s) <= WindowSize /\ Len(s) \in Nat /\ WindowSize \in Nat \ {0}
  BY WindowIsSeq, ChainAssumption
<1>2. CASE Len(s) < WindowSize
  <2>1. Append(s, ok) \in Seq(BOOLEAN) /\ Len(Append(s, ok)) = Len(s) + 1
    BY <1>1
  <2>2. Len(Append(s, ok)) <= WindowSize
    BY <1>1, <1>2, <2>1
  <2>3. Sampled(s, ok) = Append(s, ok)
    BY <1>2 DEF Sampled
  <2> QED
    BY <2>1, <2>2, <2>3, WindowIsSeq, Zenon
<1>3. CASE ~(Len(s) < WindowSize)
  <2>1. s # <<>>
    BY <1>1, <1>3
  <2>2. Tail(s) \in Seq(BOOLEAN) /\ Len(Tail(s)) = Len(s) - 1
    BY <1>1, <2>1
  <2> DEFINE t == Tail(s)
  <2> HIDE DEF t
  <2>3. Append(t, ok) \in Seq(BOOLEAN) /\ Len(Append(t, ok)) = Len(t) + 1
    BY <2>2 DEF t
  <2>4. Append(Tail(s), ok) \in Seq(BOOLEAN) /\ Len(Append(Tail(s), ok)) <= WindowSize
    BY <1>1, <1>3, <2>2, <2>3 DEF t
  <2> QED
    BY <1>3, <2>4, WindowIsSeq DEF Sampled
<1> QED
  BY <1>2, <1>3

LEMMA ProviderInChain ==
    ASSUME FInv, NEW c \in Callers, caller[c].phase # "failed"
    PROVE  Provider(c) \in Providers
BY ChainAssumption DEF FInv, FTypeOK, Call, Provider

LEMMA InitFInv == FInit => FInv
<1> SUFFICES ASSUME FInit
             PROVE  FInv
  OBVIOUS
<1>1. <<>> \in SeqOf(BOOLEAN, WindowSize)
  <2>1. <<>> \in Seq(BOOLEAN) /\ Len(<<>>) <= WindowSize
    BY ChainAssumption
  <2> QED
    BY <2>1, WindowIsSeq, Zenon
<1>2. Idle \in Call /\ Idle.phase = "idle" /\ Idle.at = 1 /\ Len(Chain) \in Nat /\ Len(Chain) >= 1
  BY ChainAssumption DEF Idle, Call, Phases
<1> QED
  BY <1>1, <1>2 DEF FInit, FInv, FTypeOK

(* Where a caller of the chain goes next it still has a provider, or it    *)
(* has failed.                                                             *)
LEMMA StepOfCaller ==
    ASSUME FInv, NEW c \in Callers, NEW r \in Call, caller' = [caller EXCEPT ![c] = r],
           samples' \in [Providers -> SeqOf(BOOLEAN, WindowSize)],
           r.phase # "failed" => r.at <= Len(Chain)
    PROVE  FInv'
BY DEF FInv, FTypeOK

LEMMA OnwardFits ==
    ASSUME NEW r \in Call, r.at <= Len(Chain)
    PROVE  /\ Onward(r) \in Call
           /\ Onward(r).phase \in {"checking", "failed"}
           /\ Onward(r).phase # "failed" => Onward(r).at <= Len(Chain)
<1>1. Len(Chain) \in Nat /\ r.at \in Nat /\ r.at + 1 \in 1..(Len(Chain) + 1)
  BY ChainAssumption DEF Call
<1>2. Onward(r) \in Call
  BY <1>1 DEF Onward, Call, Phases
<1>3. /\ Onward(r).phase = IF r.at < Len(Chain) THEN "checking" ELSE "failed"
      /\ Onward(r).at = r.at + 1
  BY <1>1 DEF Onward, Call
<1> QED
  BY <1>1, <1>2, <1>3

LEMMA NextFInv ==
    ASSUME FInv, [FNext]_fvars
    PROVE  FInv'
<1>1. CASE (HNext /\ UNCHANGED <<samples, caller>>) \/ UNCHANGED fvars
  BY <1>1 DEF fvars, FInv, FTypeOK
<1>2. ASSUME NEW c \in Callers, Execute(c)
      PROVE  FInv'
  <2> DEFINE r == [Idle EXCEPT !.phase = "checking"]
  <2>1. r \in Call /\ r.phase = "checking" /\ r.at = 1 /\ Len(Chain) \in Nat /\ Len(Chain) >= 1
    <3>1. Len(Chain) \in Nat /\ Len(Chain) >= 1
      BY ChainAssumption
    <3>2. Idle \in Call /\ Idle.at = 1
      BY <3>1 DEF Idle, Call, Phases
    <3>3. r \in Call /\ r.phase = "checking" /\ r.at = 1
      BY <3>2 DEF Call, Phases
    <3> QED
      BY <3>1, <3>3
  <2>2. caller' = [caller EXCEPT ![c] = r] /\ UNCHANGED samples
    BY <1>2 DEF Execute
  <2> HIDE DEF r
  <2> QED
    BY <2>1, <2>2, StepOfCaller DEF FInv, FTypeOK
<1>3. ASSUME NEW c \in Callers, CheckHealth(c) \/ CheckCircuit(c) \/ ReadState(c)
      PROVE  FInv'
  <2>1. /\ caller[c] \in Call /\ caller[c].phase # "failed" /\ caller[c].at <= Len(Chain)
        /\ UNCHANGED samples
    BY <1>3 DEF CheckHealth, CheckCircuit, ReadState, FInv, FTypeOK
  <2>2. \/ caller' = [caller EXCEPT ![c] = Onward(caller[c])]
        \/ caller' = [caller EXCEPT ![c] = [caller[c] EXCEPT !.phase = "gating"]]
        \/ caller' = [caller EXCEPT ![c] = [caller[c] EXCEPT !.phase = "calling"]]
        \/ caller' = [caller EXCEPT ![c] = Idle]
    BY <1>3 DEF CheckHealth, CheckCircuit, ReadState
  <2>3. CASE caller' = [caller EXCEPT ![c] = Onward(caller[c])]
    BY <2>1, <2>3, OnwardFits, StepOfCaller DEF FInv, FTypeOK
  <2>4. ASSUME NEW phase \in {"gating", "calling"},
               caller' = [caller EXCEPT ![c] = [caller[c] EXCEPT !.phase = phase]]
        PROVE  FInv'
    <3> DEFINE r == [caller[c] EXCEPT !.phase = phase]
    <3>1. r \in Call /\ r.at = caller[c].at
      BY <2>1 DEF Call, Phases
    <3>2. caller' = [caller EXCEPT ![c] = r]
      BY <2>4
    <3> HIDE DEF r
    <3> QED
      BY <2>1, <3>1, <3>2, StepOfCaller DEF FInv, FTypeOK
  <2>5. CASE caller' = [caller EXCEPT ![c] = Idle]
    <3>1. Idle \in Call /\ Idle.at = 1 /\ Len(Chain) \in Nat /\ Len(Chain) >= 1
      BY ChainAssumption DEF Idle, Call, Phases
    <3> QED
      BY <2>1, <2>5, <3>1, StepOfCaller DEF FInv, FTypeOK
  <2> QED
    BY <2>2, <2>3, <2>4, <2>5
<1>4. ASSUME NEW c \in Callers, NEW ok \in BOOLEAN, CallReturns(c, ok)
      PROVE  FInv'
  <2> DEFINE r == [caller[c] EXCEPT !.phase = "reading", !.error = ~ok]
  <2>1. caller[c] \in Call /\ caller[c].phase # "failed" /\ caller[c].at <= Len(Chain)
    BY <1>4 DEF CallReturns, FInv, FTypeOK
  <2>2. r \in Call /\ r.at = caller[c].at
    BY <2>1 DEF Call, Phases
  <2>3. caller' = [caller EXCEPT ![c] = r]
    BY <1>4 DEF CallReturns
  <2>4. samples' \in [Providers -> SeqOf(BOOLEAN, WindowSize)]
    <3>1. Provider(c) \in Providers
      BY <2>1, ProviderInChain
    <3>2. samples[Provider(c)] \in SeqOf(BOOLEAN, WindowSize)
      BY <3>1 DEF FInv, FTypeOK
    <3>3. Sampled(samples[Provider(c)], ok) \in SeqOf(BOOLEAN, WindowSize)
      BY <3>2, SampledFits
    <3>4. samples' = [samples EXCEPT ![Provider(c)] = Sampled(samples[Provider(c)], ok)]
      BY <1>4 DEF CallReturns
    <3> QED
      BY <3>3, <3>4 DEF FInv, FTypeOK
  <2> HIDE DEF r
  <2> QED
    BY <2>1, <2>2, <2>3, <2>4, StepOfCaller DEF FInv, FTypeOK
<1>5. ASSUME NEW c \in Callers, CallEscapes(c)
      PROVE  FInv'
  <2>1. Idle \in Call /\ Idle.at = 1 /\ Len(Chain) \in Nat /\ Len(Chain) >= 1
    BY ChainAssumption DEF Idle, Call, Phases
  <2>2. Provider(c) \in Providers
    BY <1>5, ProviderInChain DEF CallEscapes
  <2>3. samples[Provider(c)] \in SeqOf(BOOLEAN, WindowSize)
    BY <2>2 DEF FInv, FTypeOK
  <2>4. Sampled(samples[Provider(c)], FALSE) \in SeqOf(BOOLEAN, WindowSize)
    BY <2>3, SampledFits
  <2>5. samples' = [samples EXCEPT ![Provider(c)] = Sampled(samples[Provider(c)], FALSE)]
    BY <1>5 DEF CallEscapes
  <2>6. samples' \in [Providers -> SeqOf(BOOLEAN, WindowSize)]
    BY <2>4, <2>5 DEF FInv, FTypeOK
  <2>7. caller' = [caller EXCEPT ![c] = Idle]
    BY <1>5 DEF CallEscapes
  <2> QED
    BY <2>1, <2>6, <2>7, StepOfCaller
<1> QED
  BY <1>1, <1>2, <1>3, <1>4, <1>5 DEF FNext

(* A call that has not failed is at a place of the chain (execute).        *)
THEOREM FInvAlways == FSpec => []FInv
<1>1. FInv /\ [FNext]_fvars => FInv'
  BY NextFInv
<1> QED
  BY InitFInv, <1>1, PTL DEF FSpec

(* Windows and calls have their types: a window never holds more than its  *)
(* samples (record_sample).                                                *)
THEOREM FTypeCorrect == FSpec => []FTypeOK
<1>1. FInv => FTypeOK
  BY DEF FInv
<1> QED
  BY FInvAlways, <1>1, PTL

-----------------------------------------------------------------------------
(* The breaker in use.                                                     *)

LEMMA StepIsHStep ==
    ASSUME FInv, [FNext]_fvars
    PROVE  [HNext]_hvars
<1>1. ASSUME NEW c \in Callers, Execute(c) \/ CheckHealth(c)
      PROVE  UNCHANGED hvars
  BY <1>1 DEF Execute, CheckHealth, hvars
<1>2. ASSUME NEW c \in Callers, CheckCircuit(c) \/ ReadState(c) \/ CallEscapes(c)
                                \/ \E ok \in BOOLEAN : CallReturns(c, ok)
      PROVE  HNext
  <2>1. Provider(c) \in Providers
    BY <1>2, ProviderInChain DEF CheckCircuit, ReadState, CallEscapes, CallReturns
  <2>2. HGetState(Provider(c)) \/ HSuccess(Provider(c)) \/ HFailure(Provider(c))
    BY <1>2 DEF CheckCircuit, ReadState, CallEscapes, CallReturns
  <2> QED
    BY <2>1, <2>2 DEF HNext
<1>3. CASE UNCHANGED fvars
  BY <1>3 DEF fvars, hvars
<1> QED
  BY <1>1, <1>2, <1>3 DEF FNext

(* To the breaker, the calls of execute are callers like any other.        *)
THEOREM ChainUsesBreaker == FSpec => HSpec
<1>1. FInit => HInit
  BY DEF FInit
<1>2. FInv /\ [FNext]_fvars => [HNext]_hvars
  BY StepIsHStep
<1> QED
  BY <1>1, <1>2, FInvAlways, PTL DEF FSpec, HSpec

(* So its records agree with what the callers of the chain, among others,  *)
(* reported (record_failure, record_success, get_state).                   *)
THEOREM ChainEvidence == FSpec => []CircuitTellsEvidence
BY ChainUsesBreaker, EvidenceCorrect, PTL

(* And its circuits leave OPEN, and close, only on evidence.               *)
THEOREM ChainTransitions == FSpec => LeavesOpenOnEvidence
BY ChainUsesBreaker, TransitionsEarned, PTL

-----------------------------------------------------------------------------
(* A provider that is UNHEALTHY, with no call bound for it, stays so.      *)
LEMMA StepGivesUp ==
    ASSUME FInv, [FNext]_fvars, NEW p \in Providers, GivenUp(p)
    PROVE  GivenUp(p)'
<1>1. \A c \in Callers : caller[c].phase \in {"gating", "calling"} => Provider(c) # p
  BY DEF GivenUp, Bound
<1>2. CASE (HNext /\ UNCHANGED <<samples, caller>>) \/ UNCHANGED fvars
  BY <1>2 DEF fvars, GivenUp, Bound, Provider
<1>3. ASSUME NEW c \in Callers, NEW r, caller' = [caller EXCEPT ![c] = r],
             samples'[p] = samples[p],
             r.phase \in {"gating", "calling"} => Chain[r.at] # p
      PROVE  GivenUp(p)'
  <2>1. \A d \in Callers : caller'[d].phase \in {"gating", "calling"} => Chain[caller'[d].at] # p
    BY <1>1, <1>3 DEF Provider, FInv, FTypeOK
  <2> QED
    BY <1>3, <2>1 DEF GivenUp, Bound, Provider
<1>4. ASSUME NEW c \in Callers, Execute(c) \/ ReadState(c)
      PROVE  GivenUp(p)'
  <2>1. caller[c] \in Call
    BY DEF FInv, FTypeOK
  <2>2. UNCHANGED samples
    BY <1>4 DEF Execute, ReadState
  <2>3. PICK r : caller' = [caller EXCEPT ![c] = r] /\ r.phase \notin {"gating", "calling"}
    <3>1. CASE Execute(c)
      <4>1. [Idle EXCEPT !.phase = "checking"].phase = "checking"
        BY DEF Idle
      <4> QED
        BY <3>1, <4>1 DEF Execute
    <3>2. CASE ReadState(c) /\ caller[c].error
      <4>1. caller[c].at <= Len(Chain)
        BY <3>2 DEF ReadState, FInv
      <4> QED
        BY <2>1, <3>2, <4>1, OnwardFits DEF ReadState
    <3>3. CASE ReadState(c) /\ ~caller[c].error
      <4>1. Idle.phase = "idle"
        BY DEF Idle
      <4> QED
        BY <3>3, <4>1 DEF ReadState
    <3> QED
      BY <1>4, <3>1, <3>2, <3>3
  <2> QED
    BY <1>3, <2>2, <2>3
<1>5. ASSUME NEW c \in Callers, CheckHealth(c) \/ CheckCircuit(c)
      PROVE  GivenUp(p)'
  <2>1. caller[c] \in Call /\ caller[c].at <= Len(Chain) /\ UNCHANGED samples
    BY <1>5 DEF CheckHealth, CheckCircuit, FInv, FTypeOK
  <2>2. CASE caller' = [caller EXCEPT ![c] = Onward(caller[c])]
    BY <1>3, <2>1, <2>2, OnwardFits
  <2>3. CASE caller' # [caller EXCEPT ![c] = Onward(caller[c])]
    <3>1. PICK phase \in {"gating", "calling"} :
             caller' = [caller EXCEPT ![c] = [caller[c] EXCEPT !.phase = phase]]
      BY <1>5, <2>3 DEF CheckHealth, CheckCircuit
    <3>2. [caller[c] EXCEPT !.phase = phase].at = caller[c].at
      BY <2>1 DEF Call
    <3>3. Provider(c) # p
      BY <1>1, <1>5, <2>3 DEF CheckHealth, CheckCircuit, GivenUp
    <3> QED
      BY <1>3, <2>1, <3>1, <3>2, <3>3 DEF Provider
  <2> QED
    BY <2>2, <2>3
<1>6. ASSUME NEW c \in Callers, NEW ok \in BOOLEAN, CallReturns(c, ok)
      PROVE  GivenUp(p)'
  <2> DEFINE r == [caller[c] EXCEPT !.phase = "reading", !.error = ~ok]
  <2>1. caller[c] \in Call /\ Provider(c) # p
    BY <1>1, <1>6 DEF CallReturns, FInv, FTypeOK
  <2>2. samples'[p] = samples[p]
    BY <1>6, <2>1 DEF CallReturns, FInv, FTypeOK
  <2>3. caller' = [caller EXCEPT ![c] = r]
    BY <1>6 DEF CallReturns
  <2>4. r.phase = "reading"
    BY <2>1 DEF Call
  <2> HIDE DEF r
  <2> QED
    BY <1>3, <2>2, <2>3, <2>4
<1>7. ASSUME NEW c \in Callers, CallEscapes(c)
      PROVE  GivenUp(p)'
  <2>1. Provider(c) # p
    BY <1>1, <1>7 DEF CallEscapes
  <2>2. samples'[p] = samples[p]
    BY <1>7, <2>1 DEF CallEscapes, FInv, FTypeOK
  <2>3. caller' = [caller EXCEPT ![c] = Idle] /\ Idle.phase = "idle"
    BY <1>7 DEF CallEscapes, Idle
  <2> QED
    BY <1>3, <2>2, <2>3
<1> QED
  BY <1>2, <1>4, <1>5, <1>6, <1>7 DEF FNext

(* A provider found UNHEALTHY that no call is bound for is given up for    *)
(* good: execute never asks it again (execute, HealthChecker.check).       *)
THEOREM GivenUpForGood == FSpec => UnhealthyIsGivenUp
<1>1. FInv /\ [FNext]_fvars => [\A p \in Providers : GivenUp(p) => GivenUp(p)']_fvars
  BY StepGivesUp
<1> QED
  BY <1>1, FInvAlways, PTL DEF FSpec, UnhealthyIsGivenUp

=============================================================================
