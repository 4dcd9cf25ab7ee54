-------------------------- MODULE Ingestion_proofs --------------------------
(***************************************************************************)
(* What callers of the control plane are told, for any numbers of clients, *)
(* keys, traces, parents and readers: the trace of an idempotency key, and *)
(* the verdicts on traces, findings and experiments.                       *)
(***************************************************************************)
EXTENDS TraceIngestion, VerdictsHistory, TLAPS

-----------------------------------------------------------------------------
(* Traces.  An idempotency key keeps its promise: ingestion implements     *)
(* OneAnswer.  What makes AnswersAgree inductive is what a call knows between *)
(* two of its transactions: a call that is about to store has a key, and the *)
(* trace it made is still there, since nothing deletes traces.             *)

StoringHasTrace ==
    \A c \in Clients : request[c].phase = "storing" =>
        request[c].key \in IdemKeys /\ request[c].id \in traces

StoredExists == \A k \in IdemKeys : idem[k] # None => idem[k] \in traces

IInv == IngestTypeOK /\ StoringHasTrace /\ StoredExists /\ AnswersAgree

LEMMA InitIInv == IngestInit => IInv
BY TraceAssumption DEF IngestInit, IInv, IngestTypeOK, RequestPhases, StoringHasTrace,
                       StoredExists, AnswersAgree

(* What a call that goes on, or is answered, leaves behind.                *)
LEMMA GoOnIInv ==
    ASSUME IInv, NEW c \in Clients, NEW phase \in RequestPhases \ {"storing"},
           NEW t \in TraceIds \cup {None},
           GoOn(c, phase, t), UNCHANGED <<traces, idem, madeFor>>
    PROVE  IInv'
<1>1. request' = [request EXCEPT ![c] = [phase |-> phase, key |-> request[c].key, id |-> t]]
  BY DEF GoOn, IInv, IngestTypeOK
<1>2. request'[c].phase # "storing" /\ \A d \in Clients \ {c} : request'[d] = request[d]
  BY <1>1 DEF IInv, IngestTypeOK
<1>3. IngestTypeOK'
  BY <1>1 DEF IInv, IngestTypeOK, GoOn
<1>4. StoringHasTrace' /\ StoredExists' /\ AnswersAgree'
  BY <1>2 DEF IInv, StoringHasTrace, StoredExists, AnswersAgree, GoOn
<1> QED
  BY <1>3, <1>4 DEF IInv

LEMMA AnswerRequest ==
    ASSUME IInv, NEW c \in Clients, NEW t \in TraceIds, Answer(c, t)
    PROVE  /\ request' \in [Clients -> [phase: RequestPhases, key: IdemKeys \cup {None},
                                        id: TraceIds \cup {None}]]
           /\ request'[c].phase = "answered"
           /\ \A d \in Clients \ {c} : request'[d] = request[d]
           /\ answers' \in [IdemKeys -> SUBSET TraceIds]
           /\ \A k \in IdemKeys \ {request[c].key} : answers'[k] = answers[k]
           /\ request[c].key \in IdemKeys =>
                 answers' = [answers EXCEPT ![request[c].key] = @ \cup {t}]
<1>1. request' = [request EXCEPT ![c] = [phase |-> "answered", key |-> request[c].key, id |-> t]]
  BY DEF Answer, IInv, IngestTypeOK
<1>2. [phase |-> "answered", key |-> request[c].key, id |-> t]
        \in [phase: RequestPhases, key: IdemKeys \cup {None}, id: TraceIds \cup {None}]
  BY DEF IInv, IngestTypeOK, RequestPhases
<1>3. /\ request' \in [Clients -> [phase: RequestPhases, key: IdemKeys \cup {None},
                                  id: TraceIds \cup {None}]]
      /\ request'[c].phase = "answered"
      /\ \A d \in Clients \ {c} : request'[d] = request[d]
  BY <1>1, <1>2 DEF IInv, IngestTypeOK
<1>4. /\ answers' \in [IdemKeys -> SUBSET TraceIds]
      /\ \A k \in IdemKeys \ {request[c].key} : answers'[k] = answers[k]
  BY DEF Answer, IInv, IngestTypeOK
<1>5. request[c].key \in IdemKeys =>
        answers' = [answers EXCEPT ![request[c].key] = @ \cup {t}]
  BY DEF Answer, IInv, IngestTypeOK
<1> QED
  BY <1>3, <1>4, <1>5

LEMMA StartIInv ==
    ASSUME IInv, NEW c \in Clients, NEW k \in IdemKeys \cup {None},
           request' = [request EXCEPT ![c] = NewCall(k)], UNCHANGED <<tables, history>>
    PROVE  IInv'
BY DEF IInv, IngestTypeOK, StoringHasTrace, StoredExists, AnswersAgree, NewCall, tables,
       history, RequestPhases

LEMMA LookUpIInv ==
    ASSUME IInv, NEW c \in Clients, LookUp(c)
    PROVE  IInv'
<1> DEFINE k == request[c].key
<1>1. CASE k # None /\ idem[k] # None
  <2>1. k \in IdemKeys /\ idem[k] \in TraceIds /\ idem[k] \in traces
    BY <1>1 DEF IInv, IngestTypeOK, StoredExists
  <2>2. Answer(c, idem[k]) /\ UNCHANGED <<traces, idem, madeFor>>
    BY <1>1 DEF LookUp, tables
  <2>3. answers' = [answers EXCEPT ![k] = @ \cup {idem[k]}]
    BY <2>1, <2>2, AnswerRequest
  <2>4. AnswersAgree'
    BY <2>1, <2>2, <2>3 DEF IInv, AnswersAgree, IngestTypeOK
  <2> QED
    BY <2>1, <2>2, <2>4, AnswerRequest DEF IInv, IngestTypeOK, StoringHasTrace, StoredExists
<1>2. CASE ~(k # None /\ idem[k] # None)
  BY <1>2, GoOnIInv DEF LookUp, tables, RequestPhases
<1> QED
  BY <1>1, <1>2

LEMMA CreateIInv ==
    ASSUME IInv, NEW c \in Clients, NEW t \in TraceIds, Create(c, t)
    PROVE  IInv'
<1>1. traces' = traces \cup {t} /\ idem' = idem
      /\ madeFor' \in [TraceIds -> IdemKeys \cup {None}]
  BY DEF Create, IInv, IngestTypeOK
<1>2. CASE request[c].key = None
  <2>1. Answer(c, t) /\ request[c].key \notin IdemKeys
    BY <1>2, TraceAssumption DEF Create
  <2>2. AnswersAgree'
    BY <1>1, <2>1, AnswerRequest DEF IInv, AnswersAgree
  <2> QED
    BY <1>1, <2>1, <2>2, AnswerRequest DEF IInv, IngestTypeOK, StoringHasTrace, StoredExists
<1>3. CASE request[c].key # None
  <2>1. request' = [request EXCEPT ![c] = [phase |-> "storing", key |-> request[c].key, id |-> t]]
        /\ answers' = answers
    BY <1>3 DEF Create, GoOn, IInv, IngestTypeOK
  <2>2. IngestTypeOK'
    BY <1>1, <2>1 DEF IInv, IngestTypeOK, RequestPhases
  <2>3. StoringHasTrace'
    BY <1>1, <1>3, <2>1 DEF IInv, IngestTypeOK, StoringHasTrace
  <2>4. StoredExists' /\ AnswersAgree'
    BY <1>1, <2>1 DEF IInv, StoredExists, AnswersAgree
  <2> QED
    BY <2>2, <2>3, <2>4 DEF IInv
<1> QED
  BY <1>2, <1>3

LEMMA StoreIInv ==
    ASSUME IInv, NEW c \in Clients, Store(c)
    PROVE  IInv'
<1> DEFINE k == request[c].key
           t == request[c].id
<1>1. k \in IdemKeys /\ t \in traces /\ t \in TraceIds
  BY DEF Store, IInv, StoringHasTrace, IngestTypeOK
<1>2. UNCHANGED <<traces, madeFor>>
  BY DEF Store
<1>3. CASE idem[k] # None
  BY <1>2, <1>3, GoOnIInv DEF Store, RequestPhases
<1>4. CASE idem[k] = None
  <2>1. idem' = [idem EXCEPT ![k] = t] /\ answers[k] = {}
    BY <1>1, <1>4, TraceAssumption DEF Store, IInv, AnswersAgree, IngestTypeOK
  <2>2. idem' \in [IdemKeys -> TraceIds \cup {None}] /\ StoredExists'
    BY <1>1, <1>2, <2>1 DEF IInv, IngestTypeOK, StoredExists
  <2>3. CASE Answer(c, t)
    <3>1. answers' = [answers EXCEPT ![k] = @ \cup {t}]
      BY <1>1, <2>3, AnswerRequest
    <3>2. AnswersAgree'
      BY <1>1, <1>2, <2>1, <3>1 DEF IInv, AnswersAgree, IngestTypeOK
    <3> QED
      BY <1>1, <1>2, <2>2, <2>3, <3>2, AnswerRequest DEF IInv, IngestTypeOK, StoringHasTrace
  <2>4. CASE GoOn(c, "raised", None)
    <3>1. /\ request' = [request EXCEPT ![c] = [phase |-> "raised", key |-> k, id |-> None]]
          /\ answers' = answers
      BY <2>4 DEF GoOn, IInv, IngestTypeOK
    <3>2. AnswersAgree'
      BY <1>1, <1>2, <2>1, <3>1 DEF IInv, AnswersAgree, IngestTypeOK
    <3>3. request' \in [Clients -> [phase: RequestPhases, key: IdemKeys \cup {None},
                                    id: TraceIds \cup {None}]]
      BY <1>1, <3>1 DEF IInv, IngestTypeOK, RequestPhases
    <3>4. StoringHasTrace'
      BY <1>2, <3>1 DEF IInv, IngestTypeOK, StoringHasTrace
    <3> QED
      BY <1>2, <2>2, <3>1, <3>2, <3>3, <3>4 DEF IInv, IngestTypeOK
  <2> QED
    BY <1>4, <2>3, <2>4 DEF Store
<1> QED
  BY <1>3, <1>4

LEMMA NextIInv ==
    ASSUME IInv, [IngestNext]_ivars
    PROVE  IInv'
<1>1. ASSUME NEW c \in Clients, NEW k \in IdemKeys \cup {None}, Start(c, k)
      PROVE  IInv'
  BY <1>1, StartIInv DEF Start
<1>2. ASSUME NEW c \in Clients, Retry(c)
      PROVE  IInv'
  BY <1>2, StartIInv DEF Retry, IInv, IngestTypeOK
<1>3. ASSUME NEW c \in Clients, LookUp(c)
      PROVE  IInv'
  BY <1>3, LookUpIInv
<1>4. ASSUME NEW c \in Clients, NEW t \in TraceIds, Create(c, t)
      PROVE  IInv'
  BY <1>4, CreateIInv
<1>5. ASSUME NEW c \in Clients, Store(c)
      PROVE  IInv'
  BY <1>5, StoreIInv
<1>6. ASSUME NEW c \in Clients, Fail(c)
      PROVE  IInv'
  BY <1>6, GoOnIInv DEF Fail, tables, RequestPhases
<1>7. CASE UNCHANGED ivars
  BY <1>7 DEF ivars, IInv, IngestTypeOK, StoringHasTrace, StoredExists, AnswersAgree
<1> QED
  BY <1>1, <1>2, <1>3, <1>4, <1>5, <1>6, <1>7 DEF IngestNext

(* A call that is about to store has its trace, and so has every stored key *)
(* (start_trace, _idem).                                                   *)
THEOREM IInvAlways == IngestSpec => []IInv
<1>1. IInv /\ [IngestNext]_ivars => IInv'
  BY NextIInv
<1> QED
  BY InitIInv, <1>1, PTL DEF IngestSpec

(* Traces, stored keys, calls and answers have their types, for any        *)
(* numbers of clients, keys and traces (start_trace, _idem).               *)
THEOREM IngestTypeCorrect == IngestSpec => []IngestTypeOK
<1>1. IInv => IngestTypeOK
  BY DEF IInv
<1> QED
  BY IInvAlways, <1>1, PTL

(* All answers under one key are the one stored trace, which exists,       *)
(* however lookups, creations, stores and failures interleave (_idem).     *)
THEOREM AnswersCorrect == IngestSpec => []AnswersAgree
<1>1. IInv => AnswersAgree
  BY DEF IInv
<1> QED
  BY IInvAlways, <1>1, PTL

-----------------------------------------------------------------------------
(* Each step settles an answer, tells it, or leaves both alone.            *)

LEMMA LookUpKeeps ==
    ASSUME IInv, NEW c \in Clients, LookUp(c)
    PROVE  [Promise!Next]_<<idem, answers>>
<1> DEFINE k == request[c].key
<1>1. CASE k # None /\ idem[k] # None
  <2>1. k \in IdemKeys /\ idem[k] \in TraceIds
    BY <1>1 DEF IInv, IngestTypeOK
  <2>2. Answer(c, idem[k]) /\ UNCHANGED idem
    BY <1>1 DEF LookUp, tables
  <2>3. Promise!Tell(k)
    BY <1>1, <2>1, <2>2, AnswerRequest DEF Promise!Tell
  <2> QED
    BY <2>1, <2>3 DEF Promise!Next
<1>2. CASE ~(k # None /\ idem[k] # None)
  BY <1>2 DEF LookUp, GoOn, tables
<1> QED
  BY <1>1, <1>2

LEMMA CreateKeeps ==
    ASSUME IInv, NEW c \in Clients, NEW t \in TraceIds, Create(c, t)
    PROVE  UNCHANGED <<idem, answers>>
<1>1. CASE request[c].key = None
  <2>1. answers' = [k \in IdemKeys |-> IF k = None THEN answers[k] \cup {t} ELSE answers[k]]
    BY <1>1 DEF Create, Answer
  <2> QED
    BY <2>1, TraceAssumption DEF Create, IInv, IngestTypeOK
<1>2. CASE request[c].key # None
  BY <1>2 DEF Create, GoOn
<1> QED
  BY <1>1, <1>2

LEMMA StoreKeeps ==
    ASSUME IInv, NEW c \in Clients, Store(c)
    PROVE  [Promise!Next]_<<idem, answers>>
<1> DEFINE k == request[c].key
           t == request[c].id
<1>1. k \in IdemKeys /\ t \in TraceIds
  BY DEF Store, IInv, StoringHasTrace, IngestTypeOK
<1>2. CASE idem[k] = None
  <2>1. answers' = answers \/ answers' = [answers EXCEPT ![k] = @ \cup {t}]
    BY <1>1, <1>2, AnswerRequest DEF Store, GoOn
  <2>2. Promise!Settle(k, t)
    BY <1>2, <2>1 DEF Store, Promise!Settle
  <2> QED
    BY <1>1, <2>2 DEF Promise!Next
<1>3. CASE idem[k] # None
  BY <1>3 DEF Store, GoOn
<1> QED
  BY <1>2, <1>3

(* Ingestion implements OneAnswer: the first trace stored under a key is   *)
(* the only one anybody who sends the key is ever told (_idem).            *)
THEOREM KeyKeepsPromise == IngestSpec => KeyIsPromise
<1>1. IngestInit => Promise!Init
  BY DEF IngestInit, Promise!Init
<1>2. ASSUME IInv, [IngestNext]_ivars
      PROVE  [Promise!Next]_<<idem, answers>>
  <2>1. ASSUME NEW c \in Clients, NEW k \in IdemKeys \cup {None}, Start(c, k)
        PROVE  UNCHANGED <<idem, answers>>
    BY <2>1 DEF Start, tables, history
  <2>2. ASSUME NEW c \in Clients, Retry(c) \/ Fail(c)
        PROVE  UNCHANGED <<idem, answers>>
    BY <2>2 DEF Retry, Fail, GoOn, tables, history
  <2>3. CASE UNCHANGED ivars
    BY <2>3 DEF ivars
  <2> QED
    BY <1>2, <2>1, <2>2, <2>3, LookUpKeeps, CreateKeeps, StoreKeeps DEF IngestNext
<1> QED
  BY <1>1, <1>2, IInvAlways, PTL DEF IngestSpec, KeyIsPromise, Promise!Spec

-----------------------------------------------------------------------------
(* Verdicts.  A reader makes two SELECTs, and a parent can be marked between *)
(* them.  Marks are made in the transaction that stores their reason and rows *)
(* are never deleted, so what a reader has seen first still has its reason *)
(* when it looks for it.                                                   *)

ParentStates == {FirstState(p) : p \in Parents} \cup {Marked(p) : p \in Parents}

(* What a reader holds between its two SELECTs: a mark it has seen has its *)
(* reason in the table already, and rows stay.                             *)
ReadingExplained ==
    \A r \in Readers : view[r].phase = "reading" /\ view[r].state = Marked(view[r].of)
                           => "bad" \in children[view[r].of]

VerdictIInv ==
    /\ parent \in [Parents -> ParentStates]
    /\ VerdictTypeOK
    /\ MarksAreExplained
    /\ ReadingExplained

LEMMA InitVerdict == VerdictInit => VerdictIInv
BY VerdictAssumption
DEF VerdictInit, VerdictIInv, VerdictTypeOK, MarksAreExplained, ReadingExplained, ParentStates,
    Parents, FirstState, Marked, NoView, GateStates, Kinds, Metrics

LEMMA AddChildVerdict ==
    ASSUME VerdictIInv, NEW p \in Parents, NEW kind \in Kinds, AddChild(p, kind)
    PROVE  VerdictIInv'
<1> USE DEF VerdictIInv
<1>1. /\ children' \in [Parents -> SUBSET Kinds]
      /\ \A q \in Parents : children'[q] = IF q = p THEN children[q] \cup {kind} ELSE children[q]
  BY DEF AddChild, VerdictTypeOK
<1>2. /\ parent' \in [Parents -> ParentStates]
      /\ \A q \in Parents : parent'[q] = IF q = p /\ kind = "bad" THEN Marked(q) ELSE parent[q]
  BY DEF AddChild, ParentStates
<1>3. UNCHANGED <<view, gate, scores, verdict>>
  BY DEF AddChild, gateVars
<1>4. VerdictTypeOK'
  BY <1>1, <1>2, <1>3 DEF VerdictTypeOK
<1>5. ReadingExplained'
  BY <1>1, <1>3 DEF ReadingExplained, VerdictTypeOK
<1>6. \A q \in Parents : parent'[q] = Marked(q) <=> "bad" \in children'[q]
  <2> TAKE q \in Parents
  <2>1. parent[q] = Marked(q) <=> "bad" \in children[q]
    BY DEF MarksAreExplained
  <2> QED
    BY <2>1, <1>1, <1>2 DEF VerdictTypeOK
<1> QED
  BY <1>2, <1>3, <1>4, <1>5, <1>6 DEF MarksAreExplained

LEMMA ReadParentVerdict ==
    ASSUME VerdictIInv, NEW r \in Readers, NEW p \in Parents, ReadParent(r, p)
    PROVE  VerdictIInv'
<1> USE DEF VerdictIInv
<1> DEFINE shown == [phase |-> "reading", of |-> p, state |-> parent[p], children |-> {}]
<1>1. view' = [view EXCEPT ![r] = shown] /\ UNCHANGED <<parent, children, gate, scores, verdict>>
  BY DEF ReadParent, gateVars
<1>2. shown \in [phase: {"idle", "reading", "done"}, of: Parents, state: ParentStates,
                 children: SUBSET Kinds]
  BY DEF ParentStates
<1>3. VerdictTypeOK'
  BY <1>1, <1>2 DEF VerdictTypeOK, ParentStates
<1>4. \A q \in Readers : view'[q] = IF q = r THEN shown ELSE view[q]
  BY <1>1 DEF VerdictTypeOK
<1>5. MarksAreExplained' /\ ReadingExplained'
  BY <1>1, <1>4 DEF MarksAreExplained, ReadingExplained
<1> QED
  BY <1>1, <1>3, <1>5

LEMMA ReadChildrenVerdict ==
    ASSUME VerdictIInv, NEW r \in Readers, ReadChildren(r)
    PROVE  VerdictIInv'
<1> USE DEF VerdictIInv
<1> DEFINE shown == [phase |-> "done", of |-> view[r].of, state |-> view[r].state,
                     children |-> children[view[r].of]]
<1>1. view' = [view EXCEPT ![r] = shown] /\ UNCHANGED <<parent, children, gate, scores, verdict>>
  BY DEF ReadChildren, gateVars
<1>2. shown \in [phase: {"idle", "reading", "done"}, of: Parents, state: ParentStates,
                 children: SUBSET Kinds]
  BY DEF ParentStates, VerdictTypeOK
<1>3. VerdictTypeOK'
  BY <1>1, <1>2 DEF VerdictTypeOK, ParentStates
<1>4. \A q \in Readers : view'[q] = IF q = r THEN shown ELSE view[q]
  BY <1>1 DEF VerdictTypeOK
<1>5. shown.state = Marked(shown.of) => "bad" \in shown.children
  BY DEF ReadChildren, ReadingExplained
<1>6. MarksAreExplained' /\ ReadingExplained'
  BY <1>1, <1>4, <1>5 DEF MarksAreExplained, ReadingExplained
<1> QED
  BY <1>1, <1>3, <1>6

LEMMA NextVerdict == VerdictIInv /\ [VerdictNext]_vvars => VerdictIInv'
<1> SUFFICES ASSUME VerdictIInv, [VerdictNext]_vvars PROVE VerdictIInv'
  OBVIOUS
<1>1. ASSUME NEW kind \in Kinds, AddSpan(kind) \/ AddFinding(kind) PROVE VerdictIInv'
  BY <1>1, AddChildVerdict DEF AddSpan, AddFinding, Parents
<1>2. ASSUME NEW r \in Readers, ReadTrace(r) \/ ReadReport(r) PROVE VerdictIInv'
  BY <1>2, ReadParentVerdict DEF ReadTrace, ReadReport, Parents
<1>3. ASSUME NEW r \in Readers, ReadChildren(r) PROVE VerdictIInv'
  BY <1>3, ReadChildrenVerdict
<1>4. ASSUME UNCHANGED parentVars,
             gate' \in GateStates,
             scores' \in [Metrics -> Values \cup {NoScore}],
             verdict' \in [Evaluators -> {"none", "PASSED", "FAILED"}]
      PROVE  VerdictIInv'
  BY <1>4 DEF VerdictIInv, parentVars, VerdictTypeOK, MarksAreExplained, ReadingExplained
<1>5. CASE CreateExperiment
  BY <1>4, <1>5 DEF CreateExperiment, VerdictIInv, VerdictTypeOK, GateStates
<1>6. ASSUME NEW m \in Metrics, NEW value \in Values, RecordScore(m, value) PROVE VerdictIInv'
  BY <1>4, <1>6 DEF RecordScore, VerdictIInv, VerdictTypeOK
<1>7. ASSUME NEW e \in Evaluators, ReadScores(e) \/ WriteGate(e) \/ AbortEvaluation(e)
      PROVE  VerdictIInv'
  <2>1. gate' \in GateStates
    BY <1>7 DEF ReadScores, WriteGate, AbortEvaluation, VerdictIInv, VerdictTypeOK, GateStates
  <2>2. verdict' \in [Evaluators -> {"none", "PASSED", "FAILED"}]
    BY <1>7 DEF ReadScores, WriteGate, AbortEvaluation, VerdictIInv, VerdictTypeOK
  <2>3. UNCHANGED <<scores, parentVars>>
    BY <1>7 DEF ReadScores, WriteGate, AbortEvaluation
  <2> QED
    BY <1>4, <2>1, <2>2, <2>3 DEF VerdictIInv, VerdictTypeOK
<1>8. CASE UNCHANGED vvars
  BY <1>8 DEF vvars, VerdictIInv, VerdictTypeOK, MarksAreExplained, ReadingExplained
<1> QED
  BY <1>1, <1>2, <1>3, <1>5, <1>6, <1>7, <1>8 DEF VerdictNext

(* Marks are explained, in the tables and in what a reader holds.          *)
THEOREM VerdictIInvAlways == VerdictSpec => []VerdictIInv
BY InitVerdict, NextVerdict, PTL DEF VerdictSpec

(* Traces, scans, reads, gates and evaluations keep their shapes.          *)
THEOREM VerdictTypeCorrect == VerdictSpec => []VerdictTypeOK
BY VerdictIInvAlways, PTL DEF VerdictIInv

(* Whatever spans and findings arrive between the two SELECTs of whatever  *)
(* readers, a trace or scan is marked exactly when a child counts against  *)
(* it, and nobody is shown a mark without the child that explains it       *)
(* (add_span, record_finding, trace, security_report).                     *)
THEOREM MarksExplained == VerdictSpec => []MarksAreExplained
BY VerdictIInvAlways, PTL DEF VerdictIInv

-----------------------------------------------------------------------------
(* Why no PASSED is unearned: an evaluator that goes to write it has seen  *)
(* the scores all good, and so has the one that wrote it.                  *)
EarnedIInv ==
    /\ PassedWasEarned
    /\ Met => wasMet
    /\ \A e \in Evaluators : verdict[e] = "PASSED" => wasMet

LEMMA InitEarned == WatchedInit => EarnedIInv
BY DEF WatchedInit, VerdictInit, EarnedIInv, PassedWasEarned

LEMMA NextEarned == VerdictTypeOK /\ EarnedIInv /\ [WatchedNext]_wvars => EarnedIInv'
<1> SUFFICES ASSUME VerdictTypeOK, EarnedIInv, [WatchedNext]_wvars PROVE EarnedIInv'
  OBVIOUS
<1>1. CASE UNCHANGED wvars
  BY <1>1 DEF wvars, EarnedIInv, PassedWasEarned, Met, Violations
<1>2. CASE WatchedNext
  <2>1. wasMet' = (wasMet \/ Met')
    BY <1>2 DEF WatchedNext
  <2>2. wasMet => EarnedIInv'
    BY <2>1 DEF EarnedIInv, PassedWasEarned
  <2>3. gate' = "PASSED" /\ ~wasMet => wasMet'
    <3>1. CASE \E e \in Evaluators : WriteGate(e)
      BY <3>1 DEF WriteGate, EarnedIInv, PassedWasEarned
    <3>2. CASE ~\E e \in Evaluators : WriteGate(e)
      <4>1. gate' = gate \/ gate' = "RUNNING"
        BY <1>2, <3>2 DEF WatchedNext, VerdictNext, AddSpan, AddFinding, AddChild, ReadTrace,
               ReadReport, ReadParent, ReadChildren, CreateExperiment, RecordScore, ReadScores,
               AbortEvaluation, gateVars
      <4> QED
        BY <4>1 DEF EarnedIInv, PassedWasEarned
    <3> QED
      BY <3>1, <3>2
  <2>4. ASSUME NEW e \in Evaluators, verdict'[e] = "PASSED", ~wasMet PROVE wasMet'
    <3>1. verdict[e] # "PASSED"
      BY <2>4 DEF EarnedIInv
    <3>2. CASE \E f \in Evaluators : ReadScores(f)
      <4>1. PICK f \in Evaluators : ReadScores(f)
        BY <3>2
      <4>2. Met
        BY <4>1, <3>1, <2>4 DEF ReadScores, VerdictTypeOK, Met
      <4> QED
        BY <4>2, <2>4 DEF EarnedIInv
    <3>3. CASE ~\E f \in Evaluators : ReadScores(f)
      <4>1. verdict' = verdict \/ \E f \in Evaluators : verdict' = [verdict EXCEPT ![f] = "none"]
        BY <1>2, <3>3 DEF WatchedNext, VerdictNext, AddSpan, AddFinding, AddChild, ReadTrace,
               ReadReport, ReadParent, ReadChildren, CreateExperiment, RecordScore, WriteGate,
               AbortEvaluation, gateVars
      <4> QED
        BY <4>1, <3>1, <2>4 DEF VerdictTypeOK
    <3> QED
      BY <3>2, <3>3
  <2> QED
    BY <2>1, <2>2, <2>3, <2>4 DEF EarnedIInv, PassedWasEarned
<1> QED
  BY <1>1, <1>2

(* However evaluations overlap with each other and with new scores, a gate *)
(* that says PASSED was earned by one moment at which all scores were good *)
(* (evaluate_gate, record_score).                                          *)
THEOREM PassedIsEarned == WatchedSpec => []PassedWasEarned
<1>1. WatchedSpec => VerdictSpec
  <2>1. WatchedInit => VerdictInit
    BY DEF WatchedInit
  <2>2. [WatchedNext]_wvars => [VerdictNext]_vvars
    BY DEF WatchedNext, wvars, vvars
  <2> QED
    BY <2>1, <2>2, PTL DEF WatchedSpec, VerdictSpec
<1>2. EarnedIInv => PassedWasEarned
  BY DEF EarnedIInv
<1> QED
  BY <1>1, <1>2, VerdictTypeCorrect, InitEarned, NextEarned, PTL DEF WatchedSpec

=============================================================================
