--------------------------- MODULE TraceIngestion ---------------------------
(***************************************************************************)
(* Trace ingestion of control_plane.py: callers start traces, some of them *)
(* under an idempotency key.  `_idem` looks the key up, makes the trace    *)
(* and stores the key on three connections, so that callers with the same  *)
(* key interleave.  What a trace holds is left to Verdicts.                *)
(***************************************************************************)
EXTENDS Integers, FiniteSets

CONSTANTS
    Clients,    \* threads that start traces
    IdemKeys,       \* idempotency keys
    TraceIds,   \* ids that start_trace may draw; each is drawn once
    None        \* no key, no id

ASSUME TraceAssumption == None \notin IdemKeys /\ None \notin TraceIds

VARIABLES
    traces,     \* the ids of the traces that exist
    idem,       \* [IdemKeys -> the stored resource id, or None]
    request,    \* [Clients -> the start_trace call in progress or just over]
    madeFor,    \* history: [TraceIds -> the key the trace was made under]
    answers     \* history: [IdemKeys -> ids returned to callers that gave the key]

tables == <<traces, idem>>
history == <<madeFor, answers>>
ivars == <<traces, idem, request, madeFor, answers>>

RequestPhases == {"idle", "looking_up", "creating", "storing", "answered", "raised"}
NewCall(k) == [phase |-> "looking_up", key |-> k, id |-> None]

IngestTypeOK ==
    /\ traces \subseteq TraceIds
    /\ idem \in [IdemKeys -> TraceIds \cup {None}]
    /\ request \in [Clients -> [phase: RequestPhases, key: IdemKeys \cup {None},
                               id: TraceIds \cup {None}]]
    /\ madeFor \in [TraceIds -> IdemKeys \cup {None}]
    /\ answers \in [IdemKeys -> SUBSET TraceIds]

(* The call of c returns t, or goes on with it in the given phase.         *)
Answer(c, t) ==
    /\ request' = [request EXCEPT ![c] = [phase |-> "answered", key |-> @.key, id |-> t]]
    /\ answers' = [k \in IdemKeys |-> IF k = request[c].key THEN answers[k] \cup {t} ELSE answers[k]]

GoOn(c, phase, t) ==
    /\ request' = [request EXCEPT ![c] = [phase |-> phase, key |-> @.key, id |-> t]]
    /\ UNCHANGED answers

-----------------------------------------------------------------------------
(* Faulty variants, each with the slip its name says.  No specification    *)
(* uses them: a run that checks a property is shown to notice one of them  *)
(* put in the place of the definition.                                     *)

LookUpForgets(c) ==
    /\ request[c].phase = "looking_up"
    /\ GoOn(c, "creating", None)
    /\ UNCHANGED <<tables, madeFor>>

StoreReplaces(c) ==
    LET k == request[c].key IN
    /\ request[c].phase = "storing"
    /\ idem' = [idem EXCEPT ![k] = request[c].id]
    /\ Answer(c, request[c].id)
    /\ UNCHANGED <<traces, madeFor>>

-----------------------------------------------------------------------------
IngestInit ==
    /\ traces = {}
    /\ idem = [k \in IdemKeys |-> None]
    /\ request = [c \in Clients |-> [phase |-> "idle", key |-> None, id |-> None]]
    /\ madeFor = [t \in TraceIds |-> None]
    /\ answers = [k \in IdemKeys |-> {}]

(* A client asks for a trace, with a key or without; one whose call failed *)
(* repeats it.                                                             *)
Start(c, k) ==
    /\ request[c].phase \in {"idle", "answered"}
    /\ request' = [request EXCEPT ![c] = NewCall(k)]
    /\ UNCHANGED <<tables, history>>

Retry(c) ==
    /\ request[c].phase = "raised"
    /\ request' = [request EXCEPT ![c] = NewCall(request[c].key)]
    /\ UNCHANGED <<tables, history>>

(* _idem's SELECT: a stored id is the answer.  Without a key there is      *)
(* nothing to look up.                                                     *)
LookUp(c) ==
    /\ request[c].phase = "looking_up"
    /\ IF request[c].key # None /\ idem[request[c].key] # None
       THEN Answer(c, idem[request[c].key])
       ELSE GoOn(c, "creating", None)
    /\ UNCHANGED <<tables, madeFor>>

(* The factory inserts the trace, in a transaction of its own.             *)
Create(c, t) ==
    /\ request[c].phase = "creating" /\ t \notin traces
    /\ traces' = traces \cup {t}
    /\ madeFor' = [madeFor EXCEPT ![t] = request[c].key]
    /\ IF request[c].key = None THEN Answer(c, t) ELSE GoOn(c, "storing", t)
    /\ UNCHANGED idem

(* _idem's INSERT: a key that is there by now (PRIMARY KEY) raises         *)
(* IntegrityError, and the trace just made stays behind.  After the commit *)
(* the process may still end before it answers.                            *)
Store(c) ==
    LET k == request[c].key IN
    /\ request[c].phase = "storing"
    /\ IF idem[k] = None
       THEN /\ idem' = [idem EXCEPT ![k] = request[c].id]
            /\ Answer(c, request[c].id) \/ GoOn(c, "raised", None)
       ELSE GoOn(c, "raised", None) /\ UNCHANGED idem
    /\ UNCHANGED <<traces, madeFor>>

(* The database stays locked, or the process ends, in any of the three.    *)
Fail(c) ==
    /\ request[c].phase \in {"looking_up", "creating", "storing"}
    /\ GoOn(c, "raised", None)
    /\ UNCHANGED <<tables, madeFor>>

IngestNext ==
    \/ \E c \in Clients :
          \/ \E k \in IdemKeys \cup {None} : Start(c, k)
          \/ Retry(c) \/ LookUp(c) \/ Store(c) \/ Fail(c)
          \/ \E t \in TraceIds : Create(c, t)

IngestSpec == IngestInit /\ [][IngestNext]_ivars

(* Calls end, callers whose call failed try again, and the database is not *)
(* locked at every one of their lookups.                                   *)
IngestFairness ==
    \A c \in Clients :
        /\ WF_ivars(Retry(c)) /\ SF_ivars(LookUp(c)) /\ WF_ivars(Store(c))
        /\ WF_ivars((\E t \in TraceIds : Create(c, t)) \/ Fail(c))

FairIngestSpec == IngestSpec /\ IngestFairness

-----------------------------------------------------------------------------
(* All callers that are answered under one key are given the same trace,   *)
(* the one stored under the key, and it exists: callers that lose the race *)
(* are told so and never get a trace of their own (_idem).                 *)
AnswersAgree ==
    \A k \in IdemKeys : answers[k] \subseteq {idem[k]} \cap traces

(* Ingestion keeps the promise of a key: each step settles an answer for   *)
(* one key, tells it, or leaves both alone (_idem).                        *)
Promise == INSTANCE OneAnswer
    WITH Keys <- IdemKeys, Ids <- TraceIds, NoId <- None, settled <- idem, told <- answers
KeyIsPromise == Promise!Spec

(* Once an id is stored under a key, every client that asks with the key    *)
(* is answered in the end, the ones that lost the race included.           *)
StoredKeyAnswers ==
    \A k \in IdemKeys, c \in Clients :
        idem[k] # None /\ request[c].key = k ~> request[c].phase = "answered"

(* What api-reference.md and the changelog say of trace ingestion: it is   *)
(* idempotent, one key makes one trace.                                    *)
OneTracePerKey ==
    \A k \in IdemKeys : Cardinality({t \in TraceIds : madeFor[t] = k}) <= 1
=============================================================================
