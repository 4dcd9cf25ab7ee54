------------------------------ MODULE Verdicts ------------------------------
(***************************************************************************)
(* The rows of control_plane.py whose state is a verdict on other rows: a  *)
(* trace on its spans, a security scan on its findings, an experiment on   *)
(* its scores.  One of each is modelled, from its creation on; rows of     *)
(* different parents never meet, and nothing is ever deleted.              *)
(*                                                                         *)
(* Adding a span or a finding marks the parent in the same transaction.    *)
(* Reading one back takes two SELECTs, and evaluating the gate two SELECTs *)
(* and an UPDATE, with other calls in between.  Of a span or a finding     *)
(* only whether it counts against its parent matters.                      *)
(***************************************************************************)
EXTENDS Integers

CONSTANTS
    Readers,        \* threads in trace() or security_report()
    Evaluators,     \* threads in evaluate_gate()
    Floors,         \* metrics that must reach their threshold
    Ceilings,       \* latency and cost metrics, that must not exceed it
    Values,         \* scores
    Threshold       \* [metrics -> values]

Metrics == Floors \cup Ceilings

ASSUME VerdictAssumption ==
    /\ Floors \cap Ceilings = {}
    /\ Values \subseteq Nat
    /\ Threshold \in [Metrics -> Values]

VARIABLES
    parent,     \* [{"trace", "scan"} -> its state column]
    children,   \* [{"trace", "scan"} -> the kinds of spans or findings it has]
    view,       \* [Readers -> the read in progress or just over]
    gate,       \* the experiment's state column, "ABSENT" without one
    scores,     \* [Metrics -> recorded value, or NoScore]
    verdict     \* [Evaluators -> what it found and has not written, or "none"]

vvars == <<parent, children, view, gate, scores, verdict>>
gateVars == <<gate, scores, verdict>>
parentVars == <<parent, children, view>>

Parents == {"trace", "scan"}
FirstState(p) == IF p = "trace" THEN "OPEN" ELSE "SCANNING"
Marked(p) == IF p = "trace" THEN "PARTIAL" ELSE "FAILED"
Kinds == {"bad", "ok"}      \* FAILED or other spans, blocking or other findings

NoScore == -1
GateStates == {"ABSENT", "RUNNING", "PASSED", "FAILED"}
ExperimentExists == gate # "ABSENT"
NoView == [phase |-> "idle", of |-> "trace", state |-> "OPEN", children |-> {}]

VerdictTypeOK ==
    /\ \A p \in Parents : parent[p] \in {FirstState(p), Marked(p)}
    /\ children \in [Parents -> SUBSET Kinds]
    /\ view \in [Readers -> [phase: {"idle", "reading", "done"}, of: Parents,
                             state: {FirstState(p) : p \in Parents} \cup {Marked(p) : p \in Parents},
                             children: SUBSET Kinds]]
    /\ gate \in GateStates
    /\ scores \in [Metrics -> Values \cup {NoScore}]
    /\ verdict \in [Evaluators -> {"none", "PASSED", "FAILED"}]

(* evaluate_gate's violations: no score, or one on the wrong side.         *)
Violations ==
    {m \in Metrics : \/ scores[m] = NoScore
                     \/ m \in Ceilings /\ scores[m] > Threshold[m]
                     \/ m \in Floors /\ scores[m] < Threshold[m]}

-----------------------------------------------------------------------------
(* Faulty variants, each with the slip its name says.  No specification    *)
(* uses them: a run that checks a property is shown to notice one of them  *)
(* put in the place of the definition.                                     *)

AddChildMarksByLast(p, kind) ==
    /\ children' = [children EXCEPT ![p] = @ \cup {kind}]
    /\ parent' = [parent EXCEPT ![p] = IF kind = "bad" THEN Marked(p) ELSE FirstState(p)]
    /\ UNCHANGED <<view, gateVars>>

MissingScoresPass(e) ==
    /\ ExperimentExists /\ verdict[e] = "none"
    /\ verdict' = [verdict EXCEPT ![e] =
           IF {m \in Violations : scores[m] # NoScore} = {} THEN "PASSED" ELSE "FAILED"]
    /\ UNCHANGED <<gate, scores, parentVars>>

WriteFirstVerdict(e) ==
    /\ verdict[e] # "none"
    /\ gate' = IF gate = "RUNNING" THEN verdict[e] ELSE gate
    /\ verdict' = [verdict EXCEPT ![e] = "none"]
    /\ UNCHANGED <<scores, parentVars>>

-----------------------------------------------------------------------------
(* start_trace and start_security_scan have returned.                      *)
VerdictInit ==
    /\ parent = [p \in Parents |-> FirstState(p)]
    /\ children = [p \in Parents |-> {}]
    /\ view = [r \in Readers |-> NoView]
    /\ gate = "ABSENT"
    /\ scores = [m \in Metrics |-> NoScore]
    /\ verdict = [e \in Evaluators |-> "none"]

(* add_span, record_finding: two writes of one transaction.                *)
AddChild(p, kind) ==
    /\ children' = [children EXCEPT ![p] = @ \cup {kind}]
    /\ parent' = [parent EXCEPT ![p] = IF kind = "bad" THEN Marked(p) ELSE @]
    /\ UNCHANGED <<view, gateVars>>

AddSpan(kind) == AddChild("trace", kind)
AddFinding(kind) == AddChild("scan", kind)

(* trace, security_report: the parent's row, then its children.            *)
ReadParent(r, p) ==
    /\ view[r].phase # "reading"
    /\ view' = [view EXCEPT ![r] = [phase |-> "reading", of |-> p, state |-> parent[p],
                                    children |-> {}]]
    /\ UNCHANGED <<parent, children, gateVars>>

ReadChildren(r) ==
    /\ view[r].phase = "reading"
    /\ view' = [view EXCEPT ![r] = [phase |-> "done", of |-> view[r].of, state |-> view[r].state,
                                    children |-> children[view[r].of]]]
    /\ UNCHANGED <<parent, children, gateVars>>

ReadTrace(r) == ReadParent(r, "trace")
ReadReport(r) == ReadParent(r, "scan")

(* Its id is random: nobody records a score, or evaluates, before.         *)
CreateExperiment ==
    /\ ~ExperimentExists /\ gate' = "RUNNING"
    /\ UNCHANGED <<scores, verdict, parentVars>>

(* record_score: INSERT OR REPLACE, before or after an evaluation.         *)
RecordScore(m, value) ==
    /\ ExperimentExists
    /\ scores' = [scores EXCEPT ![m] = value]
    /\ UNCHANGED <<gate, verdict, parentVars>>

(* evaluate_gate: thresholds never change, so of its two reads the one of  *)
(* the scores decides; the UPDATE comes later and replaces any verdict.    *)
ReadScores(e) ==
    /\ ExperimentExists /\ verdict[e] = "none"
    /\ verdict' = [verdict EXCEPT ![e] = IF Violations = {} THEN "PASSED" ELSE "FAILED"]
    /\ UNCHANGED <<gate, scores, parentVars>>

WriteGate(e) ==
    /\ verdict[e] # "none"
    /\ gate' = verdict[e]
    /\ verdict' = [verdict EXCEPT ![e] = "none"]
    /\ UNCHANGED <<scores, parentVars>>

(* The UPDATE finds the database locked for too long.                      *)
AbortEvaluation(e) ==
    /\ verdict[e] # "none"
    /\ verdict' = [verdict EXCEPT ![e] = "none"]
    /\ UNCHANGED <<gate, scores, parentVars>>

VerdictNext ==
    \/ \E kind \in Kinds : AddSpan(kind) \/ AddFinding(kind)
    \/ \E r \in Readers : ReadTrace(r) \/ ReadReport(r) \/ ReadChildren(r)
    \/ CreateExperiment
    \/ \E m \in Metrics, value \in Values : RecordScore(m, value)
    \/ \E e \in Evaluators : ReadScores(e) \/ WriteGate(e) \/ AbortEvaluation(e)

VerdictSpec == VerdictInit /\ [][VerdictNext]_vvars

(* The gate is evaluated again and again, and not every time in vain.      *)
FairVerdictSpec == VerdictSpec /\ \A e \in Evaluators : WF_vvars(ReadScores(e)) /\ SF_vvars(WriteGate(e))

-----------------------------------------------------------------------------
(* A trace or scan is marked exactly when one of its children counts       *)
(* against it, whatever is added later; and what a reader is shown may     *)
(* lack the mark of a child that came in between its two reads, but never  *)
(* shows a mark without a child that explains it.                          *)
MarksAreExplained ==
    /\ \A p \in Parents : parent[p] = Marked(p) <=> "bad" \in children[p]
    /\ \A r \in Readers : view[r].phase = "done" /\ view[r].state = Marked(view[r].of)
                              => "bad" \in view[r].children

(* All scores are there and meet their thresholds.                         *)
Met == Violations = {}

(* Once the scores stay good, or stay insufficient, repeated evaluations   *)
(* settle on that verdict: the last word is never a stale one.             *)
GateSettles ==
    /\ <>[]Met => <>[](gate = "PASSED")
    /\ <>[](ExperimentExists /\ ~Met) => <>[](gate = "FAILED")
=============================================================================
