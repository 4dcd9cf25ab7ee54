-------------------------- MODULE PromptRegression --------------------------
(***************************************************************************)
(* PromptRegressionTester of scheduled_scanning.py, for one prompt.        *)
(* evaluate reads the last score under the lock, judges the new score by   *)
(* it, and records the new one under the lock again: evaluations overlap.  *)
(* Scores are in tenths.                                                   *)
(***************************************************************************)
EXTENDS Integers, Sequences, SequencesExt

CONSTANTS
    Evaluators, PromptScores, DefaultThreshold,
    MaxScores       \* bounds the scores recorded

ASSUME RegressionAssumption == PromptScores \subseteq 0..10 /\ DefaultThreshold \in 1..10

VARIABLES
    scores,         \* the recorded scores, each with how it was judged
    evaluation      \* [Evaluators -> the call of evaluate in progress]

pvars == <<scores, evaluation>>

(* previous: the score judged by.  base, history: how many scores there    *)
(* were when it was read.                                                  *)
Recorded == [score: PromptScores, evaluated: BOOLEAN, regression: BOOLEAN, base: Nat]
Evaluation == [phase: {"idle", "reading", "recording"}, score: PromptScores \cup {0},
               regression: BOOLEAN, base: Nat]

NoEvaluation == [phase |-> "idle", score |-> 0, regression |-> FALSE, base |-> 0]

RegressionTypeOK ==
    /\ scores \in Seq(Recorded)
    /\ evaluation \in [Evaluators -> Evaluation]

-----------------------------------------------------------------------------
(* A faulty variant of the definition below; see CircuitBreaker. *)
PreviousIsFirst == IF scores = <<>> THEN 0 ELSE Head(scores).score

-----------------------------------------------------------------------------
Previous == IF scores = <<>> THEN 0 ELSE Last(scores).score

RegressionInit ==
    /\ scores = <<>>
    /\ evaluation = [e \in Evaluators |-> NoEvaluation]

(* record_score on its own judges nothing. *)
RecordScore(s) ==
    /\ Len(scores) < MaxScores
    /\ scores' = Append(scores, [score |-> s, evaluated |-> FALSE,
                                 regression |-> FALSE, base |-> Len(scores)])
    /\ UNCHANGED evaluation

Evaluate(e, s) ==
    /\ evaluation[e].phase = "idle" /\ Len(scores) < MaxScores
    /\ evaluation' = [evaluation EXCEPT ![e] = [@ EXCEPT !.phase = "reading", !.score = s]]
    /\ UNCHANGED scores

(* Without a previous score the new one is compared with 0, and passes.    *)
ReadPrevious(e) ==
    /\ evaluation[e].phase = "reading"
    /\ evaluation' = [evaluation EXCEPT ![e] =
            [@ EXCEPT !.phase = "recording", !.base = Len(scores),
                      !.regression = evaluation[e].score - Previous < -DefaultThreshold]]
    /\ UNCHANGED scores

RecordEvaluated(e) ==
    /\ evaluation[e].phase = "recording"
    /\ scores' = Append(scores, [score |-> evaluation[e].score, evaluated |-> TRUE,
                                 regression |-> evaluation[e].regression,
                                 base |-> evaluation[e].base])
    /\ evaluation' = [evaluation EXCEPT ![e] = NoEvaluation]

RegressionNext ==
    \/ \E s \in PromptScores : RecordScore(s)
    \/ \E e \in Evaluators : ReadPrevious(e) \/ RecordEvaluated(e)
                             \/ \E s \in PromptScores : Evaluate(e, s)

RegressionSpec == RegressionInit /\ [][RegressionNext]_pvars

-----------------------------------------------------------------------------
(* A fall below everything recorded before it by more than the threshold   *)
(* is always flagged, however evaluations overlap: what an overlap can     *)
(* hide, or cry wolf about, is only a fall from a score that it overlapped *)
(* with (evaluate).                                                        *)
DeepFallsAreFlagged ==
    \A i \in 2..Len(scores) : scores[i].evaluated =>
        LET fall(j) == scores[j].score - scores[i].score > DefaultThreshold IN
        /\ (\A j \in 1..(i - 1) : fall(j)) /\ scores[i].base > 0 => scores[i].regression
        /\ scores[i].regression => \E j \in 1..(i - 1) : fall(j)
        /\ scores[i].regression # fall(i - 1) => scores[i].base < i - 1
=============================================================================
