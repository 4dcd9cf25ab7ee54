-------------------------- MODULE VerdictsHistory --------------------------
(* Verdicts beside a record of whether the scores ever met the thresholds. *)
EXTENDS Verdicts

VARIABLE wasMet

wvars == <<parent, children, view, gate, scores, verdict, wasMet>>

WatchedInit == VerdictInit /\ wasMet = Met
WatchedNext == VerdictNext /\ wasMet' = (wasMet \/ Met')
WatchedSpec == WatchedInit /\ [][WatchedNext]_wvars
Evaluating == \A e \in Evaluators : WF_vvars(ReadScores(e)) /\ SF_vvars(WriteGate(e))
FairWatchedSpec == WatchedSpec /\ Evaluating

(* An experiment is PASSED only if at one moment all its scores were there *)
(* and met their thresholds at once: no verdict is pieced together from    *)
(* scores of different moments (evaluate_gate).                            *)
PassedWasEarned == gate = "PASSED" => wasMet
=============================================================================
