------------------------------ MODULE Baselines ------------------------------
(***************************************************************************)
(* DriftDetector and CostAnomalyDetector of scheduled_scanning.py: both    *)
(* compare a value with a stored baseline, under their lock.  Values are   *)
(* whole numbers.  The code's mean, variance and z-score are compared      *)
(* without dividing: both sides are multiplied by the denominators.        *)
(***************************************************************************)
EXTENDS Integers, Sequences, SequencesExt, FiniteSetsExt

CONSTANTS
    Values, MaxSamples,     \* metric values, and the most a baseline is made of
    ThresholdNum, ThresholdDen, \* deviation_threshold, a fraction of standard deviations
    Providers, Costs, DefaultDailyBudget,
    CostThreshold,          \* of the cost detector, in tenths of the baseline
    NoBaseline

ASSUME BaselineAssumption ==
    /\ {ThresholdNum, ThresholdDen, DefaultDailyBudget, CostThreshold} \subseteq Nat \ {0}
    /\ Values \subseteq Int /\ MaxSamples \in Nat /\ Costs \subseteq Nat

VARIABLES
    baseline,       \* the metric's baseline, or NoBaseline
    spent,          \* [Providers -> the last daily cost recorded, 0 if none]
    expected        \* [Providers -> the baseline daily cost set, or NoBaseline]

bvars == <<baseline, spent, expected>>

(* compute_baseline keeps the samples' mean and deviation, set_baseline a  *)
(* mean and deviation given by hand.                                       *)
Computed(xs) == [samples |-> xs, mean |-> 0, std |-> 0]
Manual(m, d) == [samples |-> <<>>, mean |-> m, std |-> d]

Distance(v, w) == Max({v - w, w - v})

SumOf(xs) == SumFunctionOnSet(xs, DOMAIN xs)
Squares(xs) == [i \in DOMAIN xs |-> xs[i] * xs[i]]
SumOfSquares(xs) == SumFunctionOnSet(Squares(xs), DOMAIN xs)

-----------------------------------------------------------------------------
(* A faulty variant of the definition below; see CircuitBreaker. *)

BeyondByAll(xs, v) ==
    LET off == Len(xs) * v - SumOf(xs)
    IN  off * off * (ThresholdDen * ThresholdDen)
            > (ThresholdNum * ThresholdNum) * (Len(xs) * SumOfSquares(xs) - SumOf(xs) * SumOf(xs))

-----------------------------------------------------------------------------
(* n (n-1) times the sample variance, whose divisor is n - 1. *)
Spread(xs) == Len(xs) * SumOfSquares(xs) - SumOf(xs) * SumOf(xs)

(* detect: the z-score against samples' or a manual deviation; with no     *)
(* deviation at all, any other value has drifted.                          *)
BeyondDeviation(xs, v) ==
    LET n == Len(xs)
        off == n * v - SumOf(xs)
    IN  (off * off * (n - 1)) * (ThresholdDen * ThresholdDen)
            > (ThresholdNum * ThresholdNum) * n * Spread(xs)

Drifted(v) ==
    CASE baseline = NoBaseline -> TRUE
      [] baseline # NoBaseline /\ baseline.samples # <<>> -> BeyondDeviation(baseline.samples, v)
      [] baseline # NoBaseline /\ baseline.samples = <<>> ->
            ThresholdDen * Distance(v, baseline.mean) > ThresholdNum * baseline.std

(* CostAnomalyDetector.check *)
Expected(p) == IF expected[p] = NoBaseline THEN DefaultDailyBudget ELSE expected[p]
Anomalous(p) == 10 * spent[p] > CostThreshold * Expected(p)

BaselineInit ==
    /\ baseline = NoBaseline
    /\ spent = [p \in Providers |-> 0]
    /\ expected = [p \in Providers |-> NoBaseline]

(* Fewer than two samples raise ValueError. *)
ComputeBaseline(xs) ==
    /\ Len(xs) >= 2
    /\ baseline' = Computed(xs)
    /\ UNCHANGED <<spent, expected>>

SetBaseline(m, d) == baseline' = Manual(m, d) /\ UNCHANGED <<spent, expected>>

ResetDrift == baseline' = NoBaseline /\ UNCHANGED <<spent, expected>>

RecordDailyCost(p, c) ==
    spent' = [spent EXCEPT ![p] = c] /\ UNCHANGED <<baseline, expected>>

SetExpected(p, c) ==
    /\ c > 0
    /\ expected' = [expected EXCEPT ![p] = c] /\ UNCHANGED <<baseline, spent>>

ResetCosts ==
    /\ spent' = [p \in Providers |-> 0] /\ expected' = [p \in Providers |-> NoBaseline]
    /\ UNCHANGED baseline

BaselineNext ==
    \/ \E xs \in SeqOf(Values, MaxSamples) : ComputeBaseline(xs)
    \/ \E m \in Values, d \in 0..1 : SetBaseline(m, d)
    \/ ResetDrift \/ ResetCosts
    \/ \E p \in Providers, c \in Costs : RecordDailyCost(p, c) \/ SetExpected(p, c)

BaselineSpec == BaselineInit /\ [][BaselineNext]_bvars

-----------------------------------------------------------------------------
(* A value that a baseline was computed from is drift against it only if   *)
(* the samples are so many that (n - 1) / sqrt(n) is above the threshold:  *)
(* at the default two deviations six or more, at three eleven or more.     *)
(* Fewer samples never call one another drift, whatever they are           *)
(* (compute_baseline, whose variance has the divisor n - 1, and detect).   *)
OwnDriftNeedsSamples ==
    baseline # NoBaseline =>
        \A i \in DOMAIN baseline.samples : Drifted(baseline.samples[i]) =>
            LET n == Len(baseline.samples) IN
            (ThresholdDen * ThresholdDen) * ((n - 1) * (n - 1)) > (ThresholdNum * ThresholdNum) * n
=============================================================================
