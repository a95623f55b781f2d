----------------------------- MODULE HoldoutReports -----------------------------
(***************************************************************************)
(* The reports on a model's quality.  The served model scores a labeled    *)
(* holdout, and a client asks what decision threshold would cost least,    *)
(* how the model does at a threshold, and how well its probabilities are   *)
(* calibrated.  A probability is a number of Scale-ths, and everything     *)
(* that is computed from probabilities is kept as a fraction.              *)
(***************************************************************************)
EXTENDS Integers, Sequences, FiniteSets, Functions

CONSTANTS
  Samples,     \* the transactions of the holdout
  Scale,       \* bound: probabilities are told apart to 1/Scale
  Costs,       \* cost_false_positive and cost_false_negative
  Grids,       \* n_thresholds - 1: the grid is 0/d, 1/d, ..., d/d
  Decline,     \* settings.min_decline_score, <<numerator, denominator>>
  Bins,        \* n_bins
  MaxReports   \* bound: reports

ASSUME HoldoutAssumption ==
  /\ IsFiniteSet(Samples)
  /\ Scale \in Nat \ {0} /\ Bins \in Nat \ {0}
  /\ Costs \subseteq Nat /\ Grids \subseteq Nat \ {0}
  /\ Decline[2] \in Nat \ {0} /\ Decline[1] \in 0..Decline[2] /\ MaxReports \in Nat

VARIABLES
  fraud,         \* the samples with a positive label
  score,         \* their probabilities
  doing,         \* what is being computed
  ask,           \* the costs and the grid that are asked about
  next,          \* the point, or bin, that comes next
  best,          \* best["threshold"]
  bins,          \* the samples in each bin so far
  sweeps,        \* the threshold reports
  evaluations,   \* the evaluation reports
  calibrations   \* the calibration reports

holdout == <<fraud, score>>
computation == <<doing, ask, next, best, bins>>
finished == <<sweeps, evaluations, calibrations>>
holdoutVars == <<holdout, computation, finished>>

Room == Cardinality(sweeps) + Cardinality(evaluations) + Cardinality(calibrations) < MaxReports

\* The samples whose probability is at or above j/d.
Flagged(j, d) == {s \in Samples : score[s] * d >= j * Scale}
FalsePositives(j, d) == Cardinality(Flagged(j, d) \ fraud)
FalseNegatives(j, d) == Cardinality(fraud \ Flagged(j, d))
Cost(q, j) == q.fp * FalsePositives(j, q.d) + q.fn * FalseNegatives(j, q.d)

\* labeled_holdout_scores: the labels, and what the served model makes of the samples.
ScoreHoldout ==
  /\ doing = "unscored"
  /\ fraud' \in SUBSET Samples
  /\ score' \in [Samples -> 0..Scale]
  /\ doing' = "nothing"
  /\ UNCHANGED <<ask, next, best, bins, finished>>

-----------------------------------------------------------------------------
(* optimize_threshold.                                                     *)

Ask(fp, fn, d) ==
  /\ doing = "nothing" /\ Room
  /\ doing' = "sweep"
  /\ ask' = [fp |-> fp, fn |-> fn, d |-> d]
  /\ next' = 0
  /\ UNCHANGED <<holdout, best, bins, finished>>

\* Variant: the first of the cheapest thresholds is kept.
Cheaper(j) == Cost(ask, j) < Cost(ask, best)
\* `<=` keeps updating on ties.
Preferred(j) == Cost(ask, j) <= Cost(ask, best)

SweepPoint ==
  /\ doing = "sweep" /\ next <= ask.d
  /\ best' = IF next = 0 \/ Preferred(next) THEN next ELSE best
  /\ next' = next + 1
  /\ UNCHANGED <<holdout, doing, ask, bins, finished>>

Recommend ==
  /\ doing = "sweep" /\ next > ask.d
  /\ doing' = "nothing"
  /\ sweeps' = sweeps \cup {[ask |-> ask, best |-> best, cost |-> Cost(ask, best)]}
  /\ UNCHANGED <<holdout, ask, next, best, bins, evaluations, calibrations>>

-----------------------------------------------------------------------------
(* calibration_report.                                                     *)

\* Variant: the last bin is half open too.
MaskHalfOpen(i) == {s \in Samples : score[s] * Bins >= i * Scale /\ score[s] * Bins < (i + 1) * Scale}

\* The samples of bin i: between its edges, the upper one included in the last bin.
Mask(i) ==
  {s \in Samples : /\ score[s] * Bins >= i * Scale
                   /\ IF i = Bins - 1 THEN score[s] * Bins <= (i + 1) * Scale
                                      ELSE score[s] * Bins < (i + 1) * Scale}

BeginBins ==
  /\ doing = "nothing" /\ Room
  /\ doing' = "bins"
  /\ next' = 0
  /\ bins' = <<>>
  /\ UNCHANGED <<holdout, ask, best, finished>>

NextBin ==
  /\ doing = "bins" /\ next < Bins
  /\ bins' = Append(bins, Mask(next))
  /\ next' = next + 1
  /\ UNCHANGED <<holdout, doing, ask, best, finished>>

Distance(a, b) == IF a < b THEN b - a ELSE a - b
Probability(ss) == SumFunctionOnSet(score, ss)

\* count * abs(mean_predicted - observed_frequency), in Scale-ths; empty bins add 0.
Gap(mask) == Distance(Probability(mask), Scale * Cardinality(mask \cap fraud))

\* Times Scale * Cardinality(Samples).
ExpectedCalibrationError(bs) == SumFunction([i \in DOMAIN bs |-> Gap(bs[i])])

\* brier_score, times Scale^2 * Cardinality(Samples).
SquaredError(s) == LET e == Distance(score[s], IF s \in fraud THEN Scale ELSE 0) IN e * e
Brier == SumFunction([s \in Samples |-> SquaredError(s)])

ReportBins ==
  /\ doing = "bins" /\ next = Bins
  /\ doing' = "nothing"
  /\ calibrations' = calibrations \cup
       {[bins |-> bins, error |-> ExpectedCalibrationError(bins), brier |-> Brier]}
  /\ UNCHANGED <<holdout, ask, next, best, bins, sweeps, evaluations>>

-----------------------------------------------------------------------------
(* evaluate_predictions.                                                   *)

Evaluate(j, d) ==
  /\ doing = "nothing" /\ Room
  /\ evaluations' = evaluations \cup
       {[j |-> j, d |-> d, fp |-> FalsePositives(j, d), fn |-> FalseNegatives(j, d)]}
  /\ UNCHANGED <<holdout, computation, sweeps, calibrations>>

-----------------------------------------------------------------------------
HoldoutInit ==
  /\ fraud = {}
  /\ score = [s \in Samples |-> 0]
  /\ doing = "unscored"
  /\ ask = [fp |-> 0, fn |-> 0, d |-> 1]
  /\ next = 0 /\ best = 0
  /\ bins = <<>>
  /\ sweeps = {} /\ evaluations = {} /\ calibrations = {}

HoldoutNext ==
  \/ ScoreHoldout
  \/ \E fp, fn \in Costs, d \in Grids : Ask(fp, fn, d)
  \/ SweepPoint \/ Recommend
  \/ BeginBins \/ NextBin \/ ReportBins
  \/ \E d \in Grids : \E j \in 0..d : Evaluate(j, d)
  \/ Evaluate(Decline[1], Decline[2])

HoldoutSpec == HoldoutInit /\ [][HoldoutNext]_holdoutVars

-----------------------------------------------------------------------------
(* Correctness.                                                            *)

Asks == [fp : Nat, fn : Nat, d : Nat \ {0}]

HoldoutTypeOK ==
  /\ fraud \subseteq Samples /\ score \in [Samples -> 0..Scale]
  /\ doing \in {"unscored", "nothing", "sweep", "bins"}
  /\ ask \in Asks
  /\ next \in Nat /\ best \in Nat
  /\ bins \in Seq(SUBSET Samples)
  /\ \A w \in sweeps : w.ask \in Asks /\ w.best \in 0..w.ask.d
  /\ \A c \in calibrations : c.bins \in Seq(SUBSET Samples) /\ Len(c.bins) = Bins

\* optimize_threshold: "minimizes total business cost ... ties are broken toward the
\* higher threshold": no point of the grid is as cheap and higher, or cheaper.
CheapestHighest ==
  \A w \in sweeps : \A j \in 0..w.ask.d :
    Cost(w.ask, w.best) <= Cost(w.ask, j) /\ (j > w.best => Cost(w.ask, w.best) < Cost(w.ask, j))

\* Over the same grid, a client whose false alarms cost more is never recommended a
\* lower threshold.
AlarmsRaise ==
  \A v, w \in sweeps :
    v.ask.d = w.ask.d /\ v.ask.fn = w.ask.fn /\ v.ask.fp < w.ask.fp => v.best <= w.best

\* A client that checks a recommendation with evaluation reports at the grid's points
\* finds none that costs less, and the expected cost at the recommended one.
ReportsAgree ==
  \A w \in sweeps : \A e \in evaluations :
    LET cost == w.ask.fp * e.fp + w.ask.fn * e.fn IN
    e.d = w.ask.d => cost >= w.cost /\ (e.j = w.best => cost = w.cost)

RecommendationsHold == CheapestHighest /\ AlarmsRaise /\ ReportsAgree

\* Every sample is counted in exactly one bin, probability 1.0 too.
EachInOneBin ==
  \A c \in calibrations : \A s \in Samples :
    \E i \in 1..Bins : s \in c.bins[i] /\ \A k \in 1..Bins : s \in c.bins[k] => k = i

\* The expected calibration error is at least the distance between the mean probability
\* and the share of fraud, and its square at most the Brier score.
ErrorsOrdered ==
  \A c \in calibrations :
    /\ Distance(Probability(Samples), Scale * Cardinality(fraud)) <= c.error
    /\ c.error * c.error <= Cardinality(Samples) * c.brier

CalibrationHolds == EachInOneBin /\ ErrorsOrdered
================================================================================
