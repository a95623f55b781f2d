------------------------------- MODULE DriftReport -------------------------------
(***************************************************************************)
(* DriftService.current_report: how far the features of the most recent    *)
(* predictions have moved from a baseline, by the Population Stability     *)
(* Index of each feature.  Logarithms come from a table, in thousandths.   *)
(***************************************************************************)
EXTENDS Integers, Sequences, FiniteSets, FiniteSetsExt, Functions

CONSTANTS
  Features,
  Baseline,   \* baseline_from_feature_names: per feature, its values in ascending order
  Values,     \* the values of each feature in the rows considered
  Quantiles,  \* the number of bins that the baseline is cut into, where no two edges coincide
  Limit,      \* how many recent rows a report reads
  Ln,         \* bound: Ln[n] is 1000 * ln(n), for the counts that occur
  LnMillion,  \* 1000 * ln(1e6), of 1 / epsilon
  MaxLogged   \* bound: rows

ASSUME DriftAssumption ==
  /\ IsFiniteSet(Features) /\ Quantiles \in Nat \ {0}
  /\ Limit \in Nat \ {0} /\ MaxLogged \in Nat
  /\ \A f \in Features :
       /\ Baseline[f] \in Seq(Nat) \ {<<>>} /\ Values[f] \subseteq Nat
       /\ \A i \in 1..(Len(Baseline[f]) - 1) : Baseline[f][i] <= Baseline[f][i + 1]

\* The tables are of logarithms: ln(r) >= 2 (r - 1) / (r + 1) for r >= 1, up to the
\* rounding of four entries; every count has one, and a share is at least 1e-6 * e^2.
ASSUME LnAssumption ==
  /\ Ln \in Seq(Nat) /\ LnMillion \in Nat
  /\ Limit <= Len(Ln) /\ \A f \in Features : Len(Baseline[f]) <= Len(Ln)
  /\ \A a, b, c, d \in DOMAIN Ln : a * d >= b * c =>
       (Ln[a] - Ln[b] - Ln[c] + Ln[d] + 4) * (a * d + b * c) >= 2000 * (a * d - b * c)
  /\ \A n \in DOMAIN Ln : Ln[n] + 2000 <= LnMillion

VARIABLES
  logged,  \* PredictionLog.features of each row, in the order of created_at
  drift    \* the last report: {} or {report}

driftVars == <<logged, drift>>

LogRow ==
  /\ Len(logged) < MaxLogged
  /\ \E row \in [Features -> UNION {Values[f] : f \in Features}] :
       (\A f \in Features : row[f] \in Values[f]) /\ logged' = Append(logged, row)
  /\ drift' = {}

-----------------------------------------------------------------------------
(* population_stability_index.  Values are multiplied by Quantiles, so that *)
(* the quantiles, which are interpolated, are whole numbers.               *)

\* np.quantile(baseline, j / Quantiles).
Quantile(b, j) ==
  LET position == j * (Len(b) - 1)
      i == position \div Quantiles + 1
  IN  IF i = Len(b) THEN Quantiles * b[i]
      ELSE Quantiles * b[i] + (position % Quantiles) * (b[i + 1] - b[i])

\* np.unique: each once.
Breakpoints(b) == {Quantile(b, j) : j \in 0..Quantiles}

Top(b) == CHOOSE q \in Breakpoints(b) : \A p \in Breakpoints(b) : p <= q

\* The bins of np.histogram, each named by its lower edge; the last is closed.
BinEdges(b) == Breakpoints(b) \ {Top(b)}
FallsIn(v, q, b) ==
  /\ Quantiles * v >= q /\ Quantiles * v <= Top(b)
  /\ \A p \in BinEdges(b) : p > q => Quantiles * v < p

Count(vs, q, b) == Cardinality({i \in DOMAIN vs : FallsIn(vs[i], q, b)})
InRange(vs, b) == SumFunction([q \in BinEdges(b) |-> Count(vs, q, b)])
Total(vs, b) == IF InRange(vs, b) = 0 THEN 1 ELSE InRange(vs, b)

\* Variant: a bin without values adds nothing.
LogShareOrNone(count, total) == IF count = 0 THEN 0 ELSE Ln[count] - Ln[total]
\* A share of 0 is replaced by epsilon.
LogShare(count, total) == IF count = 0 THEN -LnMillion ELSE Ln[count] - Ln[total]

\* (observed_share - baseline_share) * log(observed_share / baseline_share), times
\* 1000 and both totals.  In the difference an empty bin counts as 0, not as epsilon,
\* which changes a term by less than the table's rounding.
Term(vs, q, b) ==
  LET o == Count(vs, q, b)  ot == Total(vs, b)
      e == Count(b, q, b)   et == Total(b, b)
  IN  (o * et - e * ot) * (LogShare(o, ot) - LogShare(e, et))

\* In thousandths, rounded down.
PopulationStabilityIndex(b, vs) ==
  IF vs = <<>> \/ BinEdges(b) = {} THEN 0
  ELSE SumFunction([q \in BinEdges(b) |-> Term(vs, q, b)]) \div (Total(vs, b) * Total(b, b))

-----------------------------------------------------------------------------
Severities == <<"none", "low", "medium", "high">>

\* drift_severity, as a position in Severities.
DriftSeverity(psi) == IF psi < 100 THEN 1 ELSE IF psi < 200 THEN 2 ELSE IF psi < 500 THEN 3 ELSE 4

\* PredictionRepository.list_recent.
ListRecent == SubSeq(logged, IF Len(logged) < Limit THEN 1 ELSE Len(logged) - Limit + 1, Len(logged))

Observed(rows, f) == [i \in DOMAIN rows |-> rows[i][f]]

CurrentReport ==
  LET rows == ListRecent
      severity == [f \in Features |-> DriftSeverity(PopulationStabilityIndex(Baseline[f], Observed(rows, f)))]
  IN  /\ drift = {}
      /\ drift' = {[size |-> Len(rows), severity |-> severity,
                    worst |-> Max({1} \cup {severity[f] : f \in Features})]}
      /\ UNCHANGED logged

-----------------------------------------------------------------------------
DriftInit == logged = <<>> /\ drift = {}
DriftNext == LogRow \/ CurrentReport
DriftSpec == DriftInit /\ [][DriftNext]_driftVars

-----------------------------------------------------------------------------
(* Correctness.                                                            *)

\* Twice the mass, in shares of ot * et, by which the in-range rows that a report saw
\* and the baseline are distributed otherwise.
Moved(vs, b) ==
  SumFunction([q \in BinEdges(b) |->
    LET d == Count(vs, q, b) * Total(b, b) - Count(b, q, b) * Total(vs, b)
    IN  IF d < 0 THEN -d ELSE d])

\* README.md, Drift monitoring: "No significant shift", "Minor shift", "Material shift".
\* The index is at least four times the squared share of the mass that has moved; so a
\* severity is a bound on it (1/6, 1/4 and 3/8), and the report's is the worst.
\* A feature of which no recent value lies in the baseline's range is reported "high",
\* and one that is distributed as its baseline "none".
DriftTells ==
  \A d \in drift : \A f \in Features :
    LET b == Baseline[f]
        vs == [i \in 1..d.size |-> logged[Len(logged) - d.size + i][f]]
        all == 2 * Total(vs, b) * Total(b, b)
    IN  /\ d.size = IF Len(logged) < Limit THEN Len(logged) ELSE Limit
        /\ d.worst >= d.severity[f]
        /\ d.size > 0 /\ BinEdges(b) # {} =>
             /\ InRange(vs, b) = 0 => d.severity[f] = 4
             /\ InRange(vs, b) > 0 /\ Moved(vs, b) = 0 => d.severity[f] = 1
             /\ d.worst = 1 => 6 * Moved(vs, b) < all
             /\ d.worst = 2 => 4 * Moved(vs, b) < all
             /\ d.worst = 3 => 8 * Moved(vs, b) < 3 * all
================================================================================
