--------------------------- MODULE ComputationsProofs ---------------------------
(***************************************************************************)
(* The reports on a holdout, for every holdout, grid and number of bins:   *)
(* what is recommended is cheapest and rises with the cost of alarms,      *)
(* every sample is counted in one bin, and the calibration errors bound    *)
(* each other.  Payloads of any number of lines are ingested whole.        *)
(***************************************************************************)
EXTENDS Computations, Sums

\* A product is monotone in a factor.
LEMMA ProductMonotone ==
  ASSUME NEW a \in Nat, NEW b \in Nat, NEW c \in Nat, a <= b
  PROVE  a * c <= b * c
  BY SMT

\* Where the counts are natural numbers, so are the costs.
LEMMA CountType ==
  ASSUME HoldoutTypeOK, NEW j \in Nat, NEW d \in Nat
  PROVE  FalsePositives(j, d) \in Nat /\ FalseNegatives(j, d) \in Nat
<1>1. IsFiniteSet(Samples) /\ Flagged(j, d) \subseteq Samples /\ fraud \subseteq Samples
  BY HoldoutAssumption DEF Flagged, HoldoutTypeOK
<1>2. Flagged(j, d) \ fraud \subseteq Samples /\ fraud \ Flagged(j, d) \subseteq Samples
  BY <1>1
<1>3. IsFiniteSet(Flagged(j, d) \ fraud) /\ IsFiniteSet(fraud \ Flagged(j, d))
  BY <1>1, <1>2, FS_Subset
<1>. QED BY <1>3, FS_CardinalityType DEF FalsePositives, FalseNegatives

LEMMA CostType ==
  ASSUME HoldoutTypeOK, NEW q \in Asks, NEW j \in Nat
  PROVE  Cost(q, j) \in Nat
<1>1. q.fp \in Nat /\ q.fn \in Nat /\ q.d \in Nat
  BY DEF Asks
<1>2. FalsePositives(j, q.d) \in Nat /\ FalseNegatives(j, q.d) \in Nat
  BY <1>1, CountType
<1>. QED BY <1>1, <1>2 DEF Cost

\* A higher threshold raises no more false alarms.
LEMMA AlarmsFall ==
  ASSUME HoldoutTypeOK, NEW j \in Nat, NEW k \in Nat, NEW d \in Nat, j <= k
  PROVE  FalsePositives(k, d) <= FalsePositives(j, d)
<1>1. j * Scale <= k * Scale /\ j * Scale \in Nat /\ k * Scale \in Nat
  BY HoldoutAssumption, ProductMonotone
<1>2. ASSUME NEW s \in Samples, score[s] * d >= k * Scale
      PROVE  score[s] * d >= j * Scale
  <2>1. score[s] \in Nat
    BY HoldoutAssumption DEF HoldoutTypeOK
  <2>2. score[s] * d \in Nat
    BY <2>1
  <2>. QED BY <1>1, <1>2, <2>2
<1>3. Flagged(k, d) \subseteq Flagged(j, d)
  BY <1>2 DEF Flagged
<1>4. IsFiniteSet(Flagged(j, d) \ fraud)
  <2>1. Flagged(j, d) \ fraud \subseteq Samples
    BY DEF Flagged
  <2>. QED BY <2>1, FS_Subset, HoldoutAssumption
<1>5. Flagged(k, d) \ fraud \subseteq Flagged(j, d) \ fraud
  BY <1>3
<1>. QED BY <1>4, <1>5, FS_Subset DEF FalsePositives

\* The exchange argument: if t1 costs no more than t2 when an alarm costs a, and more
\* when it costs b > a, then t1 raises more alarms.
LEMMA Exchange ==
  ASSUME NEW a \in Nat, NEW b \in Nat, a < b, NEW c \in Nat,
         NEW F1 \in Nat, NEW F2 \in Nat, NEW N1 \in Nat, NEW N2 \in Nat,
         a * F1 + c * N1 <= a * F2 + c * N2,
         b * F2 + c * N2 < b * F1 + c * N1
  PROVE  F2 < F1
<1>1. SUFFICES ASSUME F1 <= F2 PROVE FALSE
  BY SMT
<1>2. PICK e \in Nat : F2 = F1 + e
  <2>1. F2 - F1 \in Nat /\ F2 = F1 + (F2 - F1)
    BY <1>1
  <2>. QED BY <2>1
<1>3. PICK g \in Nat : b = a + g
  <2>1. b - a \in Nat /\ b = a + (b - a)
    BY SMT
  <2>. QED BY <2>1
<1>4. b * F2 = b * F1 + b * e
  BY <1>2
<1>5. a * F2 = a * F1 + a * e
  BY <1>2
<1>6. b * e = a * e + g * e
  BY <1>3
<1>7. /\ a * F1 \in Nat /\ a * e \in Nat /\ b * F1 \in Nat /\ g * e \in Nat
      /\ c * N1 \in Nat /\ c * N2 \in Nat
  BY <1>2, <1>3
<1>. QED BY <1>4, <1>5, <1>6, <1>7

-----------------------------------------------------------------------------
\* What the loops have established so far.
SweepSoFar ==
  doing = "sweep" =>
    /\ next <= ask.d + 1
    /\ next > 0 => best < next
    /\ \A j \in Nat : j < next =>
         Cost(ask, best) <= Cost(ask, j) /\ (j > best => Cost(ask, best) < Cost(ask, j))

BinsSoFar ==
  doing = "bins" =>
    /\ next = Len(bins) /\ next <= Bins
    /\ \A i \in 1..Len(bins) : bins[i] = Mask(i - 1)
    /\ \A s \in Samples : score[s] * Bins < next * Scale => \E i \in 1..next : s \in bins[i]

\* What finished reports have kept of the holdout.
ReportsTell ==
  /\ \A w \in sweeps : w.cost = Cost(w.ask, w.best)
  /\ \A e \in evaluations :
       /\ e.d \in Nat /\ e.j \in 0..e.d
       /\ e.fp = FalsePositives(e.j, e.d) /\ e.fn = FalseNegatives(e.j, e.d)
  /\ doing = "unscored" => sweeps = {} /\ evaluations = {} /\ calibrations = {}

CalibrationsTell ==
  \A c \in calibrations : c.error = ExpectedCalibrationError(c.bins) /\ c.brier = Brier

IInv ==
  /\ HoldoutTypeOK /\ SweepSoFar /\ BinsSoFar /\ ReportsTell
  /\ CheapestHighest /\ EachInOneBin /\ CalibrationsTell

-----------------------------------------------------------------------------
\* What is said of the finished reports stands as long as the holdout and they do.
LEMMA HoldoutStands ==
  ASSUME UNCHANGED holdout
  PROVE  /\ \A j, d : FalsePositives(j, d)' = FalsePositives(j, d)
         /\ \A j, d : FalseNegatives(j, d)' = FalseNegatives(j, d)
         /\ \A q, j : Cost(q, j)' = Cost(q, j)
         /\ \A i : Mask(i)' = Mask(i)
         /\ Brier' = Brier
         /\ \A bs : ExpectedCalibrationError(bs)' = ExpectedCalibrationError(bs)
<1>1. score' = score /\ fraud' = fraud
  BY DEF holdout
<1>2. /\ \A j, d : FalsePositives(j, d)' = FalsePositives(j, d)
      /\ \A j, d : FalseNegatives(j, d)' = FalseNegatives(j, d)
      /\ \A q, j : Cost(q, j)' = Cost(q, j)
      /\ \A i : Mask(i)' = Mask(i)
  BY <1>1 DEF Cost, FalsePositives, FalseNegatives, Flagged, Mask
<1>3. Brier' = Brier
  BY <1>1 DEF Brier, SquaredError
<1>4. \A bs : ExpectedCalibrationError(bs)' = ExpectedCalibrationError(bs)
  BY <1>1 DEF ExpectedCalibrationError, Gap, Probability
<1>. QED BY <1>2, <1>3, <1>4

LEMMA SweepsStand ==
  ASSUME CheapestHighest, UNCHANGED holdout, sweeps' = sweeps
  PROVE  CheapestHighest'
<1>1. \A q, j : Cost(q, j)' = Cost(q, j)
  BY HoldoutStands
<1>. QED BY <1>1 DEF CheapestHighest

LEMMA TellingStands ==
  ASSUME ReportsTell, UNCHANGED holdout, sweeps' = sweeps, evaluations' = evaluations,
         doing' # "unscored"
  PROVE  ReportsTell'
<1>1. \A w \in sweeps' : w.cost = Cost(w.ask, w.best)'
  BY HoldoutStands DEF ReportsTell
<1>2. \A e \in evaluations' :
        /\ e.d \in Nat /\ e.j \in 0..e.d
        /\ e.fp = FalsePositives(e.j, e.d)' /\ e.fn = FalseNegatives(e.j, e.d)'
  BY HoldoutStands DEF ReportsTell
<1>. QED BY <1>1, <1>2 DEF ReportsTell

LEMMA BinsStand ==
  ASSUME EachInOneBin, CalibrationsTell, UNCHANGED holdout, calibrations' = calibrations
  PROVE  EachInOneBin' /\ CalibrationsTell'
<1>1. EachInOneBin'
  BY DEF EachInOneBin
<1>2. Brier' = Brier /\ \A bs : ExpectedCalibrationError(bs)' = ExpectedCalibrationError(bs)
  BY HoldoutStands
<1>3. CalibrationsTell'
  BY <1>2 DEF CalibrationsTell
<1>. QED BY <1>1, <1>3

-----------------------------------------------------------------------------
LEMMA InitInv == Init => IInv
<1>. SUFFICES ASSUME HoldoutInit PROVE IInv
  BY DEF Init
<1>. USE DEF HoldoutInit
<1>1. HoldoutTypeOK
  <2>1. 0 \in 0..Scale
    BY HoldoutAssumption
  <2>. QED BY <2>1 DEF HoldoutTypeOK, Asks
<1>2. SweepSoFar /\ BinsSoFar /\ ReportsTell /\ CheapestHighest
      /\ EachInOneBin /\ CalibrationsTell
  BY DEF SweepSoFar, BinsSoFar, ReportsTell, CheapestHighest, EachInOneBin, CalibrationsTell
<1>. QED BY <1>1, <1>2 DEF IInv

LEMMA ScoreStep ==
  ASSUME IInv, ScoreHoldout
  PROVE  IInv'
<1>. USE DEF ScoreHoldout, IInv, finished
<1>1. sweeps' = {} /\ evaluations' = {} /\ calibrations' = {} /\ doing' = "nothing"
  BY DEF ReportsTell
<1>2. HoldoutTypeOK'
  BY <1>1 DEF HoldoutTypeOK
<1>3. SweepSoFar' /\ BinsSoFar'
  BY <1>1 DEF SweepSoFar, BinsSoFar
<1>4. ReportsTell' /\ CheapestHighest' /\ EachInOneBin' /\ CalibrationsTell'
  BY <1>1 DEF ReportsTell, CheapestHighest, EachInOneBin, CalibrationsTell
<1>. QED BY <1>2, <1>3, <1>4

LEMMA AskStep ==
  ASSUME IInv, NEW fp \in Costs, NEW fn \in Costs, NEW d \in Grids, Ask(fp, fn, d)
  PROVE  IInv'
<1>. USE DEF Ask, IInv
<1>1. UNCHANGED holdout /\ doing' = "sweep" /\ next' = 0
      /\ ask' = [fp |-> fp, fn |-> fn, d |-> d]
      /\ UNCHANGED <<best, bins>> /\ UNCHANGED <<sweeps, evaluations, calibrations>>
  BY DEF finished
<1>2. HoldoutTypeOK'
  <2>1. ask' \in Asks /\ next' \in Nat
    BY <1>1, HoldoutAssumption DEF Asks
  <2>. QED BY <1>1, <2>1 DEF HoldoutTypeOK, holdout
<1>3. SweepSoFar'
  <2>1. next' <= ask'.d + 1 /\ ~(next' > 0)
    BY <1>1, HoldoutAssumption
  <2>2. \A j \in Nat : ~(j < next')
    BY <1>1
  <2>. QED BY <2>1, <2>2 DEF SweepSoFar
<1>4. BinsSoFar'
  BY <1>1 DEF BinsSoFar
<1>5. ReportsTell' /\ CheapestHighest' /\ EachInOneBin' /\ CalibrationsTell'
  BY <1>1, TellingStands, SweepsStand, BinsStand
<1>. QED BY <1>2, <1>3, <1>4, <1>5

LEMMA SweepStep ==
  ASSUME IInv, SweepPoint
  PROVE  IInv'
<1>. USE DEF SweepPoint, IInv
<1>1. UNCHANGED holdout /\ UNCHANGED <<doing, ask, bins>> /\ doing = "sweep"
      /\ UNCHANGED <<sweeps, evaluations, calibrations>>
  BY DEF finished
<1>t. ask \in Asks /\ next \in Nat /\ best \in Nat /\ ask.d \in Nat
  BY DEF HoldoutTypeOK, Asks
<1>2. best' \in Nat /\ next' = next + 1 /\ (best' = next \/ (next > 0 /\ best' = best))
  BY <1>t
<1>3. HoldoutTypeOK'
  BY <1>1, <1>2, <1>t DEF HoldoutTypeOK, holdout
<1>4. SweepSoFar'
  <2>1. next' <= ask'.d + 1 /\ best' < next'
    BY <1>1, <1>2, <1>t DEF SweepSoFar
  <2>2. ASSUME NEW j \in Nat, j < next'
        PROVE  Cost(ask, best') <= Cost(ask, j) /\ (j > best' => Cost(ask, best') < Cost(ask, j))
    <3>1. Cost(ask, next) \in Nat /\ Cost(ask, best) \in Nat /\ Cost(ask, j) \in Nat
      BY <1>t, CostType
    <3>2. j < next => /\ Cost(ask, best) <= Cost(ask, j)
                      /\ j > best => Cost(ask, best) < Cost(ask, j)
      BY <1>1 DEF SweepSoFar
    <3>3. j < next \/ j = next
      BY <1>2, <1>t, <2>2
    <3>4. CASE next = 0
      <4>1. best' = next /\ j = next
        BY <3>4, <3>3, <1>t
      <4>. QED BY <4>1, <3>1
    <3>5. CASE next # 0 /\ Cost(ask, next) <= Cost(ask, best)
      <4>1. best' = next
        BY <3>5 DEF Preferred
      <4>2. CASE j = next
        BY <4>1, <4>2, <3>1
      <4>3. CASE j < next
        BY <4>1, <4>3, <3>5, <3>1, <3>2, <1>t
      <4>. QED BY <4>2, <4>3, <3>3
    <3>6. CASE next # 0 /\ ~(Cost(ask, next) <= Cost(ask, best))
      <4>1. best' = best
        BY <3>6 DEF Preferred
      <4>2. CASE j = next
        BY <4>1, <4>2, <3>1, <3>6
      <4>3. CASE j < next
        BY <4>1, <4>3, <3>2
      <4>. QED BY <4>2, <4>3, <3>3
    <3>. QED BY <3>4, <3>5, <3>6
  <2>3. \A q, j : Cost(q, j)' = Cost(q, j)
    BY <1>1, HoldoutStands
  <2>4. ask' = ask
    BY <1>1
  <2>. QED BY <2>1, <2>2, <2>3, <2>4 DEF SweepSoFar
<1>5. BinsSoFar'
  BY <1>1 DEF BinsSoFar
<1>6. ReportsTell' /\ CheapestHighest' /\ EachInOneBin' /\ CalibrationsTell'
  BY <1>1, TellingStands, SweepsStand, BinsStand
<1>. QED BY <1>3, <1>4, <1>5, <1>6

LEMMA RecommendStep ==
  ASSUME IInv, Recommend
  PROVE  IInv'
<1>. USE DEF Recommend, IInv
<1>. DEFINE w0 == [ask |-> ask, best |-> best, cost |-> Cost(ask, best)]
<1>1. UNCHANGED holdout /\ UNCHANGED <<ask, next, best, bins>> /\ doing' = "nothing"
      /\ UNCHANGED <<evaluations, calibrations>> /\ sweeps' = sweeps \cup {w0}
  BY DEF finished
<1>t. ask \in Asks /\ next \in Nat /\ best \in Nat /\ ask.d \in Nat
  BY DEF HoldoutTypeOK, Asks
<1>2. next = ask.d + 1 /\ best \in 0..ask.d
  BY <1>t DEF SweepSoFar
<1>3. w0.ask = ask /\ w0.best = best /\ w0.cost = Cost(ask, best)
  OBVIOUS
<1>. HIDE DEF w0
<1>c. \A q, j : Cost(q, j)' = Cost(q, j)
  BY <1>1, HoldoutStands
<1>4. HoldoutTypeOK'
  <2>1. \A w \in sweeps' : w.ask \in Asks /\ w.best \in 0..w.ask.d
    BY <1>1, <1>2, <1>3, <1>t DEF HoldoutTypeOK
  <2>. QED BY <1>1, <2>1 DEF HoldoutTypeOK, holdout
<1>5. SweepSoFar' /\ BinsSoFar'
  BY <1>1 DEF SweepSoFar, BinsSoFar
<1>6. ReportsTell'
  <2>1. \A w \in sweeps' : w.cost = Cost(w.ask, w.best)'
    BY <1>1, <1>3, <1>c DEF ReportsTell
  <2>2. \A e \in evaluations' :
          /\ e.d \in Nat /\ e.j \in 0..e.d
          /\ e.fp = FalsePositives(e.j, e.d)' /\ e.fn = FalseNegatives(e.j, e.d)'
    BY <1>1, HoldoutStands DEF ReportsTell
  <2>. QED BY <1>1, <2>1, <2>2 DEF ReportsTell
<1>7. CheapestHighest'
  <2>1. ASSUME NEW j \in 0..ask.d
        PROVE  Cost(ask, best) <= Cost(ask, j) /\ (j > best => Cost(ask, best) < Cost(ask, j))
    <3>1. j \in Nat /\ j < next
      BY <1>2, <1>t
    <3>. QED BY <3>1 DEF SweepSoFar
  <2>2. ASSUME NEW w \in sweeps', NEW j \in 0..w.ask.d
        PROVE  /\ Cost(w.ask, w.best)' <= Cost(w.ask, j)'
               /\ j > w.best => Cost(w.ask, w.best)' < Cost(w.ask, j)'
    <3>1. CASE w = w0
      BY <3>1, <1>3, <2>1, <1>c
    <3>2. CASE w \in sweeps
      BY <3>2, <1>c DEF CheapestHighest
    <3>. QED BY <3>1, <3>2, <1>1
  <2>. QED BY <2>2 DEF CheapestHighest
<1>8. EachInOneBin' /\ CalibrationsTell'
  BY <1>1, BinsStand
<1>. QED BY <1>4, <1>5, <1>6, <1>7, <1>8

LEMMA BeginBinsStep ==
  ASSUME IInv, BeginBins
  PROVE  IInv'
<1>. USE DEF BeginBins, IInv
<1>1. UNCHANGED holdout /\ UNCHANGED <<ask, best>> /\ doing' = "bins" /\ next' = 0 /\ bins' = <<>>
      /\ UNCHANGED <<sweeps, evaluations, calibrations>>
  BY DEF finished
<1>2. HoldoutTypeOK'
  BY <1>1 DEF HoldoutTypeOK, holdout
<1>3. SweepSoFar'
  BY <1>1 DEF SweepSoFar
<1>4. BinsSoFar'
  <2>1. Len(bins') = 0 /\ 0 <= Bins
    BY <1>1, HoldoutAssumption
  <2>2. ASSUME NEW s \in Samples PROVE ~((score[s] * Bins < next * Scale)')
    <3>1. score'[s] \in Nat
      BY <1>2, HoldoutAssumption DEF HoldoutTypeOK
    <3>2. score'[s] * Bins \in Nat /\ 0 * Scale = 0
      BY <3>1, HoldoutAssumption
    <3>. QED BY <1>1, <3>2
  <2>. QED BY <1>1, <2>1, <2>2 DEF BinsSoFar
<1>5. ReportsTell' /\ CheapestHighest' /\ EachInOneBin' /\ CalibrationsTell'
  BY <1>1, TellingStands, SweepsStand, BinsStand
<1>. QED BY <1>2, <1>3, <1>4, <1>5

LEMMA NextBinStep ==
  ASSUME IInv, NextBin
  PROVE  IInv'
<1>. USE DEF NextBin, IInv
<1>1. UNCHANGED holdout /\ UNCHANGED <<doing, ask, best>> /\ doing = "bins" /\ next' = next + 1
      /\ bins' = Append(bins, Mask(next)) /\ UNCHANGED <<sweeps, evaluations, calibrations>>
  BY DEF finished
<1>t. bins \in Seq(SUBSET Samples) /\ next \in Nat /\ next = Len(bins) /\ next < Bins /\ Bins \in Nat
  BY HoldoutAssumption DEF HoldoutTypeOK, BinsSoFar
<1>m. Mask(next) \subseteq Samples
  BY DEF Mask
<1>2. /\ bins' \in Seq(SUBSET Samples) /\ Len(bins') = next + 1
      /\ bins'[next + 1] = Mask(next) /\ \A i \in 1..next : bins'[i] = bins[i]
  BY <1>1, <1>t, <1>m
<1>3. HoldoutTypeOK'
  BY <1>1, <1>2, <1>t DEF HoldoutTypeOK, holdout
<1>4. SweepSoFar'
  BY <1>1 DEF SweepSoFar
<1>5. BinsSoFar'
  <2>1. next' = Len(bins') /\ next' <= Bins
    BY <1>1, <1>2, <1>t
  <2>2. ASSUME NEW i \in 1..(next + 1) PROVE bins'[i] = Mask(i - 1)
    <3>1. CASE i = next + 1
      BY <3>1, <1>2, <1>t
    <3>2. CASE i \in 1..next
      BY <3>2, <1>2, <1>t DEF BinsSoFar
    <3>. QED BY <3>1, <3>2, <1>t
  <2>3. ASSUME NEW s \in Samples, score[s] * Bins < (next + 1) * Scale
        PROVE  \E i \in 1..(next + 1) : s \in bins'[i]
    <3>1. score[s] * Bins \in Nat /\ next * Scale \in Nat /\ (next + 1) * Scale \in Nat
      <4>1. score[s] \in Nat
        BY HoldoutAssumption DEF HoldoutTypeOK
      <4>. QED BY <4>1, HoldoutAssumption, <1>t
    <3>2. CASE score[s] * Bins < next * Scale
      <4>1. PICK i \in 1..next : s \in bins[i]
        BY <3>2 DEF BinsSoFar
      <4>2. i \in 1..(next + 1) /\ s \in bins'[i]
        BY <4>1, <1>2, <1>t
      <4>. QED BY <4>2
    <3>3. CASE ~(score[s] * Bins < next * Scale)
      <4>1. score[s] * Bins >= next * Scale /\ score[s] * Bins <= (next + 1) * Scale
        BY <3>1, <3>3, <2>3
      <4>2. s \in Mask(next)
        BY <4>1, <2>3 DEF Mask
      <4>. QED BY <4>2, <1>2, <1>t
    <3>. QED BY <3>2, <3>3
  <2>4. score' = score /\ \A i : Mask(i)' = Mask(i)
    BY <1>1, HoldoutStands DEF holdout
  <2>. QED BY <1>1, <1>2, <2>1, <2>2, <2>3, <2>4 DEF BinsSoFar
<1>6. ReportsTell' /\ CheapestHighest' /\ EachInOneBin' /\ CalibrationsTell'
  BY <1>1, TellingStands, SweepsStand, BinsStand
<1>. QED BY <1>3, <1>4, <1>5, <1>6

\* The bins do not overlap.
LEMMA MasksApart ==
  ASSUME HoldoutTypeOK, NEW i \in 0..(Bins - 1), NEW k \in 0..(Bins - 1), i < k,
         NEW s \in Mask(i), s \in Mask(k)
  PROVE  FALSE
<1>1. s \in Samples /\ score[s] \in Nat
  BY HoldoutAssumption DEF Mask, HoldoutTypeOK
<1>2. i \in Nat /\ k \in Nat /\ i + 1 <= k /\ i # Bins - 1 /\ Scale \in Nat /\ Bins \in Nat
  BY HoldoutAssumption
<1>3. (i + 1) * Scale <= k * Scale
  BY <1>2, ProductMonotone
<1>4. score[s] * Bins < (i + 1) * Scale /\ score[s] * Bins >= k * Scale
  BY <1>2 DEF Mask
<1>5. score[s] * Bins \in Nat /\ (i + 1) * Scale \in Nat /\ k * Scale \in Nat
  BY <1>1, <1>2
<1>. QED BY <1>3, <1>4, <1>5

LEMMA ReportBinsStep ==
  ASSUME IInv, ReportBins
  PROVE  IInv'
<1>. USE DEF ReportBins, IInv
<1>. DEFINE c0 == [bins |-> bins, error |-> ExpectedCalibrationError(bins), brier |-> Brier]
<1>1. UNCHANGED holdout /\ UNCHANGED <<ask, next, best, bins>> /\ doing' = "nothing"
      /\ UNCHANGED <<sweeps, evaluations>> /\ calibrations' = calibrations \cup {c0}
  BY DEF finished
<1>t. bins \in Seq(SUBSET Samples) /\ next = Bins /\ Len(bins) = Bins /\ Bins \in Nat \ {0} /\ doing = "bins"
  BY HoldoutAssumption DEF HoldoutTypeOK, BinsSoFar
<1>2. c0.bins = bins /\ c0.error = ExpectedCalibrationError(c0.bins) /\ c0.brier = Brier
  OBVIOUS
<1>. HIDE DEF c0
<1>3. HoldoutTypeOK'
  <2>1. \A c \in calibrations' : c.bins \in Seq(SUBSET Samples) /\ Len(c.bins) = Bins
    BY <1>1, <1>2, <1>t DEF HoldoutTypeOK
  <2>. QED BY <1>1, <2>1 DEF HoldoutTypeOK, holdout
<1>4. SweepSoFar' /\ BinsSoFar'
  BY <1>1 DEF SweepSoFar, BinsSoFar
<1>5. ReportsTell' /\ CheapestHighest'
  BY <1>1, TellingStands, SweepsStand
<1>6. EachInOneBin'
  <2>1. ASSUME NEW s \in Samples
        PROVE  \E i \in 1..Bins : s \in bins[i]
    <3>1. score[s] \in 0..Scale /\ Scale \in Nat
      BY HoldoutAssumption DEF HoldoutTypeOK
    <3>2. score[s] * Bins <= Scale * Bins /\ Scale * Bins = Bins * Scale
      BY <3>1, <1>t, ProductMonotone
    <3>3. CASE score[s] * Bins < next * Scale
      BY <3>3, <1>t DEF BinsSoFar
    <3>4. CASE ~(score[s] * Bins < next * Scale)
      <4>1. score[s] * Bins = Bins * Scale /\ score[s] * Bins \in Nat
        BY <3>1, <3>2, <3>4, <1>t
      <4>2. (Bins - 1) * Scale <= Bins * Scale /\ ((Bins - 1) + 1) * Scale = Bins * Scale
        BY <3>1, <1>t, ProductMonotone
      <4>3. s \in Mask(Bins - 1)
        BY <4>1, <4>2 DEF Mask
      <4>4. bins[Bins] = Mask(Bins - 1) /\ Bins \in 1..Bins
        BY <1>t DEF BinsSoFar
      <4>. QED BY <4>3, <4>4
    <3>. QED BY <3>3, <3>4
  <2>2. ASSUME NEW s \in Samples, NEW i \in 1..Bins, NEW k \in 1..Bins, s \in bins[i], s \in bins[k]
        PROVE  k = i
    <3>1. s \in Mask(i - 1) /\ s \in Mask(k - 1)
      BY <2>2, <1>t DEF BinsSoFar
    <3>2. i - 1 \in 0..(Bins - 1) /\ k - 1 \in 0..(Bins - 1)
      BY <1>t
    <3>3. ~(i - 1 < k - 1) /\ ~(k - 1 < i - 1)
      BY <3>1, <3>2, MasksApart
    <3>. QED BY <3>3
  <2>3. ASSUME NEW s \in Samples
        PROVE  \E i \in 1..Bins : s \in bins[i] /\ \A k \in 1..Bins : s \in bins[k] => k = i
    <3>1. PICK i \in 1..Bins : s \in bins[i]
      BY <2>1
    <3>2. \A k \in 1..Bins : s \in bins[k] => k = i
      BY <3>1, <2>2
    <3>. QED BY <3>1, <3>2
  <2>4. ASSUME NEW c \in calibrations', NEW s \in Samples
        PROVE  \E i \in 1..Bins : s \in c.bins[i] /\ \A k \in 1..Bins : s \in c.bins[k] => k = i
    <3>1. CASE c = c0
      BY <3>1, <1>2, <2>3
    <3>2. CASE c \in calibrations
      BY <3>2 DEF EachInOneBin
    <3>. QED BY <3>1, <3>2, <1>1
  <2>. QED BY <2>4 DEF EachInOneBin
<1>7. CalibrationsTell'
  <2>1. Brier' = Brier /\ \A bs : ExpectedCalibrationError(bs)' = ExpectedCalibrationError(bs)
    BY <1>1, HoldoutStands
  <2>. QED BY <1>1, <1>2, <2>1 DEF CalibrationsTell
<1>. QED BY <1>3, <1>4, <1>5, <1>6, <1>7

LEMMA EvaluateStep ==
  ASSUME IInv, NEW d \in Nat, NEW j \in 0..d, Evaluate(j, d)
  PROVE  IInv'
<1>. USE DEF Evaluate, IInv
<1>. DEFINE e0 == [j |-> j, d |-> d, fp |-> FalsePositives(j, d), fn |-> FalseNegatives(j, d)]
<1>1. UNCHANGED holdout /\ UNCHANGED <<doing, ask, next, best, bins>> /\ doing = "nothing"
      /\ UNCHANGED <<sweeps, calibrations>> /\ evaluations' = evaluations \cup {e0}
  BY DEF computation
<1>2. e0.j = j /\ e0.d = d /\ e0.fp = FalsePositives(j, d) /\ e0.fn = FalseNegatives(j, d)
  OBVIOUS
<1>. HIDE DEF e0
<1>3. HoldoutTypeOK'
  BY <1>1 DEF HoldoutTypeOK, holdout
<1>4. SweepSoFar' /\ BinsSoFar'
  BY <1>1 DEF SweepSoFar, BinsSoFar
<1>5. ReportsTell'
  <2>1. \A w \in sweeps' : w.cost = Cost(w.ask, w.best)'
    BY <1>1, HoldoutStands DEF ReportsTell
  <2>2. ASSUME NEW e \in evaluations'
        PROVE  /\ e.d \in Nat /\ e.j \in 0..e.d
               /\ e.fp = FalsePositives(e.j, e.d)' /\ e.fn = FalseNegatives(e.j, e.d)'
    <3>1. CASE e = e0
      BY <3>1, <1>1, <1>2, HoldoutStands
    <3>2. CASE e \in evaluations
      BY <3>2, <1>1, HoldoutStands DEF ReportsTell
    <3>. QED BY <3>1, <3>2, <1>1
  <2>. QED BY <1>1, <2>1, <2>2 DEF ReportsTell
<1>6. CheapestHighest' /\ EachInOneBin' /\ CalibrationsTell'
  BY <1>1, SweepsStand, BinsStand
<1>. QED BY <1>3, <1>4, <1>5, <1>6

LEMMA StutterStep ==
  ASSUME IInv, UNCHANGED holdoutVars
  PROVE  IInv'
<1>1. UNCHANGED holdout /\ UNCHANGED <<doing, ask, next, best, bins>>
      /\ UNCHANGED <<sweeps, evaluations, calibrations>>
  BY DEF holdoutVars, computation, finished
<1>2. HoldoutTypeOK' /\ CheapestHighest' /\ EachInOneBin' /\ CalibrationsTell'
  BY <1>1, SweepsStand, BinsStand DEF IInv, HoldoutTypeOK, holdout
<1>3. \A q, j : Cost(q, j)' = Cost(q, j)
  BY <1>1, HoldoutStands
<1>4. SweepSoFar'
  BY <1>1, <1>3 DEF SweepSoFar, IInv
<1>5. BinsSoFar'
  <2>1. score' = score /\ \A i : Mask(i)' = Mask(i)
    BY <1>1, HoldoutStands DEF holdout
  <2>. QED BY <1>1, <2>1 DEF BinsSoFar, IInv
<1>6. ReportsTell'
  BY <1>1, HoldoutStands DEF ReportsTell, IInv
<1>. QED BY <1>2, <1>4, <1>5, <1>6 DEF IInv

\* IInv is kept by every action of the three computations.
THEOREM InductiveInvariant == Spec => []IInv
<1>1. Init => IInv
  BY InitInv
<1>2. IInv /\ [Next]_vars => IInv'
  <2>. SUFFICES ASSUME IInv, [Next]_vars PROVE IInv'
    OBVIOUS
  <2>1. CASE HoldoutRuns
    <3>1. CASE ScoreHoldout
      BY <3>1, ScoreStep
    <3>2. ASSUME NEW fp \in Costs, NEW fn \in Costs, NEW d \in Grids, Ask(fp, fn, d) PROVE IInv'
      BY <3>2, AskStep
    <3>3. CASE SweepPoint
      BY <3>3, SweepStep
    <3>4. CASE Recommend
      BY <3>4, RecommendStep
    <3>5. CASE BeginBins
      BY <3>5, BeginBinsStep
    <3>6. CASE NextBin
      BY <3>6, NextBinStep
    <3>7. CASE ReportBins
      BY <3>7, ReportBinsStep
    <3>8. ASSUME NEW d \in Grids, NEW j \in 0..d, Evaluate(j, d) PROVE IInv'
      <4>1. d \in Nat
        BY HoldoutAssumption
      <4>. QED BY <4>1, <3>8, EvaluateStep
    <3>9. CASE Evaluate(Decline[1], Decline[2])
      <4>1. Decline[2] \in Nat /\ Decline[1] \in 0..Decline[2]
        BY HoldoutAssumption
      <4>. QED BY <4>1, <3>9, EvaluateStep
    <3>. QED BY <2>1, <3>1, <3>2, <3>3, <3>4, <3>5, <3>6, <3>7, <3>8, <3>9 DEF HoldoutRuns, HoldoutNext
  <2>2. CASE DriftRuns \/ IngestionRuns \/ UNCHANGED vars
    <3>1. UNCHANGED holdoutVars
      BY <2>2 DEF DriftRuns, IngestionRuns, vars
    <3>. QED BY <3>1, StutterStep
  <2>. QED BY <2>1, <2>2 DEF Next
<1>. QED BY <1>1, <1>2, PTL DEF Spec

-----------------------------------------------------------------------------
LEMMA AlarmsRaiseHolds ==
  ASSUME HoldoutTypeOK, CheapestHighest
  PROVE  AlarmsRaise
<1>. SUFFICES ASSUME NEW v \in sweeps, NEW w \in sweeps,
                     v.ask.d = w.ask.d, v.ask.fn = w.ask.fn, v.ask.fp < w.ask.fp,
                     ~(v.best <= w.best)
              PROVE  FALSE
  BY DEF AlarmsRaise
<1>1. /\ v.ask \in Asks /\ w.ask \in Asks
      /\ v.best \in 0..v.ask.d /\ w.best \in 0..v.ask.d /\ v.ask.d \in Nat
      /\ v.best \in Nat /\ w.best \in Nat /\ v.ask.fp \in Nat /\ w.ask.fp \in Nat /\ v.ask.fn \in Nat
  BY DEF HoldoutTypeOK, Asks
<1>2. v.best > w.best
  BY <1>1
<1>3. Cost(v.ask, v.best) <= Cost(v.ask, w.best) /\ Cost(w.ask, w.best) < Cost(w.ask, v.best)
  BY <1>1, <1>2 DEF CheapestHighest
<1>. DEFINE F1 == FalsePositives(v.best, v.ask.d)  F2 == FalsePositives(w.best, v.ask.d)
            N1 == FalseNegatives(v.best, v.ask.d)  N2 == FalseNegatives(w.best, v.ask.d)
<1>4. F1 \in Nat /\ F2 \in Nat /\ N1 \in Nat /\ N2 \in Nat
  BY <1>1, CountType
<1>5. F1 <= F2
  BY <1>1, <1>2, AlarmsFall
<1>6. /\ v.ask.fp * F1 + v.ask.fn * N1 <= v.ask.fp * F2 + v.ask.fn * N2
      /\ w.ask.fp * F2 + v.ask.fn * N2 < w.ask.fp * F1 + v.ask.fn * N1
  BY <1>3 DEF Cost
<1>. HIDE DEF F1, F2, N1, N2
<1>7. F2 < F1
  BY <1>1, <1>4, <1>6, Exchange
<1>. QED BY <1>4, <1>5, <1>7

LEMMA ReportsAgreeHolds ==
  ASSUME HoldoutTypeOK, CheapestHighest, ReportsTell
  PROVE  ReportsAgree
<1>. SUFFICES ASSUME NEW w \in sweeps, NEW e \in evaluations, e.d = w.ask.d
              PROVE  /\ w.ask.fp * e.fp + w.ask.fn * e.fn >= w.cost
                     /\ e.j = w.best => w.ask.fp * e.fp + w.ask.fn * e.fn = w.cost
  BY DEF ReportsAgree
<1>1. w.ask \in Asks /\ w.best \in Nat /\ e.j \in 0..w.ask.d /\ e.j \in Nat
  BY DEF HoldoutTypeOK, ReportsTell, Asks
<1>2. w.ask.fp * e.fp + w.ask.fn * e.fn = Cost(w.ask, e.j)
  BY DEF ReportsTell, Cost
<1>3. w.cost = Cost(w.ask, w.best) /\ Cost(w.ask, w.best) <= Cost(w.ask, e.j)
  BY <1>1 DEF ReportsTell, CheapestHighest
<1>4. Cost(w.ask, w.best) \in Nat /\ Cost(w.ask, e.j) \in Nat
  BY <1>1, CostType
<1>. QED BY <1>2, <1>3, <1>4

\* optimize_threshold recommends the highest of the cheapest thresholds, a higher one
\* where alarms cost more, and evaluation reports agree with what it expects.
THEOREM RecommendedRightly == Spec => []RecommendationsHold
<1>1. IInv => RecommendationsHold
  BY AlarmsRaiseHolds, ReportsAgreeHolds DEF IInv, RecommendationsHold
<1>. QED BY <1>1, InductiveInvariant, PTL

\* calibration_bins counts every sample in exactly one bin.
THEOREM OneBin == Spec => []EachInOneBin
<1>1. IInv => EachInOneBin
  BY DEF IInv
<1>. QED BY <1>1, InductiveInvariant, PTL

-----------------------------------------------------------------------------
\* By how much the probabilities of samples exceed their labels.
Excess == [s \in Samples |-> score[s] - (IF s \in fraud THEN Scale ELSE 0)]
AbsExcess == [s \in Samples |-> Abs(Excess[s])]

LEMMA ExcessType ==
  ASSUME HoldoutTypeOK, NEW s \in Samples
  PROVE  /\ score[s] \in Int /\ Excess[s] \in Int /\ AbsExcess[s] \in Nat
         /\ Excess[s] = IF s \in fraud THEN score[s] - Scale ELSE score[s]
         /\ AbsExcess[s] = Abs(Excess[s])
         /\ SquaredError(s) = AbsExcess[s] * AbsExcess[s]
<1>1. score[s] \in Nat /\ score[s] <= Scale /\ Scale \in Nat
  BY HoldoutAssumption DEF HoldoutTypeOK
<1>2. /\ Excess[s] = IF s \in fraud THEN score[s] - Scale ELSE score[s]
      /\ AbsExcess[s] = Abs(Excess[s])
  BY <1>1 DEF Excess, AbsExcess
<1>3. AbsExcess[s] = Distance(score[s], IF s \in fraud THEN Scale ELSE 0)
  BY <1>1, <1>2 DEF Abs, Distance
<1>4. Excess[s] \in Int /\ AbsExcess[s] \in Nat
  BY <1>1, <1>2 DEF Abs
<1>. QED BY <1>1, <1>2, <1>3, <1>4 DEF SquaredError

LEMMA ExcessSum ==
  ASSUME HoldoutTypeOK, NEW T \in SUBSET Samples
  PROVE  /\ SumFunctionOnSet(Excess, T) = Probability(T) - Scale * Cardinality(T \cap fraud)
         /\ Probability(T) \in Int /\ Scale * Cardinality(T \cap fraud) \in Int
<1>. DEFINE Holds(U) == /\ Probability(U) \in Int
                        /\ Cardinality(U \cap fraud) \in Nat
                        /\ SumFunctionOnSet(Excess, U)
                             = Probability(U) - Scale * Cardinality(U \cap fraud)
            F == {U \in SUBSET T : Holds(U)}
<1>0. IsFiniteSet(Samples) /\ IsFiniteSet(T) /\ Scale \in Nat
  BY HoldoutAssumption, FS_Subset
<1>1. {} \in F
  <2>1. SumFunctionOnSet(Excess, {}) = 0 /\ Probability({}) = 0
    BY SumEmpty DEF Probability
  <2>2. {} \cap fraud = {} /\ Cardinality({}) = 0
    BY FS_EmptySet
  <2>3. Holds({})
    BY <1>0, <2>1, <2>2
  <2>. QED BY <2>3
<1>2. ASSUME NEW U \in SUBSET T, NEW y \in T \ U, U \in F
      PROVE  U \cup {y} \in F
  <2>1. Holds(U)
    BY <1>2
  <2>2. (\A s \in Samples : score[s] \in Int) /\ (\A s \in Samples : Excess[s] \in Int)
    BY ExcessType
  <2>3. /\ SumFunctionOnSet(Excess, U \cup {y}) = Excess[y] + SumFunctionOnSet(Excess, U)
        /\ Probability(U \cup {y}) = score[y] + Probability(U)
    <3>1. U \in SUBSET Samples /\ y \in Samples \ U
      OBVIOUS
    <3>2. SumFunctionOnSet(Excess, U \cup {y}) = Excess[y] + SumFunctionOnSet(Excess, U)
      BY <1>0, <2>2, <3>1, SumAdd
    <3>3. SumFunctionOnSet(score, U \cup {y}) = score[y] + SumFunctionOnSet(score, U)
      BY <1>0, <2>2, <3>1, SumAdd
    <3>. QED BY <3>2, <3>3 DEF Probability
  <2>4. score[y] \in Int /\ Excess[y] = IF y \in fraud THEN score[y] - Scale ELSE score[y]
    BY ExcessType
  <2>5. Cardinality((U \cup {y}) \cap fraud)
          = IF y \in fraud THEN Cardinality(U \cap fraud) + 1 ELSE Cardinality(U \cap fraud)
    <3>1. IsFiniteSet(U \cap fraud) /\ y \notin U \cap fraud
      BY <1>0, FS_Subset
    <3>2. (U \cup {y}) \cap fraud = IF y \in fraud THEN (U \cap fraud) \cup {y} ELSE U \cap fraud
      OBVIOUS
    <3>. QED BY <3>1, <3>2, FS_AddElement
  <2>6. Holds(U \cup {y})
    <3>. DEFINE n == Cardinality(U \cap fraud)
    <3>1. n \in Nat /\ Scale * (n + 1) = Scale * n + Scale /\ Scale * n \in Int
      BY <1>0, <2>1
    <3>. QED BY <1>0, <2>1, <2>3, <2>4, <2>5, <3>1
  <2>. QED BY <2>6
<1>3. T \in F
  <2>. HIDE DEF F
  <2>. QED BY <1>0, <1>1, <1>2, SubsetInduction
<1>4. Holds(T)
  BY <1>3
<1>. QED BY <1>0, <1>4

\* The gap of a bin is the distance of its excess from 0.
LEMMA GapIsExcess ==
  ASSUME HoldoutTypeOK, NEW T \in SUBSET Samples
  PROVE  Gap(T) = Abs(SumFunctionOnSet(Excess, T))
  BY ExcessSum DEF Gap, Distance, Abs

LEMMA ErrorsOrderedHolds ==
  ASSUME HoldoutTypeOK, EachInOneBin, CalibrationsTell
  PROVE  ErrorsOrdered
<1>. SUFFICES ASSUME NEW c \in calibrations
              PROVE  /\ Distance(Probability(Samples), Scale * Cardinality(fraud)) <= c.error
                     /\ c.error * c.error <= Cardinality(Samples) * c.brier
  BY DEF ErrorsOrdered
<1>. DEFINE B == c.bins
            G == [i \in DOMAIN B |-> Gap(B[i])]
            Q == [s \in Samples |-> SquaredError(s)]
            total == SumFunctionOnSet(AbsExcess, Samples)
<1>1. /\ IsFiniteSet(Samples) /\ Bins \in Nat /\ B \in Seq(SUBSET Samples) /\ Len(B) = Bins
      /\ DOMAIN B = 1..Bins /\ DOMAIN G = 1..Bins /\ DOMAIN Q = Samples
  BY HoldoutAssumption DEF HoldoutTypeOK
<1>2. c.error = SumFunctionOnSet(G, 1..Bins) /\ c.brier = SumFunctionOnSet(Q, Samples)
  BY <1>1 DEF CalibrationsTell, ExpectedCalibrationError, Brier, SumFunction
<1>3. \A s \in Samples : /\ Excess[s] \in Int /\ AbsExcess[s] = Abs(Excess[s])
                         /\ AbsExcess[s] \in Nat /\ Q[s] = AbsExcess[s] * AbsExcess[s]
  BY ExcessType
<1>4. \A i \in 1..Bins : B[i] \in SUBSET Samples
  BY <1>1
<1>5. \A i \in 1..Bins : G[i] = Abs(SumFunctionOnSet(Excess, B[i]))
  BY <1>1, <1>4, GapIsExcess
<1>6. /\ \A s \in Samples : \E i \in 1..Bins : s \in B[i]
      /\ \A i, k \in 1..Bins : i # k => B[i] \cap B[k] = {}
  BY <1>4 DEF EachInOneBin
<1>. HIDE DEF B, G, Q
<1>7. /\ Abs(SumFunctionOnSet(Excess, Samples)) <= SumFunctionOnSet(G, 1..Bins)
      /\ SumFunctionOnSet(G, 1..Bins) <= total
      /\ SumFunctionOnSet(G, 1..Bins) \in Nat
  <2>1. AbsOf(AbsExcess, Excess, Samples)
    BY <1>3 DEF AbsOf
  <2>2. Partition(B, Bins, Samples)
    BY <1>4, <1>6 DEF Partition
  <2>3. Distances(G, Excess, B, Bins)
    BY <1>5 DEF Distances
  <2>. QED BY <1>1, <2>1, <2>2, <2>3, SumPartition
<1>8. total * total <= Cardinality(Samples) * SumFunctionOnSet(Q, Samples) /\ total \in Nat
  <2>1. \A s \in Samples : AbsExcess[s] \in Nat /\ Q[s] = AbsExcess[s] * AbsExcess[s]
    BY <1>3
  <2>2. SumFunctionOnSet(AbsExcess, Samples) * SumFunctionOnSet(AbsExcess, Samples)
          <= Cardinality(Samples) * SumFunctionOnSet(Q, Samples)
    BY <1>1, <2>1, SumSquares
  <2>3. SumFunctionOnSet(AbsExcess, Samples) \in Nat
    BY <1>1, <2>1, SumNat
  <2>. QED BY <2>2, <2>3
<1>9. Samples \cap fraud = fraud /\ Samples \in SUBSET Samples
  BY DEF HoldoutTypeOK
<1>10. Distance(Probability(Samples), Scale * Cardinality(fraud))
         = Abs(SumFunctionOnSet(Excess, Samples))
  BY <1>9, GapIsExcess DEF Gap
<1>11. c.error * c.error <= total * total
  <2>. HIDE DEF total
  <2>1. c.error \in Nat /\ c.error <= total /\ total \in Nat
    BY <1>2, <1>7, <1>8
  <2>2. c.error * c.error <= total * c.error /\ c.error * total <= total * total
    BY <2>1, ProductMonotone
  <2>. QED BY <2>1, <2>2
<1>12. /\ c.error * c.error \in Int /\ total * total \in Int
       /\ Cardinality(Samples) * SumFunctionOnSet(Q, Samples) \in Int
  <2>1. SumFunctionOnSet(Q, Samples) \in Int /\ Cardinality(Samples) \in Int
    <3>1. \A s \in Samples : Q[s] \in Int
      BY <1>3
    <3>. QED BY <1>1, <3>1, SumInt, FS_CardinalityType
  <2>. QED BY <1>2, <1>7, <1>8, <2>1
<1>. QED BY <1>2, <1>7, <1>8, <1>10, <1>11, <1>12

\* What calibration_report answers: every sample is counted in one bin, the expected
\* calibration error is at least the error of the mean probability, and its square at
\* most the Brier score; of any holdout, probabilities and number of bins.
THEOREM CalibrationIsSound == Spec => []CalibrationHolds
<1>1. IInv => CalibrationHolds
  BY ErrorsOrderedHolds DEF IInv, CalibrationHolds
<1>. QED BY <1>1, InductiveInvariant, PTL

-----------------------------------------------------------------------------
(* Ingestion: what a payload is parsed into, for every payload.            *)

\* The recursion of Stripped.
KeptOf(k, lines, n) ==
  k = [i \in 0..n |-> IF i = 0 THEN <<>>
                      ELSE IF lines[i] = "blank" THEN k[i - 1] ELSE Append(k[i - 1], lines[i])]

LEMMA StrippedChosen ==
  ASSUME NEW lines
  PROVE  Stripped(lines) = (CHOOSE k : KeptOf(k, lines, Len(lines)))[Len(lines)]
  BY Zenon DEF Stripped, KeptOf

LEMMA KeptExists ==
  ASSUME NEW lines, NEW n \in Nat
  PROVE  \E k : KeptOf(k, lines, n)
<1>. DEFINE N == {m \in Nat : \E k : KeptOf(k, lines, m)}
<1>1. 0 \in N
  <2>. DEFINE k == [i \in 0..0 |-> <<>>]
  <2>1. k = [i \in 0..0 |-> IF i = 0 THEN <<>>
                      ELSE IF lines[i] = "blank" THEN k[i - 1] ELSE Append(k[i - 1], lines[i])]
    OBVIOUS
  <2>2. KeptOf(k, lines, 0)
    <3>. HIDE DEF k
    <3>. QED BY <2>1 DEF KeptOf
  <2>. QED BY <2>2
<1>2. ASSUME NEW m \in N
      PROVE  m + 1 \in N
  <2>1. PICK k : KeptOf(k, lines, m)
    OBVIOUS
  <2>. DEFINE h == [i \in 0..(m + 1) |->
                      IF i = 0 THEN <<>>
                      ELSE IF lines[i] = "blank" THEN k[i - 1] ELSE Append(k[i - 1], lines[i])]
  <2>2. ASSUME NEW i \in 0..(m + 1), i # 0
        PROVE  h[i - 1] = k[i - 1]
    <3>1. i - 1 \in 0..m /\ i - 1 \in 0..(m + 1)
      BY <2>2
    <3>. DEFINE j == i - 1
    <3>2. k[j] = IF j = 0 THEN <<>>
                 ELSE IF lines[j] = "blank" THEN k[j - 1] ELSE Append(k[j - 1], lines[j])
      <4>. HIDE DEF j
      <4>. QED BY <2>1, <3>1 DEF KeptOf, j
    <3>. QED BY <3>1, <3>2
  <2>3. h = [i \in 0..(m + 1) |->
              IF i = 0 THEN <<>>
              ELSE IF lines[i] = "blank" THEN h[i - 1] ELSE Append(h[i - 1], lines[i])]
    BY <2>2
  <2>4. KeptOf(h, lines, m + 1)
    <3>. HIDE DEF h
    <3>. QED BY <2>3 DEF KeptOf
  <2>. QED BY <2>4
<1>3. N = Nat
  <2>. HIDE DEF N
  <2>1. N \in SUBSET Nat
    BY DEF N
  <2>. QED BY <1>1, <1>2, <2>1, NatSet
<1>. QED BY <1>3

\* What the loop has kept of the first n lines: those that are not blank.
Full(lines, n) == {i \in 1..n : lines[i] # "blank"}
KeepsFull(s, lines, n) ==
  /\ s \in Seq(Lines \ {"blank"})
  /\ Len(s) = Cardinality(Full(lines, n))
  /\ \A i \in 1..Len(s) : \E j \in 1..n : lines[j] = s[i]
  /\ \A j \in Full(lines, n) : \E i \in 1..Len(s) : s[i] = lines[j]

LEMMA KeepsNone ==
  ASSUME NEW lines
  PROVE  KeepsFull(<<>>, lines, 0)
<1>1. Full(lines, 0) = {}
  BY DEF Full
<1>. QED BY <1>1, FS_EmptySet DEF KeepsFull

LEMMA SkipsBlank ==
  ASSUME NEW lines, NEW n \in Nat, NEW s, KeepsFull(s, lines, n), lines[n + 1] = "blank"
  PROVE  KeepsFull(s, lines, n + 1)
<1>1. Full(lines, n + 1) = Full(lines, n)
  BY DEF Full
<1>2. \A i \in 1..Len(s) : \E j \in 1..(n + 1) : lines[j] = s[i]
  BY DEF KeepsFull
<1>. QED BY <1>1, <1>2 DEF KeepsFull

LEMMA KeepsLine ==
  ASSUME NEW lines, NEW n \in Nat, NEW s, KeepsFull(s, lines, n),
         NEW v \in Lines \ {"blank"}, lines[n + 1] = v
  PROVE  KeepsFull(Append(s, v), lines, n + 1)
<1>. DEFINE t == Append(s, v)
<1>1. Full(lines, n + 1) = Full(lines, n) \cup {n + 1} /\ n + 1 \notin Full(lines, n)
  BY DEF Full
<1>2. IsFiniteSet(Full(lines, n))
  <2>1. IsFiniteSet(1..n)
    BY FS_Interval
  <2>2. Full(lines, n) \in SUBSET (1..n)
    BY DEF Full
  <2>. QED BY <2>1, <2>2, FS_Subset
<1>3. Cardinality(Full(lines, n + 1)) = Cardinality(Full(lines, n)) + 1
  BY <1>1, <1>2, FS_AddElement
<1>4. /\ t \in Seq(Lines \ {"blank"}) /\ Len(t) = Len(s) + 1 /\ t[Len(t)] = v
      /\ \A i \in 1..Len(s) : t[i] = s[i]
      /\ Len(s) \in Nat
  BY DEF KeepsFull
<1>. HIDE DEF t
<1>5. ASSUME NEW i \in 1..Len(t)
      PROVE  \E j \in 1..(n + 1) : lines[j] = t[i]
  <2>1. CASE i = Len(t)
    <3>1. n + 1 \in 1..(n + 1) /\ lines[n + 1] = t[i]
      BY <1>4, <2>1
    <3>. QED BY <3>1
  <2>2. CASE i \in 1..Len(s)
    <3>1. PICK j \in 1..n : lines[j] = s[i]
      BY <2>2 DEF KeepsFull
    <3>2. j \in 1..(n + 1) /\ lines[j] = t[i]
      BY <1>4, <2>2, <3>1
    <3>. QED BY <3>2
  <2>. QED BY <1>4, <2>1, <2>2
<1>6. ASSUME NEW j \in Full(lines, n + 1)
      PROVE  \E i \in 1..Len(t) : t[i] = lines[j]
  <2>1. CASE j = n + 1
    <3>1. Len(t) \in 1..Len(t) /\ t[Len(t)] = lines[j]
      BY <1>4, <2>1
    <3>. QED BY <3>1
  <2>2. CASE j \in Full(lines, n)
    <3>1. PICK i \in 1..Len(s) : s[i] = lines[j]
      BY <2>2 DEF KeepsFull
    <3>2. i \in 1..Len(t) /\ t[i] = lines[j]
      BY <1>4, <3>1
    <3>. QED BY <3>2
  <2>. QED BY <1>1, <2>1, <2>2
<1>7. Len(t) = Cardinality(Full(lines, n + 1))
  BY <1>3, <1>4 DEF KeepsFull
<1>8. KeepsFull(t, lines, n + 1)
  BY <1>4, <1>5, <1>6, <1>7 DEF KeepsFull
<1>. QED BY <1>8 DEF t

\* The loop keeps the lines that are not blank.
LEMMA StrippedKeeps ==
  ASSUME NEW lines \in Seq(Lines)
  PROVE  KeepsFull(Stripped(lines), lines, Len(lines))
<1>. DEFINE k == CHOOSE x : KeptOf(x, lines, Len(lines))
            N == {n \in Nat : n <= Len(lines) => KeepsFull(k[n], lines, n)}
<1>1. KeptOf(k, lines, Len(lines))
  <2>1. Len(lines) \in Nat
    OBVIOUS
  <2>. QED BY <2>1, KeptExists
<1>2. Stripped(lines) = k[Len(lines)]
  BY StrippedChosen
<1>. HIDE DEF k
<1>3. \A n \in 0..Len(lines) :
        k[n] = IF n = 0 THEN <<>>
               ELSE IF lines[n] = "blank" THEN k[n - 1] ELSE Append(k[n - 1], lines[n])
  BY <1>1 DEF KeptOf
<1>4. 0 \in N
  <2>1. k[0] = <<>>
    BY <1>3
  <2>. QED BY <2>1, KeepsNone
<1>5. ASSUME NEW n \in N
      PROVE  n + 1 \in N
  <2>1. n \in Nat /\ n + 1 \in Nat
    OBVIOUS
  <2>2. ASSUME n + 1 <= Len(lines)
        PROVE  KeepsFull(k[n + 1], lines, n + 1)
    <3>1. n <= Len(lines) /\ lines[n + 1] \in Lines
      BY <2>1, <2>2
    <3>2. KeepsFull(k[n], lines, n)
      BY <3>1
    <3>3. k[n + 1] = IF lines[n + 1] = "blank" THEN k[n] ELSE Append(k[n], lines[n + 1])
      <4>1. n + 1 \in 0..Len(lines) /\ n + 1 # 0 /\ (n + 1) - 1 = n
        BY <2>1, <2>2
      <4>. QED BY <1>3, <4>1
    <3>4. CASE lines[n + 1] = "blank"
      BY <2>1, <3>2, <3>3, <3>4, SkipsBlank
    <3>5. CASE lines[n + 1] # "blank"
      <4>1. lines[n + 1] \in Lines \ {"blank"} /\ k[n + 1] = Append(k[n], lines[n + 1])
        BY <3>1, <3>3, <3>5
      <4>. QED BY <2>1, <3>2, <4>1, KeepsLine
    <3>. QED BY <3>4, <3>5
  <2>. QED BY <2>1, <2>2
<1>6. Len(lines) \in N
  <2>. HIDE DEF N
  <2>1. N \in SUBSET Nat /\ Len(lines) \in Nat
    BY DEF N
  <2>. QED BY <1>4, <1>5, <2>1, NatSet
<1>. QED BY <1>2, <1>6

LEMMA PayloadType ==
  ASSUME NEW p \in Payloads
  PROVE  /\ p.form \in {"lines", "array", "undecodable"} /\ p.items \in Seq(Lines)
         /\ p.form = "array" => p.items \in Seq(Lines \ {"blank"})
         /\ p.form = "undecodable" => p.items = <<>>
<1>1. ASSUME NEW S, NEW s \in BoundedSeq(S, MaxItems)
      PROVE  s \in Seq(S)
  <2>1. PICK m \in 0..MaxItems : s \in [1..m -> S]
    BY <1>1 DEF BoundedSeq, SeqOf
  <2>2. m \in Nat
    BY IngestionAssumption
  <2>. QED BY <2>1, <2>2
<1>2. CASE p \in [form : {"lines"}, items : BoundedSeq(Lines, MaxItems)]
  BY <1>1, <1>2
<1>3. CASE p \in [form : {"array"}, items : BoundedSeq(Lines \ {"blank"}, MaxItems)]
  <2>1. p.form = "array" /\ p.items \in Seq(Lines \ {"blank"})
    BY <1>1, <1>3
  <2>2. p.items \in Seq(Lines)
    BY <2>1
  <2>. QED BY <2>1, <2>2
<1>4. CASE p = [form |-> "undecodable", items |-> <<>>]
  BY <1>4
<1>. QED BY <1>2, <1>3, <1>4 DEF Payloads

\* What a payload is parsed into: nothing, or one record for each line or element.
Whole(p) == Accepted(p) /\ ~Severed(p)

ParsedRight(records, p) ==
  \/ records = Unparsable /\ ~Whole(p)
  \/ /\ records \in Seq({"good", "bad"}) /\ Len(records) = Size(p)
     /\ Whole(p) <=> Size(p) > 0 /\ \A i \in DOMAIN records : records[i] = "good"

LEMMA ParseArray ==
  ASSUME NEW p \in Payloads, p.form = "array"
  PROVE  ParsedRight(Parse(p), p)
<1>1. p.items \in Seq(Lines \ {"blank"}) /\ DOMAIN p.items = 1..Len(p.items) /\ Len(p.items) \in Nat
  BY PayloadType
<1>2. Size(p) = Len(p.items)
  <2>1. {i \in DOMAIN p.items : p.items[i] # "blank"} = 1..Len(p.items)
    BY <1>1
  <2>2. Cardinality(1..Len(p.items)) = Len(p.items)
    BY <1>1, FS_Interval
  <2>. QED BY <2>1, <2>2 DEF Size
<1>3. CASE \E i \in DOMAIN p.items : p.items[i] = "broken"
  <2>1. Parse(p) = Unparsable
    BY <1>3 DEF Parse
  <2>2. ~Whole(p)
    BY <1>3 DEF Whole, Accepted
  <2>. QED BY <2>1, <2>2 DEF ParsedRight
<1>4. CASE ~ \E i \in DOMAIN p.items : p.items[i] = "broken"
  <2>. DEFINE r == [i \in 1..Len(p.items) |->
                     IF p.items[i] \in {"good", "spread", "split"} THEN "good" ELSE "bad"]
  <2>1. Parse(p) = r
    BY <1>1, <1>4 DEF Parse
  <2>2. r \in Seq({"good", "bad"}) /\ Len(r) = Len(p.items) /\ DOMAIN r = 1..Len(p.items)
    BY <1>1
  <2>3. (\A i \in DOMAIN r : r[i] = "good")
          <=> {p.items[i] : i \in DOMAIN p.items} \ {"blank"} \subseteq {"good", "spread", "split"}
    <3>1. \A i \in 1..Len(p.items) : r[i] = "good" <=> p.items[i] \in {"good", "spread", "split"}
      OBVIOUS
    <3>2. \A i \in 1..Len(p.items) : p.items[i] # "blank"
      BY <1>1
    <3>. HIDE DEF r
    <3>. QED BY <1>1, <2>2, <3>1, <3>2
  <2>4. Whole(p) <=> Size(p) > 0 /\ \A i \in DOMAIN r : r[i] = "good"
    BY <2>3 DEF Whole, Accepted, Severed
  <2>. HIDE DEF r
  <2>. QED BY <1>2, <2>1, <2>2, <2>4 DEF ParsedRight
<1>. QED BY <1>3, <1>4

LEMMA ParseOfLines ==
  ASSUME NEW p \in Payloads, p.form = "lines"
  PROVE  ParsedRight(Parse(p), p)
<1>. DEFINE s == Stripped(p.items)
            Occur == {p.items[i] : i \in DOMAIN p.items} \ {"blank"}
<1>1. p.items \in Seq(Lines) /\ DOMAIN p.items = 1..Len(p.items)
  BY PayloadType
<1>2. KeepsFull(s, p.items, Len(p.items))
  BY <1>1, StrippedKeeps
<1>3. /\ s \in Seq(Lines \ {"blank"}) /\ Len(s) = Size(p) /\ DOMAIN s = 1..Len(s) /\ Len(s) \in Nat
      /\ Occur = {s[i] : i \in DOMAIN s}
  <2>1. s \in Seq(Lines \ {"blank"}) /\ Len(s) = Size(p)
    BY <1>1, <1>2 DEF KeepsFull, Size, Full
  <2>2. DOMAIN s = 1..Len(s) /\ Len(s) \in Nat
    BY <2>1
  <2>. HIDE DEF s
  <2>3. \A i \in 1..Len(s) : s[i] \in Occur
    <3>1. SUFFICES ASSUME NEW i \in 1..Len(s) PROVE s[i] \in Occur
      OBVIOUS
    <3>2. PICK j \in 1..Len(p.items) : p.items[j] = s[i]
      BY <1>2 DEF KeepsFull
    <3>3. s[i] # "blank"
      BY <2>1
    <3>. QED BY <1>1, <3>2, <3>3
  <2>4. \A v \in Occur : \E i \in 1..Len(s) : s[i] = v
    <3>1. SUFFICES ASSUME NEW v \in Occur PROVE \E i \in 1..Len(s) : s[i] = v
      OBVIOUS
    <3>2. PICK j \in 1..Len(p.items) : p.items[j] = v /\ v # "blank"
      BY <1>1
    <3>3. j \in Full(p.items, Len(p.items))
      BY <3>2 DEF Full
    <3>4. PICK i \in 1..Len(s) : s[i] = p.items[j]
      BY <1>2, <3>3 DEF KeepsFull
    <3>. QED BY <3>2, <3>4
  <2>5. Occur = {s[i] : i \in 1..Len(s)}
    <3>. HIDE DEF Occur
    <3>. QED BY <2>3, <2>4
  <2>. QED BY <2>1, <2>2, <2>5
<1>4. Whole(p) <=> /\ Len(s) > 0
                      /\ \/ Occur = {"good"}
                         \/ Len(s) = 1 /\ Occur \subseteq {"spread", "split", "array"}
  <2>1. Severed(p) <=> Len(s) > 1 /\ "split" \in Occur
    BY <1>1, <1>3 DEF Severed
  <2>2. Accepted(p) <=> /\ Len(s) > 0
                        /\ \/ Occur \subseteq {"good", "split"}
                           \/ Len(s) = 1 /\ Occur \subseteq {"spread", "array"}
    BY <1>3 DEF Accepted
  <2>3. Len(s) > 0 => s[1] \in Occur
    BY <1>3
  <2>4. ASSUME Len(s) = 1 PROVE Occur = {s[1]}
    <3>. HIDE DEF s, Occur
    <3>. QED BY <1>3, <2>4
  <2>5. CASE Len(s) = 1
    <3>1. ~Severed(p)
      BY <2>1, <2>5
    <3>2. Occur \subseteq {"good", "split"} <=> s[1] \in {"good", "split"}
      BY <2>4, <2>5
    <3>3. Occur \subseteq {"spread", "array"} <=> s[1] \in {"spread", "array"}
      BY <2>4, <2>5
    <3>4. Occur = {"good"} \/ Occur \subseteq {"spread", "split", "array"}
            <=> s[1] \in {"good", "spread", "split", "array"}
      BY <2>4, <2>5
    <3>. QED BY <2>2, <2>5, <3>1, <3>2, <3>3, <3>4 DEF Whole
  <2>6. CASE Len(s) # 1
    <3>. HIDE DEF Occur
    <3>1. Len(s) > 0 => (Occur \subseteq {"good", "split"} /\ "split" \notin Occur <=> Occur = {"good"})
      BY <2>3
    <3>2. Len(s) > 0 => Len(s) > 1
      BY <1>3, <2>6
    <3>. QED BY <2>1, <2>2, <2>6, <3>1, <3>2 DEF Whole
  <2>. QED BY <2>5, <2>6
<1>5. Parse(p) = IF s = <<>> THEN <<>>
                 ELSE IF Len(s) = 1 /\ s[1] # "broken" THEN Loaded(s[1])
                 ELSE ParseLines(s)
  BY DEF Parse
<1>. HIDE DEF s, Occur
<1>6. CASE s = <<>>
  <2>1. Len(s) = 0 /\ ~Whole(p) /\ Size(p) = 0
    BY <1>3, <1>4, <1>6
  <2>2. Parse(p) = <<>> /\ <<>> \in Seq({"good", "bad"}) /\ Len(<<>>) = 0
    BY <1>5, <1>6
  <2>. QED BY <2>1, <2>2 DEF ParsedRight
<1>7. CASE Len(s) = 1 /\ s[1] # "broken"
  <2>1. s # <<>> /\ Parse(p) = Loaded(s[1]) /\ s[1] \in Lines \ {"blank"}
    BY <1>3, <1>5, <1>7
  <2>2. Occur = {s[1]} /\ Size(p) = 1
    BY <1>3, <1>7
  <2>3. Whole(p) <=> s[1] \in {"good", "spread", "split", "array"}
    BY <1>4, <1>7, <2>2
  <2>4. CASE s[1] \in {"good", "spread", "split", "array"}
    <3>1. Parse(p) = <<"good">>
      BY <2>1, <2>4 DEF Loaded
    <3>. QED BY <2>2, <2>3, <2>4, <3>1 DEF ParsedRight
  <2>5. CASE s[1] = "scalar"
    <3>1. Parse(p) = Unparsable
      BY <2>1, <2>5 DEF Loaded
    <3>. QED BY <2>3, <2>5, <3>1 DEF ParsedRight
  <2>6. CASE s[1] = "bad"
    <3>1. Parse(p) = <<"bad">>
      BY <2>1, <2>6 DEF Loaded
    <3>. QED BY <2>2, <2>3, <2>6, <3>1 DEF ParsedRight
  <2>. QED BY <1>7, <2>1, <2>4, <2>5, <2>6 DEF Lines
<1>8. CASE s # <<>> /\ ~(Len(s) = 1 /\ s[1] # "broken")
  <2>1. Parse(p) = ParseLines(s) /\ Len(s) > 0
    BY <1>3, <1>5, <1>8
  <2>2. CASE \E i \in DOMAIN s : s[i] \in {"spread", "split", "broken"}
    <3>1. Parse(p) = Unparsable
      BY <2>1, <2>2 DEF ParseLines
    <3>2. Occur # {"good"}
      BY <1>3, <2>2
    <3>3. Len(s) = 1 => Occur = {"broken"}
      BY <1>3, <1>8
    <3>. QED BY <1>4, <3>1, <3>2, <3>3 DEF ParsedRight
  <2>3. CASE ~ \E i \in DOMAIN s : s[i] \in {"spread", "split", "broken"}
    <3>. DEFINE r == [i \in 1..Len(s) |-> IF s[i] = "good" THEN "good" ELSE "bad"]
    <3>1. Parse(p) = r
      BY <1>3, <2>1, <2>3 DEF ParseLines
    <3>2. r \in Seq({"good", "bad"}) /\ Len(r) = Len(s) /\ DOMAIN r = 1..Len(s)
      BY <1>3
    <3>3. Len(s) # 1
      BY <1>3, <1>8, <2>3
    <3>4. (\A i \in DOMAIN r : r[i] = "good") <=> Occur = {"good"}
      <4>1. \A i \in 1..Len(s) : r[i] = "good" <=> s[i] = "good"
        OBVIOUS
      <4>2. s[1] \in Occur /\ 1 \in 1..Len(s)
        BY <1>3, <2>1
      <4>. HIDE DEF r
      <4>. QED BY <1>3, <3>2, <4>1, <4>2
    <3>. HIDE DEF r
    <3>. QED BY <1>3, <1>4, <2>1, <3>1, <3>2, <3>3, <3>4 DEF ParsedRight
  <2>. QED BY <2>2, <2>3
<1>. QED BY <1>6, <1>7, <1>8

LEMMA ParseRight ==
  ASSUME NEW p \in Payloads
  PROVE  ParsedRight(Parse(p), p)
<1>1. CASE p.form = "undecodable"
  <2>1. Parse(p) = Unparsable
    BY <1>1 DEF Parse
  <2>2. ~Whole(p)
    BY <1>1 DEF Whole, Accepted
  <2>. QED BY <2>1, <2>2 DEF ParsedRight
<1>. QED BY <1>1, ParseArray, ParseOfLines, PayloadType

LEMMA IngestRight ==
  ASSUME NEW p \in Payloads, payload = <<p>>, submitted = <<>>, Ingest
  PROVE  IngestedWhole' /\ payload' = payload
<1>. DEFINE records == Parse(p)
<1>1. payload[1] = p /\ payload' = payload /\ payload'[1] = p
  BY DEF Ingest, Answered
<1>2. ParsedRight(records, p)
  BY ParseRight
<1>. HIDE DEF records
<1>3. MaxRecords \in Nat \ {0}
  BY IngestionAssumption
<1>4. \/ records \in {Unparsable, <<>>} /\ reply' = 422 /\ submitted' = <<>>
      \/ /\ records \notin {Unparsable, <<>>} /\ Len(records) > MaxRecords
         /\ reply' = 413 /\ submitted' = <<>>
      \/ /\ records \notin {Unparsable, <<>>} /\ Len(records) <= MaxRecords
         /\ \E i \in DOMAIN records : records[i] = "bad"
         /\ reply' = 422 /\ submitted' = <<>>
      \/ /\ records \notin {Unparsable, <<>>} /\ Len(records) <= MaxRecords
         /\ \A i \in DOMAIN records : records[i] = "good"
         /\ reply' = 202 /\ submitted' = records
  BY <1>1 DEF Ingest, Answered, records
<1>5. /\ reply' = 202 <=> Whole(p) /\ Size(p) <= MaxRecords
      /\ Whole(p) /\ Size(p) > MaxRecords => reply' = 413
      /\ reply' = 413 => Size(p) > MaxRecords
      /\ Len(submitted') = IF reply' = 202 THEN Size(p) ELSE 0
  <2>1. CASE records = Unparsable
    BY <1>2, <1>4, <2>1 DEF ParsedRight, Unparsable
  <2>. QED BY <1>2, <1>3, <1>4, <2>1 DEF ParsedRight
<1>6. IngestedWhole'
  BY <1>1, <1>5 DEF IngestedWhole, Whole
<1>. QED BY <1>1, <1>6

IngestionInv ==
  /\ payload = <<>> => reply = 0
  /\ payload # <<>> => \E p \in Payloads : payload = <<p>>
  /\ reply = 0 => submitted = <<>>
  /\ IngestedWhole

\* A payload is submitted whole or refused whole, and refused only when it is too large,
\* malformed, invalid, or has a line that splitlines cuts; of any number of lines, for
\* any max_ingest_records.
THEOREM PayloadsAreWhole == Spec => []IngestedWhole
<1>1. Init => IngestionInv
  BY DEF Init, IngestionInit, IngestionInv, IngestedWhole
<1>2. IngestionInv /\ [Next]_vars => IngestionInv'
  <2>. SUFFICES ASSUME IngestionInv, [Next]_vars PROVE IngestionInv'
    OBVIOUS
  <2>1. CASE Receive
    <3>1. reply = 0 /\ reply' = 0 /\ submitted' = <<>> /\ \E p \in Payloads : payload' = <<p>>
      BY <2>1 DEF Receive, IngestionInv
    <3>. QED BY <3>1 DEF IngestionInv, IngestedWhole
  <2>2. CASE Ingest
    <3>1. PICK p \in Payloads : payload = <<p>>
      BY <2>2 DEF Ingest, IngestionInv
    <3>2. submitted = <<>>
      BY <2>2 DEF Ingest, IngestionInv
    <3>3. IngestedWhole' /\ payload' = payload
      BY <2>2, <3>1, <3>2, IngestRight
    <3>4. reply' # 0
      BY <2>2 DEF Ingest, Answered
    <3>. QED BY <3>1, <3>3, <3>4 DEF IngestionInv
  <2>3. CASE UNCHANGED ingestionVars
    <3>1. payload' = payload /\ reply' = reply /\ submitted' = submitted
      BY <2>3 DEF ingestionVars
    <3>2. IngestedWhole'
      BY <3>1 DEF IngestedWhole, IngestionInv
    <3>. QED BY <3>1, <3>2 DEF IngestionInv
  <2>. QED BY <2>1, <2>2, <2>3
         DEF Next, HoldoutRuns, DriftRuns, IngestionRuns, IngestionNext, vars
<1>3. IngestionInv => IngestedWhole
  BY DEF IngestionInv
<1>. QED BY <1>1, <1>2, <1>3, PTL DEF Spec
================================================================================
