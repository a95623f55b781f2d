------------------------------- MODULE DriftProofs -------------------------------
(***************************************************************************)
(* What the drift report's severities say of the rows it was made of, for  *)
(* every baseline, number of quantiles and limit, and for every table of   *)
(* logarithms that rounds them to thousandths.                             *)
(***************************************************************************)
EXTENDS Computations, Sums, SequenceTheorems

\* A quotient, rounded down, is as large as every whole number that the fraction is.
LEMMA DivAtLeast ==
  ASSUME NEW x \in Int, NEW k \in Nat \ {0}, NEW c \in Int, c * k <= x
  PROVE  x \div k \in Int /\ c <= x \div k
  BY SMT

LEMMA DivBelow ==
  ASSUME NEW x \in Nat, NEW k \in Nat \ {0}, NEW c \in Nat, x <= c * k
  PROVE  x \div k \in 0..c
  BY SMT

LEMMA Remainder ==
  ASSUME NEW x \in Int, NEW k \in Nat \ {0}
  PROVE  x % k \in Nat
  BY SMT

LEMMA ZeroDivided ==
  ASSUME NEW k \in Nat \ {0}
  PROVE  0 \div k = 0 /\ 0 % k = 0
  BY SMT

-----------------------------------------------------------------------------
(* The bins of a baseline.                                                 *)

\* A baseline: values in ascending order.
Ascending(b) ==
  /\ b \in Seq(Nat) \ {<<>>}
  /\ \A i \in 1..(Len(b) - 1) : b[i] <= b[i + 1]

LEMMA FirstIsLeast ==
  ASSUME NEW b, Ascending(b), NEW i \in 1..Len(b)
  PROVE  b[1] <= b[i] /\ b[i] \in Nat /\ 1 \in 1..Len(b)
<1>. DEFINE N == {n \in Nat : n + 1 <= Len(b) => b[1] <= b[n + 1]}
<1>1. b \in Seq(Nat) /\ Len(b) \in Nat /\ 1 \in 1..Len(b) /\ \A j \in 1..Len(b) : b[j] \in Nat
  BY DEF Ascending
<1>2. 0 \in N
  BY <1>1
<1>3. ASSUME NEW n \in N
      PROVE  n + 1 \in N
  <2>1. SUFFICES ASSUME n + 2 <= Len(b) PROVE b[1] <= b[n + 2]
    BY <1>3
  <2>2. n + 1 \in 1..(Len(b) - 1) /\ (n + 1) + 1 = n + 2
    BY <1>1, <2>1
  <2>3. b[n + 1] <= b[n + 2]
    BY <2>2 DEF Ascending
  <2>4. b[1] <= b[n + 1]
    BY <1>1, <2>1
  <2>5. b[1] \in Nat /\ b[n + 1] \in Nat /\ b[n + 2] \in Nat
    BY <1>1, <2>1, <2>2
  <2>. QED BY <2>3, <2>4, <2>5
<1>4. N = Nat
  <2>. HIDE DEF N
  <2>1. N \in SUBSET Nat
    BY DEF N
  <2>. QED BY <1>2, <1>3, <2>1, NatSet
<1>5. i - 1 \in N /\ (i - 1) + 1 = i
  <2>1. i - 1 \in Nat /\ (i - 1) + 1 = i
    BY <1>1
  <2>. QED BY <1>4, <2>1
<1>. QED BY <1>1, <1>5

LEMMA QuantileAboveFirst ==
  ASSUME NEW b, Ascending(b), NEW j \in 0..Quantiles
  PROVE  Quantile(b, j) \in Nat /\ Quantiles * b[1] <= Quantile(b, j)
<1>. DEFINE position == j * (Len(b) - 1)
            i == position \div Quantiles + 1
<1>1. Quantiles \in Nat \ {0} /\ Len(b) \in Nat \ {0} /\ j \in Nat /\ b \in Seq(Nat)
  BY DriftAssumption DEF Ascending
<1>2. position \in Nat /\ position <= (Len(b) - 1) * Quantiles
  <2>1. PICK m \in Nat : Len(b) - 1 = m
    BY <1>1
  <2>2. PICK e \in Nat : Quantiles = j + e
    <3>1. Quantiles - j \in Nat /\ Quantiles = j + (Quantiles - j)
      BY <1>1
    <3>. QED BY <3>1
  <2>3. m * Quantiles = j * m + m * e /\ m * e \in Nat /\ j * m \in Nat
    BY <1>1, <2>2
  <2>. QED BY <2>1, <2>3
<1>3. i \in 1..Len(b)
  <2>1. Len(b) - 1 \in Nat
    BY <1>1
  <2>. HIDE DEF position
  <2>2. position \div Quantiles \in 0..(Len(b) - 1)
    BY <1>1, <1>2, <2>1, DivBelow
  <2>. QED BY <1>1, <2>2
<1>4. position % Quantiles \in Nat
  <2>. HIDE DEF position
  <2>. QED BY <1>1, <1>2, Remainder
<1>5. Quantile(b, j) = IF i = Len(b) THEN Quantiles * b[i]
                       ELSE Quantiles * b[i] + (position % Quantiles) * (b[i + 1] - b[i])
  BY DEF Quantile
<1>. HIDE DEF i, position
<1>6. b[1] <= b[i] /\ b[i] \in Nat /\ b[1] \in Nat
  BY <1>3, FirstIsLeast
<1>7. Quantiles * b[i] \in Nat /\ Quantiles * b[1] \in Nat /\ Quantiles * b[1] <= Quantiles * b[i]
  <2>1. PICK e \in Nat : b[i] = b[1] + e
    <3>1. b[i] - b[1] \in Nat /\ b[i] = b[1] + (b[i] - b[1])
      BY <1>6
    <3>. QED BY <3>1
  <2>2. Quantiles * b[i] = Quantiles * b[1] + Quantiles * e
    BY <1>1, <1>6, <2>1
  <2>3. Quantiles * b[1] \in Nat /\ Quantiles * e \in Nat
    BY <1>1, <1>6
  <2>. QED BY <2>2, <2>3
<1>8. CASE i = Len(b)
  BY <1>5, <1>7, <1>8
<1>9. CASE i # Len(b)
  <2>1. i \in 1..(Len(b) - 1) /\ i + 1 \in 1..Len(b)
    BY <1>1, <1>3, <1>9
  <2>2. b[i] <= b[i + 1] /\ b[i + 1] \in Nat
    BY <1>1, <2>1 DEF Ascending
  <2>3. b[i + 1] - b[i] \in Nat
    BY <1>6, <2>2
  <2>4. (position % Quantiles) * (b[i + 1] - b[i]) \in Nat
    BY <1>4, <2>3
  <2>. QED BY <1>5, <1>7, <1>9, <2>4
<1>. QED BY <1>8, <1>9

LEMMA FirstQuantile ==
  ASSUME NEW b, Ascending(b)
  PROVE  Quantile(b, 0) = Quantiles * b[1] /\ 0 \in 0..Quantiles
<1>1. Quantiles \in Nat \ {0} /\ Len(b) \in Nat \ {0} /\ b \in Seq(Nat) /\ b[1] \in Nat
  BY DriftAssumption DEF Ascending
<1>2. 0 * (Len(b) - 1) = 0 /\ 0 \div Quantiles = 0 /\ 0 % Quantiles = 0 /\ 0 + 1 = 1
  <2>1. 0 * (Len(b) - 1) = 0
    BY <1>1
  <2>. QED BY <1>1, <2>1, ZeroDivided
<1>3. Quantile(b, 0) = IF 1 = Len(b) THEN Quantiles * b[1]
                       ELSE Quantiles * b[1] + 0 * (b[1 + 1] - b[1])
  BY <1>2, Zenon DEF Quantile
<1>4. CASE 1 = Len(b)
  BY <1>1, <1>3, <1>4
<1>5. CASE 1 # Len(b)
  <2>1. 1 + 1 \in 1..Len(b)
    <3>1. Len(b) \in Nat /\ Len(b) # 0 /\ Len(b) # 1
      BY <1>1, <1>5
    <3>. QED BY <3>1
  <2>2. b[1 + 1] \in Nat
    BY <1>1, <2>1
  <2>3. 0 * (b[1 + 1] - b[1]) = 0 /\ Quantiles * b[1] + 0 = Quantiles * b[1]
    BY <1>1, <2>2
  <2>. QED BY <1>1, <1>3, <1>5, <2>3
<1>. QED BY <1>1, <1>4, <1>5

LEMMA GreatestExists ==
  ASSUME NEW S, IsFiniteSet(S), S \subseteq Int, S # {}
  PROVE  \E m \in S : \A x \in S : x <= m
<1>. DEFINE F == {U \in SUBSET S : U # {} => \E m \in U : \A x \in U : x <= m}
<1>1. {} \in F
  OBVIOUS
<1>2. ASSUME NEW U \in SUBSET S, NEW y \in S \ U, U \in F
      PROVE  U \cup {y} \in F
  <2>1. CASE U = {}
    <3>1. \A x \in U \cup {y} : x = y
      BY <2>1
    <3>2. y \in Int /\ y <= y
      OBVIOUS
    <3>. QED BY <3>1, <3>2
  <2>2. CASE U # {}
    <3>1. PICK m \in U : \A x \in U : x <= m
      BY <1>2, <2>2
    <3>2. CASE y <= m
      <4>1. \A x \in U \cup {y} : x <= m
        BY <3>1, <3>2
      <4>. QED BY <4>1
    <3>3. CASE ~(y <= m)
      <4>1. \A x \in U \cup {y} : x <= y
        BY <3>1, <3>3
      <4>. QED BY <4>1
    <3>. QED BY <3>2, <3>3
  <2>. QED BY <2>1, <2>2
<1>3. S \in F
  <2>. HIDE DEF F
  <2>. QED BY <1>1, <1>2, SubsetInduction
<1>. QED BY <1>3

\* The edges of the bins; where there is a bin, the first starts at the least value.
LEMMA Edges ==
  ASSUME NEW b, Ascending(b)
  PROVE  /\ IsFiniteSet(Breakpoints(b)) /\ Breakpoints(b) \subseteq Nat
         /\ Top(b) \in Nat /\ \A p \in Breakpoints(b) : p <= Top(b)
         /\ IsFiniteSet(BinEdges(b)) /\ BinEdges(b) \subseteq Nat
         /\ BinEdges(b) # {} => Quantiles * b[1] \in BinEdges(b)
         /\ \A p \in BinEdges(b) : Quantiles * b[1] <= p
<1>. DEFINE h == [j \in 0..Quantiles |-> Quantile(b, j)]
            S == Breakpoints(b)
<1>1. Quantiles \in Nat \ {0}
  BY DriftAssumption
<1>2. h \in Surjection(0..Quantiles, S)
  BY DEF Surjection, Breakpoints
<1>3. IsFiniteSet(S)
  <2>1. IsFiniteSet(0..Quantiles)
    BY <1>1, FS_Interval
  <2>. HIDE DEF h, S
  <2>. QED BY <1>2, <2>1, FS_Surjection
<1>4. \A p \in S : p \in Nat /\ Quantiles * b[1] <= p
  BY QuantileAboveFirst DEF Breakpoints
<1>5. Quantiles * b[1] \in S
  BY FirstQuantile DEF Breakpoints
<1>. HIDE DEF S
<1>6. \E m \in S : \A x \in S : x <= m
  <2>1. S \subseteq Int /\ S # {}
    BY <1>4, <1>5
  <2>. QED BY <1>3, <2>1, GreatestExists
<1>7. Top(b) \in S /\ \A p \in S : p <= Top(b)
  BY <1>6 DEF Top, S
<1>8. BinEdges(b) = S \ {Top(b)}
  BY DEF BinEdges, S
<1>9. IsFiniteSet(BinEdges(b))
  BY <1>3, <1>8, FS_Subset
<1>10. ASSUME BinEdges(b) # {}
       PROVE  Quantiles * b[1] \in BinEdges(b)
  <2>1. PICK p \in S : p # Top(b)
    BY <1>8, <1>10
  <2>2. Quantiles * b[1] # Top(b)
    BY <1>4, <1>5, <1>7, <2>1
  <2>. QED BY <1>5, <1>8, <2>2
<1>. QED BY <1>3, <1>4, <1>7, <1>8, <1>9, <1>10 DEF S

\* A value falls into one bin at most.
LEMMA OneBinOnly ==
  ASSUME NEW b, Ascending(b), NEW v \in Nat, NEW p \in BinEdges(b), NEW q \in BinEdges(b),
         FallsIn(v, p, b), FallsIn(v, q, b)
  PROVE  p = q
<1>1. p \in Nat /\ q \in Nat /\ Quantiles * v \in Nat
  BY Edges, DriftAssumption
<1>2. /\ p > q => Quantiles * v < p /\ Quantiles * v >= p
      /\ q > p => Quantiles * v < q /\ Quantiles * v >= q
  BY DEF FallsIn
<1>. QED BY <1>1, <1>2

\* The counts of values, per bin.
Counts(vs, b) == [q \in BinEdges(b) |-> Count(vs, q, b)]
Falling(vs, U, b) == {i \in DOMAIN vs : \E q \in U : FallsIn(vs[i], q, b)}

LEMMA CountsType ==
  ASSUME NEW b, Ascending(b), NEW vs \in Seq(Nat)
  PROVE  /\ \A q \in BinEdges(b) : Counts(vs, b)[q] \in Nat /\ Counts(vs, b)[q] = Count(vs, q, b)
         /\ InRange(vs, b) = SumFunctionOnSet(Counts(vs, b), BinEdges(b))
         /\ InRange(vs, b) \in 0..Len(vs)
         /\ \A q \in BinEdges(b) : Count(vs, q, b) \in 0..InRange(vs, b)
<1>. DEFINE E == BinEdges(b)
            f == Counts(vs, b)
<1>1. Len(vs) \in Nat /\ DOMAIN vs = 1..Len(vs) /\ \A i \in DOMAIN vs : vs[i] \in Nat
  OBVIOUS
<1>2. IsFiniteSet(DOMAIN vs) /\ Cardinality(DOMAIN vs) = Len(vs)
  <2>1. IsFiniteSet(1..Len(vs)) /\ Cardinality(1..Len(vs)) = IF 1 > Len(vs) THEN 0 ELSE Len(vs) - 1 + 1
    BY <1>1, FS_Interval
  <2>. QED BY <1>1, <2>1
<1>3. IsFiniteSet(E)
  BY Edges
<1>4. \A U : IsFiniteSet(Falling(vs, U, b)) /\ Cardinality(Falling(vs, U, b)) \in 0..Len(vs)
  <2>1. SUFFICES ASSUME NEW U
                 PROVE  IsFiniteSet(Falling(vs, U, b)) /\ Cardinality(Falling(vs, U, b)) \in 0..Len(vs)
    OBVIOUS
  <2>2. Falling(vs, U, b) \in SUBSET DOMAIN vs
    BY DEF Falling
  <2>3. /\ IsFiniteSet(Falling(vs, U, b))
        /\ Cardinality(Falling(vs, U, b)) <= Len(vs)
        /\ Cardinality(Falling(vs, U, b)) \in Nat
    BY <1>2, <2>2, FS_Subset, FS_CardinalityType
  <2>. QED BY <1>1, <2>3
<1>5. \A q \in E : f[q] = Count(vs, q, b) /\ f[q] = Cardinality(Falling(vs, {q}, b))
  <2>1. SUFFICES ASSUME NEW q \in E
                 PROVE  f[q] = Count(vs, q, b) /\ f[q] = Cardinality(Falling(vs, {q}, b))
    OBVIOUS
  <2>2. f[q] = Count(vs, q, b)
    BY DEF Counts
  <2>3. Falling(vs, {q}, b) = {i \in DOMAIN vs : FallsIn(vs[i], q, b)}
    BY DEF Falling
  <2>. QED BY <2>2, <2>3 DEF Count
<1>6. \A q \in E : f[q] \in Nat
  <2>1. \A U : Cardinality(Falling(vs, U, b)) \in Nat
    BY <1>1, <1>4
  <2>. HIDE DEF E, f
  <2>. QED BY <1>5, <2>1
<1>7. InRange(vs, b) = SumFunctionOnSet(f, E)
  <2>1. DOMAIN f = E
    BY DEF Counts
  <2>2. InRange(vs, b) = SumFunctionOnSet(f, DOMAIN f)
    BY DEF InRange, SumFunction, Counts
  <2>. QED BY <2>1, <2>2
<1>. HIDE DEF E, f
<1>8. SumFunctionOnSet(f, E) \in Nat /\ \A q \in E : f[q] <= SumFunctionOnSet(f, E)
  BY <1>3, <1>6, SumNat
<1>. DEFINE Holds(U) == SumFunctionOnSet(f, U) = Cardinality(Falling(vs, U, b))
            F == {U \in SUBSET E : Holds(U)}
<1>9. {} \in F
  <2>1. Falling(vs, {}, b) = {}
    BY DEF Falling
  <2>2. Cardinality(Falling(vs, {}, b)) = 0
    BY <2>1, FS_EmptySet
  <2>. QED BY <2>2, SumEmpty
<1>10. ASSUME NEW U \in SUBSET E, NEW y \in E \ U, U \in F
       PROVE  U \cup {y} \in F
  <2>1. SumFunctionOnSet(f, U \cup {y}) = f[y] + SumFunctionOnSet(f, U)
    <3>1. \A x \in E : f[x] \in Int
      BY <1>6
    <3>. QED BY <1>3, <3>1, SumAdd
  <2>2. Falling(vs, U \cup {y}, b) = Falling(vs, U, b) \cup Falling(vs, {y}, b)
    BY DEF Falling
  <2>3. Falling(vs, U, b) \cap Falling(vs, {y}, b) = {}
    <3>1. SUFFICES ASSUME NEW i \in DOMAIN vs, NEW q \in U, FallsIn(vs[i], q, b), FallsIn(vs[i], y, b)
                   PROVE  FALSE
      BY DEF Falling
    <3>2. q = y
      BY <1>1, <3>1, OneBinOnly DEF E
    <3>. QED BY <3>2
  <2>4. Cardinality(Falling(vs, U \cup {y}, b))
          = Cardinality(Falling(vs, U, b)) + Cardinality(Falling(vs, {y}, b)) - Cardinality({})
    BY <1>4, <2>2, <2>3, FS_Union
  <2>5. /\ Cardinality({}) = 0 /\ Cardinality(Falling(vs, U, b)) \in Nat
        /\ Cardinality(Falling(vs, {y}, b)) \in Nat /\ f[y] = Cardinality(Falling(vs, {y}, b))
    BY <1>1, <1>4, <1>5, FS_EmptySet
  <2>6. Holds(U)
    BY <1>10
  <2>7. Holds(U \cup {y})
    BY <2>1, <2>4, <2>5, <2>6
  <2>. QED BY <2>7
<1>11. E \in F
  <2>. HIDE DEF F
  <2>. QED BY <1>3, <1>9, <1>10, SubsetInduction
<1>12. InRange(vs, b) \in 0..Len(vs)
  BY <1>4, <1>7, <1>11
<1>13. \A q \in E : f[q] \in Nat /\ f[q] = Count(vs, q, b) /\ Count(vs, q, b) \in 0..InRange(vs, b)
  <2>1. SUFFICES ASSUME NEW q \in E
                 PROVE  /\ f[q] \in Nat /\ f[q] = Count(vs, q, b)
                        /\ Count(vs, q, b) \in 0..InRange(vs, b)
    OBVIOUS
  <2>2. f[q] \in Nat /\ f[q] = Count(vs, q, b)
    BY <1>5, <1>6
  <2>3. InRange(vs, b) \in Nat /\ f[q] <= InRange(vs, b)
    BY <1>7, <1>8
  <2>. QED BY <2>2, <2>3
<1>. QED BY <1>7, <1>12, <1>13 DEF E, f

\* Of its own values a baseline has some in range, where it has a bin.
LEMMA BaselineInRange ==
  ASSUME NEW b, Ascending(b), BinEdges(b) # {}
  PROVE  InRange(b, b) \in 1..Len(b)
<1>. DEFINE q == Quantiles * b[1]
            S == {i \in DOMAIN b : FallsIn(b[i], q, b)}
<1>1. b \in Seq(Nat) /\ 1 \in DOMAIN b /\ DOMAIN b = 1..Len(b) /\ b[1] \in Nat
  BY DEF Ascending
<1>2. q \in BinEdges(b) /\ BinEdges(b) \subseteq Breakpoints(b) /\ q <= Top(b) /\ q \in Nat
  BY Edges DEF BinEdges
<1>3. FallsIn(b[1], q, b)
  <2>1. \A p \in BinEdges(b) : p > q => Quantiles * b[1] < p
    BY Edges
  <2>. QED BY <1>2, <2>1 DEF FallsIn
<1>4. IsFiniteSet(S) /\ S # {}
  <2>1. IsFiniteSet(1..Len(b))
    BY <1>1, FS_Interval
  <2>2. S \in SUBSET (1..Len(b))
    BY <1>1
  <2>3. 1 \in S
    BY <1>1, <1>3
  <2>. QED BY <2>1, <2>2, <2>3, FS_Subset
<1>5. Cardinality(S) \in Nat /\ Cardinality(S) # 0
  <2>. HIDE DEF S
  <2>. QED BY <1>4, FS_CardinalityType, FS_EmptySet
<1>6. Count(b, q, b) = Cardinality(S)
  BY DEF Count
<1>. HIDE DEF q, S
<1>7. Count(b, q, b) \in 0..InRange(b, b) /\ InRange(b, b) \in 0..Len(b)
  BY <1>1, <1>2, CountsType
<1>. QED BY <1>5, <1>6, <1>7

-----------------------------------------------------------------------------
(* One term of the index: (p - r) * log(p / r), with p and r the shares of *)
(* a bin, is about 2 (p - r)^2 / (p + r) or more.                          *)

\* The tables' assumption, with its inequality as one formula.
LogsClose(a, b, c, d, p, r) == (Ln[a] - Ln[b] - Ln[c] + Ln[d] + 4) * (p + r) >= 2000 * (p - r)

LEMMA LogGap ==
  \A a, b, c, d \in DOMAIN Ln : a * d >= b * c => LogsClose(a, b, c, d, a * d, b * c)
  BY LnAssumption, Zenon DEF LogsClose

LEMMA LnType ==
  ASSUME NEW n \in 1..Len(Ln)
  PROVE  n \in DOMAIN Ln /\ n \in Nat /\ Ln[n] \in Nat /\ Ln[n] + 2000 <= LnMillion /\ LnMillion \in Nat
<1>1. Ln \in Seq(Nat) /\ LnMillion \in Nat /\ \A i \in DOMAIN Ln : Ln[i] + 2000 <= LnMillion
  BY LnAssumption
<1>2. n \in DOMAIN Ln /\ Ln[n] \in Nat /\ n \in Nat
  BY <1>1
<1>. QED BY <1>1, <1>2

LEMMA Scaled ==
  ASSUME NEW x \in Nat, NEW p \in Int, NEW q \in Int, p >= q
  PROVE  x * p >= x * q
  BY SMT

\* L is a logarithm of p / r: it has the sign of p - r, and is as large as it must be.
LogOfRatio(L, p, r) ==
  /\ p \in Nat /\ r \in Nat /\ L \in Int
  /\ p >= r => (L + 4) * (p + r) >= 2000 * (p - r)
  /\ r >= p => (4 - L) * (p + r) >= 2000 * (r - p)

LEMMA LogRatio ==
  ASSUME NEW ot \in 1..Len(Ln), NEW et \in 1..Len(Ln), NEW o \in 0..ot, NEW e \in 0..et
  PROVE  LogOfRatio(LogShare(o, ot) - LogShare(e, et), o * et, e * ot)
<1>. DEFINE p == o * et
            r == e * ot
            L == LogShare(o, ot) - LogShare(e, et)
<1>. SUFFICES LogOfRatio(L, p, r)
  OBVIOUS
<1>1. /\ ot \in Nat \ {0} /\ et \in Nat \ {0} /\ o \in Nat /\ e \in Nat
      /\ ot \in DOMAIN Ln /\ et \in DOMAIN Ln
      /\ o # 0 => o \in 1..Len(Ln)
      /\ e # 0 => e \in 1..Len(Ln)
  <2>1. Len(Ln) \in Nat
    BY LnAssumption
  <2>. QED BY <2>1, LnType
<1>2. /\ Ln[ot] \in Nat /\ Ln[et] \in Nat /\ LnMillion \in Nat
      /\ Ln[ot] + 2000 <= LnMillion /\ Ln[et] + 2000 <= LnMillion
      /\ o # 0 => o \in DOMAIN Ln /\ Ln[o] \in Nat
      /\ e # 0 => e \in DOMAIN Ln /\ Ln[e] \in Nat
  BY <1>1, LnType
<1>3. p \in Nat /\ r \in Nat /\ (o = 0 => p = 0) /\ (e = 0 => r = 0)
  BY <1>1
<1>4. et * o = p /\ ot * e = r
  BY <1>1
<1>5. LogShare(o, ot) = (IF o = 0 THEN -LnMillion ELSE Ln[o] - Ln[ot])
      /\ LogShare(e, et) = (IF e = 0 THEN -LnMillion ELSE Ln[e] - Ln[et])
  BY DEF LogShare
<1>6. LogShare(o, ot) \in Int /\ LogShare(e, et) \in Int
  <2>. HIDE DEF p, r, L
  <2>1. LogShare(o, ot) \in Int
    BY <1>2, <1>5
  <2>2. LogShare(e, et) \in Int
    BY <1>2, <1>5
  <2>. QED BY <2>1, <2>2
<1>7. L \in Int
  <2>. HIDE DEF p, r
  <2>. QED BY <1>6
<1>8. CASE o # 0 /\ e # 0
  <2>0. o \in DOMAIN Ln /\ ot \in DOMAIN Ln /\ e \in DOMAIN Ln /\ et \in DOMAIN Ln
    BY <1>1, <1>2, <1>8
  <2>1. p >= r => LogsClose(o, ot, e, et, p, r)
    <3>1. o * et >= ot * e => LogsClose(o, ot, e, et, o * et, ot * e)
      BY <2>0, LogGap, Zenon
    <3>2. o * et = p /\ ot * e = r
      BY <1>4
    <3>. HIDE DEF p, r, L
    <3>. QED BY <3>1, <3>2, Zenon
  <2>2. r >= p => LogsClose(e, et, o, ot, r, p)
    <3>1. e * ot >= et * o => LogsClose(e, et, o, ot, e * ot, et * o)
      BY <2>0, LogGap, Zenon
    <3>2. e * ot = r /\ et * o = p
      BY <1>4
    <3>. HIDE DEF p, r, L
    <3>. QED BY <3>1, <3>2, Zenon
  <2>3. /\ L = (Ln[o] - Ln[ot]) - (Ln[e] - Ln[et])
        /\ Ln[o] \in Int /\ Ln[ot] \in Int /\ Ln[e] \in Int /\ Ln[et] \in Int
    BY <1>2, <1>5, <1>8
  <2>. HIDE DEF p, r, L
  <2>4. /\ Ln[o] - Ln[ot] - Ln[e] + Ln[et] + 4 = L + 4
        /\ Ln[e] - Ln[et] - Ln[o] + Ln[ot] + 4 = 4 - L
        /\ r + p = p + r
    BY <1>3, <2>3
  <2>5. /\ p >= r => (L + 4) * (p + r) >= 2000 * (p - r)
        /\ r >= p => (4 - L) * (p + r) >= 2000 * (r - p)
    BY <2>1, <2>2, <2>4 DEF LogsClose
  <2>. QED BY <1>3, <1>7, <2>5 DEF LogOfRatio
<1>9. CASE o # 0 /\ e = 0
  <2>1. L >= 2000
    <3>1. L = (Ln[o] - Ln[ot]) - (-LnMillion)
      BY <1>5, <1>9
    <3>. HIDE DEF L
    <3>. QED BY <1>2, <1>9, <3>1
  <2>2. r = 0
    BY <1>3, <1>9
  <2>. HIDE DEF p, r, L
  <2>3. p * (L + 4) >= p * 2000
    BY <1>3, <1>7, <2>1, Scaled
  <2>4. p * (L + 4) = (L + 4) * (p + r) /\ p * 2000 = 2000 * (p - r)
    BY <1>3, <1>7, <2>2
  <2>5. r >= p => (4 - L) * (p + r) >= 2000 * (r - p)
    <3>1. r >= p => p = 0
      BY <1>3, <2>2
    <3>. QED BY <1>7, <2>2, <3>1
  <2>. QED BY <1>3, <1>7, <2>3, <2>4, <2>5 DEF LogOfRatio
<1>10. CASE o = 0 /\ e # 0
  <2>1. -L >= 2000
    <3>1. L = (-LnMillion) - (Ln[e] - Ln[et])
      BY <1>5, <1>10
    <3>. HIDE DEF L
    <3>. QED BY <1>2, <1>10, <3>1
  <2>2. p = 0
    BY <1>3, <1>10
  <2>. HIDE DEF p, r, L
  <2>3. r * (4 - L) >= r * 2000
    BY <1>3, <1>7, <2>1, Scaled
  <2>4. r * (4 - L) = (4 - L) * (p + r) /\ r * 2000 = 2000 * (r - p)
    BY <1>3, <1>7, <2>2
  <2>5. p >= r => (L + 4) * (p + r) >= 2000 * (p - r)
    <3>1. p >= r => r = 0
      BY <1>3, <2>2
    <3>. QED BY <1>7, <2>2, <3>1
  <2>. QED BY <1>3, <1>7, <2>3, <2>4, <2>5 DEF LogOfRatio
<1>11. CASE o = 0 /\ e = 0
  <2>1. p = 0 /\ r = 0
    BY <1>3, <1>11
  <2>. HIDE DEF p, r, L
  <2>2. (L + 4) * (p + r) = 0 /\ (4 - L) * (p + r) = 0
    BY <1>7, <2>1
  <2>. QED BY <1>3, <1>7, <2>1, <2>2 DEF LogOfRatio
<1>. QED BY <1>8, <1>9, <1>10, <1>11

\* A term of the index, against the difference and the sum of the shares.
Bounded(t, x, m) ==
  /\ t \in Int /\ m \in Nat /\ x \in Nat /\ x <= m
  /\ x = 0 => t = 0
  /\ t * m + 4 * (x * m) >= 2000 * (x * x)

LEMMA TermBound ==
  ASSUME NEW p, NEW r, NEW L, LogOfRatio(L, p, r)
  PROVE  Bounded((p - r) * L, Abs(p - r), p + r)
<1>. DEFINE d == p - r
            m == p + r
            x == Abs(p - r)
<1>0. /\ p \in Nat /\ r \in Nat /\ L \in Int
      /\ p >= r => (L + 4) * (p + r) >= 2000 * (p - r)
      /\ r >= p => (4 - L) * (p + r) >= 2000 * (r - p)
  BY DEF LogOfRatio
<1>1. m \in Nat /\ x \in Nat /\ x <= m /\ d \in Int /\ (x = 0 => d = 0)
  BY <1>0 DEF Abs
<1>2. PICK l \in Int : l * m >= 2000 * x /\ d * L = x * (l - 4)
  <2>1. CASE p >= r
    <3>1. x = p - r /\ x = d
      BY <1>0, <2>1 DEF Abs
    <3>2. (L + 4) * m >= 2000 * x
      BY <1>0, <2>1, <3>1
    <3>. HIDE DEF d, m, x
    <3>3. L + 4 \in Int /\ d * L = x * ((L + 4) - 4)
      BY <1>0, <1>1, <3>1
    <3>. QED BY <3>2, <3>3
  <2>2. CASE ~(p >= r)
    <3>1. x = r - p /\ d = -x
      BY <1>0, <2>2 DEF Abs
    <3>2. (4 - L) * m >= 2000 * x
      BY <1>0, <2>2, <3>1
    <3>. HIDE DEF d, m, x
    <3>3. 4 - L \in Int /\ d * L = x * ((4 - L) - 4)
      BY <1>0, <1>1, <3>1
    <3>. QED BY <3>2, <3>3
  <2>. QED BY <1>0, <2>1, <2>2
<1>. HIDE DEF d, m, x
<1>3. l * m \in Int /\ 2000 * x \in Int
  BY <1>1
<1>4. x * (l * m) >= x * (2000 * x)
  BY <1>1, <1>2, <1>3, Scaled
<1>5. (x * (l - 4)) * m = x * (l * m) - 4 * (x * m)
  BY <1>1
<1>6. x * (2000 * x) = 2000 * (x * x) /\ x * x \in Int /\ x * m \in Int /\ x * (l * m) \in Int
  BY <1>1, <1>3
<1>7. (d * L) * m + 4 * (x * m) >= 2000 * (x * x)
  BY <1>2, <1>4, <1>5, <1>6
<1>8. d * L \in Int /\ (x = 0 => d * L = 0)
  BY <1>0, <1>1
<1>. QED BY <1>1, <1>7, <1>8 DEF Bounded, d, m, x

\* From (k * x - n * m)^2 >= 0.
LEMMA Weighted ==
  ASSUME NEW t, NEW m, NEW x, Bounded(t, x, m), NEW n \in Nat, NEW k \in Nat
  PROVE  (k * k) * t >= (4000 * (n * k) - 4 * (k * k)) * x - (2000 * (n * n)) * m
<1>. DEFINE K == k * k
            A == n * k
            N == n * n
            w == k * x - n * m
            R == K * t - 4000 * (A * x) + 4 * (K * x) + 2000 * (N * m)
            u == t * m + 4 * (x * m)
<1>0. /\ t \in Int /\ m \in Nat /\ x \in Nat /\ x <= m
      /\ m = 0 => x = 0 /\ t = 0
      /\ t * m + 4 * (x * m) >= 2000 * (x * x)
  BY DEF Bounded
<1>1. K \in Nat /\ A \in Nat /\ N \in Nat /\ w \in Int /\ w * w >= 0 /\ w * w \in Int
  <2>1. w \in Int /\ K \in Nat /\ A \in Nat /\ N \in Nat
    BY <1>0
  <2>2. \A i \in Int : i * i >= 0 /\ i * i \in Int
    BY SMT
  <2>. QED BY <2>1, <2>2
<1>2. w * w = K * (x * x) - 2 * (A * (x * m)) + N * (m * m)
  BY <1>0
<1>3. K * u >= K * (2000 * (x * x))
  <2>1. u \in Int /\ 2000 * (x * x) \in Int /\ u >= 2000 * (x * x)
    BY <1>0
  <2>. HIDE DEF u, K
  <2>. QED BY <1>0, <1>1, <2>1, Scaled
<1>. HIDE DEF K, A, N, w
<1>4. R * m = K * u - 4000 * (A * (x * m)) + 2000 * (N * (m * m))
  BY <1>0, <1>1
<1>5. K * (2000 * (x * x)) = 2000 * (K * (x * x))
  BY <1>0, <1>1
<1>6. /\ R \in Int /\ K * u \in Int /\ A * (x * m) \in Int /\ N * (m * m) \in Int
      /\ K * (x * x) \in Int
  BY <1>0, <1>1
<1>7. R * m >= 0
  <2>. HIDE DEF R, u
  <2>. QED BY <1>1, <1>2, <1>3, <1>4, <1>5, <1>6
<1>8. R >= 0
  <2>1. CASE m = 0
    <3>1. x = 0 /\ t = 0
      BY <1>0, <2>1
    <3>2. R = 0
      BY <1>0, <1>1, <2>1, <3>1
    <3>. QED BY <3>2
  <2>2. CASE m # 0
    <3>. HIDE DEF R, u
    <3>1. SUFFICES ASSUME R <= -1 PROVE FALSE
      BY <1>0, <1>6
    <3>2. m * (-R) >= m * 1
      BY <1>0, <1>6, <3>1, Scaled
    <3>3. m * (-R) = -(R * m) /\ R * m \in Int
      BY <1>0, <1>6
    <3>. QED BY <1>0, <1>7, <2>2, <3>2, <3>3
  <2>. QED BY <2>1, <2>2
<1>9. (4000 * A - 4 * K) * x = 4000 * (A * x) - 4 * (K * x)
  BY <1>0, <1>1
<1>10. (2000 * N) * m = 2000 * (N * m)
  BY <1>0, <1>1
<1>11. A * x \in Int /\ K * x \in Int /\ N * m \in Int /\ K * t \in Int
  BY <1>0, <1>1
<1>12. K * t >= (4000 * A - 4 * K) * x - (2000 * N) * m
  BY <1>8, <1>9, <1>10, <1>11
<1>. QED BY <1>12 DEF K, A, N

\* A linear bound on each term is one on the sum.
LinearBound(S, t, x, m, K, A, N) ==
  \A s \in S : /\ t[s] \in Int /\ x[s] \in Int /\ m[s] \in Int
               /\ K * t[s] >= A * x[s] - N * m[s]

LEMMA SumBound ==
  ASSUME NEW S, IsFiniteSet(S), NEW t, NEW x, NEW m,
         NEW K \in Int, NEW A \in Int, NEW N \in Int, LinearBound(S, t, x, m, K, A, N)
  PROVE  K * SumFunctionOnSet(t, S) >= A * SumFunctionOnSet(x, S) - N * SumFunctionOnSet(m, S)
<1>. DEFINE Holds(U) == K * SumFunctionOnSet(t, U)
                          >= A * SumFunctionOnSet(x, U) - N * SumFunctionOnSet(m, U)
            F == {U \in SUBSET S : Holds(U)}
<1>1. \A s \in S : t[s] \in Int /\ x[s] \in Int /\ m[s] \in Int
  BY DEF LinearBound
<1>2. {} \in F
  <2>1. SumFunctionOnSet(t, {}) = 0 /\ SumFunctionOnSet(x, {}) = 0 /\ SumFunctionOnSet(m, {}) = 0
    BY SumEmpty
  <2>2. Holds({})
    BY <2>1
  <2>. QED BY <2>2
<1>3. ASSUME NEW U \in SUBSET S, NEW y \in S \ U, U \in F
      PROVE  U \cup {y} \in F
  <2>. DEFINE a == SumFunctionOnSet(t, U)
              c == SumFunctionOnSet(x, U)
              d == SumFunctionOnSet(m, U)
  <2>1. /\ SumFunctionOnSet(t, U \cup {y}) = t[y] + a
        /\ SumFunctionOnSet(x, U \cup {y}) = x[y] + c
        /\ SumFunctionOnSet(m, U \cup {y}) = m[y] + d
    BY <1>1, SumAdd
  <2>2. a \in Int /\ c \in Int /\ d \in Int
    BY <1>1, FS_Subset, SumInt
  <2>3. K * a >= A * c - N * d
    BY <1>3
  <2>4. /\ t[y] \in Int /\ x[y] \in Int /\ m[y] \in Int
        /\ K * t[y] >= A * x[y] - N * m[y]
    BY DEF LinearBound
  <2>. HIDE DEF a, c, d
  <2>5. /\ K * (t[y] + a) = K * t[y] + K * a
        /\ A * (x[y] + c) = A * x[y] + A * c
        /\ N * (m[y] + d) = N * m[y] + N * d
    BY <2>2, <2>4
  <2>6. /\ K * t[y] \in Int /\ K * a \in Int /\ A * x[y] \in Int /\ A * c \in Int
        /\ N * m[y] \in Int /\ N * d \in Int
    BY <2>2, <2>4
  <2>7. K * (t[y] + a) >= A * (x[y] + c) - N * (m[y] + d)
    BY <2>3, <2>4, <2>5, <2>6
  <2>8. Holds(U \cup {y})
    BY <2>1, <2>7
  <2>. QED BY <2>8
<1>4. S \in F
  <2>. HIDE DEF F
  <2>. QED BY <1>2, <1>3, SubsetInduction
<1>. QED BY <1>4

-----------------------------------------------------------------------------
(* The index of a feature.                                                 *)

\* A baseline with a bin, and the values of some recent rows.
Compared(vs, b) ==
  /\ Ascending(b) /\ BinEdges(b) # {} /\ Len(b) <= Len(Ln)
  /\ vs \in Seq(Nat) /\ vs # <<>> /\ Len(vs) <= Len(Ln)

LEMMA Totals ==
  ASSUME NEW b, NEW vs, Compared(vs, b)
  PROVE  /\ Total(vs, b) \in 1..Len(Ln) /\ Total(b, b) \in 1..Len(Ln)
         /\ InRange(vs, b) \in 0..Total(vs, b) /\ InRange(b, b) = Total(b, b)
         /\ InRange(vs, b) # 0 => InRange(vs, b) = Total(vs, b)
         /\ InRange(vs, b) = 0 => Total(vs, b) = 1
         /\ \A q \in BinEdges(b) : Count(vs, q, b) \in 0..Total(vs, b) /\ Count(b, q, b) \in 0..Total(b, b)
<1>1. /\ Ascending(b) /\ b \in Seq(Nat) /\ vs \in Seq(Nat) /\ BinEdges(b) # {}
      /\ Len(b) <= Len(Ln) /\ Len(vs) <= Len(Ln)
  BY DEF Compared, Ascending
<1>2. Len(b) \in Nat /\ Len(vs) \in Nat /\ Len(Ln) \in Nat /\ Len(vs) # 0
  BY <1>1, LnAssumption DEF Compared
<1>3. InRange(b, b) \in 1..Len(b)
  BY <1>1, BaselineInRange
<1>4. /\ InRange(vs, b) \in 0..Len(vs)
      /\ \A q \in BinEdges(b) : Count(vs, q, b) \in 0..InRange(vs, b)
      /\ \A q \in BinEdges(b) : Count(b, q, b) \in 0..InRange(b, b)
  BY <1>1, CountsType
<1>5. /\ Total(b, b) = InRange(b, b)
      /\ Total(vs, b) = IF InRange(vs, b) = 0 THEN 1 ELSE InRange(vs, b)
  BY <1>2, <1>3 DEF Total
<1>6. Total(b, b) \in 1..Len(Ln)
  BY <1>1, <1>2, <1>3, <1>5
<1>7. Total(vs, b) \in 1..Len(Ln) /\ InRange(vs, b) \in 0..Total(vs, b)
  BY <1>1, <1>2, <1>4, <1>5
<1>8. ASSUME NEW q \in BinEdges(b)
      PROVE  Count(vs, q, b) \in 0..Total(vs, b) /\ Count(b, q, b) \in 0..Total(b, b)
  <2>1. Count(vs, q, b) \in 0..InRange(vs, b) /\ Count(b, q, b) \in 0..InRange(b, b)
    BY <1>4
  <2>. QED BY <1>2, <1>4, <1>5, <1>7, <2>1
<1>. QED BY <1>5, <1>6, <1>7, <1>8

\* Per bin: the term, the distance and the sum of the two shares.
Terms(vs, b) == [q \in BinEdges(b) |-> Term(vs, q, b)]
Shifts(vs, b) == [q \in BinEdges(b) |-> Abs(Count(vs, q, b) * Total(b, b) - Count(b, q, b) * Total(vs, b))]
Masses(vs, b) == [q \in BinEdges(b) |-> Count(vs, q, b) * Total(b, b) + Count(b, q, b) * Total(vs, b)]

LEMMA BinBounded ==
  ASSUME NEW b, NEW vs, Compared(vs, b), NEW q \in BinEdges(b)
  PROVE  Bounded(Terms(vs, b)[q], Shifts(vs, b)[q], Masses(vs, b)[q])
<1>. DEFINE o == Count(vs, q, b)
            e == Count(b, q, b)
            ot == Total(vs, b)
            et == Total(b, b)
            p == o * et
            r == e * ot
            L == LogShare(o, ot) - LogShare(e, et)
<1>1. ot \in 1..Len(Ln) /\ et \in 1..Len(Ln) /\ o \in 0..ot /\ e \in 0..et
  BY Totals
<1>2. Terms(vs, b)[q] = (p - r) * L /\ Shifts(vs, b)[q] = Abs(p - r) /\ Masses(vs, b)[q] = p + r
  BY DEF Terms, Shifts, Masses, Term
<1>3. LogOfRatio(L, p, r)
  <2>. HIDE DEF o, e, ot, et
  <2>. QED BY <1>1, LogRatio
<1>. HIDE DEF p, r, L
<1>4. Bounded((p - r) * L, Abs(p - r), p + r)
  BY <1>3, TermBound
<1>. QED BY <1>2, <1>4

LEMMA Index ==
  ASSUME NEW b, NEW vs, Compared(vs, b)
  PROVE  /\ PopulationStabilityIndex(b, vs)
              = SumFunctionOnSet(Terms(vs, b), BinEdges(b)) \div (Total(vs, b) * Total(b, b))
         /\ Moved(vs, b) = SumFunctionOnSet(Shifts(vs, b), BinEdges(b))
<1>1. DOMAIN Terms(vs, b) = BinEdges(b) /\ DOMAIN Shifts(vs, b) = BinEdges(b)
  BY DEF Terms, Shifts
<1>2. PopulationStabilityIndex(b, vs)
        = SumFunction(Terms(vs, b)) \div (Total(vs, b) * Total(b, b))
  BY DEF PopulationStabilityIndex, Compared, Terms
<1>3. Moved(vs, b) = SumFunction(Shifts(vs, b))
  BY Zenon DEF Moved, Shifts, Abs
<1>4. \A f : SumFunction(f) = SumFunctionOnSet(f, DOMAIN f)
  BY DEF SumFunction
<1>. QED BY <1>1, <1>2, <1>3, <1>4

\* All shares add up to 1 and 1, or to 1 where no value is in range.
LEMMA AllMass ==
  ASSUME NEW b, NEW vs, Compared(vs, b)
  PROVE  /\ SumFunctionOnSet(Masses(vs, b), BinEdges(b)) \in Nat
         /\ SumFunctionOnSet(Masses(vs, b), BinEdges(b)) <= 2 * (Total(vs, b) * Total(b, b))
<1>. DEFINE E == BinEdges(b)
            ot == Total(vs, b)
            et == Total(b, b)
            f == [q \in E |-> et * Counts(vs, b)[q]]
            g == [q \in E |-> ot * Counts(b, b)[q]]
            m == Masses(vs, b)
<1>1. Ascending(b) /\ vs \in Seq(Nat) /\ b \in Seq(Nat) /\ IsFiniteSet(E)
  BY Edges DEF Compared, Ascending
<1>2. ot \in Nat \ {0} /\ et \in Nat \ {0} /\ InRange(vs, b) \in 0..ot /\ InRange(b, b) = et
  <2>1. Len(Ln) \in Nat
    BY LnAssumption
  <2>. QED BY <2>1, Totals
<1>3. /\ InRange(vs, b) = SumFunctionOnSet(Counts(vs, b), E)
      /\ InRange(b, b) = SumFunctionOnSet(Counts(b, b), E)
      /\ \A q \in E : /\ Counts(vs, b)[q] \in Nat /\ Counts(vs, b)[q] = Count(vs, q, b)
                      /\ Counts(b, b)[q] \in Nat /\ Counts(b, b)[q] = Count(b, q, b)
  BY <1>1, CountsType
<1>4. \A q \in E : m[q] = Count(vs, q, b) * et + Count(b, q, b) * ot
  BY DEF Masses
<1>. HIDE DEF m, ot, et, E
<1>5. \A q \in E : f[q] \in Nat /\ g[q] \in Nat /\ m[q] = f[q] + g[q]
  <2>1. SUFFICES ASSUME NEW q \in E PROVE f[q] \in Nat /\ g[q] \in Nat /\ m[q] = f[q] + g[q]
    OBVIOUS
  <2>. DEFINE c == Counts(vs, b)[q]
              d == Counts(b, b)[q]
  <2>2. c \in Nat /\ d \in Nat /\ m[q] = c * et + d * ot
    BY <1>3, <1>4
  <2>3. f[q] = et * c /\ g[q] = ot * d
    OBVIOUS
  <2>. HIDE DEF c, d, f, g
  <2>4. et * c \in Nat /\ ot * d \in Nat /\ et * c = c * et /\ ot * d = d * ot
    BY <1>2, <2>2
  <2>. QED BY <2>2, <2>3, <2>4
<1>6. SumFunctionOnSet(f, E) = et * InRange(vs, b)
  <2>1. \A q \in E : Counts(vs, b)[q] \in Int /\ f[q] = et * Counts(vs, b)[q]
    BY <1>3
  <2>2. et \in Int
    BY <1>2
  <2>3. SumFunctionOnSet(f, E) = et * SumFunctionOnSet(Counts(vs, b), E)
    <3>. HIDE DEF f
    <3>. QED BY <1>1, <2>1, <2>2, SumTimes
  <2>. QED BY <1>3, <2>3
<1>7. SumFunctionOnSet(g, E) = ot * InRange(b, b)
  <2>1. \A q \in E : Counts(b, b)[q] \in Int /\ g[q] = ot * Counts(b, b)[q]
    BY <1>3
  <2>2. ot \in Int
    BY <1>2
  <2>3. SumFunctionOnSet(g, E) = ot * SumFunctionOnSet(Counts(b, b), E)
    <3>. HIDE DEF g
    <3>. QED BY <1>1, <2>1, <2>2, SumTimes
  <2>. QED BY <1>3, <2>3
<1>. HIDE DEF f, g
<1>8. SumFunctionOnSet(m, E) = SumFunctionOnSet(f, E) + SumFunctionOnSet(g, E)
  <2>1. \A q \in E : f[q] \in Int /\ g[q] \in Int /\ m[q] = f[q] + g[q]
    BY <1>5
  <2>. QED BY <1>1, <2>1, SumPlus
<1>9. SumFunctionOnSet(m, E) \in Nat
  BY <1>1, <1>5, SumNat
<1>10. et * InRange(vs, b) <= ot * et /\ et * InRange(vs, b) \in Int /\ ot * et \in Nat
  <2>1. et * ot >= et * InRange(vs, b)
    BY <1>2, Scaled
  <2>2. et * ot = ot * et /\ ot * et \in Nat /\ et * InRange(vs, b) \in Int
    BY <1>2
  <2>. QED BY <2>1, <2>2
<1>11. SumFunctionOnSet(m, E) <= 2 * (ot * et)
  <2>1. \A w \in Int : \A part \in Int : part <= w => part + w <= 2 * w
    BY SMT
  <2>2. SumFunctionOnSet(m, E) = et * InRange(vs, b) + ot * et
    BY <1>2, <1>6, <1>7, <1>8, Zenon
  <2>3. ot * et \in Int
    BY <1>10
  <2>. QED BY <1>10, <2>1, <2>2, <2>3, Zenon
<1>. QED BY <1>9, <1>11 DEF m, E, ot, et

\* The sums over all bins.
LEMMA SumsBounded ==
  ASSUME NEW b, NEW vs, Compared(vs, b), NEW n \in Nat, NEW k \in Nat
  PROVE  LET E == BinEdges(b)
         IN  (k * k) * SumFunctionOnSet(Terms(vs, b), E)
               >= (4000 * (n * k) - 4 * (k * k)) * Moved(vs, b)
                  - (2000 * (n * n)) * SumFunctionOnSet(Masses(vs, b), E)
<1>. DEFINE E == BinEdges(b)
            t == Terms(vs, b)
            x == Shifts(vs, b)
            m == Masses(vs, b)
            K == k * k
            A == 4000 * (n * k) - 4 * (k * k)
            N == 2000 * (n * n)
<1>1. K \in Int /\ A \in Int /\ N \in Int
  OBVIOUS
<1>2. IsFiniteSet(E)
  BY Edges DEF Compared
<1>3. ASSUME NEW q \in E
      PROVE  /\ t[q] \in Int /\ x[q] \in Int /\ m[q] \in Int
             /\ K * t[q] >= A * x[q] - N * m[q]
  <2>1. Bounded(t[q], x[q], m[q])
    BY BinBounded
  <2>. HIDE DEF t, x, m
  <2>2. t[q] \in Int /\ x[q] \in Int /\ m[q] \in Int
    BY <2>1 DEF Bounded
  <2>3. K * t[q] >= A * x[q] - N * m[q]
    BY <2>1, Weighted
  <2>. QED BY <2>2, <2>3
<1>. HIDE DEF E, t, x, m, K, A, N
<1>4. LinearBound(E, t, x, m, K, A, N)
  BY <1>3 DEF LinearBound
<1>5. K * SumFunctionOnSet(t, E) >= A * SumFunctionOnSet(x, E) - N * SumFunctionOnSet(m, E)
  BY <1>1, <1>2, <1>4, SumBound
<1>6. Moved(vs, b) = SumFunctionOnSet(x, E)
  BY Index DEF x, E
<1>. QED BY <1>5, <1>6 DEF E, t, m, K, A, N

\* The index is at least 100, 200 or 500 thousandths where a sixth, a quarter or three
\* eighths of the mass has moved.
LEMMA IndexTells ==
  ASSUME NEW b, NEW vs, Compared(vs, b)
  PROVE  LET psi == PopulationStabilityIndex(b, vs)
             all == 2 * Total(vs, b) * Total(b, b)
         IN  /\ psi \in Int /\ Moved(vs, b) \in Nat
             /\ 6 * Moved(vs, b) >= all => psi >= 100
             /\ 4 * Moved(vs, b) >= all => psi >= 200
             /\ 8 * Moved(vs, b) >= 3 * all => psi >= 500
             /\ Moved(vs, b) = 0 => psi = 0
<1>. DEFINE E == BinEdges(b)
            ts == SumFunctionOnSet(Terms(vs, b), E)
            ms == SumFunctionOnSet(Masses(vs, b), E)
            mv == Moved(vs, b)
            psi == PopulationStabilityIndex(b, vs)
            all == 2 * Total(vs, b) * Total(b, b)
            whole == Total(vs, b) * Total(b, b)
<1>1. whole \in Nat \ {0} /\ all = 2 * whole
  <2>1. Total(vs, b) \in Nat \ {0} /\ Total(b, b) \in Nat \ {0}
    <3>1. Len(Ln) \in Nat
      BY LnAssumption
    <3>. QED BY <3>1, Totals
  <2>2. \A i \in Nat \ {0}, j \in Nat \ {0} : i * j \in Nat \ {0} /\ 2 * i * j = 2 * (i * j)
    BY SMT
  <2>. QED BY <2>1, <2>2
<1>2. IsFiniteSet(E) /\ psi = ts \div whole /\ mv = SumFunctionOnSet(Shifts(vs, b), E)
  BY Edges, Index DEF Compared
<1>3. ms \in Nat /\ ms <= 2 * whole
  BY AllMass
<1>4. \A q \in E : /\ Terms(vs, b)[q] \in Int /\ Shifts(vs, b)[q] \in Nat
                   /\ Shifts(vs, b)[q] = 0 => Terms(vs, b)[q] = 0
  BY BinBounded DEF Bounded
<1>5. /\ mv \in Nat /\ ts \in Int
      /\ \A q \in E : Shifts(vs, b)[q] <= mv
  <2>. HIDE DEF E
  <2>1. \A q \in E : Shifts(vs, b)[q] \in Nat /\ Terms(vs, b)[q] \in Int
    BY <1>4
  <2>2. SumFunctionOnSet(Shifts(vs, b), E) \in Nat
        /\ \A q \in E : Shifts(vs, b)[q] <= SumFunctionOnSet(Shifts(vs, b), E)
    BY <1>2, <2>1, SumNat
  <2>3. ts \in Int
    BY <1>2, <2>1, SumInt
  <2>. QED BY <1>2, <2>2, <2>3
<1>6. /\ 36 * ts >= 23856 * mv - 2000 * ms
      /\ 16 * ts >= 15936 * mv - 2000 * ms
      /\ 64 * ts >= 95744 * mv - 18000 * ms
  <2>1. (6 * 6) * ts >= (4000 * (1 * 6) - 4 * (6 * 6)) * mv - (2000 * (1 * 1)) * ms
    BY SumsBounded
  <2>2. (4 * 4) * ts >= (4000 * (1 * 4) - 4 * (4 * 4)) * mv - (2000 * (1 * 1)) * ms
    BY SumsBounded
  <2>3. (8 * 8) * ts >= (4000 * (3 * 8) - 4 * (8 * 8)) * mv - (2000 * (3 * 3)) * ms
    BY SumsBounded
  <2>. HIDE DEF ts, ms, mv
  <2>. QED BY <1>3, <1>5, <2>1, <2>2, <2>3
<1>. SUFFICES /\ psi \in Int /\ mv \in Nat
              /\ 6 * mv >= all => psi >= 100
              /\ 4 * mv >= all => psi >= 200
              /\ 8 * mv >= 3 * all => psi >= 500
              /\ mv = 0 => psi = 0
  OBVIOUS
<1>7. mv = 0 => ts = 0
  <2>1. SUFFICES ASSUME mv = 0 PROVE ts = 0
    OBVIOUS
  <2>2. \A q \in E : Terms(vs, b)[q] = 0
    <3>1. \A q \in E : Shifts(vs, b)[q] = 0
      <4>. HIDE DEF E, mv
      <4>. QED BY <1>4, <1>5, <2>1
    <3>. QED BY <1>4, <3>1
  <2>3. ts = 0 * Cardinality(E)
    <3>. HIDE DEF E
    <3>. QED BY <1>2, <2>2, SumConstant
  <2>4. Cardinality(E) \in Nat
    BY <1>2, FS_CardinalityType
  <2>. QED BY <2>3, <2>4
<1>. HIDE DEF ts, ms, mv, psi, all, whole
<1>8. psi \in Int /\ \A c \in Int : c * whole <= ts => c <= psi
  BY <1>1, <1>2, <1>5, DivAtLeast
<1>9. 6 * mv >= all => psi >= 100
  <2>1. 6 * mv >= all => 100 * whole <= ts
    BY <1>1, <1>3, <1>5, <1>6
  <2>. QED BY <1>8, <2>1
<1>10. 4 * mv >= all => psi >= 200
  <2>1. 4 * mv >= all => 200 * whole <= ts
    BY <1>1, <1>3, <1>5, <1>6
  <2>. QED BY <1>8, <2>1
<1>11. 8 * mv >= 3 * all => psi >= 500
  <2>1. 8 * mv >= 3 * all => 500 * whole <= ts
    BY <1>1, <1>3, <1>5, <1>6
  <2>. QED BY <1>8, <2>1
<1>12. mv = 0 => psi = 0
  BY <1>1, <1>2, <1>7, ZeroDivided
<1>. QED BY <1>5, <1>8, <1>9, <1>10, <1>11, <1>12

\* Where no value is in range, all of the baseline's mass has moved.
LEMMA NoneInRange ==
  ASSUME NEW b, NEW vs, Compared(vs, b), InRange(vs, b) = 0
  PROVE  Moved(vs, b) = Total(vs, b) * Total(b, b)
<1>. DEFINE E == BinEdges(b)
            x == Shifts(vs, b)
            c == Counts(b, b)
<1>1. /\ Total(vs, b) = 1 /\ Total(b, b) \in Nat /\ InRange(b, b) = Total(b, b)
      /\ Ascending(b) /\ b \in Seq(Nat) /\ vs \in Seq(Nat) /\ IsFiniteSet(E)
  <2>1. Ascending(b) /\ b \in Seq(Nat) /\ vs \in Seq(Nat) /\ IsFiniteSet(E)
    BY Edges DEF Compared, Ascending
  <2>2. Total(b, b) \in Nat
    <3>1. Len(Ln) \in Nat /\ Total(b, b) \in 1..Len(Ln)
      BY LnAssumption, Totals
    <3>. QED BY <3>1
  <2>3. Total(vs, b) = 1 /\ InRange(b, b) = Total(b, b)
    BY Totals
  <2>. QED BY <2>1, <2>2, <2>3
<1>2. /\ \A q \in E : c[q] \in Nat /\ c[q] = Count(b, q, b)
      /\ InRange(b, b) = SumFunctionOnSet(c, E)
      /\ \A q \in E : Count(vs, q, b) \in 0..0
  BY <1>1, CountsType
<1>3. ASSUME NEW q \in E
      PROVE  x[q] \in Int /\ x[q] = c[q]
  <2>1. Count(vs, q, b) = 0 /\ Count(b, q, b) \in Nat /\ c[q] = Count(b, q, b)
    BY <1>2
  <2>2. x[q] = Abs(0 * Total(b, b) - Count(b, q, b) * 1)
    BY <1>1, <2>1 DEF Shifts
  <2>. HIDE DEF x, c
  <2>3. 0 * Total(b, b) - Count(b, q, b) * 1 = -Count(b, q, b)
    BY <1>1, <2>1
  <2>4. Abs(-Count(b, q, b)) = Count(b, q, b)
    BY <2>1 DEF Abs
  <2>. QED BY <2>1, <2>2, <2>3, <2>4
<1>. HIDE DEF E, x, c
<1>4. SumFunctionOnSet(x, E) = SumFunctionOnSet(c, E)
  BY <1>1, <1>3, SumSame
<1>5. Moved(vs, b) = SumFunctionOnSet(x, E)
  BY Index DEF E, x
<1>. QED BY <1>1, <1>2, <1>4, <1>5

-----------------------------------------------------------------------------
(* The report.                                                             *)

\* What a severity says of the mass that has moved.
Tells(s, vs, b) ==
  LET all == 2 * Total(vs, b) * Total(b, b)
  IN  /\ s \in 1..4
      /\ InRange(vs, b) = 0 => s = 4
      /\ InRange(vs, b) > 0 /\ Moved(vs, b) = 0 => s = 1
      /\ s <= 1 => 6 * Moved(vs, b) < all
      /\ s <= 2 => 4 * Moved(vs, b) < all
      /\ s <= 3 => 8 * Moved(vs, b) < 3 * all

LEMMA SeverityTells ==
  ASSUME NEW b, NEW vs, Compared(vs, b)
  PROVE  Tells(DriftSeverity(PopulationStabilityIndex(b, vs)), vs, b)
<1>. DEFINE psi == PopulationStabilityIndex(b, vs)
            mv == Moved(vs, b)
            whole == Total(vs, b) * Total(b, b)
            all == 2 * Total(vs, b) * Total(b, b)
            s == DriftSeverity(psi)
<1>1. /\ psi \in Int /\ mv \in Nat
      /\ 6 * mv >= all => psi >= 100
      /\ 4 * mv >= all => psi >= 200
      /\ 8 * mv >= 3 * all => psi >= 500
      /\ mv = 0 => psi = 0
  BY IndexTells
<1>2. all \in Int /\ whole \in Nat /\ all = 2 * whole
  <2>1. Total(vs, b) \in Nat /\ Total(b, b) \in Nat
    <3>1. Len(Ln) \in Nat /\ Total(vs, b) \in 1..Len(Ln) /\ Total(b, b) \in 1..Len(Ln)
      BY LnAssumption, Totals
    <3>. QED BY <3>1
  <2>2. \A i \in Nat, j \in Nat : i * j \in Nat /\ 2 * i * j = 2 * (i * j) /\ 2 * i * j \in Int
    BY SMT
  <2>. QED BY <2>1, <2>2
<1>3. InRange(vs, b) = 0 => mv = whole
  BY NoneInRange
<1>4. s = IF psi < 100 THEN 1 ELSE IF psi < 200 THEN 2 ELSE IF psi < 500 THEN 3 ELSE 4
  BY DEF DriftSeverity
<1>5. SUFFICES /\ s \in 1..4
               /\ InRange(vs, b) = 0 => s = 4
               /\ mv = 0 => s = 1
               /\ s <= 1 => 6 * mv < all
               /\ s <= 2 => 4 * mv < all
               /\ s <= 3 => 8 * mv < 3 * all
  BY DEF Tells
<1>. HIDE DEF psi, mv, whole, all, s
<1>6. InRange(vs, b) = 0 => psi >= 500
  BY <1>1, <1>2, <1>3
<1>. QED BY <1>1, <1>2, <1>4, <1>6

\* The rows of a report.
LEMMA Recent ==
  ASSUME NEW f \in Features, logged \in Seq([Features -> Nat])
  PROVE  LET rows == ListRecent
             n == Len(rows)
             vs == Observed(rows, f)
         IN  /\ n = IF Len(logged) < Limit THEN Len(logged) ELSE Limit
             /\ n \in Nat /\ vs \in Seq(Nat) /\ Len(vs) = n
             /\ vs = [i \in 1..n |-> logged[Len(logged) - n + i][f]]
<1>. DEFINE k == IF Len(logged) < Limit THEN 1 ELSE Len(logged) - Limit + 1
            rows == ListRecent
            n == Len(rows)
            vs == Observed(rows, f)
<1>1. Len(logged) \in Nat /\ Limit \in Nat \ {0} /\ \A i \in 1..Len(logged) : logged[i] \in [Features -> Nat]
  BY DriftAssumption
<1>2. k \in Int /\ k >= 1 /\ rows = SubSeq(logged, k, Len(logged))
  BY <1>1 DEF ListRecent
<1>3. /\ rows \in Seq([Features -> Nat])
      /\ n = IF k <= Len(logged) THEN Len(logged) - k + 1 ELSE 0
      /\ \A i \in 1..(Len(logged) - k + 1) : rows[i] = logged[k + i - 1]
  <2>. HIDE DEF k, rows
  <2>1. \A i \in k..Len(logged) : logged[i] \in [Features -> Nat]
    BY <1>1, <1>2
  <2>. QED BY <1>1, <1>2, <2>1, SubSeqProperties
<1>. HIDE DEF rows
<1>4. /\ n = IF Len(logged) < Limit THEN Len(logged) ELSE Limit
      /\ n \in Nat /\ n = Len(logged) - k + 1
  <2>. HIDE DEF n
  <2>1. CASE Len(logged) < Limit
    <3>1. k = 1
      BY <2>1
    <3>. HIDE DEF k
    <3>. QED BY <1>1, <1>3, <2>1, <3>1
  <2>2. CASE ~(Len(logged) < Limit)
    <3>1. k = Len(logged) - Limit + 1
      BY <2>2
    <3>. HIDE DEF k
    <3>. QED BY <1>1, <1>3, <2>2, <3>1
  <2>. QED BY <2>1, <2>2
<1>. HIDE DEF k
<1>5. DOMAIN rows = 1..n /\ \A i \in 1..n : rows[i] \in [Features -> Nat]
  BY <1>3
<1>6. \A i \in 1..n : rows[i] = logged[Len(logged) - n + i]
  <2>. HIDE DEF n
  <2>1. SUFFICES ASSUME NEW i \in 1..n PROVE rows[i] = logged[Len(logged) - n + i]
    OBVIOUS
  <2>2. k + i - 1 = Len(logged) - n + i /\ i \in 1..(Len(logged) - k + 1)
    <3>1. Len(logged) \in Int /\ k \in Int /\ n \in Nat /\ n = Len(logged) - k + 1
      <4>1. Len(logged) \in Int
        BY <1>1
      <4>2. k \in Int
        BY <1>2
      <4>3. n \in Nat
        BY <1>4
      <4>4. n = Len(logged) - k + 1
        BY <1>4
      <4>. QED BY <4>1, <4>2, <4>3, <4>4
    <3>2. i \in Int
      BY <3>1
    <3>. QED BY <3>1, <3>2
  <2>3. rows[i] = logged[k + i - 1]
    BY <1>3, <2>2
  <2>. QED BY <2>2, <2>3
<1>7. vs = [i \in 1..n |-> logged[Len(logged) - n + i][f]]
  BY <1>5, <1>6 DEF Observed
<1>8. \A i \in 1..n : logged[Len(logged) - n + i][f] \in Nat
  BY <1>5, <1>6
<1>9. vs \in Seq(Nat) /\ Len(vs) = n
  <2>. HIDE DEF vs, n
  <2>1. vs \in [1..n -> Nat] /\ n \in Nat
    BY <1>4, <1>7, <1>8
  <2>2. vs \in Seq(Nat)
    BY <2>1, SeqDef
  <2>. QED BY <2>1, <2>2
<1>. QED BY <1>4, <1>7, <1>9 DEF rows

LEMMA WorstIsWorst ==
  ASSUME NEW severity \in [Features -> 1..4]
  PROVE  LET worst == Max({1} \cup {severity[f] : f \in Features})
         IN  worst \in 1..4 /\ \A f \in Features : worst >= severity[f]
<1>. DEFINE S == {1} \cup {severity[f] : f \in Features}
<1>1. S \subseteq 1..4 /\ 1 \in S /\ \A f \in Features : severity[f] \in S
  OBVIOUS
<1>. HIDE DEF S
<1>2. S \subseteq Int /\ IsFiniteSet(S)
  <2>1. S \in SUBSET Nat /\ 4 \in Nat /\ \A x \in S : x <= 4
    BY <1>1
  <2>2. IsFiniteSet(S)
    BY <2>1, FS_BoundedSetOfNaturals
  <2>. QED BY <2>1, <2>2
<1>3. PICK m \in S : \A x \in S : x <= m
  BY <1>1, <1>2, GreatestExists
<1>4. \A x \in S : m >= x
  BY <1>2, <1>3
<1>5. Max(S) \in S /\ \A x \in S : Max(S) >= x
  BY <1>4 DEF Max
<1>. QED BY <1>1, <1>5 DEF S

\* What a report says of a feature, from the rows logged.
ReportOn(d, f, rows) ==
  LET b == Baseline[f]
      vs == [i \in 1..d.size |-> rows[Len(rows) - d.size + i][f]]
      all == 2 * Total(vs, b) * Total(b, b)
  IN  /\ d.size = IF Len(rows) < Limit THEN Len(rows) ELSE Limit
      /\ d.worst >= d.severity[f]
      /\ d.size > 0 /\ BinEdges(b) # {} =>
           /\ InRange(vs, b) = 0 => d.severity[f] = 4
           /\ InRange(vs, b) > 0 /\ Moved(vs, b) = 0 => d.severity[f] = 1
           /\ d.worst = 1 => 6 * Moved(vs, b) < all
           /\ d.worst = 2 => 4 * Moved(vs, b) < all
           /\ d.worst = 3 => 8 * Moved(vs, b) < 3 * all

LEMMA ReportTells ==
  ASSUME logged \in Seq([Features -> Nat]), CurrentReport
  PROVE  DriftTells' /\ logged' = logged
<1>. DEFINE rows == ListRecent
            psi(f) == PopulationStabilityIndex(Baseline[f], Observed(rows, f))
            severity == [f \in Features |-> DriftSeverity(psi(f))]
            worst == Max({1} \cup {severity[f] : f \in Features})
            r == [size |-> Len(rows), severity |-> severity, worst |-> worst]
<1>1. drift' = {r} /\ logged' = logged
  BY DEF CurrentReport
<1>2. severity \in [Features -> 1..4]
  <2>1. \A x : DriftSeverity(x) \in 1..4
    BY DEF DriftSeverity
  <2>. QED BY <2>1
<1>3. worst \in 1..4 /\ \A f \in Features : worst >= severity[f]
  <2>. HIDE DEF severity
  <2>. QED BY <1>2, WorstIsWorst
<1>4. ASSUME NEW f \in Features, Len(rows) > 0, BinEdges(Baseline[f]) # {}
      PROVE  Tells(severity[f], Observed(rows, f), Baseline[f])
  <2>. DEFINE b == Baseline[f]
              vs == Observed(rows, f)
  <2>1. Ascending(b) /\ Len(b) <= Len(Ln) /\ Limit <= Len(Ln)
    <3>1. /\ b \in Seq(Nat) \ {<<>>}
          /\ \A i \in 1..(Len(b) - 1) : b[i] <= b[i + 1]
      BY DriftAssumption, Zenon
    <3>2. Len(b) <= Len(Ln) /\ Limit <= Len(Ln)
      BY LnAssumption
    <3>. QED BY <3>1, <3>2 DEF Ascending
  <2>2. /\ vs \in Seq(Nat) /\ Len(vs) = Len(rows) /\ Len(rows) \in Nat
        /\ Len(rows) = IF Len(logged) < Limit THEN Len(logged) ELSE Limit
    BY Recent
  <2>. HIDE DEF vs, rows
  <2>3. vs # <<>> /\ Len(vs) <= Len(Ln)
    <3>1. Limit \in Nat /\ Len(logged) \in Nat /\ Len(Ln) \in Nat
      BY DriftAssumption, LnAssumption
    <3>2. Len(vs) # 0
      BY <1>4, <2>2
    <3>. QED BY <2>1, <2>2, <3>1, <3>2
  <2>4. Compared(vs, b)
    BY <1>4, <2>1, <2>2, <2>3 DEF Compared
  <2>5. Tells(DriftSeverity(PopulationStabilityIndex(b, vs)), vs, b)
    BY <2>4, SeverityTells
  <2>. QED BY <2>5 DEF vs
<1>5. ASSUME NEW f \in Features
      PROVE  ReportOn(r, f, logged)
  <2>. DEFINE b == Baseline[f]
              n == Len(rows)
              vs == [i \in 1..n |-> logged[Len(logged) - n + i][f]]
              all == 2 * Total(vs, b) * Total(b, b)
              s == severity[f]
  <2>1. vs = Observed(rows, f) /\ n = IF Len(logged) < Limit THEN Len(logged) ELSE Limit
    BY Recent
  <2>2. r.size = n /\ r.worst = worst /\ r.severity[f] = s
    OBVIOUS
  <2>3. worst \in 1..4 /\ worst >= s /\ s \in 1..4
    <3>. HIDE DEF severity, worst
    <3>. QED BY <1>2, <1>3
  <2>4. n > 0 /\ BinEdges(b) # {} => Tells(s, vs, b)
    BY <1>4, <2>1
  <2>. HIDE DEF s, worst, n, r
  <2>5. n > 0 /\ BinEdges(b) # {} =>
          /\ InRange(vs, b) = 0 => s = 4
          /\ InRange(vs, b) > 0 /\ Moved(vs, b) = 0 => s = 1
          /\ worst = 1 => 6 * Moved(vs, b) < all
          /\ worst = 2 => 4 * Moved(vs, b) < all
          /\ worst = 3 => 8 * Moved(vs, b) < 3 * all
    <3>. HIDE DEF vs, b
    <3>. QED BY <2>3, <2>4 DEF Tells
  <2>. QED BY <2>1, <2>2, <2>3, <2>5 DEF ReportOn
<1>. HIDE DEF r
<1>6. DriftTells'
  <2>1. DriftTells' <=> \A d \in drift' : \A f \in Features : ReportOn(d, f, logged')
    BY Zenon DEF DriftTells, ReportOn
  <2>. QED BY <1>1, <1>5, <2>1
<1>. QED BY <1>1, <1>6

LEMMA LogRowType ==
  ASSUME logged \in Seq([Features -> Nat]), LogRow
  PROVE  logged' \in Seq([Features -> Nat]) /\ drift' = {}
<1>1. PICK row \in [Features -> UNION {Values[f] : f \in Features}] :
        (\A f \in Features : row[f] \in Values[f]) /\ logged' = Append(logged, row)
  BY DEF LogRow
<1>2. row \in [Features -> Nat]
  BY <1>1, DriftAssumption
<1>3. drift' = {}
  BY DEF LogRow
<1>. QED BY <1>1, <1>2, <1>3

DriftInv == logged \in Seq([Features -> Nat]) /\ DriftTells

\* A severity is a bound on the mass that has moved between the baseline and the rows that
\* the report read, for every baseline, number of quantiles and limit, and for every table
\* of logarithms that is exact to a thousandth.
THEOREM SeveritiesTell == Spec => []DriftTells
<1>1. Init => DriftInv
  BY DEF Init, DriftInit, DriftInv, DriftTells
<1>2. DriftInv /\ [Next]_vars => DriftInv'
  <2>. SUFFICES ASSUME DriftInv, [Next]_vars PROVE DriftInv'
    OBVIOUS
  <2>1. CASE LogRow
    <3>1. logged' \in Seq([Features -> Nat]) /\ drift' = {}
      BY <2>1, LogRowType DEF DriftInv
    <3>. QED BY <3>1 DEF DriftInv, DriftTells
  <2>2. CASE CurrentReport
    BY <2>2, ReportTells DEF DriftInv
  <2>3. CASE UNCHANGED driftVars
    <3>1. logged' = logged /\ drift' = drift
      BY <2>3 DEF driftVars
    <3>2. DriftTells' <=> DriftTells
      BY <3>1 DEF DriftTells
    <3>. QED BY <3>1, <3>2 DEF DriftInv
  <2>. QED BY <2>1, <2>2, <2>3
         DEF Next, HoldoutRuns, DriftRuns, IngestionRuns, DriftNext, vars
<1>3. DriftInv => DriftTells
  BY DEF DriftInv
<1>. QED BY <1>1, <1>2, <1>3, PTL DEF Spec

-----------------------------------------------------------------------------
(* What the report cannot tell.                                            *)

\* Of two distributions over a single bin, the index is 0.
LEMMA SingleBin ==
  ASSUME NEW b, NEW vs, Compared(vs, b), NEW e, BinEdges(b) = {e}, InRange(vs, b) > 0
  PROVE  PopulationStabilityIndex(b, vs) = 0
<1>1. /\ Ascending(b) /\ b \in Seq(Nat) /\ vs \in Seq(Nat) /\ IsFiniteSet({e})
      /\ Total(vs, b) \in Nat /\ Total(b, b) \in Nat
      /\ InRange(vs, b) = Total(vs, b) /\ InRange(b, b) = Total(b, b)
  <2>1. Ascending(b) /\ b \in Seq(Nat) /\ vs \in Seq(Nat) /\ IsFiniteSet({e})
    BY Edges DEF Compared, Ascending
  <2>2. Total(vs, b) \in Nat /\ Total(b, b) \in Nat
    <3>1. Len(Ln) \in Nat /\ Total(vs, b) \in 1..Len(Ln) /\ Total(b, b) \in 1..Len(Ln)
      BY LnAssumption, Totals
    <3>. QED BY <3>1
  <2>3. InRange(vs, b) # 0
    OBVIOUS
  <2>4. InRange(vs, b) = Total(vs, b) /\ InRange(b, b) = Total(b, b)
    BY <2>3, Totals
  <2>. QED BY <2>1, <2>2, <2>4
<1>2. ASSUME NEW us \in Seq(Nat)
      PROVE  Count(us, e, b) = InRange(us, b)
  <2>1. /\ Counts(us, b)[e] \in Nat /\ Counts(us, b)[e] = Count(us, e, b)
        /\ InRange(us, b) = SumFunctionOnSet(Counts(us, b), {e})
    BY <1>1, CountsType
  <2>. DEFINE c == Counts(us, b)
  <2>2. SumFunctionOnSet(c, {e}) = c[e] + SumFunctionOnSet(c, {e} \ {e})
    <3>1. \A x \in {e} : c[x] \in Int
      BY <2>1
    <3>2. e \in {e}
      OBVIOUS
    <3>. HIDE DEF c
    <3>. QED BY <1>1, <3>1, <3>2, SumRemove
  <2>3. {e} \ {e} = {} /\ SumFunctionOnSet(c, {}) = 0
    BY SumEmpty
  <2>4. SumFunctionOnSet(c, {e} \ {e}) = 0
    BY <2>3
  <2>. QED BY <2>1, <2>2, <2>4
<1>3. Count(vs, e, b) = Total(vs, b) /\ Count(b, e, b) = Total(b, b)
  BY <1>1, <1>2
<1>4. Shifts(vs, b)[e] = Abs(Total(vs, b) * Total(b, b) - Total(b, b) * Total(vs, b))
  BY <1>3 DEF Shifts
<1>5. Shifts(vs, b)[e] = 0
  <2>1. Total(vs, b) * Total(b, b) - Total(b, b) * Total(vs, b) = 0
    BY <1>1
  <2>. QED BY <1>4, <2>1 DEF Abs
<1>6. Moved(vs, b) = 0
  <2>1. Moved(vs, b) = SumFunctionOnSet(Shifts(vs, b), {e})
    BY Index
  <2>2. \A x \in {e} : Shifts(vs, b)[x] = 0
    BY <1>5
  <2>3. SumFunctionOnSet(Shifts(vs, b), {e}) = 0 * Cardinality({e})
    BY <1>1, <2>2, SumConstant
  <2>4. Cardinality({e}) \in Nat
    BY <1>1, FS_CardinalityType
  <2>. QED BY <2>1, <2>3, <2>4
<1>. QED BY <1>6, IndexTells

\* A report on a feature whose baseline has one bin, or none, says "none".
BlindOn(d, f, rows) ==
  LET b == Baseline[f]
      vs == [i \in 1..d.size |-> rows[Len(rows) - d.size + i][f]]
  IN  (BinEdges(b) = {} \/ (InRange(vs, b) > 0 /\ \E e : BinEdges(b) = {e})) => d.severity[f] = 1
BlindToOneBin == \A d \in drift : \A f \in Features : BlindOn(d, f, logged)

LEMMA ReportBlind ==
  ASSUME logged \in Seq([Features -> Nat]), CurrentReport
  PROVE  BlindToOneBin'
<1>. DEFINE rows == ListRecent
            psi(f) == PopulationStabilityIndex(Baseline[f], Observed(rows, f))
            severity == [f \in Features |-> DriftSeverity(psi(f))]
            worst == Max({1} \cup {severity[f] : f \in Features})
            r == [size |-> Len(rows), severity |-> severity, worst |-> worst]
<1>1. drift' = {r} /\ logged' = logged
  BY DEF CurrentReport
<1>2. ASSUME NEW f \in Features
      PROVE  BlindOn(r, f, logged)
  <2>. DEFINE b == Baseline[f]
              vs == Observed(rows, f)
  <2>1. /\ vs \in Seq(Nat) /\ Len(vs) = Len(rows) /\ Len(rows) \in Nat
        /\ Len(rows) = IF Len(logged) < Limit THEN Len(logged) ELSE Limit
        /\ vs = [i \in 1..Len(rows) |-> logged[Len(logged) - Len(rows) + i][f]]
    BY Recent
  <2>2. r.size = Len(rows) /\ r.severity[f] = DriftSeverity(PopulationStabilityIndex(b, vs))
    OBVIOUS
  <2>3. Ascending(b) /\ Len(b) <= Len(Ln) /\ Limit <= Len(Ln)
    <3>1. /\ b \in Seq(Nat) \ {<<>>}
          /\ \A i \in 1..(Len(b) - 1) : b[i] <= b[i + 1]
      BY DriftAssumption, Zenon
    <3>2. Len(b) <= Len(Ln) /\ Limit <= Len(Ln)
      BY LnAssumption
    <3>. QED BY <3>1, <3>2 DEF Ascending
  <2>. HIDE DEF vs, rows, r, severity, worst, b
  <2>4. Len(vs) <= Len(Ln)
    <3>1. Limit \in Nat /\ Len(logged) \in Nat /\ Len(Ln) \in Nat
      BY DriftAssumption, LnAssumption
    <3>. QED BY <2>1, <2>3, <3>1
  <2>5. ASSUME BinEdges(b) = {} \/ (InRange(vs, b) > 0 /\ \E e : BinEdges(b) = {e})
        PROVE  PopulationStabilityIndex(b, vs) = 0
    <3>1. CASE vs = <<>> \/ BinEdges(b) = {}
      BY <3>1 DEF PopulationStabilityIndex
    <3>2. CASE ~(vs = <<>> \/ BinEdges(b) = {})
      <4>1. PICK e : InRange(vs, b) > 0 /\ BinEdges(b) = {e}
        BY <2>5, <3>2
      <4>2. Compared(vs, b)
        BY <2>1, <2>3, <2>4, <3>2 DEF Compared
      <4>. QED BY <4>1, <4>2, SingleBin
    <3>. QED BY <3>1, <3>2
  <2>6. DriftSeverity(0) = 1
    BY DEF DriftSeverity
  <2>7. BlindOn(r, f, logged)
          <=> ((BinEdges(b) = {} \/ (InRange(vs, b) > 0 /\ \E e : BinEdges(b) = {e}))
                 => r.severity[f] = 1)
    BY <2>1, <2>2, Zenon DEF BlindOn, b
  <2>. QED BY <2>2, <2>5, <2>6, <2>7
<1>. HIDE DEF r
<1>3. BlindToOneBin' <=> \A d \in drift' : \A f \in Features : BlindOn(d, f, logged')
  BY Zenon DEF BlindToOneBin, BlindOn
<1>. QED BY <1>1, <1>2, <1>3

\* Where equal quantiles are merged into a single bin, as they are of most baselines of
\* zeros and ones, a drift is never reported: population_stability_index is 0 whatever
\* values in range are observed.
THEOREM OneBinIsBlind == Spec => []BlindToOneBin
<1>. DEFINE I == logged \in Seq([Features -> Nat]) /\ BlindToOneBin
<1>1. Init => I
  BY DEF Init, DriftInit, BlindToOneBin
<1>2. I /\ [Next]_vars => I'
  <2>. SUFFICES ASSUME I, [Next]_vars PROVE I'
    OBVIOUS
  <2>1. CASE LogRow
    <3>1. logged' \in Seq([Features -> Nat]) /\ drift' = {}
      BY <2>1, LogRowType
    <3>. QED BY <3>1 DEF BlindToOneBin
  <2>2. CASE CurrentReport
    BY <2>2, ReportBlind DEF CurrentReport
  <2>3. CASE UNCHANGED driftVars
    <3>1. logged' = logged /\ drift' = drift
      BY <2>3 DEF driftVars
    <3>2. BlindToOneBin' <=> BlindToOneBin
      BY <3>1 DEF BlindToOneBin, BlindOn
    <3>. QED BY <3>1, <3>2
  <2>. QED BY <2>1, <2>2, <2>3
         DEF Next, HoldoutRuns, DriftRuns, IngestionRuns, DriftNext, vars
<1>3. I => BlindToOneBin
  OBVIOUS
<1>. HIDE DEF I
<1>. QED BY <1>1, <1>2, <1>3, PTL DEF Spec
================================================================================
