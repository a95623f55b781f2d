---------------------------------- MODULE Sums ----------------------------------
(***************************************************************************)
(* Sums over finite sets.  The library's induction theorems take the       *)
(* formula to be proved as a parameter; here induction is a fact about a   *)
(* set, the elements for which a formula holds, and follows from the       *)
(* well-foundedness of < and of the strict subset ordering.                *)
(***************************************************************************)
EXTENDS Integers, Functions, FiniteSetTheorems, TLAPS

\* A set of natural numbers with 0, and with n + 1 for each n of it, has all of them.
LEMMA NatSet ==
  ASSUME NEW T \in SUBSET Nat, 0 \in T, \A n \in T : n + 1 \in T
  PROVE  T = Nat
<1>1. SUFFICES ASSUME Nat \ T # {} PROVE FALSE
  OBVIOUS
<1>2. PICK m \in Nat \ T : \A k \in Nat \ T : ~ (<<k, m>> \in OpToRel(<, Nat))
  BY <1>1, WFMin, NatLessThanWellFounded
<1>3. m # 0 /\ m - 1 \in Nat /\ m - 1 < m
  BY SMT
<1>4. m - 1 \notin T
  BY <1>3
<1>5. <<m - 1, m>> \in OpToRel(<, Nat)
  BY <1>3 DEF OpToRel
<1>. QED BY <1>2, <1>3, <1>4, <1>5

\* Among subsets of a finite set, one has no other below it.
LEMMA MinimalSubset ==
  ASSUME NEW S, IsFiniteSet(S), NEW F \in SUBSET SUBSET S, F # {}
  PROVE  \E U \in F : \A V \in F : V \subseteq U => V = U
<1>. DEFINE R == StrictSubsetOrdering(S)
<1>1. F \subseteq FiniteSubsetsOf(S)
  BY FS_Subset DEF FiniteSubsetsOf
<1>2. IsWellFoundedOn(R, FiniteSubsetsOf(S))
  BY FS_StrictSubsetOrderingWellFounded
<1>3. PICK U \in F : \A V \in F : ~ (<<V, U>> \in R)
  <2>. HIDE DEF R
  <2>. QED BY <1>1, <1>2, WFMin
<1>4. ASSUME NEW V \in F, V \subseteq U, V # U
      PROVE  FALSE
  <2>1. <<V, U>> \in R
    BY <1>4 DEF StrictSubsetOrdering
  <2>. QED BY <1>3, <2>1
<1>. QED BY <1>4

\* What holds of the empty set, and of a set with one more element, holds of a finite set.
LEMMA SubsetInduction ==
  ASSUME NEW S, IsFiniteSet(S), NEW F, {} \in F,
         \A U \in SUBSET S : \A x \in S \ U : U \in F => U \cup {x} \in F
  PROVE  S \in F
<1>. DEFINE T == {U \in SUBSET S : U \notin F}
<1>1. SUFFICES ASSUME S \notin F PROVE FALSE
  OBVIOUS
<1>2. T # {} /\ T \in SUBSET SUBSET S
  BY <1>1
<1>3. PICK U \in T : \A V \in T : V \subseteq U => V = U
  <2>. HIDE DEF T
  <2>. QED BY <1>2, MinimalSubset
<1>4. PICK x \in U : TRUE
  BY <1>3
<1>5. U \ {x} \in SUBSET S /\ U \ {x} \subseteq U /\ U \ {x} # U
  BY <1>4
<1>6. U \ {x} \in F
  BY <1>3, <1>5
<1>7. (U \ {x}) \cup {x} = U /\ x \in S \ (U \ {x})
  BY <1>4
<1>. QED BY <1>5, <1>6, <1>7

-----------------------------------------------------------------------------
(* The library's sum is well defined.                                      *)

Pick(s) == CHOOSE x \in s : TRUE
Level(S, n) == {s \in SUBSET S : Cardinality(s) <= n}
Sums(g, f, D) == g = [s \in D |-> IF s = {} THEN 0 ELSE f[Pick(s)] + g[s \ {Pick(s)}]]

LEMMA PickIn ==
  ASSUME NEW s, s # {}
  PROVE  Pick(s) \in s
  BY DEF Pick

\* The library's definition.
LEMMA SumChosen ==
  ASSUME NEW f, NEW S
  PROVE  SumFunctionOnSet(f, S) = (CHOOSE g : Sums(g, f, SUBSET S))[S]
  BY Zenon DEF SumFunctionOnSet, FoldFunctionOnSet, MapThenFoldSet, Sums, Pick

\* The subsets of at most n elements have sums.
LEMMA SumsLevel ==
  ASSUME NEW f, NEW S, IsFiniteSet(S), NEW n \in Nat,
         NEW g, Sums(g, f, Level(S, n))
  PROVE  \E h : Sums(h, f, Level(S, n + 1))
<1>. DEFINE h == [s \in Level(S, n + 1) |->
                    IF s = {} THEN 0 ELSE f[Pick(s)] + g[s \ {Pick(s)}]]
<1>1. ASSUME NEW s \in Level(S, n + 1), s # {}
      PROVE  h[s \ {Pick(s)}] = g[s \ {Pick(s)}]
  <2>. DEFINE t == s \ {Pick(s)}
  <2>1. Pick(s) \in s
    BY <1>1, PickIn
  <2>2. IsFiniteSet(s) /\ s \subseteq S
    BY FS_Subset DEF Level
  <2>3. Cardinality(t) = Cardinality(s) - 1 /\ Cardinality(s) \in Nat
    BY <2>1, <2>2, FS_RemoveElement, FS_CardinalityType
  <2>4. Cardinality(s) <= n + 1
    BY DEF Level
  <2>5. t \in Level(S, n) /\ t \in Level(S, n + 1)
    <3>1. Cardinality(t) <= n /\ Cardinality(t) <= n + 1
      BY <2>3, <2>4
    <3>. QED BY <2>2, <3>1 DEF Level
  <2>6. g[t] = IF t = {} THEN 0 ELSE f[Pick(t)] + g[t \ {Pick(t)}]
    BY <2>5 DEF Sums
  <2>7. h[t] = IF t = {} THEN 0 ELSE f[Pick(t)] + g[t \ {Pick(t)}]
    BY <2>5
  <2>. QED BY <2>6, <2>7
<1>2. h = [s \in Level(S, n + 1) |-> IF s = {} THEN 0 ELSE f[Pick(s)] + h[s \ {Pick(s)}]]
  BY <1>1
<1>3. Sums(h, f, Level(S, n + 1))
  <2>. HIDE DEF h
  <2>. QED BY <1>2 DEF Sums
<1>. QED BY <1>3

LEMMA SumsExist ==
  ASSUME NEW f, NEW S, IsFiniteSet(S)
  PROVE  \E g : Sums(g, f, SUBSET S)
<1>. DEFINE N == {n \in Nat : \E g : Sums(g, f, Level(S, n))}
<1>1. 0 \in N
  <2>. DEFINE g == [s \in Level(S, 0) |-> 0]
  <2>1. Level(S, 0) \subseteq {{}}
    <3>1. ASSUME NEW s \in SUBSET S, Cardinality(s) <= 0
          PROVE  s = {}
      <4>1. IsFiniteSet(s)
        BY FS_Subset
      <4>2. Cardinality(s) \in Nat
        BY <4>1, FS_CardinalityType
      <4>. QED BY <3>1, <4>1, <4>2, FS_EmptySet
    <3>. QED BY <3>1 DEF Level
  <2>2. g = [s \in Level(S, 0) |-> IF s = {} THEN 0 ELSE f[Pick(s)] + g[s \ {Pick(s)}]]
    BY <2>1
  <2>3. Sums(g, f, Level(S, 0))
    <3>. HIDE DEF g
    <3>. QED BY <2>2 DEF Sums
  <2>. QED BY <2>3
<1>2. \A n \in N : n + 1 \in N
  BY SumsLevel
<1>3. N = Nat
  <2>. HIDE DEF N
  <2>1. N \in SUBSET Nat
    BY DEF N
  <2>. QED BY <1>1, <1>2, <2>1, NatSet
<1>4. Cardinality(S) \in Nat
  BY FS_CardinalityType
<1>5. PICK g : Sums(g, f, Level(S, Cardinality(S)))
  BY <1>3, <1>4
<1>6. Level(S, Cardinality(S)) = SUBSET S
  BY FS_Subset DEF Level
<1>. QED BY <1>5, <1>6

\* Two families of sums agree where both are defined.
LEMMA SumsAgree ==
  ASSUME NEW f, NEW S, IsFiniteSet(S), NEW T \in SUBSET S, NEW g, NEW h,
         Sums(g, f, SUBSET S), Sums(h, f, SUBSET T)
  PROVE  \A s \in SUBSET T : g[s] = h[s]
<1>. DEFINE F == {s \in SUBSET T : g[s] # h[s]}
<1>1. SUFFICES ASSUME F # {} PROVE FALSE
  OBVIOUS
<1>2. IsFiniteSet(T)
  BY FS_Subset
<1>3. PICK U \in F : \A V \in F : V \subseteq U => V = U
  <2>. HIDE DEF F
  <2>1. F \in SUBSET SUBSET T
    BY DEF F
  <2>. QED BY <1>1, <1>2, <2>1, MinimalSubset
<1>4. U \in SUBSET T /\ U \in SUBSET S
  BY <1>3
<1>5. g[U] = IF U = {} THEN 0 ELSE f[Pick(U)] + g[U \ {Pick(U)}]
  BY <1>4 DEF Sums
<1>6. h[U] = IF U = {} THEN 0 ELSE f[Pick(U)] + h[U \ {Pick(U)}]
  BY <1>4 DEF Sums
<1>7. U # {}
  BY <1>3, <1>5, <1>6
<1>8. U \ {Pick(U)} \subseteq U /\ U \ {Pick(U)} # U
  BY <1>7, PickIn
<1>9. g[U \ {Pick(U)}] = h[U \ {Pick(U)}]
  BY <1>3, <1>4, <1>8
<1>. QED BY <1>3, <1>5, <1>6, <1>9

\* The library's sum satisfies its recursion.
LEMMA SumEquation ==
  ASSUME NEW f, NEW S, IsFiniteSet(S)
  PROVE  SumFunctionOnSet(f, S) =
           IF S = {} THEN 0 ELSE f[Pick(S)] + SumFunctionOnSet(f, S \ {Pick(S)})
<1>. DEFINE T == S \ {Pick(S)}
            g == CHOOSE x : Sums(x, f, SUBSET S)
            h == CHOOSE x : Sums(x, f, SUBSET T)
<1>1. T \in SUBSET S /\ IsFiniteSet(T)
  BY FS_Subset
<1>2. Sums(g, f, SUBSET S) /\ Sums(h, f, SUBSET T)
  <2>1. (\E x : Sums(x, f, SUBSET S)) /\ (\E x : Sums(x, f, SUBSET T))
    <3>. HIDE DEF T
    <3>. QED BY <1>1, SumsExist
  <2>. QED BY <2>1
<1>3. SumFunctionOnSet(f, S) = g[S] /\ SumFunctionOnSet(f, T) = h[T]
  BY SumChosen
<1>. HIDE DEF g, h
<1>4. g[S] = IF S = {} THEN 0 ELSE f[Pick(S)] + g[T]
  BY <1>2 DEF Sums
<1>5. g[T] = h[T]
  <2>. HIDE DEF T
  <2>. QED BY <1>1, <1>2, SumsAgree
<1>. QED BY <1>3, <1>4, <1>5

-----------------------------------------------------------------------------
(* What sums of integers satisfy.                                          *)

LEMMA SumEmpty ==
  ASSUME NEW f
  PROVE  SumFunctionOnSet(f, {}) = 0
  BY SumEquation, FS_EmptySet

LEMMA SumInt ==
  ASSUME NEW S, IsFiniteSet(S), NEW f, \A x \in S : f[x] \in Int
  PROVE  SumFunctionOnSet(f, S) \in Int
<1>. DEFINE F == {s \in SUBSET S : SumFunctionOnSet(f, s) \notin Int}
<1>1. SUFFICES ASSUME F # {} PROVE FALSE
  OBVIOUS
<1>2. PICK U \in F : \A V \in F : V \subseteq U => V = U
  <2>. HIDE DEF F
  <2>1. F \in SUBSET SUBSET S
    BY DEF F
  <2>. QED BY <1>1, <2>1, MinimalSubset
<1>3. U \in SUBSET S /\ IsFiniteSet(U)
  BY <1>2, FS_Subset
<1>4. U # {}
  <2>1. SumFunctionOnSet(f, {}) \in Int
    BY SumEmpty
  <2>. QED BY <1>2, <2>1
<1>5. Pick(U) \in U
  BY <1>4, PickIn
<1>6. SumFunctionOnSet(f, U) = f[Pick(U)] + SumFunctionOnSet(f, U \ {Pick(U)})
  BY <1>3, <1>4, SumEquation
<1>7. SumFunctionOnSet(f, U \ {Pick(U)}) \in Int
  <2>1. U \ {Pick(U)} \subseteq U /\ U \ {Pick(U)} # U
    BY <1>5
  <2>. QED BY <1>2, <1>3, <2>1
<1>8. f[Pick(U)] \in Int
  BY <1>3, <1>5
<1>. QED BY <1>2, <1>6, <1>7, <1>8

\* Any element can be taken from the sum first.
LEMMA SumRemove ==
  ASSUME NEW S, IsFiniteSet(S), NEW f, \A x \in S : f[x] \in Int, NEW y \in S
  PROVE  SumFunctionOnSet(f, S) = f[y] + SumFunctionOnSet(f, S \ {y})
<1>. DEFINE Bad(s, x) == SumFunctionOnSet(f, s) # f[x] + SumFunctionOnSet(f, s \ {x})
            F == {s \in SUBSET S : \E x \in s : Bad(s, x)}
<1>1. SUFFICES ASSUME F # {} PROVE FALSE
  OBVIOUS
<1>2. PICK U \in F : \A V \in F : V \subseteq U => V = U
  <2>. HIDE DEF F
  <2>1. F \in SUBSET SUBSET S
    BY DEF F
  <2>. QED BY <1>1, <2>1, MinimalSubset
<1>3. PICK x \in U : Bad(U, x)
  BY <1>2
<1>. DEFINE p == Pick(U)
<1>4. U \in SUBSET S /\ IsFiniteSet(U) /\ U # {} /\ p \in U
  BY <1>2, <1>3, FS_Subset, PickIn
<1>5. SumFunctionOnSet(f, U) = f[p] + SumFunctionOnSet(f, U \ {p})
  BY <1>4, SumEquation
<1>6. x # p
  BY <1>3, <1>5
<1>7. /\ U \ {p} \in SUBSET S /\ U \ {p} \subseteq U /\ U \ {p} # U /\ x \in U \ {p}
      /\ U \ {x} \in SUBSET S /\ U \ {x} \subseteq U /\ U \ {x} # U /\ p \in U \ {x}
  BY <1>3, <1>4, <1>6
<1>8. SumFunctionOnSet(f, U \ {p}) = f[x] + SumFunctionOnSet(f, (U \ {p}) \ {x})
  BY <1>2, <1>7
<1>9. SumFunctionOnSet(f, U \ {x}) = f[p] + SumFunctionOnSet(f, (U \ {x}) \ {p})
  BY <1>2, <1>7
<1>10. (U \ {x}) \ {p} = (U \ {p}) \ {x}
  OBVIOUS
<1>11. SumFunctionOnSet(f, (U \ {p}) \ {x}) \in Int
  <2>1. (U \ {p}) \ {x} \in SUBSET S
    BY <1>4
  <2>. QED BY <2>1, FS_Subset, SumInt
<1>12. f[x] \in Int /\ f[p] \in Int
  BY <1>3, <1>4
<1>13. f[p] + (f[x] + SumFunctionOnSet(f, (U \ {p}) \ {x}))
         = f[x] + (f[p] + SumFunctionOnSet(f, (U \ {p}) \ {x}))
  BY <1>11, <1>12
<1>. QED BY <1>3, <1>5, <1>8, <1>9, <1>10, <1>13

LEMMA SumAdd ==
  ASSUME NEW S, IsFiniteSet(S), NEW f, \A x \in S : f[x] \in Int,
         NEW U \in SUBSET S, NEW y \in S \ U
  PROVE  SumFunctionOnSet(f, U \cup {y}) = f[y] + SumFunctionOnSet(f, U)
<1>1. IsFiniteSet(U \cup {y}) /\ \A x \in U \cup {y} : f[x] \in Int
  BY FS_Subset, FS_AddElement
<1>2. (U \cup {y}) \ {y} = U
  OBVIOUS
<1>. QED BY <1>1, <1>2, SumRemove

\* Two sets without an element in common.
LEMMA SumUnion ==
  ASSUME NEW S, IsFiniteSet(S), NEW f, \A x \in S : f[x] \in Int,
         NEW T \in SUBSET S, NEW V \in SUBSET S, T \cap V = {}
  PROVE  SumFunctionOnSet(f, T \cup V) = SumFunctionOnSet(f, T) + SumFunctionOnSet(f, V)
<1>. DEFINE F == {U \in SUBSET T : SumFunctionOnSet(f, U \cup V)
                                     = SumFunctionOnSet(f, U) + SumFunctionOnSet(f, V)}
<1>1. \A U \in SUBSET S : SumFunctionOnSet(f, U) \in Int
  BY FS_Subset, SumInt
<1>2. {} \in F
  BY <1>1, SumEmpty
<1>3. ASSUME NEW U \in SUBSET T, NEW y \in T \ U, U \in F
      PROVE  U \cup {y} \in F
  <2>1. SumFunctionOnSet(f, U \cup {y}) = f[y] + SumFunctionOnSet(f, U)
    BY SumAdd
  <2>2. SumFunctionOnSet(f, (U \cup V) \cup {y}) = f[y] + SumFunctionOnSet(f, U \cup V)
    <3>1. U \cup V \in SUBSET S /\ y \in S \ (U \cup V)
      OBVIOUS
    <3>. QED BY <3>1, SumAdd
  <2>3. (U \cup {y}) \cup V = (U \cup V) \cup {y}
    OBVIOUS
  <2>4. f[y] \in Int /\ SumFunctionOnSet(f, U) \in Int /\ SumFunctionOnSet(f, V) \in Int
    BY <1>1
  <2>5. SumFunctionOnSet(f, U \cup V) = SumFunctionOnSet(f, U) + SumFunctionOnSet(f, V)
    BY <1>3
  <2>6. f[y] + (SumFunctionOnSet(f, U) + SumFunctionOnSet(f, V))
          = (f[y] + SumFunctionOnSet(f, U)) + SumFunctionOnSet(f, V)
    BY <2>4
  <2>7. SumFunctionOnSet(f, (U \cup {y}) \cup V)
          = SumFunctionOnSet(f, U \cup {y}) + SumFunctionOnSet(f, V)
    BY <2>1, <2>2, <2>3, <2>5, <2>6
  <2>. QED BY <2>7
<1>4. T \in F
  <2>. HIDE DEF F
  <2>. QED BY <1>2, <1>3, FS_Subset, SubsetInduction
<1>. QED BY <1>4

\* A sum of smaller terms is smaller, and one of the same terms the same.
LEMMA SumMonotone ==
  ASSUME NEW S, IsFiniteSet(S), NEW f, NEW g,
         \A x \in S : f[x] \in Int /\ g[x] \in Int /\ f[x] <= g[x]
  PROVE  SumFunctionOnSet(f, S) <= SumFunctionOnSet(g, S)
<1>. DEFINE F == {U \in SUBSET S : SumFunctionOnSet(f, U) <= SumFunctionOnSet(g, U)}
<1>1. {} \in F
  BY SumEmpty
<1>2. ASSUME NEW U \in SUBSET S, NEW y \in S \ U, U \in F
      PROVE  U \cup {y} \in F
  <2>1. /\ SumFunctionOnSet(f, U \cup {y}) = f[y] + SumFunctionOnSet(f, U)
        /\ SumFunctionOnSet(g, U \cup {y}) = g[y] + SumFunctionOnSet(g, U)
    BY SumAdd
  <2>2. SumFunctionOnSet(f, U) \in Int /\ SumFunctionOnSet(g, U) \in Int
    BY FS_Subset, SumInt
  <2>3. SumFunctionOnSet(f, U) <= SumFunctionOnSet(g, U)
    BY <1>2
  <2>4. SumFunctionOnSet(f, U \cup {y}) <= SumFunctionOnSet(g, U \cup {y})
    BY <2>1, <2>2, <2>3
  <2>. QED BY <2>4
<1>3. S \in F
  <2>. HIDE DEF F
  <2>. QED BY <1>1, <1>2, SubsetInduction
<1>. QED BY <1>3

LEMMA SumSame ==
  ASSUME NEW S, IsFiniteSet(S), NEW f, NEW g,
         \A x \in S : f[x] \in Int /\ f[x] = g[x]
  PROVE  SumFunctionOnSet(f, S) = SumFunctionOnSet(g, S)
<1>1. SumFunctionOnSet(f, S) <= SumFunctionOnSet(g, S)
  BY SumMonotone
<1>2. SumFunctionOnSet(g, S) <= SumFunctionOnSet(f, S)
  BY SumMonotone
<1>3. SumFunctionOnSet(f, S) \in Int /\ SumFunctionOnSet(g, S) \in Int
  BY SumInt
<1>. QED BY <1>1, <1>2, <1>3

\* A sum of terms that are not negative is not, and is as large as each term.
LEMMA SumNat ==
  ASSUME NEW S, IsFiniteSet(S), NEW f, \A x \in S : f[x] \in Nat
  PROVE  /\ SumFunctionOnSet(f, S) \in Nat
         /\ \A x \in S : f[x] <= SumFunctionOnSet(f, S)
<1>. DEFINE F == {U \in SUBSET S : SumFunctionOnSet(f, U) \in Nat}
<1>1. {} \in F
  BY SumEmpty
<1>2. ASSUME NEW U \in SUBSET S, NEW y \in S \ U, U \in F
      PROVE  U \cup {y} \in F
  <2>1. SumFunctionOnSet(f, U \cup {y}) = f[y] + SumFunctionOnSet(f, U)
    BY SumAdd
  <2>2. f[y] \in Nat /\ SumFunctionOnSet(f, U) \in Nat
    BY <1>2
  <2>3. SumFunctionOnSet(f, U \cup {y}) \in Nat
    BY <2>1, <2>2
  <2>. QED BY <2>3
<1>3. \A U \in SUBSET S : U \in F
  <2>. HIDE DEF F
  <2>1. SUFFICES ASSUME NEW U \in SUBSET S PROVE U \in F
    OBVIOUS
  <2>. QED BY <1>1, <1>2, FS_Subset, SubsetInduction
<1>4. ASSUME NEW x \in S
      PROVE  f[x] <= SumFunctionOnSet(f, S)
  <2>1. SumFunctionOnSet(f, S) = f[x] + SumFunctionOnSet(f, S \ {x})
    BY SumRemove
  <2>2. SumFunctionOnSet(f, S \ {x}) \in Nat
    BY <1>3
  <2>. QED BY <2>1, <2>2
<1>. QED BY <1>3, <1>4

\* Sums are linear.
LEMMA SumPlus ==
  ASSUME NEW S, IsFiniteSet(S), NEW f, NEW g, NEW h,
         \A x \in S : f[x] \in Int /\ g[x] \in Int /\ h[x] = f[x] + g[x]
  PROVE  SumFunctionOnSet(h, S) = SumFunctionOnSet(f, S) + SumFunctionOnSet(g, S)
<1>. DEFINE F == {U \in SUBSET S : SumFunctionOnSet(h, U)
                                     = SumFunctionOnSet(f, U) + SumFunctionOnSet(g, U)}
<1>1. {} \in F
  BY SumEmpty
<1>2. ASSUME NEW U \in SUBSET S, NEW y \in S \ U, U \in F
      PROVE  U \cup {y} \in F
  <2>1. /\ SumFunctionOnSet(f, U \cup {y}) = f[y] + SumFunctionOnSet(f, U)
        /\ SumFunctionOnSet(g, U \cup {y}) = g[y] + SumFunctionOnSet(g, U)
        /\ SumFunctionOnSet(h, U \cup {y}) = h[y] + SumFunctionOnSet(h, U)
    <3>1. \A x \in S : h[x] \in Int
      OBVIOUS
    <3>. QED BY <3>1, SumAdd
  <2>2. SumFunctionOnSet(f, U) \in Int /\ SumFunctionOnSet(g, U) \in Int
    BY FS_Subset, SumInt
  <2>3. SumFunctionOnSet(h, U) = SumFunctionOnSet(f, U) + SumFunctionOnSet(g, U)
    BY <1>2
  <2>4. f[y] \in Int /\ g[y] \in Int /\ h[y] = f[y] + g[y]
    OBVIOUS
  <2>5. (f[y] + g[y]) + (SumFunctionOnSet(f, U) + SumFunctionOnSet(g, U))
          = (f[y] + SumFunctionOnSet(f, U)) + (g[y] + SumFunctionOnSet(g, U))
    BY <2>2, <2>4
  <2>6. SumFunctionOnSet(h, U \cup {y})
          = SumFunctionOnSet(f, U \cup {y}) + SumFunctionOnSet(g, U \cup {y})
    BY <2>1, <2>3, <2>4, <2>5
  <2>. QED BY <2>6
<1>3. S \in F
  <2>. HIDE DEF F
  <2>. QED BY <1>1, <1>2, SubsetInduction
<1>. QED BY <1>3

LEMMA SumTimes ==
  ASSUME NEW S, IsFiniteSet(S), NEW f, NEW g, NEW k \in Int,
         \A x \in S : f[x] \in Int /\ g[x] = k * f[x]
  PROVE  SumFunctionOnSet(g, S) = k * SumFunctionOnSet(f, S)
<1>. DEFINE F == {U \in SUBSET S : SumFunctionOnSet(g, U) = k * SumFunctionOnSet(f, U)}
<1>1. {} \in F
  BY SumEmpty
<1>2. ASSUME NEW U \in SUBSET S, NEW y \in S \ U, U \in F
      PROVE  U \cup {y} \in F
  <2>1. /\ SumFunctionOnSet(f, U \cup {y}) = f[y] + SumFunctionOnSet(f, U)
        /\ SumFunctionOnSet(g, U \cup {y}) = g[y] + SumFunctionOnSet(g, U)
    <3>1. \A x \in S : g[x] \in Int
      OBVIOUS
    <3>. QED BY <3>1, SumAdd
  <2>2. SumFunctionOnSet(f, U) \in Int
    BY FS_Subset, SumInt
  <2>3. k * f[y] + k * SumFunctionOnSet(f, U) = k * (f[y] + SumFunctionOnSet(f, U))
    BY <2>2
  <2>. QED BY <1>2, <2>1, <2>3
<1>3. S \in F
  <2>. HIDE DEF F
  <2>. QED BY <1>1, <1>2, SubsetInduction
<1>. QED BY <1>3

\* A constant term.
LEMMA SumConstant ==
  ASSUME NEW S, IsFiniteSet(S), NEW f, NEW k \in Int, \A x \in S : f[x] = k
  PROVE  SumFunctionOnSet(f, S) = k * Cardinality(S)
<1>. DEFINE F == {U \in SUBSET S : SumFunctionOnSet(f, U) = k * Cardinality(U)}
<1>1. {} \in F
  BY SumEmpty, FS_EmptySet
<1>2. ASSUME NEW U \in SUBSET S, NEW y \in S \ U, U \in F
      PROVE  U \cup {y} \in F
  <2>1. SumFunctionOnSet(f, U \cup {y}) = k + SumFunctionOnSet(f, U)
    BY SumAdd
  <2>2. Cardinality(U \cup {y}) = Cardinality(U) + 1 /\ Cardinality(U) \in Nat
    BY FS_Subset, FS_AddElement, FS_CardinalityType
  <2>3. k * (Cardinality(U) + 1) = k + k * Cardinality(U)
    BY <2>2
  <2>. QED BY <1>2, <2>1, <2>2, <2>3
<1>3. S \in F
  <2>. HIDE DEF F
  <2>. QED BY <1>1, <1>2, SubsetInduction
<1>. QED BY <1>3

-----------------------------------------------------------------------------
(* Inequalities.                                                           *)

Abs(x) == IF x < 0 THEN -x ELSE x

LEMMA SumAbs ==
  ASSUME NEW S, IsFiniteSet(S), NEW f, NEW a, \A x \in S : f[x] \in Int /\ a[x] = Abs(f[x])
  PROVE  Abs(SumFunctionOnSet(f, S)) <= SumFunctionOnSet(a, S)
<1>. DEFINE F == {U \in SUBSET S : Abs(SumFunctionOnSet(f, U)) <= SumFunctionOnSet(a, U)}
<1>1. {} \in F
  BY SumEmpty DEF Abs
<1>2. ASSUME NEW U \in SUBSET S, NEW y \in S \ U, U \in F
      PROVE  U \cup {y} \in F
  <2>1. /\ SumFunctionOnSet(f, U \cup {y}) = f[y] + SumFunctionOnSet(f, U)
        /\ SumFunctionOnSet(a, U \cup {y}) = a[y] + SumFunctionOnSet(a, U)
    <3>1. \A x \in S : a[x] \in Int
      BY DEF Abs
    <3>. QED BY <3>1, SumAdd
  <2>2. SumFunctionOnSet(f, U) \in Int /\ SumFunctionOnSet(a, U) \in Int
    <3>1. \A x \in U : a[x] \in Int
      BY DEF Abs
    <3>. QED BY <3>1, FS_Subset, SumInt
  <2>3. Abs(SumFunctionOnSet(f, U)) <= SumFunctionOnSet(a, U)
    BY <1>2
  <2>4. Abs(SumFunctionOnSet(f, U \cup {y})) <= SumFunctionOnSet(a, U \cup {y})
    <3>1. f[y] \in Int /\ a[y] = Abs(f[y])
      OBVIOUS
    <3>. QED BY <2>1, <2>2, <2>3, <3>1 DEF Abs
  <2>. QED BY <2>4
<1>3. S \in F
  <2>. HIDE DEF F
  <2>. QED BY <1>1, <1>2, SubsetInduction
<1>. QED BY <1>3

\* A step of the next lemma: if t*t <= n*q then (t + a)^2 <= (n + 1) * (q + a^2).
LEMMA SquareStep ==
  ASSUME NEW t \in Nat, NEW a \in Nat, NEW n \in Nat, NEW q \in Nat, t * t <= n * q
  PROVE  (t + a) * (t + a) <= (n + 1) * (q + a * a)
<1>1. (t + a) * (t + a) = t * t + 2 * (t * a) + a * a
  OBVIOUS
<1>2. (n + 1) * (q + a * a) = n * q + n * (a * a) + q + a * a
  OBVIOUS
<1>3. 2 * (t * a) <= n * (a * a) + q
  <2>1. CASE n = 0
    <3>1. t * t <= 0
      BY <2>1
    <3>2. t = 0
      <4>1. SUFFICES ASSUME t >= 1 PROVE FALSE
        OBVIOUS
      <4>2. PICK r \in Nat : t = r + 1
        <5>1. t - 1 \in Nat /\ t = (t - 1) + 1
          BY <4>1
        <5>. QED BY <5>1
      <4>3. t * t = r * r + 2 * r + 1 /\ r * r \in Nat
        BY <4>2
      <4>. QED BY <3>1, <4>3
    <3>3. t * a = 0 /\ n * (a * a) = 0
      BY <2>1, <3>2
    <3>. QED BY <3>3
  <2>2. CASE n # 0
    <3>. DEFINE d == t - n * a
                z == n * (a * a) + q - 2 * (t * a)
    <3>1. d * d >= 0
      <4>1. d \in Int
        OBVIOUS
      <4>. HIDE DEF d
      <4>2. \A i \in Int : i * i >= 0
        BY SMT
      <4>. QED BY <4>1, <4>2
    <3>2. d * d = t * t - 2 * (n * (t * a)) + (n * a) * (n * a)
      OBVIOUS
    <3>3. (n * a) * (n * a) = n * (n * (a * a))
      OBVIOUS
    <3>4. n * z = n * (n * (a * a)) + n * q - 2 * (n * (t * a))
      OBVIOUS
    <3>5. n * z >= 0
      <4>1. /\ t * t \in Int /\ n * q \in Int /\ n * (t * a) \in Int
            /\ n * (n * (a * a)) \in Int
        OBVIOUS
      <4>. HIDE DEF z, d
      <4>. QED BY <3>1, <3>2, <3>3, <3>4, <4>1
    <3>6. z \in Int
      OBVIOUS
    <3>7. z >= 0
      <4>. HIDE DEF z
      <4>1. SUFFICES ASSUME z <= -1 PROVE FALSE
        BY <3>6
      <4>2. \A m \in Nat \ {0} : \A i \in Nat \ {0} : m * i >= 1
        BY SMT
      <4>3. -z \in Nat \ {0} /\ n * z = -(n * (-z))
        BY <3>6, <4>1
      <4>4. n * (-z) >= 1 /\ n * (-z) \in Int
        BY <2>2, <4>2, <4>3
      <4>. QED BY <3>5, <4>3, <4>4
    <3>8. n * (a * a) \in Int /\ t * a \in Int
      OBVIOUS
    <3>. QED BY <3>7, <3>8
  <2>. QED BY <2>1, <2>2
<1>4. /\ t * t \in Int /\ n * q \in Int /\ t * a \in Int /\ n * (a * a) \in Int /\ a * a \in Int
  OBVIOUS
<1>. QED BY <1>1, <1>2, <1>3, <1>4

\* Cauchy and Schwarz: the square of a sum is at most the number of terms times the
\* sum of the squares.
LEMMA SumSquares ==
  ASSUME NEW S, IsFiniteSet(S), NEW a, NEW q, \A x \in S : a[x] \in Nat /\ q[x] = a[x] * a[x]
  PROVE  SumFunctionOnSet(a, S) * SumFunctionOnSet(a, S)
           <= Cardinality(S) * SumFunctionOnSet(q, S)
<1>. DEFINE Holds(U) == SumFunctionOnSet(a, U) * SumFunctionOnSet(a, U)
                          <= Cardinality(U) * SumFunctionOnSet(q, U)
            F == {U \in SUBSET S : Holds(U)}
<1>1. {} \in F
  <2>1. SumFunctionOnSet(a, {}) = 0 /\ SumFunctionOnSet(q, {}) = 0 /\ Cardinality({}) = 0
    BY SumEmpty, FS_EmptySet
  <2>2. Holds({})
    BY <2>1
  <2>. QED BY <2>2
<1>0. \A x \in S : q[x] \in Nat /\ q[x] \in Int /\ a[x] \in Int
  BY SMT
<1>2. ASSUME NEW U \in SUBSET S, NEW y \in S \ U, U \in F
      PROVE  U \cup {y} \in F
  <2>1. /\ SumFunctionOnSet(a, U \cup {y}) = a[y] + SumFunctionOnSet(a, U)
        /\ SumFunctionOnSet(q, U \cup {y}) = q[y] + SumFunctionOnSet(q, U)
    BY <1>0, SumAdd
  <2>2. SumFunctionOnSet(a, U) \in Nat /\ SumFunctionOnSet(q, U) \in Nat
    BY <1>0, FS_Subset, SumNat
  <2>3. Cardinality(U \cup {y}) = Cardinality(U) + 1 /\ Cardinality(U) \in Nat
    BY FS_Subset, FS_AddElement, FS_CardinalityType
  <2>4. Holds(U)
    BY <1>2
  <2>. DEFINE t == SumFunctionOnSet(a, U)
              r == SumFunctionOnSet(q, U)
              n == Cardinality(U)
  <2>5. (t + a[y]) * (t + a[y]) <= (n + 1) * (r + a[y] * a[y])
    <3>1. t \in Nat /\ r \in Nat /\ n \in Nat /\ a[y] \in Nat /\ t * t <= n * r
      BY <2>2, <2>3, <2>4
    <3>. HIDE DEF t, r, n
    <3>. QED BY <3>1, SquareStep
  <2>6. /\ SumFunctionOnSet(a, U \cup {y}) = t + a[y]
        /\ SumFunctionOnSet(q, U \cup {y}) = r + a[y] * a[y]
    <3>1. a[y] \in Nat /\ q[y] \in Int /\ q[y] = a[y] * a[y]
      BY <1>0
    <3>. QED BY <2>1, <2>2, <3>1
  <2>7. Holds(U \cup {y})
    BY <2>3, <2>5, <2>6
  <2>. QED BY <2>7
<1>3. S \in F
  <2>. HIDE DEF F
  <2>. QED BY <1>1, <1>2, SubsetInduction
<1>. QED BY <1>3

AbsOf(a, f, S) == \A x \in S : f[x] \in Int /\ a[x] = Abs(f[x])
Partition(B, n, S) ==
  /\ \A i \in 1..n : B[i] \in SUBSET S
  /\ \A x \in S : \E i \in 1..n : x \in B[i]
  /\ \A i, k \in 1..n : i # k => B[i] \cap B[k] = {}
Distances(G, f, B, n) == \A i \in 1..n : G[i] = Abs(SumFunctionOnSet(f, B[i]))

\* Of sets that do not overlap: the distances of their sums from 0 add up to no less than
\* that of the sum over all of them, and to no more than all terms' distances do.
LEMMA SumPartition ==
  ASSUME NEW S, IsFiniteSet(S), NEW f, NEW a, AbsOf(a, f, S),
         NEW n \in Nat, NEW B, Partition(B, n, S), NEW G, Distances(G, f, B, n)
  PROVE  /\ Abs(SumFunctionOnSet(f, S)) <= SumFunctionOnSet(G, 1..n)
         /\ SumFunctionOnSet(G, 1..n) <= SumFunctionOnSet(a, S)
         /\ SumFunctionOnSet(G, 1..n) \in Nat
<1>. USE DEF AbsOf, Partition, Distances
<1>. DEFINE U(k) == {x \in S : \E i \in 1..k : x \in B[i]}
            Holds(k) == /\ Abs(SumFunctionOnSet(f, U(k))) <= SumFunctionOnSet(G, 1..k)
                        /\ SumFunctionOnSet(G, 1..k) <= SumFunctionOnSet(a, U(k))
            N == {k \in Nat : k <= n => Holds(k)}
<1>1. \A x \in S : a[x] \in Int /\ a[x] \in Nat
  BY DEF Abs
<1>2. \A V \in SUBSET S : /\ SumFunctionOnSet(f, V) \in Int /\ SumFunctionOnSet(a, V) \in Int
                          /\ Abs(SumFunctionOnSet(f, V)) <= SumFunctionOnSet(a, V)
  <2>1. SUFFICES ASSUME NEW V \in SUBSET S
                 PROVE  /\ SumFunctionOnSet(f, V) \in Int /\ SumFunctionOnSet(a, V) \in Int
                        /\ Abs(SumFunctionOnSet(f, V)) <= SumFunctionOnSet(a, V)
    OBVIOUS
  <2>2. IsFiniteSet(V)
    BY FS_Subset
  <2>. QED BY <1>1, <2>2, SumInt, SumAbs
<1>3. \A i \in 1..n : G[i] \in Int /\ G[i] \in Nat
  BY <1>2 DEF Abs
<1>4. \A k \in Nat : k <= n => IsFiniteSet(1..k) /\ SumFunctionOnSet(G, 1..k) \in Nat
  <2>1. SUFFICES ASSUME NEW k \in Nat, k <= n
                 PROVE  IsFiniteSet(1..k) /\ SumFunctionOnSet(G, 1..k) \in Nat
    OBVIOUS
  <2>2. IsFiniteSet(1..k)
    BY FS_Interval
  <2>3. \A i \in 1..k : G[i] \in Nat
    BY <1>3, <2>1
  <2>. QED BY <2>2, <2>3, SumNat
<1>5. 0 \in N
  <2>1. U(0) = {} /\ 1..0 = {}
    OBVIOUS
  <2>2. SumFunctionOnSet(f, {}) = 0 /\ SumFunctionOnSet(a, {}) = 0 /\ SumFunctionOnSet(G, {}) = 0
    BY SumEmpty
  <2>3. Holds(0)
    BY <2>1, <2>2 DEF Abs
  <2>. QED BY <2>3
<1>6. ASSUME NEW k \in N
      PROVE  k + 1 \in N
  <2>1. SUFFICES ASSUME k + 1 <= n PROVE Holds(k + 1)
    OBVIOUS
  <2>2. k \in Nat /\ k <= n /\ k + 1 \in 1..n
    BY <2>1
  <2>3. Holds(k)
    BY <2>2
  <2>4. U(k + 1) = U(k) \cup B[k + 1] /\ U(k) \cap B[k + 1] = {}
    <3>1. \A i \in 1..(k + 1) : i = k + 1 \/ i \in 1..k
      BY <2>2
    <3>2. \A i \in 1..k : i \in 1..(k + 1) /\ i \in 1..n /\ i # k + 1
      BY <2>1, <2>2
    <3>3. k + 1 \in 1..(k + 1) /\ B[k + 1] \subseteq S
      BY <2>2
    <3>4. U(k + 1) = U(k) \cup B[k + 1]
      BY <3>1, <3>2, <3>3
    <3>5. U(k) \cap B[k + 1] = {}
      BY <2>2, <3>2
    <3>. QED BY <3>4, <3>5
  <2>5. U(k) \in SUBSET S /\ B[k + 1] \in SUBSET S
    BY <2>2
  <2>. HIDE DEF U
  <2>6. /\ SumFunctionOnSet(f, U(k + 1)) = SumFunctionOnSet(f, U(k)) + SumFunctionOnSet(f, B[k + 1])
        /\ SumFunctionOnSet(a, U(k + 1)) = SumFunctionOnSet(a, U(k)) + SumFunctionOnSet(a, B[k + 1])
    <3>. DEFINE V == U(k)
                W == B[k + 1]
    <3>1. V \in SUBSET S /\ W \in SUBSET S /\ V \cap W = {}
      BY <2>4, <2>5
    <3>4. (\A x \in S : f[x] \in Int) /\ (\A x \in S : a[x] \in Int)
      BY <1>1
    <3>. HIDE DEF V, W
    <3>2. SumFunctionOnSet(f, V \cup W) = SumFunctionOnSet(f, V) + SumFunctionOnSet(f, W)
      BY <3>1, <3>4, SumUnion
    <3>3. SumFunctionOnSet(a, V \cup W) = SumFunctionOnSet(a, V) + SumFunctionOnSet(a, W)
      BY <3>1, <3>4, SumUnion
    <3>. QED BY <2>4, <3>2, <3>3 DEF V, W
  <2>7. SumFunctionOnSet(G, 1..(k + 1)) = G[k + 1] + SumFunctionOnSet(G, 1..k)
    <3>. DEFINE T == 1..(k + 1)
                V == 1..k
                y == k + 1
    <3>1. T = V \cup {y} /\ V \in SUBSET T /\ y \in T \ V
      BY <2>2
    <3>2. IsFiniteSet(T) /\ \A i \in T : G[i] \in Int
      BY <1>3, <1>4, <2>1, <2>2
    <3>. HIDE DEF T, V, y
    <3>3. SumFunctionOnSet(G, V \cup {y}) = G[y] + SumFunctionOnSet(G, V)
      BY <3>1, <3>2, SumAdd
    <3>. QED BY <3>1, <3>3 DEF T, V, y
  <2>8. /\ G[k + 1] = Abs(SumFunctionOnSet(f, B[k + 1]))
        /\ SumFunctionOnSet(f, B[k + 1]) \in Int /\ SumFunctionOnSet(a, B[k + 1]) \in Int
        /\ Abs(SumFunctionOnSet(f, B[k + 1])) <= SumFunctionOnSet(a, B[k + 1])
        /\ SumFunctionOnSet(f, U(k)) \in Int /\ SumFunctionOnSet(a, U(k)) \in Int
        /\ SumFunctionOnSet(G, 1..k) \in Int
    BY <1>2, <1>4, <2>2, <2>5
  <2>. QED BY <2>3, <2>6, <2>7, <2>8 DEF Abs
<1>7. n \in N
  <2>. HIDE DEF N
  <2>1. N \in SUBSET Nat
    BY DEF N
  <2>. QED BY <1>5, <1>6, <2>1, NatSet
<1>8. Holds(n)
  <2>. HIDE DEF Holds
  <2>. QED BY <1>7
<1>9. U(n) = S
  OBVIOUS
<1>. HIDE DEF U
<1>. QED BY <1>4, <1>8, <1>9
================================================================================
