----------------------------- MODULE MCComputations -----------------------------
EXTENDS Computations, TLC

CONSTANTS s1, s2, s3, amount, night

DeclineValue == <<9, 10>>
\* The first baseline is cut into two bins, the second, of two values, into one.
BaselineValue == [f \in Features |-> IF f = amount THEN <<1, 2, 3, 4, 5>> ELSE <<0, 0, 0, 1>>]
ValuesValue == [f \in Features |-> IF f = amount THEN {0, 1, 3, 9} ELSE {0, 1}]
LnValue == <<0, 693, 1099, 1386, 1609>>
Symmetry == Permutations({s1, s2, s3})
================================================================================
