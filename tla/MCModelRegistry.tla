--------------------------- MODULE MCModelRegistry ---------------------------
(* Instances of ModelRegistry for TLC: models A, B and C, requests r1 and r2, *)
(* given as model values in the configurations.                               *)
EXTENDS ModelRegistry
==============================================================================
