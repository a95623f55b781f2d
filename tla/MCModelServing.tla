---------------------------- MODULE MCModelServing ----------------------------
EXTENDS ModelServing, TLC

CONSTANTS r1, r2

ArrivalsValue ==
  [inprocess |-> {<<"score", 1>>, <<"batch", 2>>, <<"batch", 3>>, <<"job", 2>>},
   redis |-> {<<"job", 1>>}]
DeploymentsValue == {<<TRUE, "inprocess">>, <<FALSE, "redis">>}
Symmetry == Permutations(Requests)
================================================================================
