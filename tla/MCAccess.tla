------------------------------- MODULE MCAccess -------------------------------
EXTENDS Access, TLC

CONSTANTS p1, p2, boot, ann, key, none, foreign

\* Accounts, without a limit; a limit, on two clients; both, a little; two replicas
\* that start together; and keys of every kind.
DemandValue ==
  0 :> [replicas |-> {p1}, requests |-> 4, keys |-> {}, routes |-> {"login", "users"}]
    @@ 1 :> [replicas |-> {p1}, requests |-> 4, keys |-> {key}, routes |-> {"predict"}]
    @@ 2 :> [replicas |-> {p1}, requests |-> 3, keys |-> {}, routes |-> {"login", "manage"}]
    @@ 3 :> [replicas |-> {p1, p2}, requests |-> 2, keys |-> {key},
             routes |-> {"login", "users", "report", "health"}]
    @@ 4 :> [replicas |-> {p1}, requests |-> 2, keys |-> {key, none, foreign},
             routes |-> {"login", "report", "manage"}]
================================================================================
