------------------------------ MODULE Computations ------------------------------
(***************************************************************************)
(* What the API computes from its input alone: the reports on a holdout,   *)
(* the drift report and the parsing of payloads.  They share no state; a   *)
(* behaviour runs one of the three.                                        *)
(***************************************************************************)
EXTENDS HoldoutReports, DriftReport, Ingestion

VARIABLE running

vars == <<holdoutVars, driftVars, ingestionVars, running>>

Init == HoldoutInit /\ DriftInit /\ IngestionInit /\ running = "any"

Runs(name) == running \in {"any", name} /\ running' = name

HoldoutRuns == Runs("holdout") /\ HoldoutNext /\ UNCHANGED <<driftVars, ingestionVars>>
DriftRuns == Runs("drift") /\ DriftNext /\ UNCHANGED <<holdoutVars, ingestionVars>>
IngestionRuns == Runs("ingestion") /\ IngestionNext /\ UNCHANGED <<holdoutVars, driftVars>>

Next == HoldoutRuns \/ DriftRuns \/ IngestionRuns
Spec == Init /\ [][Next]_vars
================================================================================
