----------------------------- MODULE ModelServing -----------------------------
(***************************************************************************)
(* Where the models that score come from: the API process serves once it   *)
(* has loaded a bundle, and a job of the redis backend is scored with the  *)
(* bundle that its worker loads from the files.                            *)
(***************************************************************************)
EXTENDS ModelLoader, ModelProvider

ASSUME WorkersAssumption == Workers = Requests

vars == <<loaderVars, providerVars>>

Up == at[Api] = "ready"

\* Once an API process that runs its own jobs is up nothing reads the files: it
\* is taken from there, and what happens to them is left out.
Init == ProviderInit /\ IF backend = "redis" THEN LoaderInit ELSE LoadedInit

\* The start-up of the API, the training script, and what workers read.
Load == backend = "redis" /\ LoaderNext /\ UNCHANGED providerVars

Promote == Up /\ (SwapBundle \/ DropExplainer) /\ UNCHANGED loaderVars

Request == Up /\ (\E r \in Requests : ClientArrives(r) \/ RequestStep(r)) /\ UNCHANGED loaderVars

\* A worker takes a job from the queue, and goes on when load_model_bundle has
\* returned or raised.
WorkerStarts(r) == pc[r] = "load" /\ at[r] = "idle" /\ BeginLoad(r) /\ UNCHANGED providerVars
WorkerLoaded(r) == at[r] = "ready" /\ TakeFileBundle(r) /\ UNCHANGED loaderVars
WorkerFails(r) == at[r] = "failed" /\ LoadRaises(r) /\ UNCHANGED loaderVars

Next ==
  \/ Load
  \/ Promote
  \/ Request
  \/ \E r \in Requests : WorkerStarts(r) \/ WorkerLoaded(r) \/ WorkerFails(r)

Spec == Init /\ [][Next]_vars

TypeOK == LoaderTypeOK /\ ProviderTypeOK

\* README.md: the worker "rebuilds its own ... model from settings": unless a model
\* was promoted, the files changed after the start-up or something failed, both
\* backends score with the same model, under the same name.
BackendsAgree ==
  \A r \in Requests :
    rows[r] # <<>> /\ got[r] = File /\ served = 0 /\ faults = 0
    /\ {Api, r} \cap disturbed = {} =>
      model[r] = model[Api] /\ label[r] = label[Api]
================================================================================
