------------------------------ MODULE ModelLoader ------------------------------
(***************************************************************************)
(* load_model_bundle: how a process gets its model from two files, the     *)
(* artifact and its metadata, which train_baseline_model writes one after  *)
(* the other.  The API process loads at start-up, and may train first; an  *)
(* RQ worker loads for each job; scripts/train_model.py trains beside      *)
(* them.  A file that is being written, or whose writing has failed, is    *)
(* damaged.  A trained model is the number of its training, and so is the  *)
(* metadata written with it, whose metrics tell it from others.            *)
(***************************************************************************)
EXTENDS Integers, FiniteSets

CONSTANTS
  Api,           \* the API process
  Workers,       \* the loads of worker jobs
  Script,        \* scripts/train_model.py
  MaxTrainings,  \* bound: trainings
  MaxFaults,     \* bound: trainings that fail and processes that die
  Missing,       \* no file
  Damaged,       \* a file that is not a model, or not JSON
  Fallback       \* RuleBasedFraudModel, and its version

ASSUME ProcessesAssumption ==
  /\ Api \notin Workers /\ Script \notin Workers /\ Api # Script
  /\ {Missing, Damaged, Fallback} \cap Nat = {}
  /\ Missing # Damaged /\ Missing # Fallback /\ Damaged # Fallback
ASSUME LoaderBoundsAssumption == MaxTrainings \in Nat /\ MaxFaults \in Nat

VARIABLES
  trainIfMissing,  \* settings.train_baseline_if_missing
  artifact,        \* the artifact file
  metadata,        \* the metadata file
  trainings,       \* how many artifacts have been dumped
  at,              \* what each process does next
  model,           \* per load: the model it has read
  label,           \* per load: the training whose metadata describes the bundle
  disturbed,       \* loads that another process's training has overlapped
  faults

files == <<artifact, metadata>>
bundles == <<model, label>>
loaderVars == <<trainIfMissing, files, trainings, at, bundles, disturbed, faults>>

Loaders == {Api} \cup Workers
Processes == Loaders \cup {Script}
Training == {"dump", "dumping", "describe", "describing"}

Move(p, next) == at' = [at EXCEPT ![p] = next]

\* A training by p may come between the two reads of any other load.
Disturb(p) == disturbed' = disturbed \cup (Loaders \ {p})

-----------------------------------------------------------------------------
(* train_baseline_model.                                                   *)

\* The operators run one training at a time.
BeginTraining(p) ==
  /\ at[p] = "train"
  /\ trainings < MaxTrainings
  /\ \A q \in Processes : at[q] \notin Training
  /\ Move(p, "dump")
  /\ Disturb(p)
  /\ UNCHANGED <<trainIfMissing, files, trainings, bundles, faults>>

BeginDump(p) ==
  /\ at[p] = "dump"
  /\ artifact' = Damaged
  /\ Move(p, "dumping")
  /\ Disturb(p)
  /\ UNCHANGED <<trainIfMissing, metadata, trainings, bundles, faults>>

EndDump(p) ==
  /\ at[p] = "dumping"
  /\ trainings' = trainings + 1
  /\ artifact' = trainings'
  /\ Move(p, "describe")
  /\ Disturb(p)
  /\ UNCHANGED <<trainIfMissing, metadata, bundles, faults>>

BeginDescribe(p) ==
  /\ at[p] = "describe"
  /\ metadata' = Damaged
  /\ Move(p, "describing")
  /\ Disturb(p)
  /\ UNCHANGED <<trainIfMissing, artifact, trainings, bundles, faults>>

\* Variant: the artifact just trained is not read.
ForgetReload(p) ==
  /\ at[p] = "describing"
  /\ metadata' = trainings
  /\ Move(p, IF p = Script THEN "idle" ELSE "metadata")
  /\ Disturb(p)
  /\ UNCHANGED <<trainIfMissing, artifact, trainings, bundles, faults>>

\* Variant: the metadata of the first training is written again.
KeepMetadata(p) ==
  /\ at[p] = "describing"
  /\ metadata' = 1
  /\ Move(p, IF p = Script THEN "idle" ELSE "reload")
  /\ Disturb(p)
  /\ UNCHANGED <<trainIfMissing, artifact, trainings, bundles, faults>>

\* A process that trained in order to load reads the artifact next.
EndDescribe(p) ==
  /\ at[p] = "describing"
  /\ metadata' = trainings
  /\ Move(p, IF p = Script THEN "idle" ELSE "reload")
  /\ Disturb(p)
  /\ UNCHANGED <<trainIfMissing, artifact, trainings, bundles, faults>>

\* Fitting or writing raises; load_model_bundle goes on without a model.
TrainingFails(p) ==
  /\ at[p] \in Training \cup {"train"}
  /\ faults < MaxFaults
  /\ faults' = faults + 1
  /\ Move(p, IF p = Script THEN "idle" ELSE "metadata")
  /\ UNCHANGED <<trainIfMissing, files, trainings, bundles, disturbed>>

-----------------------------------------------------------------------------
(* load_model_bundle.                                                      *)

BeginLoad(p) ==
  /\ at[p] \in {"idle", "failed"}
  /\ IF p = Script
       THEN Move(p, "train") /\ UNCHANGED <<bundles, disturbed>>
       ELSE /\ Move(p, "load")
            /\ model' = [model EXCEPT ![p] = Fallback]
            /\ label' = [label EXCEPT ![p] = Fallback]
            /\ disturbed' = (disturbed \ {p}) \cup
                            {l \in {p} : \E q \in Processes : at[q] \in Training}
  /\ UNCHANGED <<trainIfMissing, files, trainings, faults>>

\* _load_joblib_model; its error is caught only when a training came before.
LoadArtifact(l) ==
  /\ at[l] \in {"load", "reload"}
  /\ \/ artifact = Missing
        /\ Move(l, IF at[l] = "load" /\ l = Api /\ trainIfMissing THEN "train" ELSE "metadata")
        /\ UNCHANGED model
     \/ artifact = Damaged
        /\ Move(l, IF at[l] = "load" THEN "failed" ELSE "metadata")
        /\ UNCHANGED model
     \/ artifact \in Nat
        /\ model' = [model EXCEPT ![l] = artifact]
        /\ Move(l, "metadata")
  /\ UNCHANGED <<trainIfMissing, files, trainings, label, disturbed, faults>>

\* Variant: metadata that cannot be read is no error.
NameByDamage(l) ==
  /\ at[l] = "metadata"
  /\ Move(l, "ready")
  /\ label' = [label EXCEPT ![l] = IF model[l] = Fallback THEN Fallback ELSE metadata]
  /\ UNCHANGED <<trainIfMissing, files, trainings, model, disturbed, faults>>

\* _load_metadata, then the bundle: its version is the metadata's, a default when
\* there is none, and the fallback's own when no model was read.
ReadMetadata(l) ==
  /\ at[l] = "metadata"
  /\ IF metadata = Damaged
       THEN Move(l, "failed") /\ UNCHANGED label
       ELSE /\ Move(l, "ready")
            /\ label' = [label EXCEPT ![l] = IF model[l] = Fallback THEN Fallback ELSE metadata]
  /\ UNCHANGED <<trainIfMissing, files, trainings, model, disturbed, faults>>

\* A process is killed before it has its model; it may be started again.
Dies(p) ==
  /\ at[p] \notin {"idle", "ready"}
  /\ faults < MaxFaults
  /\ faults' = faults + 1
  /\ Move(p, "idle")
  /\ UNCHANGED <<trainIfMissing, files, trainings, bundles, disturbed>>

-----------------------------------------------------------------------------
\* The API process has loaded a trained model.
LoadedInit ==
  /\ trainIfMissing = FALSE
  /\ artifact = 1 /\ metadata = 1 /\ trainings = 1
  /\ at = [p \in Processes |-> IF p = Api THEN "ready" ELSE "idle"]
  /\ model = [l \in Loaders |-> IF l = Api THEN 1 ELSE Fallback]
  /\ label = model
  /\ disturbed = {}
  /\ faults = 0

\* No model, a trained one, or an artifact that came without metadata or is
\* not a model.
LoaderInit ==
  /\ trainIfMissing \in BOOLEAN
  /\ \/ artifact = Missing /\ metadata = Missing /\ trainings = 0
     \/ artifact = 1 /\ metadata \in {1, Missing} /\ trainings = 1
     \/ artifact = Damaged /\ metadata = Missing /\ trainings = 0
  /\ at = [p \in Processes |-> "idle"]
  /\ model = [l \in Loaders |-> Fallback]
  /\ label = [l \in Loaders |-> Fallback]
  /\ disturbed = {}
  /\ faults = 0

LoaderStep(p) ==
  \/ BeginTraining(p) \/ BeginDump(p) \/ EndDump(p)
  \/ BeginDescribe(p) \/ EndDescribe(p) \/ TrainingFails(p)
  \/ Dies(p)
  \/ p \in Loaders /\ (LoadArtifact(p) \/ ReadMetadata(p))

\* When the API process and the training script start is up to the operators.
LoaderNext ==
  \/ \E p \in Processes : LoaderStep(p)
  \/ \E p \in {Api, Script} : BeginLoad(p)

-----------------------------------------------------------------------------
LoaderTypeOK ==
  /\ trainIfMissing \in BOOLEAN
  /\ artifact \in Nat \cup {Missing, Damaged}
  /\ metadata \in Nat \cup {Missing, Damaged}
  /\ trainings \in Nat
  /\ at \in [Processes -> Training \cup
               {"idle", "train", "load", "reload", "metadata", "ready", "failed"}]
  /\ model \in [Loaders -> Nat \cup {Fallback}]
  /\ label \in [Loaders -> Nat \cup {Missing, Fallback}]
  /\ disturbed \subseteq Loaders
  /\ faults \in Nat

\* The metadata that name a bundle are those of the training of its model, older by
\* no more than the trainings and processes that failed, and newer or one older only
\* when another training overlapped the load.
LabelsMatch ==
  \A l \in Loaders : at[l] = "ready" /\ model[l] \in Nat /\ label[l] \in Nat =>
    /\ l \notin disturbed => label[l] >= model[l] - faults /\ label[l] <= model[l]
    /\ l \in disturbed => label[l] >= model[l] - faults - 1

\* README.md, Domain: a "rule-based fallback remains for when training is
\* disabled ... or fails": no load that found no model fails.
FallbackRemains ==
  \A l \in Loaders \ disturbed :
    at[l] = "failed" /\ model[l] = Fallback => artifact = Damaged
================================================================================
