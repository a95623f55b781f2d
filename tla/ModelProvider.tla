----------------------------- MODULE ModelProvider -----------------------------
(***************************************************************************)
(* ModelProvider and the requests that score with it.  The n-th promotion  *)
(* of this process makes it serve bundle n; bundle 0 is the one loaded at  *)
(* start-up.  The dependencies of a request run in a thread of a pool, one *)
(* attribute access at a time; everything else runs on the event loop.  An *)
(* explainer is named after the request that built it.                     *)
(***************************************************************************)
EXTENDS Integers, Sequences, FiniteSets

CONSTANTS
  Requests,  \* scoring requests and job submissions
  Arrivals,  \* per job_backend, the <<kind, number of transactions>> they may have
  Deployments,  \* the <<enable_shap_explanations, job_backend>> considered
  MaxBatch,  \* settings.max_batch_size
  MaxSwaps,  \* bound: promotions
  None

ASSUME NoneAssumption == None \notin Requests
ASSUME ArrivalsAssumption ==
  /\ Arrivals \in [{"inprocess", "redis"} -> SUBSET ({"score", "batch", "job"} \X (Nat \ {0}))]
  /\ \A b \in {"inprocess", "redis"} : \A a \in Arrivals[b] : a[1] = "score" => a[2] = 1
ASSUME DeploymentsAssumption == Deployments \subseteq BOOLEAN \X {"inprocess", "redis"}
ASSUME ProviderBoundsAssumption == MaxBatch \in Nat \ {0} /\ MaxSwaps \in Nat

VARIABLES
  shap,      \* settings.enable_shap_explanations
  backend,   \* settings.job_backend
  served,    \* ModelProvider._bundle
  swapping,  \* swap() is between its two assignments
  cached,    \* ModelProvider._shap_explainer
  broken,    \* explainers whose _unavailable is set
  pc,        \* what each request does next
  kind,      \* "score", "batch" or "job"
  size,      \* how many transactions it carries
  began,     \* the last promotion that was complete when it arrived
  got,       \* its service's model_bundle
  built,     \* the bundle the explainer it built explains
  holds,     \* its service's shap_explainer
  taken,     \* how many transactions its loop has been through
  rows,      \* what it has written to prediction_logs
  answer,    \* how it ended
  raced      \* a promotion has come while an explainer was being built

settings == <<shap, backend>>
provider == <<served, swapping, cached, broken>>
arrival == <<kind, size, began>>
service == <<got, built, holds>>
work == <<taken, rows>>
providerVars == <<settings, provider, pc, arrival, service, work, answer, raced>>

File == -1      \* the bundle a worker has read from the files
Unknown == -2   \* not read yet

Goto(r, next) == pc' = [pc EXCEPT ![r] = next]
Ends(r, how) == Goto(r, "done") /\ answer' = [answer EXCEPT ![r] = how]

-----------------------------------------------------------------------------
(* A promotion: swap() runs on the event loop, threads run in between.     *)

SwapBundle ==
  /\ ~swapping
  /\ served < MaxSwaps
  /\ served' = served + 1
  /\ swapping' = TRUE
  /\ raced' = (raced \/ \E r \in Requests : pc[r] = "store")
  /\ UNCHANGED <<settings, cached, broken, pc, arrival, service, work, answer>>

\* Variant: the cached explainer survives a promotion.
KeepExplainer ==
  /\ swapping
  /\ swapping' = FALSE
  /\ UNCHANGED <<settings, served, cached, broken, pc, arrival, service, work, answer, raced>>

DropExplainer ==
  /\ swapping
  /\ swapping' = FALSE
  /\ cached' = None
  /\ UNCHANGED <<settings, served, broken, pc, arrival, service, work, answer, raced>>

-----------------------------------------------------------------------------
(* Arrival and dependencies.                                               *)

\* POST /v1/transactions/score and batch-score ask for a PredictionService, and
\* the job endpoints for a BatchJobService, which has no explainer.
Arrive(r, k, n) ==
  /\ pc[r] = "idle"
  /\ ~swapping
  /\ kind' = [kind EXCEPT ![r] = k]
  /\ size' = [size EXCEPT ![r] = n]
  /\ began' = [began EXCEPT ![r] = served]
  /\ Goto(r, IF k # "job" /\ shap THEN "check"
             ELSE IF k = "job" /\ backend = "redis" THEN "load"
             ELSE "bundle")
  /\ UNCHANGED <<settings, provider, service, work, answer, raced>>

CheckCache(r) ==
  /\ pc[r] = "check"
  /\ Goto(r, IF cached = None THEN "build" ELSE "fetch")
  /\ UNCHANGED <<settings, provider, arrival, service, work, answer, raced>>

\* build_shap_explainer(self._bundle): reads the bundle, and takes its time.
BuildExplainer(r) ==
  /\ pc[r] = "build"
  /\ built' = [built EXCEPT ![r] = served]
  /\ Goto(r, "store")
  /\ UNCHANGED <<settings, provider, arrival, got, holds, work, answer, raced>>

StoreExplainer(r) ==
  /\ pc[r] = "store"
  /\ cached' = r
  /\ Goto(r, "fetch")
  /\ UNCHANGED <<settings, served, swapping, broken, arrival, service, work, answer, raced>>

\* return self._shap_explainer: a second read, which may find another or none.
FetchExplainer(r) ==
  /\ pc[r] = "fetch"
  /\ holds' = [holds EXCEPT ![r] = cached]
  /\ Goto(r, "bundle")
  /\ UNCHANGED <<settings, provider, arrival, got, built, work, answer, raced>>

\* Variant: the service is built over the bundle of start-up.
TakeFirstBundle(r) ==
  /\ pc[r] = "bundle"
  /\ got' = [got EXCEPT ![r] = 0]
  /\ Goto(r, "score")
  /\ UNCHANGED <<settings, provider, arrival, built, holds, work, answer, raced>>

\* model_bundle=provider.bundle; an in-process job carries it to its task.
TakeBundle(r) ==
  /\ pc[r] = "bundle"
  /\ got' = [got EXCEPT ![r] = served]
  /\ Goto(r, "score")
  /\ UNCHANGED <<settings, provider, arrival, built, holds, work, answer, raced>>

\* _run_batch_job has load_model_bundle's bundle.
TakeFileBundle(r) ==
  /\ pc[r] = "load"
  /\ got' = [got EXCEPT ![r] = File]
  /\ Goto(r, "score")
  /\ UNCHANGED <<settings, provider, arrival, built, holds, work, answer, raced>>

LoadRaises(r) ==
  /\ pc[r] = "load"
  /\ Ends(r, "failed")
  /\ UNCHANGED <<settings, provider, arrival, service, work, raced>>

-----------------------------------------------------------------------------
(* Scoring.                                                                *)

Oversized(r) == kind[r] = "batch" /\ size[r] > MaxBatch

Scoring(r) == pc[r] = "score" /\ ~swapping /\ ~Oversized(r)

RefuseBatch(r) ==
  /\ pc[r] = "score"
  /\ ~swapping
  /\ Oversized(r)
  /\ Ends(r, "refused")
  /\ UNCHANGED <<settings, provider, arrival, service, work, raced>>

\* _explain: by SHAP when an explainer is at hand and works, else by the linear
\* coefficients of the bundle; a failure disables the explainer.
Explained(r, by) ==
  \/ by = got[r] /\ holds[r] \in {None} \cup broken /\ UNCHANGED broken
  \/ by = got[r] /\ holds[r] \notin {None} \cup broken /\ broken' = broken \cup {holds[r]}
  \/ holds[r] \notin {None} \cup broken /\ by = built[holds[r]] /\ UNCHANGED broken

\* The transaction at hand is explained, and its row written: the COMMIT of
\* PredictionRepository.create has taken effect or not.
Insert(r, committed) ==
  \E by \in -1..served :
    /\ Explained(r, by)
    /\ rows' = IF committed
                 THEN [rows EXCEPT ![r] = Append(@, [model |-> got[r], explained |-> by])]
                 ELSE rows

\* Either the model raises, a NaN it returns included, or create does: at its
\* INSERT, at a COMMIT that may yet have taken effect, or at the refresh after it.
Raising(r) ==
  \/ UNCHANGED <<rows, broken>>
  \/ \E committed \in BOOLEAN : Insert(r, committed)

NextTransaction(r) ==
  /\ taken' = [taken EXCEPT ![r] = @ + 1]
  /\ IF taken'[r] = size[r] THEN Ends(r, "created") ELSE UNCHANGED <<pc, answer>>

\* score_transaction: nothing it reads after its service was built can change
\* but the state of the explainer, and it awaits only its INSERT.
ScoreTransaction(r) ==
  /\ Scoring(r)
  /\ Insert(r, TRUE)
  /\ NextTransaction(r)
  /\ UNCHANGED <<settings, served, swapping, cached, arrival, service, raced>>

\* Variant: score_batch skips a transaction that raises.
SkipTransaction(r) ==
  /\ Scoring(r)
  /\ Raising(r)
  /\ NextTransaction(r)
  /\ UNCHANGED <<settings, served, swapping, cached, arrival, service, raced>>

\* A request ends where it raises, keeping the rows it has committed.  The endpoint
\* of score_batch answers any ValueError with 413, the model's as well as its own.
\* A job ends only with its session, see BatchJobs.
ScoringRaises(r) ==
  /\ Scoring(r)
  /\ \/ Raising(r) /\ Ends(r, "failed")
     \/ kind[r] = "batch" /\ UNCHANGED <<rows, broken>> /\ Ends(r, "refused")
  /\ UNCHANGED <<settings, served, swapping, cached, arrival, service, taken, raced>>

\* A job goes on after a transaction that raised.
DeadLetter(r) ==
  /\ Scoring(r)
  /\ kind[r] = "job"
  /\ Raising(r)
  /\ NextTransaction(r)
  /\ UNCHANGED <<settings, served, swapping, cached, arrival, service, raced>>

-----------------------------------------------------------------------------
ProviderInit ==
  /\ \E d \in Deployments : shap = d[1] /\ backend = d[2]
  /\ served = 0
  /\ swapping = FALSE
  /\ cached = None
  /\ broken = {}
  /\ pc = [r \in Requests |-> "idle"]
  /\ kind = [r \in Requests |-> "score"]
  /\ size = [r \in Requests |-> 1]
  /\ began = [r \in Requests |-> 0]
  /\ got = [r \in Requests |-> Unknown]
  /\ built = [r \in Requests |-> Unknown]
  /\ holds = [r \in Requests |-> None]
  /\ taken = [r \in Requests |-> 0]
  /\ rows = [r \in Requests |-> <<>>]
  /\ answer = [r \in Requests |-> "none"]
  /\ raced = FALSE

ClientArrives(r) == \E a \in Arrivals[backend] : Arrive(r, a[1], a[2])

RequestStep(r) ==
  \/ CheckCache(r) \/ BuildExplainer(r) \/ StoreExplainer(r) \/ FetchExplainer(r)
  \/ TakeBundle(r)
  \/ RefuseBatch(r) \/ ScoreTransaction(r) \/ ScoringRaises(r) \/ DeadLetter(r)

ProviderNext ==
  \/ SwapBundle \/ DropExplainer
  \/ \E r \in Requests : ClientArrives(r) \/ RequestStep(r)
                         \/ TakeFileBundle(r) \/ LoadRaises(r)

ProviderSpec == ProviderInit /\ [][ProviderNext]_providerVars

-----------------------------------------------------------------------------
(* Correctness.                                                            *)

Pcs == {"idle", "check", "build", "store", "fetch", "bundle", "load", "score", "done"}

ProviderTypeOK ==
  /\ shap \in BOOLEAN
  /\ backend \in {"inprocess", "redis"}
  /\ served \in Nat
  /\ swapping \in BOOLEAN
  /\ cached \in Requests \cup {None}
  /\ broken \subseteq Requests
  /\ pc \in [Requests -> Pcs]
  /\ kind \in [Requests -> {"score", "batch", "job"}]
  /\ size \in [Requests -> Nat]
  /\ began \in [Requests -> Nat]
  /\ got \in [Requests -> Int]
  /\ built \in [Requests -> Int]
  /\ holds \in [Requests -> Requests \cup {None}]
  /\ taken \in [Requests -> Nat]
  /\ rows \in [Requests -> Seq([model : Int, explained : Int])]
  /\ answer \in [Requests -> {"none", "created", "refused", "failed"}]
  /\ raced \in BOOLEAN

\* docs/deployment/blue-green-models.md: "in-flight requests finish on the old
\* model, new requests use the new one": every row of a request or in-process job
\* is scored by one bundle, no older than the last promotion before it arrived.
OneFreshModel ==
  \A r \in Requests : \A i \in 1..Len(rows[r]) :
    /\ rows[r][i].model = got[r]
    /\ got[r] # File => got[r] \in began[r]..served

\* Unless a promotion has come while an explainer was being built, the cached
\* explainer is the served model's, and an explanation is by a model that was
\* served while the request's dependencies ran.
ExplainsServedModel ==
  ~raced =>
    /\ cached # None /\ ~swapping => built[cached] = served
    /\ \A r \in Requests : \A i \in 1..Len(rows[r]) :
         got[r] # File => rows[r][i].explained \in began[r]..got[r]

\* What the answer to a scoring request says of prediction_logs: after 201 each
\* transaction has its row; after an error those before the one that raised have
\* theirs, and that one may, its row being committed before it is read back; a
\* batch beyond the limit leaves none.
AnswerTellsRows ==
  \A r \in Requests : pc[r] = "done" /\ kind[r] # "job" =>
    /\ answer[r] = "created" => Len(rows[r]) = size[r]
    /\ answer[r] # "created" => taken[r] < size[r] /\ Len(rows[r]) - taken[r] \in {0, 1}
    /\ Oversized(r) => answer[r] = "refused" /\ rows[r] = <<>>

\* README.md, "Explainability": the explainer is "cached for the lifetime of the
\* active model (and rebuilt after a promotion)".
ExplainerFollowsModel ==
  (\A r \in Requests : pc[r] \in {"idle", "done"}) /\ ~swapping /\ cached # None =>
    built[cached] = served
================================================================================
