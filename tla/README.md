# Verification of fastapi-ml-platform

TLA+ models of the fraud-scoring service in `src/`, TLC runs that check them on
small instances, and TLAPS proofs of their main properties for every instance.
Paths below are relative to `src/`; `PROJECT.json` maps every definition to its
lines.

## 1. The system

One FastAPI process (`app/main.py`) scores transactions with a model it holds in
memory, over one SQL database (SQLite by default, PostgreSQL in every deployment
the repository describes). With `JOB_BACKEND=redis`, batch jobs run in separate
RQ worker processes.

| component | state | operations | interacts with |
|---|---|---|---|
| **Batch jobs** `services/batch_job_service.py`, `services/batch_tasks.py`, `core/jobs.py`, `core/redis_queue.py`, two repositories | tables `batch_jobs`, `dead_letters`; the Redis list; one coroutine and session per job | submit, retry dead letters, dispatch, run (`_process_job`) | writes `prediction_logs`; takes the served bundle, or loads the file's |
| **Model registry and promotion** `services/model_registry_service.py`, its repository, `main.py` | table `model_registry` | register, activate, compare, promote at start-up | swaps the provider's bundle |
| **Model provider, SHAP explainer** `ml/model_provider.py`, `ml/shap_explainer.py` | the bundle, a cached explainer | read, swap, build explainer | read by every request |
| **Real-time scoring** `services/prediction_service.py` | table `prediction_logs` (unique `transaction_id`) | score one, score a small batch, fetch | races jobs for ids |
| **Retention** `services/retention_service.py` | none of its own | purge three tables | deletes rows that jobs write and retries read |
| **Rate limiting** `core/rate_limit.py` | window start and count per client | check | in front of every route |
| **Scheduler, drift reports** `core/scheduler.py`, `services/drift_report_service.py` | one task handle; table `drift_reports` | start, stop, run; compute and store | runs retention and reports |
| **Authentication** `services/auth_service.py`, `api/dependencies.py` | table `users` | login, create, resolve principal, require role | in front of every route |
| **Ingestion** `services/ingestion_service.py` | none | parse, validate, submit | batch jobs |
| **Algorithms** `ml/drift.py`, `ml/calibration.py`, `ml/threshold.py` | none | PSI, bins, threshold sweep | reports |
| **Training and loading** `ml/training.py`, `ml/model_loader.py` | two files: artifact, metadata | train, load | API start-up, every worker job, `scripts/train_model.py` |
| configuration, middleware, logging | settings | | |

What is hard here, and what makes each component correct:

* *Batch jobs.* Each repository call commits on its own over one long session,
  and every call may raise before or after its COMMIT; the exception handlers
  call the database again; processes stop. Correct: no counted transaction
  without an outcome, summary and tables agree, a client id scored once, a
  terminal status final, each job run once and to an end.
* *Registry.* Activations interleave at every await, over row locks and an
  identity map. Correct: one active row, and the active row is the served model,
  across restarts.
* *Provider.* The explainer is built lazily in one thread while another swaps.
  Correct: the explainer belongs to the served bundle.
* *Loading.* Two files written one after the other beside their readers. Correct: a
  bundle is named after the model it holds, and where training is off or fails the
  rule-based fallback remains.
* *Scoring.* A request commits row by row, and reads each row back. Correct: all its
  rows by one model; after 201 each transaction has its row, after an error those
  before the one that raised, which may have its own.
* *Retention and scheduler.* Purges overlap with each other and with writers, tasks
  fail, a shutdown cancels them at any await. Correct: only old rows go, all
  three tables or none, each counted once; nothing waits in a circle; expired
  rows do go; the shutdown ends and leaves nothing running.
* *Rate limit.* Window boundaries, fractions of seconds. Correct: a bound on what is
  let through in any stretch of time, and a `Retry-After` that is enough.
* *Authentication.* Tokens outlive what they say; replicas share the users table.
  Correct: no route runs for a caller without the role, a token lasts as long as
  promised, a name is created once, and replicas come up with an administrator.
* *Algorithms and ingestion.* Ties, closed and empty bins, equal quantiles, payloads
  that two forms fit. Correct: against their definitions.

`PROJECT.json` lists the hazards at their lines.

## 2. Plan

Done in this order, most important first; all of it is built.

1. `BatchJobs` and its abstract specification `JobLedger`; `MCBatchJobs`;
   `BatchJobsProofs`.
2. `ModelRegistry`, `MCModelRegistry`, `ModelRegistryProofs`.
3. `ModelLoader` (files and loads) and `ModelProvider` (bundle, explainer, requests),
   composed in `ModelServing`; `MCModelServing`, `ModelServingProofs`.
4. `Maintenance` (retention, scheduler, report jobs, shutdown), `MCMaintenance`,
   `MaintenanceProofs`.
5. `RateLimit`, used by `Access` (arrival to handler, accounts, start of replicas);
   `MCAccess`, `AccessProofs`.
6. `HoldoutReports`, `DriftReport`, `Ingestion`, composed in `Computations`;
   `MCComputations`, `ComputationsProofs`, `DriftProofs`; `Sums`, facts about finite
   sets and sums over them that several proofs rest on.

Dropped on the way: purges composed with the tables of `BatchJobs`. A purge deletes
rows older than a number of days, and no property of the jobs speaks of rows that
old; what remains is in `Maintenance`.

## 3. Modules

### BatchJobs

| variable | code |
|---|---|
| `backend` | `settings.job_backend` |
| `status`, `completed`, `result` | the `batch_jobs` row (`status = "absent"`: none yet) |
| `deadLetters` | the `dead_letters` rows of a job, as positions in its batch |
| `scoredAt`, `logged` | `prediction_logs`: the positions each job committed, and the client ids its unique column holds |
| `batch` | the transactions the dispatch carries |
| `pc`, `index`, `scored`, `failed` | the call `_process_job` makes next, and its locals |
| `session` | whether the job's session is usable |
| `queue` | RQ's list |
| `faults`, `stops` | how many failures and process stops have happened |

`pc` goes `none` → `dispatch` → (`waiting` → `load` →) `start` → `score` →
(`deadLetter` →) `progress` → … → `complete` → `ended`; `abort` is the outer
`except`, `lost` a process that stopped. One action is one repository call. A
job row has one writer, so nothing can come between a call's select and its
commit, and merging them loses no behaviour.

What a call leaves behind is an *outcome*: it raises or not, its row is stored
or not, its session is active or not. `InsertOutcomes` (add, commit, refresh)
includes a refresh that raises after the row is stored; `UpdateOutcomes` (select,
assign, commit) includes a COMMIT that took effect and raised. A session whose
flush or COMMIT raised refuses every call until a rollback (`SessionRefuses`), and
nothing in `_process_job` rolls back. This is SQLAlchemy's behaviour and marked
external. `ScoringRaises` needs no fault: the model itself may raise for a
transaction. `InsertConflicts` is the unique column at work.

Abstracted: a transaction is a client id or an anonymous model value; scores,
bands and per-level counts are left out; `job_id`s are never reused. With
`process_jobs_inline` the same calls are made inside the request: a subset of the
in-process behaviours.

### JobLedger

What a client that polls a job may rely on, without sessions, queues or
exceptions: opened once, started once, transactions counted one at a time and
only once each has a durable outcome, completed with a full split or failed, at
most once and for good. `BatchJobs` implements it with `total` the batch's length
and `settled` the scored and dead-lettered positions.

### ModelRegistry

| variable | code or environment |
|---|---|
| `locking` | the database: one writer (SQLite) or row locks (PostgreSQL, READ COMMITTED) |
| `clients` | how many activations the operators run at a time |
| `registered`, `active` | rows of `model_registry` and their committed `is_active` |
| `api`, `served` | the process and `model_provider.bundle` |
| `pc`, `target`, `seen` | per activation: the await it is at, its `model_id`, the `is_active` its session read |
| `todo`, `held` | rows its UPDATE must still lock, and those its transaction has set inactive |

`Activate` is `get_by_id`; `LoadFails`/`Deactivate` the artifact load and the
UPDATE of the other rows; `LockRow` PostgreSQL's row-by-row locking; `Commit` the
flush and COMMIT — which writes the row only if its session read it inactive
(`Writes`); `Swap` the hot swap after the refresh; `RollBack` the closing of the
request's session; `DeadlockVictim` PostgreSQL's deadlock detector; `Start` the
promotion at start-up, where two active rows make `get_active` raise.

### ModelLoader, ModelProvider, ModelServing

`ModelLoader` is `load_model_bundle` in three kinds of process. A trained model is
the number of its training; a file is that number, missing or damaged (being
written, or left half-written by a failure: `dump`…`describing` are the two writes of
`train_baseline_model`). `at` is a process's place; `model` and `label` what a load
has read so far; `disturbed`, history: the loads that another process's training
overlapped. The API process trains when the artifact is missing and settings say so,
and catches that training's errors; the errors of its first read and of the metadata's
it does not catch.

`ModelProvider` counts promotions: bundle `n` is served after the n-th, and `swap` is
two assignments (`SwapBundle`, `DropExplainer`). The dependencies of a request are
synchronous and run in a thread, so that each attribute access is a step (`CheckCache`,
`BuildExplainer`, `StoreExplainer`, `FetchExplainer`, `TakeBundle`); coroutines run on
the event loop, never between the two assignments of `swap`. `rows` are the
committed predictions of a request, with the bundle that scored and the one that
explained; `taken` is how many transactions its loop has been through. `Insert` is
`PredictionRepository.create`, whose COMMIT takes effect or not, and `Raising` what a
transaction that raises leaves: nothing, when the model raises, or what an INSERT, a
COMMIT or a refresh that raises leaves, the row included. A request ends there
(`ScoringRaises`; for `score_batch` a `ValueError` is answered with 413 like too large a
batch), a job goes on (`DeadLetter`).

`ModelServing` puts them together: nothing is served before the API process has
loaded, and a job of the redis backend is scored with what its worker has loaded.

### Maintenance

Days on a clock, rows with the day they were inserted, and actors: two loops
(`PeriodicScheduler` over reports and over clean-ups), clean-up requests, report jobs.
`retention` is `settings.data_retention_days`, which a call without a number of days
takes; it may be set without the loop, not the other way round.
A purge is a transaction of three DELETEs and a COMMIT (`DeleteTable`, `CommitPurge`);
`pending` is what it has deleted and not committed, and a DELETE that meets such a
row of another purge waits (`Waits`, external: row locks). `PurgeRaises` rolls back,
or leaves a COMMIT that took effect. `phase` follows the end of `lifespan`: requests are
finished, the report loop is stopped, then the clean-up loop, then the engine is
disposed; `Cancel` and `Unwind` are the two halves of `stop()`, with `CancelledError`
arriving at any await. `LoopCloses` ends the report jobs that nothing waits for.

### RateLimit, Access

`RateLimit` is one fixed-window counter for each replica and client, in ticks of a
second's fraction: the code's clock is a float, its `Retry-After` whole seconds.
`admitted` and `retryAt` are history. `Access` follows a request from its arrival
through the rate limit, the size limit, `require_roles` and its handler, and each
replica through the bootstrap of an administrator (`LookUp`, `CreateBoot`: a select and
an insert of which the unique name lets one succeed; `Restart` is the platform,
`docs/deployment/aws-ecs.md`). A token is its claims, `iat` cut to seconds as the JWT
library cuts it, and `at`, the tick it was really issued at. Passwords and signatures
are right or wrong; X-API-Key comes before the bearer token, as in the code, except
that an empty one is none to the rate limit (`ClientKey`) and one to `_resolve_principal`
(`Resolution`), where one outside of ASCII makes `compare_digest` raise: 500.

### HoldoutReports, DriftReport, Ingestion, Computations

`HoldoutReports`: the loop of `optimize_threshold` over its grid, the loop of
`calibration_bins` over its bins, evaluation at a threshold, all about one scored
holdout; probabilities are multiples of `1/Scale` and every quotient is kept as a
fraction. `DriftReport`: quantiles of an ascending baseline by interpolation, merged
edges, the histogram with its closed last bin, the sum of PSI with logarithms from a
table in thousandths, severities, the `Limit` most recent rows. `LnAssumption` says what
makes a table one of logarithms: for each ratio r of two shares that occur,
ln r ≥ 2(r − 1)/(r + 1), up to the rounding of four entries; and counts stay so far below
1/epsilon (to about 135,000) that an empty bin's share is smaller than every other. `Ingestion`: a payload is its
form and its lines or items (good, bad, blank, broken, a record spread over lines or
cut by a character at which `splitlines` splits), and `Ingest` the order of the checks.
`Accepted` is what the README accepts, `Severed` the payloads of several lines that
`splitlines` cuts at another place than their ends.
They share nothing; a behaviour of `Computations` runs one.

### MC modules, proofs, variants

The MC modules only name values for TLC. Operators introduced by "Variant:" restate
an action or operator with a plausible bug; no specification uses them. They are
there to show that each property can fail: putting the variant in the place of the
action makes TLC report the property named in `PROJECT.json`.

## 4. Runs

| run | module, cfg | states | shows |
|---|---|---|---|
| `jobs` | `MCBatchJobs.cfg` | 437,828 | types, `NoTransactionLost`, `ResultAccounts`, `LettersInOrder`, `NamedScoredOnce`, `QueuedOnce`, `FramesAccount`, that the jobs implement `JobLedger`, `EveryFrameEnds`, `EveryRowSettles` |
| `bad_record` | `MCBadRecord.cfg` | violation | README: "a single bad record never fails the whole job" does not hold for a duplicate id |
| `registry` | `MCModelRegistry.cfg` | 63,989 | `OneActiveWhenSerialised`, `SerialServesActive`, `EveryActivationEnds` |
| `registry_not_recorded` | `MCRecordsServed.cfg` | violation | overlapping promotions may leave a row active that is not the served one, or none |
| `registry_two_active` | `MCAtMostOneActive.cfg` | violation | … and, with row locks, two rows active |
| `serving` | `MCModelServing.cfg` | 2,547,394 | `LabelsMatch`, `OneFreshModel`, `ExplainsServedModel`, `AnswerTellsRows`, `BackendsAgree` |
| `stale_explainer` | `MCStaleExplainer.cfg` | violation | an explainer may outlive the model it was built for |
| `fallback_lost` | `MCFallbackRemains.cfg` | violation | README: a "fallback remains for when training … fails" does not hold of a failure while the metadata is written |
| `maintenance` | `MCMaintenance.cfg` | 297,022 | `YoungRowsStay`, `CountedOnce`, `SomePurgeGoesOn`, `QuietWhenDown`, `AllOrNothing`, `StopEnds`, `ExpiredGo` |
| `access` | `MCAccess.cfg` | 2,258,706 | `TwoWindowsAtMost`, `RetryAfterTells`, `RolesHold`, `TokensLast`, `AccountsStand`, `ReplicasComeUp` |
| `computations` | `MCComputations.cfg` | 649,774 | `RecommendationsHold`, `CalibrationHolds`, `DriftTells`, `IngestedWhole` |
| `ingest_split_line` | `MCAcceptsDocumented.cfg` | violation | README: "newline-delimited JSON (one transaction per line)" is not accepted when a line holds U+2028 |

**Bounds.** Two jobs are two racing writers, or a job and the retry of its letters;
batches of one and two transactions reach the first, an inner and the last turn
of the loop, a conflict before and after a good record and inside one batch
(`<<n1, n1>>`). `MaxFaults` and `MaxStops` are 1: one failure at any call, and one
stop at any point, in every combination; the proofs need no bound. One
worker makes jobs queue; in-process jobs run together, so all interleavings of
two coroutines are explored. Three models and two activations give row locks taken in opposite
orders, and re-activations of the active model.

`serving`: two requests are a reader and the builder of an explainer, with two
promotions around them; batches of two and of three reach the last row, a raise in
the middle and the size limit of 2; redis jobs have one transaction, as they differ
in what they load. Two trainings and one failure give every state of the two files, the
script's training during the API's load, and a load over a half-written file. The in-process
instance drops the files, which nothing reads there once it is up. `maintenance`: a
window of one day, a clock of two and two rows give a young and an expired row at
once, in one table or in two; one request beside the loop is two purges that overlap;
configurations with both loops and with none, with days in the settings and without. `access`: `Demand` gives each limit
what it is about (0: accounts and token lifetimes; 1: windows and `Retry-After`, for two
clients; 2: a limit above one, with tokens as clients; 3: replicas that start
together; 4: keys of every kind). Two windows in a row that are both used up
(`TwoWindowsAtMost`) only occur with the limit of 1; for others there is the proof. Ticks of half a second, a window of one second and tokens of two put
every arrival on and between the edges; the clock stops after two windows, which is
as far as `TwoWindowsAtMost` looks back. `computations`: three samples at quarters
hit both edges of the two bins and points on and off the grids of 3 and 4 thresholds;
costs 0, 1 and 3 give ties; four rows over a baseline of two bins reach every
severity, empty bins and values out of range, and a second feature has the merged
quantiles of zeros and ones; payloads of up to three items exceed the limit of two.

**Deadlock** is not checked: a system whose jobs, activations or requests are all
done, whose process is down or whose clock has reached its bound may stop.

**Fairness.** `FairSpec` is weak fairness of `TakeJob` (RQ's worker blocks on the
list and takes what is there) and of `Step(j)` for each job: the event loop resumes
whatever is ready. For activations, `Step(r)`: the loop again, and the database that
grants a free lock and breaks deadlocks. No fairness for clients, failures or
stops. Weak fairness is enough because a coroutine's next call stays enabled until
made, except an activation waiting for a lock; locks of the finite set of
activations are released for good, and each activation asks once.
In `Maintenance` the event loop goes on with a purge that has begun (`PurgeStep`), timers
fire (`Wake`, and `BeginPurge` of the loop) and a shutdown in progress goes on (`StopStep`);
no fairness for days, requests, failures or the beginning of a shutdown. A purge that
waits for another's rows is enabled again once that one has ended, and after the bounded
requests none comes between. In `Access` each replica's start goes on and the platform
restarts what failed (`docs/deployment/aws-ecs.md:97`). `serving` and `computations` check
no liveness.

## 5. What the violation runs say

* `bad_record`: the INSERT of a client id already in `prediction_logs` raises
  `IntegrityError`. The session is then inactive; `dead_letters.create` raises
  `PendingRollbackError`, and so does `mark_failed`. The record is not
  dead-lettered, the rest is not scored, and the row stays `running`.
* `registry_not_recorded`: `A` and `B` are activated. `A` commits, then `B`; `B` swaps,
  then `A`, as a refresh is awaited between the two: row `B` is active and `A` is served.
  There is another way: `A` is active and activated again while `B` is. `B`
  commits (A inactive, B active); `A`'s UPDATE sets B inactive, and
  `row.is_active = True` is no change to a session that read it as True. A is
  served, no row is active, and a restart serves the default model.
* `registry_two_active` (PostgreSQL): while `A`'s activation is between its UPDATE and
  its COMMIT, `B` is registered and activated. `A`'s UPDATE did not see `B`; `B`'s sets
  `A` inactive, which it still is, and commits; `A`'s flush then sets `A` active too.
  The next start fails in `get_active`. Between models registered before both
  UPDATEs the row locks only produce deadlocks, which PostgreSQL breaks: `OneActiveApart`
  proves that there is no other way to two active rows.
* `stale_explainer`: the first request after start-up builds an explainer over model
  0 in its thread; a promotion swaps in model 1 and clears the cache, which is still
  empty; the thread then stores its explainer. It is not rebuilt, and SHAP
  contributions of later decisions are those of the old model until the next
  promotion. `ExplainsServedModel` is what holds when no promotion comes in between.
* `fallback_lost`: no artifact, training on. `joblib.dump` has written the artifact, the
  write of the metadata fails half way, `load_model_bundle` catches that and goes on to
  `_load_metadata`, outside of the `try`, which raises over the half-written file. The
  start-up fails, and so does every later one, though the artifact is there by then:
  nobody writes the metadata again. (A failure while the *artifact* is written does fall
  back, but leaves a file that the next start-up fails over; the property does not count
  that.)
* `ingest_split_line`: two lines, each one JSON object; a string of the second holds
  U+2028 unescaped, as JSON allows. `json.loads` of the whole fails, `splitlines` makes
  three lines of it, and the answer is 422 for a valid payload. By itself, or in an array,
  the same transaction is accepted, as the text then is one JSON value. `IngestedWhole`
  says that nothing else is refused wrongly.

## 6. Proofs

For every value of the constants that satisfies the named assumptions (disjoint
kinds of ids, non-empty batches, natural bounds, ascending baselines, a table that is
of logarithms), every safety property of section 4's passing runs is proved:

* `BatchJobsProofs`. The inductive invariant is `Inv`: `TypeOK`, `QueuedOnce`,
  and, per job, `FrameAccounts` with the accounting of `NoTransactionLost`,
  `ResultAccounts` and `LettersInOrder`. TLC checks each of its conjuncts in
  `jobs`. None of the latter is inductive alone: that a
  counted transaction has an outcome needs to know that the loop advances one
  position at a time over a working session (`LoopInv`), and that a completed row
  is not failed afterwards needs that a coroutine about to mark its job failed
  over an active session finds it running. Steps are local to one job
  (`StepIsLocal`, `ClientIsLocal`), so each action has one lemma about its own job.
  `Invariance`, then `TypeCorrect`, `NothingLost`, `SummaryAccounts`,
  `LettersOrdered`, `OneRunner`, `LoopKept`. `ScoredOnce` adds that `logged` holds every
  client id a job has committed.
  `Refinement` is `Spec => LedgerSpec`: each action is a ledger step or a stutter under `Inv`.
  `DuplicatesStick` is the converse of `bad_record`: without failures or stops, a job
  ends completed, or its row stays `running` over a session that refused a client id
  already taken, with exactly the transactions before that one settled and counted; and
  every job that waits for a worker is in the queue. `JobsMoveForward`: each call of a job
  over n transactions is a later one of at most 4n + 6, and no other step takes it back,
  which is what `EveryFrameEnds` needs besides fairness.
* `ModelRegistryProofs`: `TypeCorrect`, and `OneActive` from `SerialInv`: when the
  database or the operators serialise activations, at most one transaction
  writes, and it has set, or is about to set, every other active row inactive.
  `ServesWhatIsActive` adds `ServeInv`: table and process agree while no request
  waits for its swap; one that waits has left its target the only active row, and
  what its session read of that row has stayed true. `ActivationsGoOn`, without
  serialisation: while an activation is in flight, one of those in flight can make its
  next call, or some wait for each other in a circle, which PostgreSQL breaks. Where
  all wait, each waits for another that waits; a smallest set with that property
  is a circle. `ActivationsMoveForward`: no step takes an activation back, and each of its
  own takes it on to a later call or over one more row. Together they are what
  `EveryActivationEnds` needs besides fairness.
  `OneActiveApart`, under any locking, failures and stops: at most one row is active as long
  as no model is registered between an activation's UPDATE and its COMMIT, because such an
  UPDATE has met every other row there is when it commits.
* `ModelServingProofs`: `IInv` says, of the files, that one process trains at a time and
  that the artifact is the last training's and the metadata of that one, or older by no
  more than failures have left it, or by one more while a training is between its two
  writes (`Labelled`); of a load that no training disturbs, that it holds what the artifact
  holds, and without failures the metadata's name for it (`Undamaged`); of a
  request, that the bundle it took was served when it took it, that an explainer was
  built from a bundle between its request's arrival and now, that all rows so far are by
  `got`, and that they are as many as the transactions taken, for a request one more at
  most and only where it ended with an error (`RowKeeps`). `TypeCorrect`,
  `ScoredByOneBundle`, `ExplainedByServed`, `AnswersTell`, `LabelsTell`, `WorkersAgree`.
* `MaintenanceProofs`: pending sets of two purges are disjoint and of the tables they
  have passed, so a purge only waits for one that is further on, which gives `NoCircle`;
  no row past the cutoff is left in a table that has been passed, which gives
  `TogetherOrNotAtAll`. Also `TypeCorrect`, `OldRowsOnly`, `EachRowOnce`, `Quiet`.
* `AccessProofs`: of the requests let through, those before the current window's start
  lie, all but the limit of the last window before it, a window's length before that start
  (`LimitKept`); `RetryAfterExact` from the arithmetic of ticks; the role in a token is
  the one in the users table, which no operation changes (`RolesKept`); `TypeCorrect`,
  `TokenLife`, `AccountsKept`.
* `Sums`: induction and sums. The library's induction theorems take the formula to be
  proved as an operator, which the provers cannot instantiate. Here induction is about
  a *set*, that of the elements for which the formula holds: a non-empty set of numbers
  has a least element, a non-empty family of finite sets a minimal one (`NatSet`,
  `MinimalSubset`, `SubsetInduction`, from the library's well-founded orderings).
  `SumFunctionOnSet`, unfolded to its CHOOSE, is shown to exist and to add up; then sums of
  sums, multiples, bounds and absolute values, `SumSquares` (the square of a sum is at most
  the number of terms times the sum of squares) and `SumPartition` (bin by bin).
* `ComputationsProofs`: the loop invariants of the sweep (best is the highest of the
  cheapest among the points passed) and of the binning, for every finite holdout,
  `Scale`, grid and number of bins. `RecommendedRightly`. `CalibrationIsSound`: each sample
  is in one bin (`OneBin`), so the bins' excesses add up to the holdout's, their
  absolute values to more, and a bin's gap is at most the sum of its samples' errors,
  whose square `SumSquares` bounds by the Brier score. `PayloadsAreWhole`: the loop that
  strips empty lines keeps, by induction over the lines, as many as are not blank, those
  that are, and in the only case that looks at one, that one; then form by form, a line that
  is cut making the payload unparsable if and only if it is one of several (`Whole`,
  `Severed`).
* `DriftProofs`: `SeveritiesTell`, for every baseline, number of quantiles, limit and table.
  With shares p and r of one bin, `LnAssumption` gives a term (p − r)·ln(p/r) of at
  least 2(p − r)²/(p + r) less the rounding (`TermBound`); since (k·|p − r| − n·(p + r))² ≥ 0,
  that is at least a linear function of |p − r| and p + r, for n/k = 1/6, 1/4 and 3/8
  (`Weighted`), which adds up over the bins (`SumBound`), where the shares add up to 2
  at most. Where no value is in range, all the mass has moved. `OneBinIsBlind`: a feature
  whose baseline has a single bin, or none, is never reported to have drifted, whatever
  values in its range are observed.

Only model-checked: liveness (`EveryFrameEnds`, `EveryRowSettles`,
`EveryActivationEnds`, `StopEnds`, `ExpiredGo`, `ReplicasComeUp`: arguments from fairness
and ENABLED are out of the prover's reach), and the violations, which are single behaviours.

## 7. Not modelled, and why

* Reads: comparison of models, listings, the lookup of a prediction, risk bands and
  reasons. They change no state, and a reader between two steps sees nothing that
  the invariants do not speak of.
* Numeric library code: fitting, features, SHAP values, ranking metrics.
* Configuration hardening: one check at start-up.
* Logging, tracing, metrics, audit, correlation ids: output. (A request whose
  handler raises gets its 500 without the `X-Request-ID` that the README promises on
  every response, as `core/correlation.py:54` is passed by.)
* Table creation, migrations, deployment descriptions: generated or external.

Limits of the properties: `BackendsAgree` is about unchanged files and no promotion
(after one, workers go on with the files, as the README says); `EveryRowSettles` excuses
rows that met a failure, a stop or a duplicate id, and `SerialServesActive` activations
that failed; `DriftTells` is about values in the baseline's range.

A remark on `ml/drift.py:20`: the baseline of a feature of zeros and ones has, after
equal quantiles are merged, one bin from 0 to 1 (unless exactly four fifths of it are
zeros, when a decile falls between them), and its index is then 0 whatever is
observed: a drift of `country_mismatch`, `is_night`, `is_weekend` or
`is_card_not_present` is not reported (`OneBinIsBlind`). `DriftTells` speaks of the distribution over the bins
there are, and of the rows in range: values outside are left out of the histogram.

`PROJECT.json` gives the reason for each component, and for each hazard without a
property.
