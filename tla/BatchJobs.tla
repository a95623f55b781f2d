------------------------------ MODULE BatchJobs ------------------------------
(***************************************************************************)
(* Asynchronous batch scoring: a submission creates a batch_jobs row and   *)
(* hands it to a dispatcher (an asyncio task of the API process, or an RQ  *)
(* worker); _process_job then scores the transactions one by one over a    *)
(* single database session, captures a failing one as a dead letter, and   *)
(* records progress and the final status on the row.                       *)
(*                                                                         *)
(* A transaction is a client-supplied id (a member of Named) or carries no *)
(* id (a member of Anonymous), in which case each scoring of it draws a    *)
(* new one.  Each repository call is one step: a job row has one writer,   *)
(* so nothing can come between its read and its commit.  What a call that  *)
(* raises leaves behind is an Outcome, see below.                          *)
(***************************************************************************)
EXTENDS Integers, Sequences, FiniteSets

CONSTANTS
  Jobs,        \* job ids (uuid4, never reused)
  Named,       \* transactions with a client-supplied transaction_id
  Anonymous,   \* transactions without one
  Batches,     \* the transaction lists clients submit
  Backends,    \* the job backends of the deployments considered
  NumWorkers,  \* RQ workers on the queue
  MaxFaults,   \* bound: database, Redis and artifact failures
  MaxStops,    \* bound: process stops
  Null

ASSUME NamesAssumption == Named \cap Anonymous = {}

\* BatchPredictionRequest.transactions has min_length=1.
ASSUME BatchesAssumption ==
  Batches \subseteq Seq(Named \cup Anonymous) \ {<<>>}

ASSUME BackendsAssumption == Backends \subseteq {"inprocess", "redis"}

ASSUME BoundsAssumption ==
  NumWorkers \in Nat /\ MaxFaults \in Nat /\ MaxStops \in Nat

VARIABLES
  backend,      \* settings.job_backend, fixed at start-up
  \* the database
  status,       \* batch_jobs.status, "absent" before the row exists
  completed,    \* batch_jobs.completed
  result,       \* batch_jobs.result
  deadLetters,  \* per job, the positions of its dead letters, oldest first
  scoredAt,     \* per job, the positions whose prediction_logs row it committed
  logged,       \* client ids taken in prediction_logs (its unique column)
  \* what the dispatch of each job carries, and its _process_job frame
  batch,        \* the transactions
  pc,           \* the call the job is about to make
  index,        \* the loop variable
  scored,       \* sum(decisions.values())
  failed,       \* the failure count
  session,      \* "inactive": refuses everything until a rollback
  \* the environment
  queue,        \* the RQ list in Redis
  faults,       \* failures so far
  stops         \* process stops so far

rows == <<status, completed, result>>
store == <<deadLetters, scoredAt, logged>>
frame == <<index, scored, failed>>
env == <<backend, batch, queue, stops>>
vars == <<rows, store, frame, env, pc, session, faults>>

Transactions == Named \cup Anonymous
Total(j) == Len(batch[j])
Letters(j) == {deadLetters[j][i] : i \in 1..Len(deadLetters[j])}
Settled(j) == scoredAt[j] \cup Letters(j)

\* The calls made inside _process_job, and those made by a worker or task.
Processing == {"start", "score", "deadLetter", "progress", "complete", "abort"}
Occupied == Processing \cup {"load"}

-----------------------------------------------------------------------------
(* What a repository call leaves behind.  SQLAlchemy marks a session       *)
(* inactive when a flush or a COMMIT raises, and neither _process_job nor  *)
(* the repositories it uses roll back.                                     *)

Done == [raises |-> FALSE, stored |-> TRUE, session |-> "active"]
Raised(stored, state) == [raises |-> TRUE, stored |-> stored, session |-> state]

\* add, commit, refresh: the flush or COMMIT raises (the row stored or not),
\* or the refresh raises after the row is stored.
InsertOutcomes ==
  {Done, Raised(FALSE, "inactive"), Raised(TRUE, "inactive"), Raised(TRUE, "active")}

\* Variant: the repositories roll back when they raise.
UpdateThenRollBack ==
  {Done, Raised(FALSE, "active"), Raised(TRUE, "active")}

\* select, assign, commit: the select raises, or the flush or COMMIT does (or the
\* connection is lost, which also takes a rollback).
UpdateOutcomes ==
  {Done, Raised(FALSE, "active"), Raised(FALSE, "inactive"), Raised(TRUE, "inactive")}

Call(j, at, o) ==
  /\ pc[j] = at
  /\ session[j] = "active"
  /\ session' = [session EXCEPT ![j] = o.session]
  /\ faults' = IF o.raises THEN faults + 1 ELSE faults
  /\ faults' <= MaxFaults

Goto(j, next) == pc' = [pc EXCEPT ![j] = next]

-----------------------------------------------------------------------------
(* Submission.                                                             *)

Create(j, txns) ==
  /\ status[j] = "absent"
  /\ status' = [status EXCEPT ![j] = "queued"]
  /\ batch' = [batch EXCEPT ![j] = txns]
  /\ Goto(j, "dispatch")
  /\ UNCHANGED <<completed, result, store, frame, backend, queue, stops, session, faults>>

Submit(j) == \E b \in Batches : Create(j, b)

\* retry_dead_letters neither looks at the job's status nor marks the letters.
RetryDeadLetters(src, j) ==
  /\ deadLetters[src] # <<>>
  /\ Create(j, [p \in 1..Len(deadLetters[src]) |-> batch[src][deadLetters[src][p]]])

\* Variant: nothing refers to the in-process task, which may be collected.
DispatchUnreferenced(j) ==
  /\ pc[j] = "dispatch"
  /\ queue' = IF backend = "redis" THEN Append(queue, j) ELSE queue
  /\ \/ Goto(j, IF backend = "redis" THEN "waiting" ELSE "start")
     \/ backend = "inprocess" /\ Goto(j, "lost")
  /\ UNCHANGED <<rows, store, frame, backend, batch, stops, session, faults>>

\* InProcessBatchDispatcher creates a task; RedisBatchDispatcher pushes the
\* task on the queue, perhaps without hearing that it did.
Dispatch(j) ==
  /\ pc[j] = "dispatch"
  /\ queue' = IF backend = "redis" THEN Append(queue, j) ELSE queue
  /\ Goto(j, IF backend = "redis" THEN "waiting" ELSE "start")
  /\ UNCHANGED <<rows, store, frame, backend, batch, stops, session, faults>>

\* Variant: a push that raised after it reached Redis is made again.
DispatchRetried(j) ==
  /\ pc[j] = "dispatch"
  /\ backend = "redis"
  /\ faults < MaxFaults
  /\ faults' = faults + 1
  /\ queue' = Append(queue, j)
  /\ UNCHANGED <<rows, store, frame, backend, batch, stops, session, pc>>

\* The refresh of the new row, or the push, raises: the client gets an error
\* and the row stays.
DispatchFails(j) ==
  /\ pc[j] = "dispatch"
  /\ faults < MaxFaults
  /\ faults' = faults + 1
  /\ Goto(j, "ended")
  /\ UNCHANGED <<rows, store, frame, env, session>>

-----------------------------------------------------------------------------
(* The RQ worker.                                                          *)

TakeJob ==
  /\ queue # <<>>
  /\ Cardinality({j \in Jobs : pc[j] \in Occupied}) < NumWorkers
  /\ queue' = Tail(queue)
  /\ Goto(Head(queue), "load")
  /\ UNCHANGED <<rows, store, frame, backend, batch, stops, session, faults>>

LoadBundle(j) ==
  /\ pc[j] = "load"
  /\ Goto(j, "start")
  /\ UNCHANGED <<rows, store, frame, env, session, faults>>

LoadBundleFails(j) ==
  /\ pc[j] = "load"
  /\ faults < MaxFaults
  /\ faults' = faults + 1
  /\ Goto(j, "ended")
  /\ UNCHANGED <<rows, store, frame, env, session>>

-----------------------------------------------------------------------------
(* _process_job.                                                           *)

\* Outside the try: what it raises ends the coroutine.
MarkRunning(j) ==
  \E o \in UpdateOutcomes :
    /\ Call(j, "start", o)
    /\ status' = IF o.stored THEN [status EXCEPT ![j] = "running"] ELSE status
    /\ index' = [index EXCEPT ![j] = 1]
    /\ Goto(j, IF o.raises THEN "ended" ELSE "score")
    /\ UNCHANGED <<completed, result, store, scored, failed, env>>

\* Variant: prediction_logs.transaction_id is not unique.
InsertableTwice(j) == TRUE

\* The transaction at the loop variable can be inserted in prediction_logs.
Insertable(j) == batch[j][index[j]] \notin logged

\* Variant: an anonymous transaction keeps the id it drew first.
ScoreUnderStableId(j) ==
  \E o \in InsertOutcomes :
    /\ Call(j, "score", o)
    /\ o.stored => Insertable(j)
    /\ scoredAt' = IF o.stored THEN [scoredAt EXCEPT ![j] = @ \cup {index[j]}] ELSE scoredAt
    /\ logged' = IF o.stored THEN logged \cup {batch[j][index[j]]} ELSE logged
    /\ scored' = [scored EXCEPT ![j] = IF o.raises THEN @ ELSE @ + 1]
    /\ failed' = [failed EXCEPT ![j] = IF o.raises THEN @ + 1 ELSE @]
    /\ Goto(j, IF o.raises THEN "deadLetter" ELSE "progress")
    /\ UNCHANGED <<rows, deadLetters, index, env>>

\* A raise counts the transaction as failed even when its row was stored.
ScoreTransaction(j) ==
  \E o \in InsertOutcomes :
    /\ Call(j, "score", o)
    /\ o.stored => Insertable(j)
    /\ scoredAt' = IF o.stored THEN [scoredAt EXCEPT ![j] = @ \cup {index[j]}] ELSE scoredAt
    /\ logged' = IF o.stored THEN logged \cup ({batch[j][index[j]]} \cap Named) ELSE logged
    /\ scored' = [scored EXCEPT ![j] = IF o.raises THEN @ ELSE @ + 1]
    /\ failed' = [failed EXCEPT ![j] = IF o.raises THEN @ + 1 ELSE @]
    /\ Goto(j, IF o.raises THEN "deadLetter" ELSE "progress")
    /\ UNCHANGED <<rows, deadLetters, index, env>>

\* Variants: the handler counts the failure and forgets its letter, or writes
\* the letter and forgets the count.
RaisingLeavesNoLetter(j) ==
  /\ pc[j] = "score"
  /\ failed' = [failed EXCEPT ![j] = @ + 1]
  /\ Goto(j, "progress")
  /\ UNCHANGED <<rows, store, index, scored, env, session, faults>>

RaisingUncounted(j) ==
  /\ pc[j] = "score"
  /\ Goto(j, "deadLetter")
  /\ UNCHANGED <<rows, store, frame, env, session, faults>>

\* Feature building, the model, the bands or the response model raise.
ScoringRaises(j) ==
  /\ pc[j] = "score"
  /\ failed' = [failed EXCEPT ![j] = @ + 1]
  /\ Goto(j, "deadLetter")
  /\ UNCHANGED <<rows, store, index, scored, env, session, faults>>

\* IntegrityError on prediction_logs.transaction_id, raised by the flush.
InsertConflicts(j) ==
  /\ pc[j] = "score"
  /\ session[j] = "active"
  /\ ~Insertable(j)
  /\ session' = [session EXCEPT ![j] = "inactive"]
  /\ failed' = [failed EXCEPT ![j] = @ + 1]
  /\ Goto(j, "deadLetter")
  /\ UNCHANGED <<rows, store, index, scored, env, faults>>

\* Variant: a dead letter whose write raised is written again.
WriteDeadLetterAgain(j) ==
  \E o \in InsertOutcomes :
    /\ Call(j, "deadLetter", o)
    /\ deadLetters' = IF o.stored
                        THEN [deadLetters EXCEPT ![j] = Append(@, index[j])]
                        ELSE deadLetters
    /\ Goto(j, IF o.raises THEN "deadLetter" ELSE "progress")
    /\ UNCHANGED <<rows, scoredAt, logged, frame, env>>

\* Inside the except handler: what it raises leaves the loop.
WriteDeadLetter(j) ==
  \E o \in InsertOutcomes :
    /\ Call(j, "deadLetter", o)
    /\ deadLetters' = IF o.stored
                        THEN [deadLetters EXCEPT ![j] = Append(@, index[j])]
                        ELSE deadLetters
    /\ Goto(j, IF o.raises THEN "abort" ELSE "progress")
    /\ UNCHANGED <<rows, scoredAt, logged, frame, env>>

UpdateProgress(j) ==
  \E o \in UpdateOutcomes :
    /\ Call(j, "progress", o)
    /\ completed' = IF o.stored THEN [completed EXCEPT ![j] = index[j]] ELSE completed
    /\ LET more == index[j] < Total(j)
       IN  /\ index' = [index EXCEPT ![j] = IF more /\ ~o.raises THEN @ + 1 ELSE @]
           /\ Goto(j, IF o.raises THEN "abort" ELSE IF more THEN "score" ELSE "complete")
    /\ UNCHANGED <<status, result, store, scored, failed, env>>

MarkCompleted(j) ==
  \E o \in UpdateOutcomes :
    /\ Call(j, "complete", o)
    /\ status' = IF o.stored THEN [status EXCEPT ![j] = "completed"] ELSE status
    /\ result' = IF o.stored
                   THEN [result EXCEPT ![j] = [scored |-> scored[j], failed |-> failed[j]]]
                   ELSE result
    /\ Goto(j, IF o.raises THEN "abort" ELSE "ended")
    /\ UNCHANGED <<completed, store, frame, env>>

\* The outer except handler: what it raises ends the coroutine, and
\* BackgroundJobQueue._run or RQ logs it.
MarkFailed(j) ==
  \E o \in UpdateOutcomes :
    /\ Call(j, "abort", o)
    /\ status' = IF o.stored THEN [status EXCEPT ![j] = "failed"] ELSE status
    /\ Goto(j, "ended")
    /\ UNCHANGED <<completed, result, store, frame, env>>

\* Variant: a call that the session refused is made again.
RefusedCallRepeated(j) ==
  /\ session[j] = "inactive"
  /\ pc[j] \in {"deadLetter", "progress", "complete", "abort"}
  /\ UNCHANGED vars

\* PendingRollbackError: an inactive session refuses the next call.
SessionRefuses(j) ==
  /\ session[j] = "inactive"
  /\ pc[j] \in {"deadLetter", "progress", "complete", "abort"}
  /\ Goto(j, IF pc[j] = "abort" THEN "ended" ELSE "abort")
  /\ UNCHANGED <<rows, store, frame, env, session, faults>>

-----------------------------------------------------------------------------
(* The environment.                                                        *)

\* POST /v1/transactions/score, or batch-score, scores a transaction under its
\* client id.
ScoreRequest(t) ==
  /\ t \notin logged
  /\ logged' = logged \cup {t}
  /\ UNCHANGED <<rows, deadLetters, scoredAt, frame, env, pc, session, faults>>

\* The API process exits or crashes: requests before their dispatch and
\* in-process tasks are gone, and start-up recovers no job.
ApiStops ==
  /\ stops < MaxStops
  /\ stops' = stops + 1
  /\ LET Dies == {"dispatch"} \cup IF backend = "inprocess" THEN Processing ELSE {}
     IN  pc' = [j \in Jobs |-> IF pc[j] \in Dies THEN "lost" ELSE pc[j]]
  /\ UNCHANGED <<rows, store, frame, backend, batch, queue, session, faults>>

\* A worker is killed, or RQ's timeout breaks its event loop; RQ retries nothing.
WorkerStops(j) ==
  /\ stops < MaxStops
  /\ stops' = stops + 1
  /\ backend = "redis"
  /\ pc[j] \in Occupied
  /\ Goto(j, "lost")
  /\ UNCHANGED <<rows, store, frame, backend, batch, queue, session, faults>>

-----------------------------------------------------------------------------
Init ==
  /\ backend \in Backends
  /\ status = [j \in Jobs |-> "absent"]
  /\ completed = [j \in Jobs |-> 0]
  /\ result = [j \in Jobs |-> Null]
  /\ deadLetters = [j \in Jobs |-> <<>>]
  /\ scoredAt = [j \in Jobs |-> {}]
  /\ logged = {}
  /\ batch = [j \in Jobs |-> <<>>]
  /\ pc = [j \in Jobs |-> "none"]
  /\ index = [j \in Jobs |-> 0]
  /\ scored = [j \in Jobs |-> 0]
  /\ failed = [j \in Jobs |-> 0]
  /\ session = [j \in Jobs |-> "active"]
  /\ queue = <<>>
  /\ faults = 0
  /\ stops = 0

Client ==
  \/ \E j \in Jobs : Submit(j) \/ \E src \in Jobs : RetryDeadLetters(src, j)
  \/ \E t \in Named : ScoreRequest(t)

\* One call of the coroutine, task or request that job j is in.
Step(j) ==
  \/ Dispatch(j) \/ DispatchFails(j)
  \/ LoadBundle(j) \/ LoadBundleFails(j)
  \/ MarkRunning(j)
  \/ ScoreTransaction(j) \/ ScoringRaises(j) \/ InsertConflicts(j)
  \/ WriteDeadLetter(j) \/ UpdateProgress(j)
  \/ MarkCompleted(j) \/ MarkFailed(j) \/ SessionRefuses(j)

Next ==
  \/ Client
  \/ TakeJob
  \/ \E j \in Jobs : Step(j) \/ WorkerStops(j)
  \/ ApiStops

Spec == Init /\ [][Next]_vars

\* The event loop and the workers keep running what is ready; clients, faults
\* and stops are free to happen or not.
FairSpec == Spec /\ WF_vars(TakeJob) /\ \A j \in Jobs : WF_vars(Step(j))

-----------------------------------------------------------------------------
(* Correctness.                                                            *)

Pcs == Occupied \cup {"none", "dispatch", "waiting", "ended", "lost"}

\* The variables stay in their types; a client id is taken only by a client id.
TypeOK ==
  /\ backend \in {"inprocess", "redis"}
  /\ status \in [Jobs -> {"absent", "queued", "running", "completed", "failed"}]
  /\ completed \in [Jobs -> Nat]
  /\ result \in [Jobs -> {Null} \cup [scored : Nat, failed : Nat]]
  /\ deadLetters \in [Jobs -> Seq(Nat)]
  /\ scoredAt \in [Jobs -> SUBSET Nat]
  /\ logged \subseteq Named
  /\ batch \in [Jobs -> Seq(Transactions)]
  /\ pc \in [Jobs -> Pcs]
  /\ index \in [Jobs -> Nat]
  /\ scored \in [Jobs -> Nat]
  /\ failed \in [Jobs -> Nat]
  /\ session \in [Jobs -> {"active", "inactive"}]
  /\ queue \in Seq(Jobs)
  /\ faults \in Nat
  /\ stops \in Nat

\* Whatever raises or stops, a transaction that the progress counter has
\* passed has a prediction row or a dead letter: the loop of _process_job
\* never skips one.
Counted(j) == 1..completed[j] \subseteq Settled(j)
NoTransactionLost == \A j \in Jobs : Counted(j)

\* The summary of a completed job agrees with the tables: it covers the whole
\* batch, its failures are the job's dead letters, and its scored count is the
\* number of prediction rows unless a call raised after its commit.
Accounted(j) ==
  status[j] = "completed" =>
    /\ completed[j] = Total(j)
    /\ result[j].scored + result[j].failed = Total(j)
    /\ result[j].failed = Len(deadLetters[j])
    /\ faults = 0 => result[j].scored = Cardinality(scoredAt[j])
ResultAccounts == \A j \in Jobs : Accounted(j)

\* A job's dead letters are in batch order, one for a transaction, and a
\* transaction that was scored gets one only after a call raised late: so
\* retrying them resubmits no transaction twice.
Ordered(j) ==
  /\ \A i, k \in 1..Len(deadLetters[j]) : i < k => deadLetters[j][i] < deadLetters[j][k]
  /\ faults = 0 => scoredAt[j] \cap Letters(j) = {}
LettersInOrder == \A j \in Jobs : Ordered(j)

\* However jobs, their retries and the real-time endpoint race, a client id
\* is scored for one position of one job at most.
NamedScoredOnce ==
  \A j, k \in Jobs : \A p \in scoredAt[j], q \in scoredAt[k] :
    batch[j][p] = batch[k][q] /\ batch[j][p] \in Named => j = k /\ p = q

\* A job is run by one worker at most: the queue holds each job once, and only
\* jobs that no worker has taken.
QueuedOnce ==
  /\ \A i \in 1..Len(queue) : pc[queue[i]] = "waiting"
  /\ \A i, k \in 1..Len(queue) : queue[i] = queue[k] => i = k

\* Before its coroutine runs, a job's row is queued and blank.
Untouched(j) ==
  /\ status[j] = IF pc[j] = "none" THEN "absent" ELSE "queued"
  /\ session[j] = "active"
  /\ completed[j] = 0 /\ scored[j] = 0 /\ failed[j] = 0
  /\ scoredAt[j] = {} /\ deadLetters[j] = <<>>

\* The loop invariant of _process_job: the transactions before the loop
\* variable are counted, and the one at it is on its way to an outcome.
LoopInv(j) ==
  LET i == index[j]
      before == IF pc[j] = "score" THEN i - 1 ELSE i  \* transactions tried
  IN  /\ status[j] = "running"
      /\ i \in 1..Total(j)
      /\ completed[j] = IF pc[j] = "complete" THEN Total(j) ELSE i - 1
      /\ scored[j] + failed[j] = before
      /\ failed[j] = Len(deadLetters[j]) + IF pc[j] = "deadLetter" THEN 1 ELSE 0
      /\ scoredAt[j] \subseteq 1..before
      /\ Letters(j) \subseteq 1..(IF pc[j] = "deadLetter" THEN i - 1 ELSE before)
      /\ faults = 0 => scored[j] = Cardinality(scoredAt[j])
      /\ pc[j] = "score" => session[j] = "active"
      /\ pc[j] = "deadLetter" /\ faults = 0 => i \notin scoredAt[j]
      /\ pc[j] = "progress" => i \in Settled(j)
      /\ pc[j] = "complete" => i = Total(j)

\* Every coroutine keeps the loop invariant; one that is about to mark its job
\* failed over a working session finds it running, never completed; and the
\* tables speak of transactions of the batch only.
FrameAccounts(j) ==
  /\ pc[j] \in {"none", "dispatch", "waiting", "load", "start"} => Untouched(j)
  /\ pc[j] \in {"score", "deadLetter", "progress", "complete"} => LoopInv(j)
  /\ pc[j] = "abort" /\ session[j] = "active" => status[j] = "running"
  /\ pc[j] # "none" => status[j] # "absent" /\ batch[j] # <<>>
  /\ scoredAt[j] \cup Letters(j) \subseteq 1..Total(j)
  /\ completed[j] <= Total(j)
FramesAccount == \A j \in Jobs : FrameAccounts(j)

\* What a client may rely on: see JobLedger.  In particular no failure, not
\* even a mark_completed that raises after its COMMIT, turns a terminal status
\* into another one.
Ledger == INSTANCE JobLedger WITH
  total <- [j \in Jobs |-> Total(j)],
  settled <- [j \in Jobs |-> Settled(j)]
LedgerSpec == Ledger!Spec

\* The coroutine, task or request that a job is in always comes to an end.
EveryFrameEnds ==
  \A j \in Jobs : pc[j] # "none" ~> pc[j] \in {"ended", "lost"}

\* Without failures or stops, every row reaches a terminal status, unless a
\* duplicate client id has made its session inactive.
EveryRowSettles ==
  \A j \in Jobs :
    status[j] = "queued" ~>
      \/ status[j] \in {"completed", "failed"}
      \/ session[j] = "inactive"
      \/ faults + stops > 0

\* README.md, "Asynchronous batch jobs": "if one transaction fails, it is
\* captured in a dead-letter store and the rest of the batch continues, so a
\* single bad record never fails the whole job".
BadRecordIsIsolated ==
  \A j \in Jobs : pc[j] = "ended" /\ faults + stops = 0 => status[j] = "completed"
==============================================================================
