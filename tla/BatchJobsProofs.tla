--------------------------- MODULE BatchJobsProofs ---------------------------
(* Theorems about BatchJobs, for every set of jobs, batches and bounds: the *)
(* accounting of a job, that it implements JobLedger, how jobs end, and that *)
(* each takes finitely many steps. *)
EXTENDS BatchJobs, FiniteSetTheorems, SequenceTheorems, TLAPS

\* The inductive invariant of one job, and of the whole system.
JobInv(j) == FrameAccounts(j) /\ Counted(j) /\ Ordered(j) /\ Accounted(j)
Inv == TypeOK /\ QueuedOnce /\ \A j \in Jobs : JobInv(j)

\* A job that a step of another job leaves alone.
Same(k) ==
  /\ status'[k] = status[k] /\ completed'[k] = completed[k] /\ result'[k] = result[k]
  /\ deadLetters'[k] = deadLetters[k] /\ scoredAt'[k] = scoredAt[k]
  /\ batch'[k] = batch[k] /\ session'[k] = session[k]
  /\ index'[k] = index[k] /\ scored'[k] = scored[k] /\ failed'[k] = failed[k]

-----------------------------------------------------------------------------
\* Initially nothing has been submitted, and the invariant holds.
LEMMA InitInv == Init => Inv
<1> SUFFICES ASSUME Init PROVE Inv
  OBVIOUS
<1>1. TypeOK
  BY BackendsAssumption DEF Init, TypeOK, Pcs, Occupied, Processing
<1>2. QueuedOnce
  BY DEF Init, QueuedOnce
<1>3. ASSUME NEW j \in Jobs PROVE JobInv(j)
  BY DEF Init, JobInv, FrameAccounts, Untouched, Counted, Ordered, Accounted,
         Letters, Settled, Total
<1> QED
  BY <1>1, <1>2, <1>3 DEF Inv

-----------------------------------------------------------------------------
\* Every step keeps the types.  A retry's batch is well typed because the
\* letters it reads name transactions of the batch they came from.
LEMMA TypeStep == Inv /\ [Next]_vars => TypeOK'
<1> SUFFICES ASSUME Inv, [Next]_vars PROVE TypeOK'
  OBVIOUS
<1> USE DEF Goto, rows, store, frame, env
<1>t. TypeOK
  BY DEF Inv
<1>o. \A o \in InsertOutcomes \cup UpdateOutcomes : o.session \in {"active", "inactive"}
  BY DEF InsertOutcomes, UpdateOutcomes, Done, Raised
<1>c. ASSUME NEW j \in Jobs, NEW txns \in Seq(Transactions), Create(j, txns)
      PROVE  TypeOK'
  BY <1>t, <1>c DEF TypeOK, Create, Pcs
<1>1. CASE \E j \in Jobs : Submit(j)
  <2>1. PICK j \in Jobs, b \in Batches : Create(j, b)
    BY <1>1 DEF Submit
  <2>2. b \in Seq(Transactions)
    BY BatchesAssumption DEF Transactions
  <2> QED
    BY <1>c, <2>1, <2>2
<1>2. CASE \E j, src \in Jobs : RetryDeadLetters(src, j)
  <2>1. PICK j \in Jobs, src \in Jobs : RetryDeadLetters(src, j)
    BY <1>2
  <2> DEFINE retried == [p \in 1..Len(deadLetters[src]) |-> batch[src][deadLetters[src][p]]]
  <2>2. Letters(src) \subseteq 1..Total(src)
    BY DEF Inv, JobInv, FrameAccounts
  <2>3. /\ deadLetters[src] \in Seq(Nat)
        /\ batch[src] \in Seq(Transactions)
    BY <1>t DEF TypeOK
  <2>4. ASSUME NEW p \in 1..Len(deadLetters[src]) PROVE retried[p] \in Transactions
    <3>1. deadLetters[src][p] \in 1..Len(batch[src])
      BY <2>2 DEF Letters, Total
    <3> QED
      BY <2>3, <3>1
  <2>5. retried \in Seq(Transactions)
    <3>1. Len(deadLetters[src]) \in Nat
      BY <2>3
    <3>2. retried \in [1..Len(deadLetters[src]) -> Transactions]
      BY <2>4
    <3> QED
      BY <3>1, <3>2, SeqDef
  <2> QED
    BY <1>c, <2>1, <2>5 DEF RetryDeadLetters
<1>3. CASE \E t \in Named : ScoreRequest(t)
  BY <1>t, <1>3 DEF TypeOK, ScoreRequest
<1>4. CASE TakeJob
  <2>1. queue # <<>> /\ queue \in Seq(Jobs)
    BY <1>t, <1>4 DEF TypeOK, TakeJob
  <2>2. Head(queue) \in Jobs /\ Tail(queue) \in Seq(Jobs)
    BY <2>1, HeadTailProperties
  <2> QED
    BY <1>t, <1>4, <2>2 DEF TypeOK, TakeJob, Pcs, Occupied
<1>5. ASSUME NEW j \in Jobs, Step(j) PROVE TypeOK'
  <2>1. CASE Dispatch(j)
    BY SMTT(60), <1>t, <2>1 DEF TypeOK, Dispatch, Pcs, Occupied, Processing
  <2>2. CASE DispatchFails(j)
    BY SMTT(60), <1>t, <2>2 DEF TypeOK, DispatchFails, Pcs
  <2>3. CASE LoadBundle(j)
    BY SMTT(60), <1>t, <2>3 DEF TypeOK, LoadBundle, Pcs, Occupied, Processing
  <2>4. CASE LoadBundleFails(j)
    BY SMTT(60), <1>t, <2>4 DEF TypeOK, LoadBundleFails, Pcs
  <2>5. CASE MarkRunning(j)
    BY <1>t, <1>o, <2>5 DEF TypeOK, MarkRunning, Call, Pcs, Occupied, Processing
  <2>6. CASE ScoreTransaction(j)
    <3>1. PICK o \in InsertOutcomes : ScoreTransaction(j)!(o)
      BY <2>6 DEF ScoreTransaction
    <3>2. scored' \in [Jobs -> Nat] /\ failed' \in [Jobs -> Nat]
      BY <1>t, <3>1 DEF TypeOK
    <3>3. scoredAt' \in [Jobs -> SUBSET Nat] /\ logged' \subseteq Named
      BY <1>t, <3>1 DEF TypeOK
    <3>4. pc' \in [Jobs -> Pcs] /\ session' \in [Jobs -> {"active", "inactive"}] /\ faults' \in Nat
      BY <1>t, <1>o, <3>1 DEF TypeOK, Call, Pcs, Occupied, Processing
    <3> QED
      BY <1>t, <3>1, <3>2, <3>3, <3>4 DEF TypeOK
  <2>7. CASE ScoringRaises(j)
    BY SMTT(60), <1>t, <2>7 DEF TypeOK, ScoringRaises, Pcs, Occupied, Processing
  <2>8. CASE InsertConflicts(j)
    BY SMTT(60), <1>t, <2>8 DEF TypeOK, InsertConflicts, Pcs, Occupied, Processing
  <2>9. CASE WriteDeadLetter(j)
    BY SMTT(60), <1>t, <1>o, <2>9 DEF TypeOK, WriteDeadLetter, Call, Pcs, Occupied, Processing
  <2>10. CASE UpdateProgress(j)
    <3>1. PICK o \in UpdateOutcomes : UpdateProgress(j)!(o)
      BY <2>10 DEF UpdateProgress
    <3>2. index' \in [Jobs -> Nat] /\ completed' \in [Jobs -> Nat]
      BY <1>t, <3>1 DEF TypeOK
    <3>3. pc' \in [Jobs -> Pcs] /\ session' \in [Jobs -> {"active", "inactive"}] /\ faults' \in Nat
      BY <1>t, <1>o, <3>1 DEF TypeOK, Call, Pcs, Occupied, Processing
    <3> QED
      BY <1>t, <3>1, <3>2, <3>3 DEF TypeOK
  <2>11. CASE MarkCompleted(j)
    <3>1. PICK o \in UpdateOutcomes : MarkCompleted(j)!(o)
      BY <2>11 DEF MarkCompleted
    <3>2. [scored |-> scored[j], failed |-> failed[j]] \in [scored : Nat, failed : Nat]
      BY <1>t DEF TypeOK
    <3>3. /\ result' \in [Jobs -> {Null} \cup [scored : Nat, failed : Nat]]
          /\ status' \in [Jobs -> {"absent", "queued", "running", "completed", "failed"}]
      BY <1>t, <3>1, <3>2 DEF TypeOK
    <3>4. pc' \in [Jobs -> Pcs] /\ session' \in [Jobs -> {"active", "inactive"}] /\ faults' \in Nat
      BY <1>t, <1>o, <3>1 DEF TypeOK, Call, Pcs, Occupied, Processing
    <3> QED
      BY <1>t, <3>1, <3>3, <3>4 DEF TypeOK
  <2>12. CASE MarkFailed(j)
    BY SMTT(60), <1>t, <1>o, <2>12 DEF TypeOK, MarkFailed, Call, Pcs
  <2>13. CASE SessionRefuses(j)
    BY <1>t, <2>13 DEF TypeOK, SessionRefuses, Pcs, Occupied, Processing
  <2> QED
    BY <1>5, <2>1, <2>2, <2>3, <2>4, <2>5, <2>6, <2>7, <2>8, <2>9, <2>10,
       <2>11, <2>12, <2>13 DEF Step
<1>6. CASE \E j \in Jobs : WorkerStops(j)
  BY <1>t, <1>6 DEF TypeOK, WorkerStops, Pcs
<1>7. CASE ApiStops
  BY <1>t, <1>7 DEF TypeOK, ApiStops, Pcs
<1>8. CASE UNCHANGED vars
  BY <1>t, <1>8 DEF TypeOK, vars
<1> QED
  BY <1>1, <1>2, <1>3, <1>4, <1>5, <1>6, <1>7, <1>8 DEF Next, Client

-----------------------------------------------------------------------------
\* A step of job j touches no other job, takes no job off the queue, and moves
\* no waiting job; and failures are only ever added.
LEMMA StepIsLocal ==
  ASSUME TypeOK, NEW j \in Jobs, Step(j)
  PROVE  /\ \A k \in Jobs \ {j} : Same(k) /\ pc'[k] = pc[k]
         /\ pc[j] \notin {"none", "waiting", "ended", "lost"}
         /\ Dispatch(j) \/ queue' = queue
         /\ faults' = 0 => faults = 0
<1> USE DEF TypeOK, Same, Goto, rows, store, frame, env
<1>1. CASE Dispatch(j)
  BY <1>1 DEF Dispatch
<1>2. CASE DispatchFails(j)
  BY <1>2 DEF DispatchFails
<1>3. CASE LoadBundle(j)
  BY <1>3 DEF LoadBundle
<1>4. CASE LoadBundleFails(j)
  BY <1>4 DEF LoadBundleFails
<1>5. CASE MarkRunning(j)
  BY <1>5 DEF MarkRunning, Call
<1>6. CASE ScoreTransaction(j)
  BY <1>6 DEF ScoreTransaction, Call
<1>7. CASE ScoringRaises(j)
  BY <1>7 DEF ScoringRaises
<1>8. CASE InsertConflicts(j)
  BY <1>8 DEF InsertConflicts
<1>9. CASE WriteDeadLetter(j)
  BY <1>9 DEF WriteDeadLetter, Call
<1>10. CASE UpdateProgress(j)
  BY <1>10 DEF UpdateProgress, Call
<1>11. CASE MarkCompleted(j)
  BY <1>11 DEF MarkCompleted, Call
<1>12. CASE MarkFailed(j)
  BY <1>12 DEF MarkFailed, Call
<1>13. CASE SessionRefuses(j)
  BY <1>13 DEF SessionRefuses
<1> QED
  BY <1>1, <1>2, <1>3, <1>4, <1>5, <1>6, <1>7, <1>8, <1>9, <1>10, <1>11,
     <1>12, <1>13 DEF Step

\* A client's step creates at most one row, for a job that had none.
LEMMA ClientIsLocal ==
  ASSUME TypeOK, Client
  PROVE  /\ queue' = queue /\ faults' = faults
         /\ \/ \A k \in Jobs : Same(k) /\ pc'[k] = pc[k]
            \/ \E j \in Jobs :
                 /\ \A k \in Jobs \ {j} : Same(k) /\ pc'[k] = pc[k]
                 /\ status[j] = "absent"
                 /\ status'[j] = "queued" /\ pc'[j] = "dispatch"
                 /\ completed'[j] = completed[j] /\ result'[j] = result[j]
                 /\ deadLetters'[j] = deadLetters[j] /\ scoredAt'[j] = scoredAt[j]
                 /\ session'[j] = session[j] /\ scored'[j] = scored[j]
                 /\ failed'[j] = failed[j]
<1> USE DEF TypeOK, Same, Goto, rows, store, frame, env
<1>1. CASE \E t \in Named : ScoreRequest(t)
  BY <1>1 DEF ScoreRequest
<1>2. ASSUME NEW j \in Jobs, NEW txns, Create(j, txns)
      PROVE  /\ queue' = queue /\ faults' = faults
             /\ \A k \in Jobs \ {j} : Same(k) /\ pc'[k] = pc[k]
             /\ status[j] = "absent"
             /\ status'[j] = "queued" /\ pc'[j] = "dispatch"
             /\ completed'[j] = completed[j] /\ result'[j] = result[j]
             /\ deadLetters'[j] = deadLetters[j] /\ scoredAt'[j] = scoredAt[j]
             /\ session'[j] = session[j] /\ scored'[j] = scored[j]
             /\ failed'[j] = failed[j]
  BY <1>2 DEF Create
<1>3. CASE \E j \in Jobs : Submit(j) \/ \E src \in Jobs : RetryDeadLetters(src, j)
  <2>1. PICK j \in Jobs : Submit(j) \/ \E src \in Jobs : RetryDeadLetters(src, j)
    BY <1>3
  <2>2. \E txns : Create(j, txns)
    BY <2>1 DEF Submit, RetryDeadLetters
  <2> QED
    BY <1>2, <2>2
<1> QED
  BY <1>1, <1>3 DEF Client

-----------------------------------------------------------------------------
\* A job is on the queue once, and only while it waits.
LEMMA QueueStep == Inv /\ [Next]_vars => QueuedOnce'
<1> SUFFICES ASSUME Inv, [Next]_vars PROVE QueuedOnce'
  OBVIOUS
<1>t. TypeOK /\ QueuedOnce
  BY DEF Inv
<1>a. ASSUME queue' = queue, \A k \in Jobs : pc[k] = "waiting" => pc'[k] = "waiting"
      PROVE  QueuedOnce'
  <2>1. \A i \in 1..Len(queue) : queue[i] \in Jobs
    BY <1>t DEF TypeOK
  <2>2. \A i \in 1..Len(queue) : pc'[queue[i]] = "waiting"
    BY <1>t, <1>a, <2>1 DEF QueuedOnce
  <2> QED
    BY <1>t, <1>a, <2>2 DEF QueuedOnce
<1>1. CASE Client
  <2>1. \A j \in Jobs : status[j] = "absent" => pc[j] # "waiting"
    BY DEF Inv, JobInv, FrameAccounts, Untouched
  <2> QED
    BY <1>t, <1>1, <1>a, <2>1, ClientIsLocal
<1>2. CASE TakeJob
  <2>1. queue \in Seq(Jobs) /\ queue # <<>>
    BY <1>t, <1>2 DEF TypeOK, TakeJob
  <2>2. /\ Head(queue) \in Jobs /\ Head(queue) = queue[1]
        /\ queue' = Tail(queue) /\ Len(queue') = Len(queue) - 1
        /\ \A i \in 1..Len(queue') : queue'[i] = queue[i + 1]
    BY <2>1, <1>2, HeadTailProperties DEF TakeJob
  <2>3. \A k \in Jobs : k # Head(queue) => pc'[k] = pc[k]
    BY <1>t, <1>2 DEF TypeOK, TakeJob, Goto
  <2>4. Len(queue) \in Nat /\ \A i \in 1..Len(queue') : i + 1 \in 1..Len(queue) /\ i + 1 # 1
    BY <2>1, <2>2
  <2>5. \A i \in 1..Len(queue') : queue'[i] # Head(queue) /\ queue'[i] \in Jobs
    <3> SUFFICES ASSUME NEW i \in 1..Len(queue')
                 PROVE  queue'[i] # Head(queue) /\ queue'[i] \in Jobs
      OBVIOUS
    <3>1. 1 \in 1..Len(queue) /\ i + 1 \in 1..Len(queue) /\ i + 1 # 1
      BY <2>1, <2>4
    <3>2. queue[i + 1] # queue[1]
      BY <1>t, <3>1 DEF QueuedOnce
    <3> QED
      BY <2>1, <2>2, <3>1, <3>2
  <2>6. \A i \in 1..Len(queue') : pc'[queue'[i]] = "waiting"
    BY <1>t, <2>2, <2>3, <2>4, <2>5 DEF QueuedOnce
  <2>7. \A i, k \in 1..Len(queue') : queue'[i] = queue'[k] => i = k
    <3> SUFFICES ASSUME NEW i \in 1..Len(queue'), NEW k \in 1..Len(queue'), queue'[i] = queue'[k]
                 PROVE  i = k
      OBVIOUS
    <3>1. queue[i + 1] = queue[k + 1]
      BY <2>2
    <3>2. i + 1 = k + 1
      BY <1>t, <2>4, <3>1 DEF QueuedOnce
    <3> QED
      BY <2>1, <2>2, <3>2
  <2> QED
    BY <2>6, <2>7 DEF QueuedOnce
<1>3. ASSUME NEW j \in Jobs, Step(j) PROVE QueuedOnce'
  <2>1. CASE queue' = queue
    BY <1>t, <1>3, <1>a, <2>1, StepIsLocal
  <2>2. CASE queue' # queue
    <3>1. Dispatch(j)
      BY <1>t, <1>3, <2>2, StepIsLocal
    <3>2. /\ queue' = Append(queue, j) /\ pc[j] = "dispatch" /\ pc'[j] = "waiting"
          /\ \A k \in Jobs \ {j} : pc'[k] = pc[k]
      BY <1>t, <2>2, <3>1 DEF TypeOK, Dispatch, Goto
    <3>3. \A i \in 1..Len(queue) : queue[i] \in Jobs /\ queue[i] # j
      <4> TAKE i \in 1..Len(queue)
      <4>1. queue[i] \in Jobs
        BY <1>t DEF TypeOK
      <4>2. pc[queue[i]] = "waiting"
        BY <1>t DEF QueuedOnce
      <4> QED
        BY <3>2, <4>1, <4>2
    <3>4. /\ Len(queue') = Len(queue) + 1 /\ Len(queue) \in Nat
          /\ \A i \in 1..Len(queue') : queue'[i] = IF i <= Len(queue) THEN queue[i] ELSE j
      BY <1>t, <3>2 DEF TypeOK
    <3>5. \A i \in 1..Len(queue') : pc'[queue'[i]] = "waiting"
      <4> TAKE i \in 1..Len(queue')
      <4>1. CASE i <= Len(queue)
        <5>1. i \in 1..Len(queue) /\ queue'[i] = queue[i]
          BY <3>4, <4>1
        <5> QED
          BY <1>t, <3>2, <3>3, <5>1 DEF QueuedOnce
      <4>2. CASE ~(i <= Len(queue))
        BY <3>2, <3>4, <4>2
      <4> QED
        BY <4>1, <4>2
    <3>6. \A i, k \in 1..Len(queue') : queue'[i] = queue'[k] => i = k
      <4> SUFFICES ASSUME NEW i \in 1..Len(queue'), NEW k \in 1..Len(queue'),
                          queue'[i] = queue'[k]
                   PROVE  i = k
        OBVIOUS
      <4>1. CASE i \in 1..Len(queue) /\ k \in 1..Len(queue)
        BY <1>t, <3>4, <4>1 DEF QueuedOnce
      <4>2. CASE i \notin 1..Len(queue) \/ k \notin 1..Len(queue)
        BY <3>3, <3>4, <4>2
      <4> QED
        BY <4>1, <4>2
    <3> QED
      BY <3>5, <3>6 DEF QueuedOnce
  <2> QED
    BY <2>1, <2>2
<1>4. CASE \E j \in Jobs : WorkerStops(j)
  BY <1>t, <1>4, <1>a DEF TypeOK, WorkerStops, Goto, Occupied, Processing
<1>5. CASE ApiStops
  BY <1>t, <1>5, <1>a DEF TypeOK, ApiStops, Processing
<1>6. CASE UNCHANGED vars
  BY <1>6, <1>a DEF vars, env
<1> QED
  BY <1>1, <1>2, <1>3, <1>4, <1>5, <1>6 DEF Next

-----------------------------------------------------------------------------
\* What the outcomes of a repository call tell apart.
LEMMA InsertFacts ==
  ASSUME NEW o \in InsertOutcomes, ~o.raises
  PROVE  o.stored /\ o.session = "active"
BY DEF InsertOutcomes, Done, Raised

LEMMA UpdateFacts ==
  ASSUME NEW o \in UpdateOutcomes
  PROVE  /\ ~o.raises => o.stored /\ o.session = "active"
         /\ o.raises /\ o.stored => o.session = "inactive"
BY DEF UpdateOutcomes, Done, Raised

\* Appending to the dead letters adds one position to them, at the end.
LEMMA AppendLetter ==
  ASSUME NEW s \in Seq(Nat), NEW i \in Nat
  PROVE  /\ Append(s, i) \in Seq(Nat) /\ Len(Append(s, i)) = Len(s) + 1
         /\ \A x \in 1..Len(s) : Append(s, i)[x] = s[x]
         /\ Append(s, i)[Len(s) + 1] = i
         /\ {Append(s, i)[x] : x \in 1..Len(Append(s, i))}
              = {s[x] : x \in 1..Len(s)} \cup {i}
<1>1. /\ Len(s) \in Nat /\ Len(Append(s, i)) = Len(s) + 1
      /\ \A x \in 1..Len(s) : Append(s, i)[x] = s[x]
      /\ Append(s, i)[Len(s) + 1] = i
  OBVIOUS
<1>2. 1..Len(Append(s, i)) = 1..Len(s) \cup {Len(s) + 1}
  BY <1>1
<1> QED
  BY <1>1, <1>2

\* The prediction rows of a batch are finitely many, and one more is one more.
LEMMA OneMore ==
  ASSUME NEW S, NEW n \in Nat, S \subseteq 1..n, NEW i, i \notin S
  PROVE  Cardinality(S \cup {i}) = Cardinality(S) + 1
<1>1. IsFiniteSet(1..n)
  BY FS_Interval
<1>2. IsFiniteSet(S)
  BY <1>1, FS_Subset
<1> QED
  BY <1>2, FS_AddElement

-----------------------------------------------------------------------------
\* A job keeps its invariant while its row and frame stay as they are and it
\* moves towards its coroutine, ends, is lost, or leaves the loop over an
\* inactive session.
LEMMA KeptInv ==
  ASSUME NEW k \in Jobs, JobInv(k), Same(k), faults' = 0 => faults = 0,
         \/ pc'[k] = pc[k]
         \/ pc[k] \in {"dispatch", "waiting", "load"} /\ pc'[k] \in {"waiting", "load", "start"}
         \/ pc[k] # "none" /\ pc'[k] \in {"ended", "lost"}
         \/ pc[k] # "none" /\ pc'[k] = "abort" /\ session[k] = "inactive"
  PROVE  JobInv(k)'
<1>1. Total(k)' = Total(k) /\ Letters(k)' = Letters(k) /\ Settled(k)' = Settled(k)
  BY DEF Same, Total, Letters, Settled
<1>2. FrameAccounts(k)'
  BY <1>1 DEF JobInv, FrameAccounts, Untouched, LoopInv, Same
<1>3. Counted(k)' /\ Ordered(k)' /\ Accounted(k)'
  BY <1>1 DEF JobInv, Counted, Ordered, Accounted, Same
<1> QED
  BY <1>2, <1>3 DEF JobInv

\* mark_running enters the loop at its first transaction.
LEMMA StartInv ==
  ASSUME TypeOK, NEW j \in Jobs, JobInv(j), MarkRunning(j)
  PROVE  JobInv(j)'
<1>1. PICK o \in UpdateOutcomes : MarkRunning(j)!(o)
  BY DEF MarkRunning
<1>2. /\ pc[j] = "start" /\ Untouched(j)
      /\ pc'[j] = IF o.raises THEN "ended" ELSE "score"
      /\ status'[j] = IF o.stored THEN "running" ELSE status[j]
      /\ index'[j] = 1 /\ session'[j] = o.session
      /\ completed'[j] = completed[j] /\ batch'[j] = batch[j]
      /\ scoredAt'[j] = scoredAt[j] /\ deadLetters'[j] = deadLetters[j]
      /\ scored'[j] = scored[j] /\ failed'[j] = failed[j]
  BY <1>1 DEF TypeOK, Call, Goto, store, env, JobInv, FrameAccounts
<1>3. /\ Letters(j)' = {} /\ Total(j)' = Total(j) /\ Total(j) \in Nat \ {0}
      /\ batch[j] # <<>>
  BY <1>2 DEF Letters, Total, Untouched, TypeOK, JobInv, FrameAccounts
<1>4. scored[j] = Cardinality(scoredAt[j])
  BY <1>2, FS_EmptySet DEF Untouched
<1>5. ~o.raises => LoopInv(j)'
  BY <1>2, <1>3, <1>4, UpdateFacts DEF LoopInv, Untouched
<1>6. FrameAccounts(j)'
  BY <1>2, <1>3, <1>5 DEF FrameAccounts, Untouched
<1>7. Counted(j)' /\ Ordered(j)' /\ Accounted(j)'
  BY <1>2, <1>3 DEF Counted, Ordered, Accounted, Untouched
<1> QED
  BY <1>6, <1>7 DEF JobInv

\* Scoring: a row is added for a transaction that had none, or the
\* transaction is on its way to a dead letter.
LEMMA ScoreInv ==
  ASSUME TypeOK, NEW j \in Jobs, JobInv(j), ScoreTransaction(j)
  PROVE  JobInv(j)'
<1>1. PICK o \in InsertOutcomes : ScoreTransaction(j)!(o)
  BY DEF ScoreTransaction
<1> DEFINE i == index[j]
<1>2. /\ pc[j] = "score" /\ LoopInv(j) /\ i \in Nat
      /\ pc'[j] = IF o.raises THEN "deadLetter" ELSE "progress"
      /\ status'[j] = status[j] /\ index'[j] = i /\ session'[j] = o.session
      /\ completed'[j] = completed[j] /\ batch'[j] = batch[j]
      /\ deadLetters'[j] = deadLetters[j]
      /\ scoredAt'[j] = IF o.stored THEN scoredAt[j] \cup {i} ELSE scoredAt[j]
      /\ scored'[j] = IF o.raises THEN scored[j] ELSE scored[j] + 1
      /\ failed'[j] = IF o.raises THEN failed[j] + 1 ELSE failed[j]
  BY <1>1 DEF TypeOK, Call, Goto, rows, env, JobInv, FrameAccounts
<1>3. /\ Letters(j)' = Letters(j) /\ Total(j)' = Total(j) /\ Total(j) \in Nat
      /\ Letters(j) \subseteq 1..(i - 1) /\ scoredAt[j] \subseteq 1..(i - 1) /\ i \in 1..Total(j)
      /\ Settled(j) \subseteq Settled(j)' /\ status[j] = "running"
  BY <1>2 DEF Letters, Total, LoopInv, Settled, TypeOK
<1>4. faults' = 0 => ~o.raises /\ faults = 0
  BY <1>1 DEF Call, TypeOK
<1>5. Cardinality(scoredAt[j] \cup {i}) = Cardinality(scoredAt[j]) + 1
  <2>1. i - 1 \in Nat /\ i \notin scoredAt[j]
    BY <1>2, <1>3 DEF LoopInv
  <2> QED
    BY <1>3, <2>1, OneMore
<1>6. LoopInv(j)'
  <2>1. o.raises \/ (o.stored /\ o.session = "active")
    BY InsertFacts
  <2>2. scored'[j] + failed'[j] = i /\ failed'[j] = Len(deadLetters'[j]) + IF o.raises THEN 1 ELSE 0
    BY <1>2 DEF LoopInv, TypeOK
  <2>3. scoredAt'[j] \subseteq 1..i /\ Letters(j)' \subseteq 1..i
    BY <1>2, <1>3
  <2>4. faults' = 0 => scored'[j] = Cardinality(scoredAt'[j])
    BY <1>2, <1>4, <1>5, <2>1 DEF LoopInv
  <2>5. pc'[j] = "progress" => i \in Settled(j)'
    BY <1>2, <2>1 DEF Settled
  <2> QED
    BY <1>2, <1>3, <1>4, <2>2, <2>3, <2>4, <2>5 DEF LoopInv
<1>7. FrameAccounts(j)'
  BY <1>2, <1>3, <1>6 DEF FrameAccounts, JobInv, LoopInv
<1>8. Ordered(j)'
  BY <1>2, <1>3, <1>4 DEF Ordered, JobInv
<1>9. Counted(j)' /\ Accounted(j)'
  BY <1>2, <1>3 DEF Counted, Accounted, JobInv
<1> QED
  BY <1>7, <1>8, <1>9 DEF JobInv

\* A transaction that raises, or conflicts, is counted and goes to a dead
\* letter without a row.
LEMMA RaiseInv ==
  ASSUME TypeOK, NEW j \in Jobs, JobInv(j), ScoringRaises(j) \/ InsertConflicts(j)
  PROVE  JobInv(j)'
<1> DEFINE i == index[j]
<1>1. /\ pc[j] = "score" /\ LoopInv(j) /\ i \in Nat /\ faults' = faults
      /\ pc'[j] = "deadLetter" /\ failed'[j] = failed[j] + 1
      /\ status'[j] = status[j] /\ index'[j] = i /\ completed'[j] = completed[j]
      /\ batch'[j] = batch[j] /\ deadLetters'[j] = deadLetters[j]
      /\ scoredAt'[j] = scoredAt[j] /\ scored'[j] = scored[j]
  BY DEF TypeOK, ScoringRaises, InsertConflicts, Goto, rows, store, env, JobInv, FrameAccounts
<1>2. /\ Letters(j)' = Letters(j) /\ Total(j)' = Total(j) /\ Total(j) \in Nat
      /\ Letters(j) \subseteq 1..(i - 1) /\ scoredAt[j] \subseteq 1..(i - 1)
      /\ Settled(j)' = Settled(j) /\ status[j] = "running"
  BY SMTT(60), <1>1 DEF Letters, Total, LoopInv, Settled, TypeOK
<1>3. LoopInv(j)'
  <2>1. scored'[j] + failed'[j] = i /\ failed'[j] = Len(deadLetters'[j]) + 1
    <3>1. scored[j] + failed[j] = i - 1 /\ failed[j] = Len(deadLetters[j])
      BY <1>1 DEF LoopInv, TypeOK
    <3>2. scored[j] \in Nat /\ failed[j] \in Nat
      BY DEF TypeOK
    <3> QED
      BY <1>1, <3>1, <3>2
  <2>2. scoredAt'[j] \subseteq 1..i /\ i \notin scoredAt[j]
    BY <1>1, <1>2
  <2> QED
    BY <1>1, <1>2, <2>1, <2>2 DEF LoopInv
<1>4. FrameAccounts(j)'
  BY <1>1, <1>2, <1>3 DEF FrameAccounts, JobInv, LoopInv
<1>5. Counted(j)' /\ Ordered(j)' /\ Accounted(j)'
  BY <1>1, <1>2 DEF Counted, Ordered, Accounted, JobInv
<1> QED
  BY <1>4, <1>5 DEF JobInv

\* The dead letter of the transaction at the loop variable comes after the
\* others.
LEMMA LetterInv ==
  ASSUME TypeOK, NEW j \in Jobs, JobInv(j), WriteDeadLetter(j)
  PROVE  JobInv(j)'
<1>1. PICK o \in InsertOutcomes : WriteDeadLetter(j)!(o)
  BY DEF WriteDeadLetter
<1> DEFINE i == index[j]
           s == deadLetters[j]
<1>2. /\ pc[j] = "deadLetter" /\ LoopInv(j) /\ i \in Nat /\ s \in Seq(Nat)
      /\ pc'[j] = IF o.raises THEN "abort" ELSE "progress"
      /\ status'[j] = status[j] /\ index'[j] = i /\ session'[j] = o.session
      /\ completed'[j] = completed[j] /\ batch'[j] = batch[j]
      /\ deadLetters'[j] = IF o.stored THEN Append(s, i) ELSE s
      /\ scoredAt'[j] = scoredAt[j] /\ scored'[j] = scored[j] /\ failed'[j] = failed[j]
  BY <1>1 DEF TypeOK, Call, Goto, rows, frame, env, JobInv, FrameAccounts
<1>3. /\ Letters(j)' = IF o.stored THEN Letters(j) \cup {i} ELSE Letters(j)
      /\ o.stored => Len(deadLetters'[j]) = Len(s) + 1
      /\ o.stored => \A x \in 1..Len(s) : deadLetters'[j][x] = s[x]
      /\ o.stored => deadLetters'[j][Len(s) + 1] = i
      /\ Len(s) \in Nat
  BY <1>2, AppendLetter DEF Letters
<1>4. /\ Total(j)' = Total(j) /\ Total(j) \in Nat /\ i \in 1..Total(j)
      /\ Letters(j) \subseteq 1..(i - 1) /\ scoredAt[j] \subseteq 1..i
      /\ status[j] = "running" /\ Settled(j) \subseteq Settled(j)'
  BY <1>2, <1>3 DEF Total, LoopInv, Settled, TypeOK
<1>5. faults' = 0 => ~o.raises /\ faults = 0
  BY <1>1 DEF Call, TypeOK
<1>6. ~o.raises => LoopInv(j)'
  <2> SUFFICES ASSUME ~o.raises PROVE LoopInv(j)'
    OBVIOUS
  <2>1. o.stored /\ pc'[j] = "progress"
    BY <1>2, InsertFacts
  <2>2. scored'[j] + failed'[j] = i /\ failed'[j] = Len(deadLetters'[j])
    BY <1>2, <1>3, <2>1 DEF LoopInv, TypeOK
  <2>3. Letters(j)' \subseteq 1..i /\ i \in Settled(j)'
    BY <1>3, <1>4, <2>1 DEF Settled
  <2> QED
    BY <1>2, <1>4, <1>5, <2>1, <2>2, <2>3 DEF LoopInv
<1>7. FrameAccounts(j)'
  <2>1. scoredAt'[j] \cup Letters(j)' \subseteq 1..Total(j)
    BY <1>2, <1>3, <1>4
  <2> QED
    BY <1>2, <1>4, <1>6, <2>1 DEF FrameAccounts, JobInv
<1>8. Ordered(j)'
  <2>1. \A x, y \in 1..Len(deadLetters'[j]) : x < y => deadLetters'[j][x] < deadLetters'[j][y]
    <3>1. \A x, y \in 1..Len(s) : x < y => s[x] < s[y]
      BY DEF JobInv, Ordered
    <3>2. \A x \in 1..Len(s) : s[x] < i
      <4> TAKE x \in 1..Len(s)
      <4>1. s[x] \in Letters(j)
        BY DEF Letters
      <4> QED
        BY <1>2, <1>4, <4>1
    <3>3. ASSUME NEW x \in 1..(Len(s) + 1), NEW y \in 1..(Len(s) + 1), x < y, o.stored
          PROVE  deadLetters'[j][x] < deadLetters'[j][y]
      <4>1. CASE y \in 1..Len(s)
        BY <1>3, <3>1, <3>3, <4>1
      <4>2. CASE y = Len(s) + 1
        BY <1>3, <3>2, <3>3, <4>2
      <4> QED
        BY <1>3, <4>1, <4>2
    <3> QED
      BY <1>2, <1>3, <3>1, <3>3
  <2>2. faults' = 0 => scoredAt'[j] \cap Letters(j)' = {}
    BY <1>2, <1>3, <1>5 DEF Ordered, JobInv, LoopInv
  <2> QED
    BY <2>1, <2>2 DEF Ordered
<1>9. Counted(j)' /\ Accounted(j)'
  BY <1>2, <1>4 DEF Counted, Accounted, JobInv
<1> QED
  BY <1>7, <1>8, <1>9 DEF JobInv

\* The counter moves past a settled transaction; the loop goes on to the next.
LEMMA ProgressInv ==
  ASSUME TypeOK, NEW j \in Jobs, JobInv(j), UpdateProgress(j)
  PROVE  JobInv(j)'
<1>1. PICK o \in UpdateOutcomes : UpdateProgress(j)!(o)
  BY DEF UpdateProgress
<1> DEFINE i == index[j]
           more == i < Total(j)
<1>2. /\ pc[j] = "progress" /\ LoopInv(j) /\ i \in Nat
      /\ pc'[j] = IF o.raises THEN "abort" ELSE IF more THEN "score" ELSE "complete"
      /\ index'[j] = IF more /\ ~o.raises THEN i + 1 ELSE i
      /\ status'[j] = status[j] /\ session'[j] = o.session
      /\ completed'[j] = IF o.stored THEN i ELSE completed[j]
      /\ batch'[j] = batch[j] /\ deadLetters'[j] = deadLetters[j]
      /\ scoredAt'[j] = scoredAt[j] /\ scored'[j] = scored[j] /\ failed'[j] = failed[j]
  BY <1>1 DEF TypeOK, Call, Goto, store, env, JobInv, FrameAccounts
<1>3. /\ Letters(j)' = Letters(j) /\ Settled(j)' = Settled(j)
      /\ Total(j)' = Total(j) /\ Total(j) \in Nat /\ i \in 1..Total(j)
      /\ Letters(j) \subseteq 1..i /\ scoredAt[j] \subseteq 1..i
      /\ status[j] = "running" /\ i \in Settled(j) /\ completed[j] = i - 1
  BY <1>2 DEF Letters, Total, LoopInv, Settled, TypeOK
<1>4. faults' = 0 => faults = 0
  BY <1>1 DEF Call, TypeOK
<1>5. ~o.raises => LoopInv(j)'
  <2> SUFFICES ASSUME ~o.raises PROVE LoopInv(j)'
    OBVIOUS
  <2>1. o.stored /\ session'[j] = "active"
    BY <1>2, UpdateFacts
  <2>2. CASE more
    BY <1>2, <1>3, <1>4, <2>1, <2>2 DEF LoopInv
  <2>3. CASE ~more
    BY <1>2, <1>3, <1>4, <2>1, <2>3 DEF LoopInv
  <2> QED
    BY <2>2, <2>3
<1>6. FrameAccounts(j)'
  BY <1>2, <1>3, <1>5 DEF FrameAccounts, JobInv
<1>7. Counted(j)'
  <2>1. 1..i = 1..completed[j] \cup {i}
    BY <1>2, <1>3
  <2> QED
    BY <1>2, <1>3, <2>1 DEF Counted, JobInv
<1>8. Ordered(j)' /\ Accounted(j)'
  BY <1>2, <1>3, <1>4 DEF Ordered, Accounted, JobInv
<1> QED
  BY <1>6, <1>7, <1>8 DEF JobInv

\* The summary written with the completed status agrees with the tables.
LEMMA CompleteInv ==
  ASSUME TypeOK, NEW j \in Jobs, JobInv(j), MarkCompleted(j)
  PROVE  JobInv(j)'
<1>1. PICK o \in UpdateOutcomes : MarkCompleted(j)!(o)
  BY DEF MarkCompleted
<1>2. /\ pc[j] = "complete" /\ LoopInv(j)
      /\ pc'[j] = IF o.raises THEN "abort" ELSE "ended"
      /\ status'[j] = IF o.stored THEN "completed" ELSE status[j]
      /\ o.stored => result'[j] = [scored |-> scored[j], failed |-> failed[j]]
      /\ session'[j] = o.session /\ completed'[j] = completed[j]
      /\ batch'[j] = batch[j] /\ deadLetters'[j] = deadLetters[j]
      /\ scoredAt'[j] = scoredAt[j]
  BY <1>1 DEF TypeOK, Call, Goto, store, env, frame, JobInv, FrameAccounts
<1>3. /\ Letters(j)' = Letters(j) /\ Settled(j)' = Settled(j) /\ Total(j)' = Total(j)
      /\ status[j] = "running" /\ index[j] = Total(j) /\ completed[j] = Total(j)
      /\ scored[j] + failed[j] = Total(j) /\ failed[j] = Len(deadLetters[j])
      /\ faults = 0 => scored[j] = Cardinality(scoredAt[j])
  BY <1>2 DEF Letters, Total, LoopInv, Settled, TypeOK
<1>4. faults' = 0 => faults = 0
  BY <1>1 DEF Call, TypeOK
<1>5. FrameAccounts(j)'
  BY <1>2, <1>3, UpdateFacts DEF FrameAccounts, JobInv
<1>6. Accounted(j)'
  BY <1>2, <1>3, <1>4 DEF Accounted
<1>7. Counted(j)' /\ Ordered(j)'
  BY <1>2, <1>3, <1>4 DEF Counted, Ordered, JobInv
<1> QED
  BY <1>5, <1>6, <1>7 DEF JobInv

\* mark_failed is reached over a working session only while the job runs.
LEMMA FailInv ==
  ASSUME TypeOK, NEW j \in Jobs, JobInv(j), MarkFailed(j)
  PROVE  JobInv(j)'
<1>1. PICK o \in UpdateOutcomes : MarkFailed(j)!(o)
  BY DEF MarkFailed
<1>2. /\ pc[j] = "abort" /\ status[j] = "running" /\ pc'[j] = "ended"
      /\ status'[j] = IF o.stored THEN "failed" ELSE status[j]
      /\ completed'[j] = completed[j] /\ batch'[j] = batch[j]
      /\ deadLetters'[j] = deadLetters[j] /\ scoredAt'[j] = scoredAt[j]
      /\ faults' = 0 => faults = 0
  BY <1>1 DEF TypeOK, Call, Goto, store, env, frame, JobInv, FrameAccounts
<1>3. Letters(j)' = Letters(j) /\ Settled(j)' = Settled(j) /\ Total(j)' = Total(j)
  BY <1>2 DEF Letters, Total, Settled
<1> QED
  BY <1>2, <1>3 DEF JobInv, FrameAccounts, Counted, Ordered, Accounted

\* A new row is blank, and its batch is not empty: clients cannot submit an
\* empty one, and a retry needs a dead letter.
LEMMA CreateInv ==
  ASSUME TypeOK, NEW j \in Jobs, JobInv(j), NEW txns \in Seq(Transactions) \ {<<>>},
         Create(j, txns)
  PROVE  JobInv(j)'
<1>1. /\ pc[j] = "none" /\ Untouched(j) /\ batch'[j] = txns
      /\ status'[j] = "queued" /\ pc'[j] = "dispatch" /\ session'[j] = session[j]
      /\ completed'[j] = completed[j] /\ deadLetters'[j] = deadLetters[j]
      /\ scoredAt'[j] = scoredAt[j] /\ scored'[j] = scored[j] /\ failed'[j] = failed[j]
  BY DEF TypeOK, Create, Goto, store, frame, JobInv, FrameAccounts
<1>2. Letters(j)' = {} /\ Total(j)' \in Nat
  BY <1>1 DEF Letters, Total, Untouched
<1>3. FrameAccounts(j)'
  BY <1>1, <1>2 DEF FrameAccounts, Untouched
<1> QED
  BY <1>1, <1>2, <1>3 DEF JobInv, Counted, Ordered, Accounted, Untouched

-----------------------------------------------------------------------------
\* Every step of a job keeps its invariant.
LEMMA StepInv ==
  ASSUME TypeOK, NEW j \in Jobs, JobInv(j), Step(j)
  PROVE  JobInv(j)'
<1> DEFINE Calm == faults' = 0 => faults = 0
<1>1. CASE Dispatch(j)
  <2>1. Same(j) /\ pc[j] = "dispatch" /\ pc'[j] \in {"waiting", "start"} /\ Calm
    BY <1>1 DEF Dispatch, TypeOK, Same, Goto, rows, store, frame, env
  <2> QED
    BY <2>1, KeptInv
<1>2. CASE DispatchFails(j)
  <2>1. Same(j) /\ pc[j] = "dispatch" /\ pc'[j] = "ended" /\ Calm
    BY <1>2 DEF DispatchFails, TypeOK, Same, Goto, rows, store, frame, env
  <2> QED
    BY <2>1, KeptInv
<1>3. CASE LoadBundle(j)
  <2>1. Same(j) /\ pc[j] = "load" /\ pc'[j] = "start" /\ Calm
    BY <1>3 DEF LoadBundle, TypeOK, Same, Goto, rows, store, frame, env
  <2> QED
    BY <2>1, KeptInv
<1>4. CASE LoadBundleFails(j)
  <2>1. Same(j) /\ pc[j] = "load" /\ pc'[j] = "ended" /\ Calm
    BY <1>4 DEF LoadBundleFails, TypeOK, Same, Goto, rows, store, frame, env
  <2> QED
    BY <2>1, KeptInv
<1>5. CASE SessionRefuses(j)
  <2>1. /\ Same(j) /\ pc[j] # "none" /\ session[j] = "inactive" /\ Calm
        /\ pc'[j] \in {"abort", "ended"}
    BY <1>5 DEF SessionRefuses, TypeOK, Same, Goto, rows, store, frame, env
  <2> QED
    BY <2>1, KeptInv
<1> QED
  BY <1>1, <1>2, <1>3, <1>4, <1>5, StartInv, ScoreInv, RaiseInv, LetterInv, ProgressInv,
     CompleteInv, FailInv DEF Step

LEMMA JobsStep == Inv /\ [Next]_vars => \A k \in Jobs : JobInv(k)'
<1> SUFFICES ASSUME Inv, [Next]_vars, NEW k \in Jobs PROVE JobInv(k)'
  OBVIOUS
<1>t. TypeOK /\ JobInv(k)
  BY DEF Inv
<1>a. ASSUME NEW j \in Jobs, NEW txns \in Seq(Transactions) \ {<<>>}, Create(j, txns)
      PROVE  JobInv(k)'
  <2>1. CASE j = k
    BY <1>t, <1>a, <2>1, CreateInv
  <2>2. CASE j # k
    <3>1. Same(k) /\ pc'[k] = pc[k] /\ faults' = faults
      BY <1>t, <1>a, <2>2 DEF TypeOK, Create, Same, Goto, store, frame
    <3> QED
      BY <1>t, <3>1, KeptInv
  <2> QED
    BY <2>1, <2>2
<1>1. CASE \E j \in Jobs : Submit(j)
  BY <1>1, <1>a, BatchesAssumption DEF Submit, Transactions
<1>2. CASE \E j, src \in Jobs : RetryDeadLetters(src, j)
  <2>1. PICK j \in Jobs, src \in Jobs : RetryDeadLetters(src, j)
    BY <1>2
  <2> DEFINE retried == [p \in 1..Len(deadLetters[src]) |-> batch[src][deadLetters[src][p]]]
  <2>2. Create(j, retried) /\ deadLetters[src] \in Seq(Nat) /\ deadLetters[src] # <<>>
    BY <1>t, <2>1 DEF RetryDeadLetters, TypeOK
  <2>3. batch'[j] = retried /\ batch'[j] \in Seq(Transactions)
    BY <1>t, <2>2, TypeStep DEF Create, TypeOK
  <2>4. Len(deadLetters[src]) \in Nat \ {0}
    BY <2>2
  <2>5. retried # <<>>
    <3>1. DOMAIN retried = 1..Len(deadLetters[src])
      OBVIOUS
    <3>2. 1 \in DOMAIN retried
      BY <2>4, <3>1
    <3> QED
      BY <3>2
  <2> QED
    BY <1>a, <2>2, <2>3, <2>5
<1>3. CASE \E t \in Named : ScoreRequest(t)
  <2>1. Same(k) /\ pc'[k] = pc[k] /\ faults' = faults
    BY <1>3 DEF ScoreRequest, Same, rows, frame, env
  <2> QED
    BY <1>t, <2>1, KeptInv
<1>4. CASE TakeJob
  <2>1. Same(k) /\ faults' = faults
    BY <1>4 DEF TakeJob, Same, rows, store, frame
  <2>2. Head(queue) \in Jobs /\ pc[Head(queue)] = "waiting"
    <3>1. queue # <<>> /\ queue \in Seq(Jobs)
      BY <1>t, <1>4 DEF TypeOK, TakeJob
    <3>2. 1 \in 1..Len(queue) /\ Head(queue) = queue[1]
      BY <3>1
    <3> QED
      BY <3>1, <3>2 DEF Inv, QueuedOnce
  <2>3. pc'[k] = pc[k] \/ (pc[k] = "waiting" /\ pc'[k] = "load")
    BY <1>t, <1>4, <2>2 DEF TypeOK, TakeJob, Goto
  <2> QED
    BY <1>t, <2>1, <2>3, KeptInv
<1>5. ASSUME NEW j \in Jobs, Step(j) PROVE JobInv(k)'
  <2>1. CASE j = k
    BY <1>t, <1>5, <2>1, StepInv
  <2>2. CASE j # k
    BY <1>t, <1>5, <2>2, StepIsLocal, KeptInv
  <2> QED
    BY <2>1, <2>2
<1>6. ASSUME NEW j \in Jobs, WorkerStops(j) PROVE JobInv(k)'
  <2>1. /\ Same(k) /\ faults' = faults
        /\ pc'[k] = pc[k] \/ (pc[k] # "none" /\ pc'[k] = "lost")
    BY <1>t, <1>6 DEF TypeOK, WorkerStops, Goto, Occupied, Processing, Same, rows, store, frame
  <2> QED
    BY <1>t, <2>1, KeptInv
<1>7. CASE ApiStops
  <2>1. /\ Same(k) /\ faults' = faults
        /\ pc'[k] = pc[k] \/ (pc[k] # "none" /\ pc'[k] = "lost")
    BY <1>t, <1>7 DEF TypeOK, ApiStops, Processing, Same, rows, store, frame
  <2> QED
    BY <1>t, <2>1, KeptInv
<1>8. CASE UNCHANGED vars
  <2>1. Same(k) /\ pc'[k] = pc[k] /\ faults' = faults
    BY <1>8 DEF vars, Same, rows, store, frame, env
  <2> QED
    BY <1>t, <2>1, KeptInv
<1> QED
  BY <1>1, <1>2, <1>3, <1>4, <1>5, <1>6, <1>7, <1>8 DEF Next, Client

-----------------------------------------------------------------------------
\* Inv is an invariant of BatchJobs.
THEOREM Invariance == Spec => []Inv
<1>1. Inv /\ [Next]_vars => Inv'
  BY TypeStep, QueueStep, JobsStep DEF Inv
<1> QED
  BY InitInv, <1>1, PTL DEF Spec

\* Every variable stays in its type.
THEOREM TypeCorrect == Spec => []TypeOK
<1>1. Inv => TypeOK
  BY DEF Inv
<1> QED
  BY Invariance, <1>1, PTL

\* No transaction that the progress counter has passed is without a prediction
\* row or a dead letter, whatever raises or stops.
THEOREM NothingLost == Spec => []NoTransactionLost
<1>1. Inv => NoTransactionLost
  BY DEF Inv, JobInv, NoTransactionLost
<1> QED
  BY Invariance, <1>1, PTL

\* The summary of a completed job agrees with the database.
THEOREM SummaryAccounts == Spec => []ResultAccounts
<1>1. Inv => ResultAccounts
  BY DEF Inv, JobInv, ResultAccounts
<1> QED
  BY Invariance, <1>1, PTL

\* Dead letters are in batch order and unique.
THEOREM LettersOrdered == Spec => []LettersInOrder
<1>1. Inv => LettersInOrder
  BY DEF Inv, JobInv, LettersInOrder
<1> QED
  BY Invariance, <1>1, PTL

\* A job is run by one worker at most: its id is queued once, or is being run.
THEOREM OneRunner == Spec => []QueuedOnce
<1>1. Inv => QueuedOnce
  BY DEF Inv
<1> QED
  BY Invariance, <1>1, PTL

\* Whatever raised, a coroutine that goes on agrees with what the tables hold.
THEOREM LoopKept == Spec => []FramesAccount
<1>1. Inv => FramesAccount
  BY DEF Inv, JobInv, FramesAccount
<1> QED
  BY Invariance, <1>1, PTL

-----------------------------------------------------------------------------
\* The client ids that jobs scored are taken in prediction_logs, which is what
\* keeps them from being scored again.
NamesTaken ==
  \A j \in Jobs : \A p \in scoredAt[j] : batch[j][p] \in Named => batch[j][p] \in logged

\* Only a scoring that stores a row adds to the scored positions.
LEMMA ScoredKept ==
  ASSUME Inv, [Next]_vars, ~\E j \in Jobs : ScoreTransaction(j)
  PROVE  /\ scoredAt' = scoredAt /\ logged \subseteq logged'
         /\ \A k \in Jobs : scoredAt[k] # {} => batch'[k] = batch[k]
<1> USE DEF rows, store, frame, env
<1>t. TypeOK
  BY DEF Inv
<1>1. ASSUME NEW j \in Jobs, Submit(j) \/ \E src \in Jobs : RetryDeadLetters(src, j)
      PROVE  /\ scoredAt' = scoredAt /\ logged' = logged
             /\ \A k \in Jobs : scoredAt[k] # {} => batch'[k] = batch[k]
  <2>1. PICK txns : Create(j, txns)
    BY <1>1 DEF Submit, RetryDeadLetters
  <2>2. scoredAt[j] = {}
    BY <2>1 DEF Create, Inv, JobInv, FrameAccounts, Untouched
  <2> QED
    BY <1>t, <2>1, <2>2 DEF Create, TypeOK
<1>2. CASE \E t \in Named : ScoreRequest(t)
  BY <1>2 DEF ScoreRequest
<1>3. CASE TakeJob
  BY <1>3 DEF TakeJob
<1>4. ASSUME NEW j \in Jobs, Step(j)
      PROVE  scoredAt' = scoredAt /\ logged' = logged /\ batch' = batch
  BY <1>4 DEF Step, Dispatch, DispatchFails, LoadBundle, LoadBundleFails, MarkRunning,
     ScoringRaises, InsertConflicts, WriteDeadLetter, UpdateProgress, MarkCompleted,
     MarkFailed, SessionRefuses
<1>5. CASE \E j \in Jobs : WorkerStops(j)
  BY <1>5 DEF WorkerStops
<1>6. CASE ApiStops
  BY <1>6 DEF ApiStops
<1>7. CASE UNCHANGED vars
  BY <1>7 DEF vars
<1> QED
  BY <1>1, <1>2, <1>3, <1>4, <1>5, <1>6, <1>7 DEF Next, Client

\* A client id is scored for one position of one job at most: the unique column
\* is checked by the very INSERT that takes the id, over all sessions.
THEOREM ScoredOnce == Spec => []NamedScoredOnce
<1> DEFINE Once == NamedScoredOnce /\ NamesTaken
<1>1. Init => Once
  BY DEF Init, NamedScoredOnce, NamesTaken
<1>2. Inv /\ Once /\ [Next]_vars => Once'
  <2> SUFFICES ASSUME Inv, Once, [Next]_vars PROVE Once'
    OBVIOUS
  <2>1. CASE ~\E j \in Jobs : ScoreTransaction(j)
    <3>1. /\ scoredAt' = scoredAt /\ logged \subseteq logged'
          /\ \A k \in Jobs : scoredAt[k] # {} => batch'[k] = batch[k]
      BY <2>1, ScoredKept
    <3>2. \A k \in Jobs : \A p \in scoredAt'[k] : p \in scoredAt[k] /\ batch'[k][p] = batch[k][p]
      BY <3>1
    <3> QED
      BY <3>1, <3>2 DEF NamedScoredOnce, NamesTaken
  <2>2. ASSUME NEW j \in Jobs, ScoreTransaction(j) PROVE Once'
    <3>1. PICK o \in InsertOutcomes : ScoreTransaction(j)!(o)
      BY <2>2 DEF ScoreTransaction
    <3>2. batch' = batch
      BY <3>1 DEF env
    <3>3. CASE ~o.stored
      BY <3>1, <3>2, <3>3 DEF NamedScoredOnce, NamesTaken
    <3>4. CASE o.stored
      <4> DEFINE t == batch[j][index[j]]
      <4>1. /\ t \notin logged /\ logged' = logged \cup ({t} \cap Named)
            /\ scoredAt' = [scoredAt EXCEPT ![j] = @ \cup {index[j]}]
        BY <3>1, <3>4 DEF Insertable
      <4>2. \A k \in Jobs : scoredAt'[k] = IF k = j THEN scoredAt[k] \cup {index[j]} ELSE scoredAt[k]
        BY <4>1 DEF Inv, TypeOK
      <4>3. NamesTaken'
        BY <3>2, <4>1, <4>2 DEF NamesTaken
      <4>4. \A k \in Jobs : \A q \in scoredAt[k] : batch[k][q] \in Named => batch[k][q] # t
        BY <4>1 DEF NamesTaken
      <4>5. NamedScoredOnce'
        <5> SUFFICES ASSUME NEW k \in Jobs, NEW l \in Jobs,
                            NEW p \in scoredAt'[k], NEW q \in scoredAt'[l],
                            batch[k][p] = batch[l][q], batch[k][p] \in Named
                     PROVE  k = l /\ p = q
          BY <3>2 DEF NamedScoredOnce
        <5>1. CASE p \in scoredAt[k] /\ q \in scoredAt[l]
          BY <5>1 DEF NamedScoredOnce
        <5>2. CASE p \notin scoredAt[k]
          <6>1. k = j /\ p = index[j]
            BY <4>2, <5>2
          <6> QED
            BY <4>2, <4>4, <6>1
        <5>3. CASE q \notin scoredAt[l]
          <6>1. l = j /\ q = index[j]
            BY <4>2, <5>3
          <6> QED
            BY <4>2, <4>4, <6>1
        <5> QED
          BY <5>1, <5>2, <5>3
      <4> QED
        BY <4>3, <4>5
    <3> QED
      BY <3>3, <3>4
  <2> QED
    BY <2>1, <2>2
<1> QED
  BY <1>1, <1>2, Invariance, PTL DEF Spec

-----------------------------------------------------------------------------
(* BatchJobs implements JobLedger: under the mapping of the instance       *)
(* Ledger (settled positions are those with a prediction row or a dead     *)
(* letter), every step of the service is a step of the ledger or leaves it *)
(* alone.                                                                  *)

Mapped == <<status, completed, result, batch, deadLetters, scoredAt>>
total == [j \in Jobs |-> Total(j)]
settled == [j \in Jobs |-> Settled(j)]

LEMMA MappedInit == Init => Ledger!Init
BY DEF Init, Ledger!Init, Total, Settled, Letters

\* A step that leaves the mapped variables alone leaves the ledger alone.
LEMMA Stutter ==
  ASSUME UNCHANGED Mapped
  PROVE  UNCHANGED Ledger!ledgerVars
<1>1. /\ status' = status /\ completed' = completed /\ result' = result
      /\ batch' = batch /\ deadLetters' = deadLetters /\ scoredAt' = scoredAt
  BY DEF Mapped
<1>2. total' = total
  BY <1>1 DEF total, Total
<1>3. settled' = settled
  BY <1>1 DEF settled, Settled, Letters
<1> QED
  BY <1>1, <1>2, <1>3 DEF Ledger!ledgerVars, total, settled

\* A new row opens the job.
LEMMA CreateOpens ==
  ASSUME TypeOK, NEW j \in Jobs, NEW txns \in Seq(Transactions) \ {<<>>}, Create(j, txns)
  PROVE  Ledger!Open(j)
<1>1. /\ status[j] = "absent" /\ status' = [status EXCEPT ![j] = "queued"]
      /\ completed' = completed /\ result' = result
      /\ deadLetters' = deadLetters /\ scoredAt' = scoredAt
      /\ batch' = [batch EXCEPT ![j] = txns]
  BY DEF Create, store
<1>2. settled' = settled
  BY <1>1 DEF settled, Settled, Letters
<1>3. total' = [total EXCEPT ![j] = total'[j]]
  BY <1>1 DEF TypeOK, total, Total
<1>4. total'[j] \in Nat \ {0}
  <2>1. total'[j] = Len(txns)
    BY <1>1 DEF TypeOK, total, Total
  <2> QED
    BY <2>1
<1> QED
  BY <1>1, <1>2, <1>3, <1>4 DEF Ledger!Open, total, settled

\* mark_running starts the job, if its row is stored.
LEMMA RunningStarts ==
  ASSUME Inv, NEW j \in Jobs, MarkRunning(j)
  PROVE  UNCHANGED Ledger!ledgerVars \/ Ledger!Start(j)
<1>1. PICK o \in UpdateOutcomes : MarkRunning(j)!(o)
  BY DEF MarkRunning
<1>2. /\ status' = IF o.stored THEN [status EXCEPT ![j] = "running"] ELSE status
      /\ UNCHANGED <<completed, result, batch, deadLetters, scoredAt>>
  BY <1>1 DEF store, env
<1>3. status[j] = "queued"
  BY <1>1 DEF Inv, JobInv, FrameAccounts, Untouched, Call
<1>4. settled' = settled /\ total' = total
  BY <1>2 DEF settled, Settled, Letters, total, Total
<1> QED
  BY <1>2, <1>3, <1>4 DEF Ledger!Start, Ledger!ledgerVars, total, settled

\* A prediction row or a dead letter settles the transaction at the loop
\* variable, the next to be counted.
LEMMA OutcomeSettles ==
  ASSUME Inv, NEW j \in Jobs, ScoreTransaction(j) \/ WriteDeadLetter(j)
  PROVE  UNCHANGED Ledger!ledgerVars \/ Ledger!Settle(j)
<1> DEFINE i == index[j]
<1>t. TypeOK /\ LoopInv(j) /\ pc[j] \in {"score", "deadLetter"}
  BY DEF Inv, JobInv, FrameAccounts, ScoreTransaction, WriteDeadLetter, Call
<1>1. status[j] = "running" /\ i = completed[j] + 1 /\ completed[j] < total[j]
  BY <1>t DEF LoopInv, TypeOK, total, Total
<1>2. UNCHANGED <<status, completed, result, batch>>
  BY DEF ScoreTransaction, WriteDeadLetter, rows, env
<1>3. total' = total
  BY <1>2 DEF total, Total
<1>4. settled' = settled \/ settled' = [settled EXCEPT ![j] = @ \cup {i}]
  <2>1. CASE ScoreTransaction(j)
    <3>1. PICK o \in InsertOutcomes : ScoreTransaction(j)!(o)
      BY <2>1 DEF ScoreTransaction
    <3>2. CASE ~o.stored
      BY <3>1, <3>2 DEF settled, Settled, Letters
    <3>3. CASE o.stored
      <4>1. scoredAt' = [scoredAt EXCEPT ![j] = @ \cup {i}] /\ deadLetters' = deadLetters
        BY <3>1, <3>3
      <4>2. \A k \in Jobs : Settled(k)' = IF k = j THEN Settled(k) \cup {i} ELSE Settled(k)
        BY <1>t, <4>1 DEF TypeOK, Settled, Letters
      <4> QED
        BY <4>2 DEF settled
    <3> QED
      BY <3>2, <3>3
  <2>2. CASE WriteDeadLetter(j)
    <3>1. PICK o \in InsertOutcomes : WriteDeadLetter(j)!(o)
      BY <2>2 DEF WriteDeadLetter
    <3>2. CASE ~o.stored
      BY <3>1, <3>2 DEF settled, Settled, Letters
    <3>3. CASE o.stored
      <4>1. deadLetters' = [deadLetters EXCEPT ![j] = Append(@, i)] /\ scoredAt' = scoredAt
        BY <3>1, <3>3
      <4>2. deadLetters[j] \in Seq(Nat) /\ i \in Nat
        BY <1>t DEF TypeOK
      <4>3. \A k \in Jobs : Letters(k)' = IF k = j THEN Letters(k) \cup {i} ELSE Letters(k)
        <5> TAKE k \in Jobs
        <5>1. CASE k = j
          <6>1. deadLetters'[j] = Append(deadLetters[j], i)
            BY <1>t, <4>1 DEF TypeOK
          <6> QED
            BY <4>2, <5>1, <6>1, AppendLetter DEF Letters
        <5>2. CASE k # j
          BY <1>t, <4>1, <5>2 DEF TypeOK, Letters
        <5> QED
          BY <5>1, <5>2
      <4>4. \A k \in Jobs : Settled(k)' = IF k = j THEN Settled(k) \cup {i} ELSE Settled(k)
        BY <4>1, <4>3 DEF Settled
      <4> QED
        BY <4>4 DEF settled
    <3> QED
      BY <3>2, <3>3
  <2> QED
    BY <2>1, <2>2
<1> QED
  BY <1>1, <1>2, <1>3, <1>4 DEF Ledger!Settle, Ledger!ledgerVars, total, settled

\* update_progress counts the transaction at the loop variable, which is
\* settled.
LEMMA ProgressAdvances ==
  ASSUME Inv, NEW j \in Jobs, UpdateProgress(j)
  PROVE  UNCHANGED Ledger!ledgerVars \/ Ledger!Advance(j)
<1>1. PICK o \in UpdateOutcomes : UpdateProgress(j)!(o)
  BY DEF UpdateProgress
<1>t. TypeOK /\ LoopInv(j) /\ pc[j] = "progress"
  BY <1>1 DEF Inv, JobInv, FrameAccounts, Call
<1>2. /\ UNCHANGED <<status, result, batch, deadLetters, scoredAt>>
      /\ completed' = IF o.stored THEN [completed EXCEPT ![j] = index[j]] ELSE completed
  BY <1>1 DEF store, env
<1>3. settled' = settled /\ total' = total
  BY <1>2 DEF settled, Settled, Letters, total, Total
<1>4. /\ status[j] = "running" /\ index[j] = completed[j] + 1
      /\ completed[j] + 1 \in settled[j]
  BY <1>t DEF LoopInv, TypeOK, settled
<1> QED
  BY <1>2, <1>3, <1>4 DEF Ledger!Advance, Ledger!ledgerVars, total, settled

\* mark_completed splits all the transactions of a running job.
LEMMA CompletedSplits ==
  ASSUME Inv, NEW j \in Jobs, MarkCompleted(j)
  PROVE  UNCHANGED Ledger!ledgerVars \/ Ledger!Complete(j)
<1>1. PICK o \in UpdateOutcomes : MarkCompleted(j)!(o)
  BY DEF MarkCompleted
<1>t. TypeOK /\ LoopInv(j) /\ pc[j] = "complete"
  BY <1>1 DEF Inv, JobInv, FrameAccounts, Call
<1> DEFINE summary == [scored |-> scored[j], failed |-> failed[j]]
<1>2. /\ UNCHANGED <<completed, batch, deadLetters, scoredAt>>
      /\ status' = IF o.stored THEN [status EXCEPT ![j] = "completed"] ELSE status
      /\ result' = IF o.stored THEN [result EXCEPT ![j] = summary] ELSE result
  BY <1>1 DEF store, env
<1>3. settled' = settled /\ total' = total
  BY <1>2 DEF settled, Settled, Letters, total, Total
<1>4. /\ status[j] = "running" /\ completed[j] = total[j]
      /\ scored[j] + failed[j] = total[j] /\ scored[j] \in Nat /\ failed[j] \in Nat
  BY <1>t DEF LoopInv, TypeOK, total
<1>5. CASE o.stored
  <2>1. result'[j] = summary /\ result' = [result EXCEPT ![j] = result'[j]]
    BY <1>t, <1>2, <1>5 DEF TypeOK
  <2>2. {result'[j].scored, result'[j].failed} \subseteq Nat
    BY <1>4, <2>1
  <2>3. result'[j].scored + result'[j].failed = total[j]
    BY <1>4, <2>1
  <2> QED
    BY <1>2, <1>3, <1>4, <1>5, <2>1, <2>2, <2>3 DEF Ledger!Complete, total, settled
<1>6. CASE ~o.stored
  BY <1>2, <1>3, <1>6 DEF Ledger!ledgerVars, total, settled
<1> QED
  BY <1>5, <1>6

\* mark_failed ends a running job.
LEMMA FailedEnds ==
  ASSUME Inv, NEW j \in Jobs, MarkFailed(j)
  PROVE  UNCHANGED Ledger!ledgerVars \/ Ledger!Fail(j)
<1>1. PICK o \in UpdateOutcomes : MarkFailed(j)!(o)
  BY DEF MarkFailed
<1>2. status[j] = "running"
  BY <1>1 DEF Inv, JobInv, FrameAccounts, Call
<1>3. /\ UNCHANGED <<completed, result, batch, deadLetters, scoredAt>>
      /\ status' = IF o.stored THEN [status EXCEPT ![j] = "failed"] ELSE status
  BY <1>1 DEF store, env
<1>4. settled' = settled /\ total' = total
  BY <1>3 DEF settled, Settled, Letters, total, Total
<1> QED
  BY <1>2, <1>3, <1>4 DEF Ledger!Fail, Ledger!ledgerVars, total, settled

-----------------------------------------------------------------------------
LEMMA NextMaps == Inv /\ Inv' /\ [Next]_vars => [Ledger!Next]_Ledger!ledgerVars
<1> SUFFICES ASSUME Inv, Inv', [Next]_vars
             PROVE  Ledger!Next \/ UNCHANGED Ledger!ledgerVars
  OBVIOUS
<1>t. TypeOK
  BY DEF Inv
<1> USE DEF Mapped, rows, store, frame, env
<1>1. ASSUME NEW j \in Jobs, Submit(j) \/ \E src \in Jobs : RetryDeadLetters(src, j)
      PROVE  Ledger!Next
  <2>1. PICK txns : Create(j, txns)
    BY <1>1 DEF Submit, RetryDeadLetters
  <2>2. batch'[j] = txns /\ pc'[j] # "none"
    BY <1>t, <2>1 DEF TypeOK, Create, Goto
  <2>3. txns \in Seq(Transactions) \ {<<>>}
    BY <2>2 DEF Inv, TypeOK, JobInv, FrameAccounts
  <2> QED
    BY <1>t, <2>1, <2>3, CreateOpens DEF Ledger!Next
<1>2. CASE \E t \in Named : ScoreRequest(t)
  BY <1>2, Stutter DEF ScoreRequest
<1>3. CASE TakeJob
  BY <1>3, Stutter DEF TakeJob
<1>4. ASSUME NEW j \in Jobs, Step(j)
      PROVE  Ledger!Next \/ UNCHANGED Ledger!ledgerVars
  <2>1. CASE Dispatch(j) \/ DispatchFails(j) \/ LoadBundle(j) \/ LoadBundleFails(j)
    BY <2>1, Stutter DEF Dispatch, DispatchFails, LoadBundle, LoadBundleFails
  <2>2. CASE ScoringRaises(j) \/ InsertConflicts(j) \/ SessionRefuses(j)
    BY <2>2, Stutter DEF ScoringRaises, InsertConflicts, SessionRefuses
  <2> QED
    BY <1>4, <2>1, <2>2, RunningStarts, OutcomeSettles, ProgressAdvances,
       CompletedSplits, FailedEnds DEF Step, Ledger!Next
<1>5. CASE \E j \in Jobs : WorkerStops(j)
  BY <1>5, Stutter DEF WorkerStops
<1>6. CASE ApiStops
  BY <1>6, Stutter DEF ApiStops
<1>7. CASE UNCHANGED vars
  BY <1>7, Stutter DEF vars
<1> QED
  BY <1>1, <1>2, <1>3, <1>4, <1>5, <1>6, <1>7 DEF Next, Client

\* The batch jobs keep the promises of the ledger: a row is started at most
\* once, counts only settled transactions, and never leaves a terminal status,
\* whatever the database, Redis and the processes do.
THEOREM Refinement == Spec => LedgerSpec
<1>1. Init => Ledger!Init
  BY MappedInit
<1>2. Inv /\ Inv' /\ [Next]_vars => [Ledger!Next]_Ledger!ledgerVars
  BY NextMaps
<1> QED
  BY <1>1, <1>2, Invariance, PTL DEF Spec, Ledger!Spec, LedgerSpec

-----------------------------------------------------------------------------
(* How jobs end.                                                           *)

Unhindered == faults = 0 /\ stops = 0

\* The session of j has refused an INSERT of a client id that is taken: of the
\* transaction at its loop variable.  Those before it have their outcomes and are
\* counted, and no other has one.
RefusedDuplicate(j) ==
  /\ pc[j] \in {"deadLetter", "abort", "ended"}
  /\ status[j] = "running"
  /\ index[j] \in 1..Total(j) /\ Settled(j) = 1..(index[j] - 1)
  /\ batch[j][index[j]] \in logged
  /\ completed[j] = index[j] - 1

\* Without failures or stops, a job ends completed, or it ends over such a session
\* and its row says running for good.
EndsWell(j) ==
  Unhindered =>
    /\ pc[j] # "lost"
    /\ pc[j] = "abort" => session[j] = "inactive"
    /\ pc[j] = "ended" => status[j] = IF session[j] = "active" THEN "completed" ELSE "running"
    /\ session[j] = "inactive" => RefusedDuplicate(j)

\* No job waits that has left the queue.
WaitingIsQueued == \A j \in Jobs : pc[j] = "waiting" => \E i \in 1..Len(queue) : queue[i] = j

OnlyDuplicatesStick == WaitingIsQueued /\ \A j \in Jobs : EndsWell(j)

\* A job whose row and frame stay as they are ends as well, if it does not end now.
LEMMA EndKept ==
  ASSUME NEW k \in Jobs, EndsWell(k), Same(k), Unhindered' => Unhindered, logged \subseteq logged',
         \/ pc'[k] = pc[k]
         \/ Unhindered' => session[k] = "active" /\ pc'[k] \notin {"lost", "abort", "ended"}
  PROVE  EndsWell(k)'
<1>1. Total(k)' = Total(k) /\ Settled(k)' = Settled(k)
  BY DEF Same, Total, Settled, Letters
<1>2. RefusedDuplicate(k) /\ pc'[k] = pc[k] => RefusedDuplicate(k)'
  BY <1>1 DEF RefusedDuplicate, Same
<1> QED
  BY <1>2 DEF EndsWell, Same

\* Neither failures nor stops, nor the taken client ids, ever get fewer.
LEMMA OnlyMore ==
  ASSUME TypeOK, [Next]_vars
  PROVE  (Unhindered' => Unhindered) /\ logged \subseteq logged'
<1>t. faults \in Nat /\ stops \in Nat
  BY DEF TypeOK
<1> USE <1>t DEF Unhindered, rows, store, frame, env
<1>1. CASE Client
  BY <1>1 DEF Client, Submit, RetryDeadLetters, Create, ScoreRequest
<1>2. CASE TakeJob
  BY <1>2 DEF TakeJob
<1>3. ASSUME NEW j \in Jobs, Step(j)
      PROVE  /\ faults' \in {faults, faults + 1} /\ stops' = stops
             /\ logged \subseteq logged'
  <2>1. CASE \/ Dispatch(j) \/ DispatchFails(j) \/ LoadBundle(j) \/ LoadBundleFails(j)
             \/ ScoringRaises(j) \/ InsertConflicts(j) \/ SessionRefuses(j)
    BY <2>1 DEF Dispatch, DispatchFails, LoadBundle, LoadBundleFails, ScoringRaises,
       InsertConflicts, SessionRefuses
  <2>2. CASE \/ MarkRunning(j) \/ WriteDeadLetter(j) \/ UpdateProgress(j)
             \/ MarkCompleted(j) \/ MarkFailed(j)
    BY <2>2 DEF MarkRunning, WriteDeadLetter, UpdateProgress, MarkCompleted, MarkFailed, Call
  <2>3. CASE ScoreTransaction(j)
    <3>1. PICK o \in InsertOutcomes : ScoreTransaction(j)!(o)
      BY <2>3 DEF ScoreTransaction
    <3> QED
      BY <3>1 DEF Call
  <2> QED
    BY <1>3, <2>1, <2>2, <2>3 DEF Step
<1>4. CASE \E j \in Jobs : WorkerStops(j)
  BY <1>4 DEF WorkerStops
<1>5. CASE ApiStops
  BY <1>5 DEF ApiStops
<1>6. CASE UNCHANGED vars
  BY <1>6 DEF vars
<1>7. ASSUME NEW j \in Jobs, Step(j)
      PROVE  (Unhindered' => Unhindered) /\ logged \subseteq logged'
  <2>1. faults' \in {faults, faults + 1} /\ stops' = stops /\ logged \subseteq logged'
    BY <1>3, <1>7, Zenon
  <2> QED
    BY <2>1
<1> QED
  BY <1>1, <1>2, <1>4, <1>5, <1>6, <1>7 DEF Next

\* The steps of a job itself.
LEMMA StepEnds ==
  ASSUME TypeOK, NEW j \in Jobs, JobInv(j), EndsWell(j), Step(j),
         Unhindered' => Unhindered, logged \subseteq logged'
  PROVE  EndsWell(j)'
<1> SUFFICES ASSUME Unhindered' PROVE EndsWell(j)'
  BY DEF EndsWell
<1> USE DEF Goto, rows, store, frame, env
<1>u. faults = 0 /\ faults' = 0 /\ stops = 0
  BY DEF Unhindered
<1>1. CASE Dispatch(j) \/ LoadBundle(j)
  <2>1. Same(j) /\ pc'[j] \notin {"lost", "abort", "ended"} /\ pc[j] \in {"dispatch", "load"}
    BY <1>1 DEF Dispatch, LoadBundle, TypeOK, Same
  <2>2. session[j] = "active"
    BY <2>1 DEF JobInv, FrameAccounts, Untouched
  <2> QED
    BY <2>1, <2>2, EndKept
<1>2. CASE DispatchFails(j) \/ LoadBundleFails(j)
  BY <1>2, <1>u DEF DispatchFails, LoadBundleFails
<1>3. ASSUME NEW o, NEW at, Call(j, at, o) PROVE ~o.raises
  BY <1>3, <1>u DEF Call
<1>4. CASE MarkRunning(j) \/ ScoreTransaction(j) \/ WriteDeadLetter(j) \/ UpdateProgress(j)
  <2>1. CASE MarkRunning(j)
    <3>1. PICK o \in UpdateOutcomes : MarkRunning(j)!(o)
      BY <2>1 DEF MarkRunning
    <3>2. session'[j] = "active" /\ pc'[j] = "score"
      BY <1>3, <3>1, UpdateFacts DEF Call, TypeOK
    <3> QED
      BY <3>2 DEF EndsWell
  <2>2. CASE ScoreTransaction(j)
    <3>1. PICK o \in InsertOutcomes : ScoreTransaction(j)!(o)
      BY <2>2 DEF ScoreTransaction
    <3>2. session'[j] = "active" /\ pc'[j] = "progress"
      BY <1>3, <3>1, InsertFacts DEF Call, TypeOK
    <3> QED
      BY <3>2 DEF EndsWell
  <2>3. CASE WriteDeadLetter(j)
    <3>1. PICK o \in InsertOutcomes : WriteDeadLetter(j)!(o)
      BY <2>3 DEF WriteDeadLetter
    <3>2. session'[j] = "active" /\ pc'[j] = "progress"
      BY <1>3, <3>1, InsertFacts DEF Call, TypeOK
    <3> QED
      BY <3>2 DEF EndsWell
  <2>4. CASE UpdateProgress(j)
    <3>1. PICK o \in UpdateOutcomes : UpdateProgress(j)!(o)
      BY <2>4 DEF UpdateProgress
    <3>2. session'[j] = "active" /\ pc'[j] \in {"score", "complete"}
      BY <1>3, <3>1, UpdateFacts DEF Call, TypeOK
    <3> QED
      BY <3>2 DEF EndsWell
  <2> QED
    BY <1>4, <2>1, <2>2, <2>3, <2>4
<1>5. CASE ScoringRaises(j)
  <2>1. session'[j] = "active" /\ pc'[j] = "deadLetter"
    BY <1>5 DEF ScoringRaises, TypeOK, JobInv, FrameAccounts, LoopInv
  <2> QED
    BY <2>1 DEF EndsWell
<1>6. CASE InsertConflicts(j)
  <2>1. /\ pc[j] = "score" /\ pc'[j] = "deadLetter" /\ session'[j] = "inactive"
        /\ batch[j][index[j]] \in logged /\ logged' = logged /\ index' = index /\ batch' = batch
        /\ status' = status /\ completed' = completed
        /\ deadLetters' = deadLetters /\ scoredAt' = scoredAt
    BY <1>6 DEF InsertConflicts, TypeOK, Insertable
  <2>2. LoopInv(j) /\ index[j] \in Nat
    BY <2>1 DEF JobInv, FrameAccounts, TypeOK
  <2>3. /\ status[j] = "running" /\ index[j] \in 1..Total(j) /\ completed[j] = index[j] - 1
        /\ scoredAt[j] \subseteq 1..(index[j] - 1) /\ Letters(j) \subseteq 1..(index[j] - 1)
    BY <2>1, <2>2 DEF LoopInv
  <2>4. Settled(j) = 1..(index[j] - 1)
    BY <2>3 DEF Settled, JobInv, Counted
  <2>5. Total(j)' = Total(j) /\ Settled(j)' = Settled(j)
    BY <2>1 DEF Total, Settled, Letters
  <2>6. RefusedDuplicate(j)'
    BY <2>1, <2>3, <2>4, <2>5 DEF RefusedDuplicate
  <2> QED
    BY <2>1, <2>6 DEF EndsWell
<1>7. CASE MarkCompleted(j)
  <2>1. PICK o \in UpdateOutcomes : MarkCompleted(j)!(o)
    BY <1>7 DEF MarkCompleted
  <2>2. session'[j] = "active" /\ pc'[j] = "ended" /\ status'[j] = "completed"
    BY <1>3, <2>1, UpdateFacts DEF Call, TypeOK
  <2> QED
    BY <2>2 DEF EndsWell
<1>8. CASE MarkFailed(j)
  BY <1>8 DEF MarkFailed, Call, EndsWell
<1>9. CASE SessionRefuses(j)
  <2>1. /\ session[j] = "inactive" /\ pc'[j] \in {"abort", "ended"}
        /\ Same(j) /\ logged' = logged
    BY <1>9 DEF SessionRefuses, TypeOK, Same
  <2>2. RefusedDuplicate(j)
    BY <2>1 DEF EndsWell
  <2>3. Total(j)' = Total(j) /\ Settled(j)' = Settled(j)
    BY <2>1 DEF Same, Total, Settled, Letters
  <2>4. RefusedDuplicate(j)'
    BY <2>1, <2>2, <2>3 DEF RefusedDuplicate, Same
  <2> QED
    BY <2>1, <2>4 DEF EndsWell, RefusedDuplicate, Same
<1> QED
  BY <1>1, <1>2, <1>4, <1>5, <1>6, <1>7, <1>8, <1>9 DEF Step

LEMMA EndsStep == Inv /\ [Next]_vars /\ (\A k \in Jobs : EndsWell(k)) => \A k \in Jobs : EndsWell(k)'
<1> SUFFICES ASSUME Inv, [Next]_vars, NEW k \in Jobs, EndsWell(k) PROVE EndsWell(k)'
  OBVIOUS
<1>t. TypeOK /\ JobInv(k)
  BY DEF Inv
<1>m. (Unhindered' => Unhindered) /\ logged \subseteq logged'
  BY <1>t, OnlyMore
<1>1. CASE Client
  <2>1. CASE Same(k) /\ pc'[k] = pc[k]
    BY <1>m, <2>1, EndKept
  <2>2. CASE ~(Same(k) /\ pc'[k] = pc[k])
    <3>1. status[k] = "absent" /\ pc'[k] = "dispatch" /\ session'[k] = session[k]
      BY <1>t, <1>1, <2>2, ClientIsLocal
    <3>2. session[k] = "active"
      BY <1>t, <3>1 DEF JobInv, FrameAccounts, Untouched
    <3> QED
      BY <3>1, <3>2 DEF EndsWell
  <2> QED
    BY <2>1, <2>2
<1>2. CASE TakeJob
  <2>1. Same(k)
    BY <1>2 DEF TakeJob, Same, rows, store, frame
  <2>2. Head(queue) \in Jobs /\ pc[Head(queue)] = "waiting"
    <3>1. queue # <<>> /\ queue \in Seq(Jobs)
      BY <1>t, <1>2 DEF TypeOK, TakeJob
    <3>2. 1 \in 1..Len(queue) /\ Head(queue) = queue[1]
      BY <3>1
    <3> QED
      BY <3>1, <3>2 DEF Inv, QueuedOnce
  <2>3. pc'[k] = pc[k] \/ (pc[k] = "waiting" /\ pc'[k] = "load")
    BY <1>t, <1>2, <2>2 DEF TypeOK, TakeJob, Goto
  <2>4. pc[k] = "waiting" => session[k] = "active"
    BY <1>t DEF JobInv, FrameAccounts, Untouched
  <2> QED
    BY <1>m, <2>1, <2>3, <2>4, EndKept
<1>3. ASSUME NEW j \in Jobs, Step(j) PROVE EndsWell(k)'
  <2>1. CASE j = k
    BY <1>t, <1>m, <1>3, <2>1, StepEnds
  <2>2. CASE j # k
    <3>1. Same(k) /\ pc'[k] = pc[k]
      BY <1>t, <1>3, <2>2, StepIsLocal
    <3> QED
      BY <1>m, <3>1, EndKept
  <2> QED
    BY <2>1, <2>2
<1>4. CASE ApiStops \/ \E j \in Jobs : WorkerStops(j)
  <2>1. stops' = stops + 1 /\ stops \in Nat
    BY <1>t, <1>4 DEF ApiStops, WorkerStops, TypeOK
  <2> QED
    BY <2>1 DEF EndsWell, Unhindered
<1>5. CASE UNCHANGED vars
  <2>1. Same(k) /\ pc'[k] = pc[k]
    BY <1>5 DEF vars, Same, rows, store, frame, env
  <2> QED
    BY <1>m, <2>1, EndKept
<1> QED
  BY <1>1, <1>2, <1>3, <1>4, <1>5 DEF Next

LEMMA WaitingStep == Inv /\ [Next]_vars /\ WaitingIsQueued => WaitingIsQueued'
<1> SUFFICES ASSUME Inv, [Next]_vars, WaitingIsQueued PROVE WaitingIsQueued'
  OBVIOUS
<1>t. TypeOK
  BY DEF Inv
<1>a. ASSUME queue' = queue, \A k \in Jobs : pc'[k] = "waiting" => pc[k] = "waiting"
      PROVE  WaitingIsQueued'
  BY <1>a DEF WaitingIsQueued
<1>1. CASE Client
  <2>1. queue' = queue /\ \A k \in Jobs : pc'[k] = pc[k] \/ pc'[k] = "dispatch"
    BY <1>t, <1>1, ClientIsLocal
  <2> QED
    BY <1>a, <2>1
<1>2. CASE TakeJob
  <2>1. queue \in Seq(Jobs) /\ queue # <<>>
    BY <1>t, <1>2 DEF TypeOK, TakeJob
  <2>2. /\ Head(queue) \in Jobs /\ Head(queue) = queue[1] /\ Len(queue) \in Nat
        /\ queue' = Tail(queue) /\ Len(queue') = Len(queue) - 1
        /\ \A i \in 1..Len(queue') : queue'[i] = queue[i + 1]
    BY <2>1, <1>2, HeadTailProperties DEF TakeJob
  <2>3. pc' = [pc EXCEPT ![Head(queue)] = "load"]
    BY <1>2 DEF TakeJob, Goto
  <2>4. ASSUME NEW k \in Jobs, pc'[k] = "waiting"
        PROVE  \E i \in 1..Len(queue') : queue'[i] = k
    <3>1. k # Head(queue) /\ pc[k] = "waiting"
      BY <1>t, <2>2, <2>3, <2>4 DEF TypeOK
    <3>2. PICK i \in 1..Len(queue) : queue[i] = k
      BY <3>1 DEF WaitingIsQueued
    <3>3. i # 1 /\ i - 1 \in 1..Len(queue') /\ queue'[i - 1] = queue[i]
      BY <2>2, <3>1, <3>2
    <3> QED
      BY <3>2, <3>3
  <2> QED
    BY <2>4 DEF WaitingIsQueued
<1>3. ASSUME NEW j \in Jobs, Step(j) PROVE WaitingIsQueued'
  <2>1. CASE Dispatch(j) /\ backend = "redis"
    <3>1. queue' = Append(queue, j) /\ queue \in Seq(Jobs)
      BY <1>t, <2>1 DEF Dispatch, TypeOK
    <3>2. /\ Len(queue') = Len(queue) + 1 /\ Len(queue) \in Nat
          /\ queue'[Len(queue) + 1] = j
          /\ \A i \in 1..Len(queue) : queue'[i] = queue[i]
      BY <3>1
    <3>3. \A k \in Jobs \ {j} : pc'[k] = pc[k]
      BY <1>t, <1>3, StepIsLocal
    <3>4. ASSUME NEW k \in Jobs, pc'[k] = "waiting"
          PROVE  \E i \in 1..Len(queue') : queue'[i] = k
      <4>1. CASE k = j
        BY <3>2, <4>1
      <4>2. CASE k # j
        <5>1. PICK i \in 1..Len(queue) : queue[i] = k
          BY <3>3, <3>4, <4>2 DEF WaitingIsQueued
        <5>2. i \in 1..Len(queue') /\ queue'[i] = k
          BY <3>2, <5>1
        <5> QED
          BY <5>2
      <4> QED
        BY <4>1, <4>2
    <3> QED
      BY <3>4 DEF WaitingIsQueued
  <2>2. CASE ~(Dispatch(j) /\ backend = "redis")
    <3>1. queue' = queue /\ pc'[j] # "waiting"
      <4>1. CASE Dispatch(j)
        BY <1>t, <2>2, <4>1 DEF Dispatch, Goto, TypeOK
      <4>2. CASE ~Dispatch(j)
        <5>1. queue' = queue
          BY <1>t, <1>3, <4>2, StepIsLocal
        <5>2. pc'[j] # "waiting"
          BY <1>t, <1>3, <4>2 DEF TypeOK, Goto, Step, DispatchFails, LoadBundle, LoadBundleFails,
             MarkRunning, ScoreTransaction, ScoringRaises, InsertConflicts, WriteDeadLetter,
             UpdateProgress, MarkCompleted, MarkFailed, SessionRefuses, Call
        <5> QED
          BY <5>1, <5>2
      <4> QED
        BY <4>1, <4>2
    <3>2. \A k \in Jobs : pc'[k] = "waiting" => pc[k] = "waiting"
      BY <1>t, <1>3, <3>1, StepIsLocal
    <3> QED
      BY <1>a, <3>1, <3>2
  <2> QED
    BY <2>1, <2>2
<1>4. CASE \E j \in Jobs : WorkerStops(j)
  BY <1>t, <1>4, <1>a DEF TypeOK, WorkerStops, Goto
<1>5. CASE ApiStops
  BY <1>t, <1>5, <1>a DEF TypeOK, ApiStops
<1>6. CASE UNCHANGED vars
  BY <1>6, <1>a DEF vars, env
<1> QED
  BY <1>1, <1>2, <1>3, <1>4, <1>5, <1>6 DEF Next

\* Where nothing fails or stops, the only way for a job not to be completed when its
\* coroutine has ended is a client id that was taken: its row then says running, the
\* transactions before that one are counted, and neither it nor the rest of the
\* batch has an outcome.  And a job that was pushed is in the queue until it is taken.
THEOREM DuplicatesStick == Spec => []OnlyDuplicatesStick
<1>1. Init => OnlyDuplicatesStick
  BY DEF Init, OnlyDuplicatesStick, WaitingIsQueued, EndsWell
<1>2. Inv /\ [Next]_vars /\ OnlyDuplicatesStick => OnlyDuplicatesStick'
  BY EndsStep, WaitingStep DEF OnlyDuplicatesStick
<1> QED
  BY <1>1, <1>2, Invariance, PTL DEF Spec

-----------------------------------------------------------------------------
\* How far a job has come: the four calls of its start, three for a transaction (and
\* the loop's turn), and the last ones.
Calls(j) ==
  CASE pc[j] = "none" -> 0
    [] pc[j] = "dispatch" -> 1
    [] pc[j] = "waiting" -> 2
    [] pc[j] = "load" -> 3
    [] pc[j] = "start" -> 4
    [] pc[j] = "score" -> 4 * index[j] + 1
    [] pc[j] = "deadLetter" -> 4 * index[j] + 2
    [] pc[j] = "progress" -> 4 * index[j] + 3
    [] pc[j] = "complete" -> 4 * Total(j) + 4
    [] pc[j] = "abort" -> 4 * Total(j) + 5
    [] pc[j] \in {"ended", "lost"} -> 4 * Total(j) + 6

\* Every call of a job is a later one of finitely many, and no step takes it back.
OnlyForward ==
  \A j \in Jobs : /\ Step(j) => Calls(j) < Calls(j)'
                  /\ Calls(j) <= Calls(j)'
                  /\ Calls(j)' <= 4 * Total(j)' + 6

LEMMA CallsBounded ==
  ASSUME TypeOK, NEW j \in Jobs, JobInv(j)
  PROVE  Total(j) \in Nat /\ index[j] \in Nat /\ Calls(j) \in Nat /\ Calls(j) <= 4 * Total(j) + 6
<1>1. Total(j) \in Nat /\ index[j] \in Nat
  BY DEF Total, TypeOK
<1>2. pc[j] \in {"score", "deadLetter", "progress"} => index[j] <= Total(j)
  <2>1. pc[j] \in {"score", "deadLetter", "progress"} => index[j] \in 1..Total(j)
    BY Zenon DEF JobInv, FrameAccounts, LoopInv
  <2> QED
    BY <1>1, <2>1
<1>3. pc[j] \in {"none", "dispatch", "waiting", "load", "start", "score", "deadLetter",
                 "progress", "complete", "abort", "ended", "lost"}
  BY DEF TypeOK, Pcs, Occupied, Processing
<1> QED
  BY <1>1, <1>2, <1>3 DEF Calls

\* A step of a job takes it to a later call.
LEMMA StepForward ==
  ASSUME TypeOK, NEW j \in Jobs, JobInv(j), Step(j)
  PROVE  Calls(j) < Calls(j)'
<1> USE DEF Goto, rows, store, frame, env
<1>1. Total(j)' = Total(j) /\ Total(j) \in Nat /\ index[j] \in Nat
  <2>1. batch' = batch
    BY DEF Step, Dispatch, DispatchFails, LoadBundle, LoadBundleFails, MarkRunning,
       ScoreTransaction, ScoringRaises, InsertConflicts, WriteDeadLetter, UpdateProgress,
       MarkCompleted, MarkFailed, SessionRefuses
  <2> QED
    BY <2>1, CallsBounded DEF Total
<1>2. pc[j] \in {"score", "deadLetter", "progress"} => index[j] <= Total(j)
  <2>1. pc[j] \in {"score", "deadLetter", "progress"} => index[j] \in 1..Total(j)
    BY Zenon DEF JobInv, FrameAccounts, LoopInv
  <2> QED
    BY <1>1, <2>1
<1>3. CASE Dispatch(j) \/ DispatchFails(j) \/ LoadBundle(j) \/ LoadBundleFails(j)
  <2>1. \/ pc[j] = "dispatch" /\ pc'[j] \in {"waiting", "start", "ended"}
        \/ pc[j] = "load" /\ pc'[j] \in {"start", "ended"}
    BY <1>3 DEF Dispatch, DispatchFails, LoadBundle, LoadBundleFails, TypeOK
  <2> QED
    BY <1>1, <2>1 DEF Calls
<1>4. CASE MarkRunning(j)
  <2>1. pc[j] = "start" /\ pc'[j] \in {"score", "ended"} /\ index'[j] = 1
    BY <1>4 DEF MarkRunning, Call, TypeOK
  <2> QED
    BY <1>1, <2>1 DEF Calls
<1>5. CASE ScoreTransaction(j) \/ ScoringRaises(j) \/ InsertConflicts(j)
  <2>1. pc[j] = "score" /\ pc'[j] \in {"deadLetter", "progress"} /\ index'[j] = index[j]
    BY <1>5 DEF ScoreTransaction, ScoringRaises, InsertConflicts, Call, TypeOK
  <2> QED
    BY <1>1, <2>1 DEF Calls
<1>6. CASE WriteDeadLetter(j)
  <2>1. pc[j] = "deadLetter" /\ pc'[j] \in {"progress", "abort"} /\ index'[j] = index[j]
    BY <1>6 DEF WriteDeadLetter, Call, TypeOK
  <2> QED
    BY <1>1, <1>2, <2>1 DEF Calls
<1>7. CASE UpdateProgress(j)
  <2>1. /\ pc[j] = "progress"
        /\ \/ pc'[j] = "score" /\ index'[j] = index[j] + 1
           \/ pc'[j] \in {"complete", "abort"}
    BY <1>7, UpdateFacts DEF UpdateProgress, Call, TypeOK
  <2> QED
    BY <1>1, <1>2, <2>1 DEF Calls
<1>8. CASE MarkCompleted(j) \/ MarkFailed(j)
  <2>1. \/ pc[j] = "complete" /\ pc'[j] \in {"abort", "ended"}
        \/ pc[j] = "abort" /\ pc'[j] = "ended"
    BY <1>8 DEF MarkCompleted, MarkFailed, Call, TypeOK
  <2> QED
    BY <1>1, <2>1 DEF Calls
<1>9. CASE SessionRefuses(j)
  <2>1. \/ pc[j] \in {"deadLetter", "progress", "complete"} /\ pc'[j] = "abort"
        \/ pc[j] = "abort" /\ pc'[j] = "ended"
    BY <1>9 DEF SessionRefuses, TypeOK
  <2> QED
    BY <1>1, <1>2, <2>1 DEF Calls
<1> QED
  BY <1>3, <1>4, <1>5, <1>6, <1>7, <1>8, <1>9 DEF Step

\* What other jobs, workers, clients and stops do to a job.
LEMMA OthersForward ==
  ASSUME Inv, Next, NEW k \in Jobs, ~Step(k)
  PROVE  Calls(k) <= Calls(k)'
<1>t. TypeOK /\ JobInv(k) /\ Calls(k) \in Nat /\ Calls(k) <= 4 * Total(k) + 6 /\ Total(k) \in Nat
  BY CallsBounded DEF Inv
<1>a. ASSUME Same(k), pc'[k] = pc[k] PROVE Calls(k)' = Calls(k)
  BY <1>a DEF Calls, Same, Total
<1>b. ASSUME Same(k), pc'[k] = "lost" PROVE Calls(k) <= Calls(k)'
  BY <1>t, <1>b DEF Calls, Same, Total
<1>1. CASE Client
  <2>1. CASE Same(k) /\ pc'[k] = pc[k]
    BY <1>t, <1>a, <2>1
  <2>2. CASE ~(Same(k) /\ pc'[k] = pc[k])
    <3>1. status[k] = "absent" /\ pc'[k] = "dispatch"
      BY <1>t, <1>1, <2>2, ClientIsLocal
    <3>2. pc[k] = "none"
      BY <1>t, <3>1 DEF JobInv, FrameAccounts
    <3> QED
      BY <3>1, <3>2 DEF Calls
  <2> QED
    BY <2>1, <2>2
<1>2. CASE TakeJob
  <2>1. Same(k)
    BY <1>2 DEF TakeJob, Same, rows, store, frame
  <2>2. Head(queue) \in Jobs /\ pc[Head(queue)] = "waiting"
    <3>1. queue # <<>> /\ queue \in Seq(Jobs)
      BY <1>t, <1>2 DEF TypeOK, TakeJob
    <3>2. 1 \in 1..Len(queue) /\ Head(queue) = queue[1]
      BY <3>1
    <3> QED
      BY <3>1, <3>2 DEF Inv, QueuedOnce
  <2>3. pc'[k] = pc[k] \/ (pc[k] = "waiting" /\ pc'[k] = "load")
    BY <1>t, <1>2, <2>2 DEF TypeOK, TakeJob, Goto
  <2>4. pc[k] = "waiting" /\ pc'[k] = "load" => Calls(k) <= Calls(k)'
    BY DEF Calls
  <2> QED
    BY <1>t, <1>a, <2>1, <2>3, <2>4
<1>3. ASSUME NEW j \in Jobs, Step(j) PROVE Calls(k) <= Calls(k)'
  <2>1. j # k
    BY <1>3
  <2>2. Same(k) /\ pc'[k] = pc[k]
    BY <1>t, <1>3, <2>1, StepIsLocal
  <2> QED
    BY <1>t, <1>a, <2>2
<1>4. ASSUME NEW j \in Jobs, WorkerStops(j) PROVE Calls(k) <= Calls(k)'
  <2>1. Same(k) /\ (pc'[k] = pc[k] \/ pc'[k] = "lost")
    BY <1>t, <1>4 DEF TypeOK, WorkerStops, Goto, Same, rows, store, frame
  <2> QED
    BY <1>t, <1>a, <1>b, <2>1
<1>5. CASE ApiStops
  <2>1. Same(k) /\ (pc'[k] = pc[k] \/ pc'[k] = "lost")
    BY <1>t, <1>5 DEF TypeOK, ApiStops, Same, rows, store, frame
  <2> QED
    BY <1>t, <1>a, <1>b, <2>1
<1> QED
  BY <1>1, <1>2, <1>3, <1>4, <1>5 DEF Next

\* A job makes at most 4 n + 6 calls for its n transactions, whatever raises, and
\* nothing takes it back: with the fairness of the event loop and of the workers it
\* comes to an end.
THEOREM JobsMoveForward == Spec => [][OnlyForward]_vars
<1> DEFINE Bounded == \A j \in Jobs : Calls(j) \in Nat /\ Calls(j) <= 4 * Total(j) + 6
<1>1. Inv => Bounded
  BY CallsBounded DEF Inv
<1>2. Inv /\ Inv' /\ Bounded /\ Bounded' /\ [Next]_vars => [OnlyForward]_vars
  <2> SUFFICES ASSUME Inv, Inv', Bounded, Bounded', Next PROVE OnlyForward
    OBVIOUS
  <2> SUFFICES ASSUME NEW j \in Jobs
               PROVE  /\ Step(j) => Calls(j) < Calls(j)'
                      /\ Calls(j) <= Calls(j)'
                      /\ Calls(j)' <= 4 * Total(j)' + 6
    BY DEF OnlyForward
  <2>1. TypeOK /\ JobInv(j)
    BY DEF Inv
  <2>2. Calls(j) \in Nat /\ Calls(j)' \in Nat /\ Calls(j)' <= 4 * Total(j)' + 6
    OBVIOUS
  <2>3. CASE Step(j)
    BY <2>1, <2>2, <2>3, StepForward
  <2>4. CASE ~Step(j)
    BY <2>2, <2>4, OthersForward
  <2> QED
    BY <2>3, <2>4
<1> HIDE DEF Bounded
<1> QED
  BY <1>1, <1>2, Invariance, PTL DEF Spec
================================================================================
