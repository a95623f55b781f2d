------------------------------ MODULE JobLedger ------------------------------
(***************************************************************************)
(* What a client polling GET /v1/jobs/{job_id} may rely on, with sessions, *)
(* exceptions, queues and process stops left out: a job row is created     *)
(* queued, is started at most once, counts its transactions one at a time  *)
(* and only after each of them has a durable outcome (a prediction row or  *)
(* a dead letter), and reaches a terminal status at most once, never to    *)
(* change again.                                                           *)
(***************************************************************************)
EXTENDS Integers

CONSTANTS Jobs, Null

VARIABLES
  status,     \* batch_jobs.status, "absent" before the row exists
  total,      \* batch_jobs.total
  completed,  \* batch_jobs.completed
  result,     \* batch_jobs.result
  settled     \* per job, the positions that have a durable outcome

ledgerVars == <<status, total, completed, result, settled>>

Init ==
  /\ status = [j \in Jobs |-> "absent"]
  /\ total = [j \in Jobs |-> 0]
  /\ completed = [j \in Jobs |-> 0]
  /\ result = [j \in Jobs |-> Null]
  /\ settled = [j \in Jobs |-> {}]

\* A job opens with at least one transaction.
Open(j) ==
  /\ status[j] = "absent"
  /\ status' = [status EXCEPT ![j] = "queued"]
  /\ total'[j] \in Nat \ {0}
  /\ total' = [total EXCEPT ![j] = total'[j]]
  /\ UNCHANGED <<completed, result, settled>>

Start(j) ==
  /\ status[j] = "queued"
  /\ status' = [status EXCEPT ![j] = "running"]
  /\ UNCHANGED <<total, completed, result, settled>>

\* The next transaction of a running job gets an outcome, for good.
Settle(j) ==
  /\ status[j] = "running"
  /\ settled' = [settled EXCEPT ![j] = @ \cup {completed[j] + 1}]
  /\ completed[j] < total[j]
  /\ UNCHANGED <<status, total, completed, result>>

\* It is counted, and only once it is settled.
Advance(j) ==
  /\ status[j] = "running"
  /\ completed[j] + 1 \in settled[j]
  /\ completed' = [completed EXCEPT ![j] = @ + 1]
  /\ UNCHANGED <<status, total, result, settled>>

\* Completion reports a split of all the transactions.
Complete(j) ==
  /\ status[j] = "running"
  /\ completed[j] = total[j]
  /\ status' = [status EXCEPT ![j] = "completed"]
  /\ result' = [result EXCEPT ![j] = result'[j]]
  /\ {result'[j].scored, result'[j].failed} \subseteq Nat
  /\ result'[j].scored + result'[j].failed = total[j]
  /\ UNCHANGED <<total, completed, settled>>

Fail(j) ==
  /\ status[j] = "running"
  /\ status' = [status EXCEPT ![j] = "failed"]
  /\ UNCHANGED <<total, completed, result, settled>>

Next ==
  \E j \in Jobs : \/ Open(j) \/ Start(j) \/ Settle(j)
                  \/ Advance(j) \/ Complete(j) \/ Fail(j)

Spec == Init /\ [][Next]_ledgerVars
==============================================================================
