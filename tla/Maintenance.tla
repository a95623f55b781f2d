------------------------------ MODULE Maintenance ------------------------------
(***************************************************************************)
(* What a running API process does beside its requests for scores: the     *)
(* periodic tasks (drift reports, retention clean-up), the clean-ups that  *)
(* administrators ask for and the drift reports that clients ask for, all  *)
(* in transactions of their own on the same three tables, from start-up to *)
(* the end of a shutdown.  The clock counts days; an insertion and a       *)
(* shutdown take less than one.                                            *)
(***************************************************************************)
EXTENDS Integers, FiniteSets

CONSTANTS
  Reports,    \* the PeriodicScheduler of run_scheduled_drift_report
  Cleanup,    \* the PeriodicScheduler of run_retention_cleanup
  Calls,      \* POST /v1/admin/retention/cleanup
  Jobs,       \* POST /v1/drift/jobs
  Window,     \* settings.data_retention_days, where it is set
  Asked,      \* the values of ?days=
  Configured, \* the sets of loops that settings start, among those considered
  MaxClock,   \* bound: days
  MaxRows,    \* bound: rows
  MaxFaults   \* bound: statements and commits that fail

ASSUME ActorsAssumption ==
  /\ Reports # Cleanup /\ Calls \cap Jobs = {}
  /\ {Reports, Cleanup} \cap (Calls \cup Jobs) = {}
ASSUME ConfiguredAssumption == Configured \subseteq SUBSET {Reports, Cleanup}
ASSUME DaysAssumption == Window \in Nat \ {0} /\ Asked \subseteq Nat \ {0}
ASSUME BoundsAssumption == MaxClock \in Nat /\ MaxRows \in Nat /\ MaxFaults \in Nat

VARIABLES
  retention,  \* settings.data_retention_days: Window, or 0 where it is not set
  phase,      \* of the process: "up", what lifespan is stopping, "down"
  cancelled,  \* the loops that stop() has cancelled
  clock,
  db,         \* the committed rows
  made,       \* how many rows have been inserted
  pc,         \* what each actor does next
  days,       \* per purge: its retention_days
  cutoff,     \* per purge: its cutoff
  table,      \* per purge: the number of the table it deletes from next
  pending,    \* per purge: the rows it has deleted and not committed
  counted,    \* per purge: the rows its answer counts
  faults

process == <<retention, phase, cancelled>>
rows == <<clock, db, made>>
purge == <<days, cutoff, table, pending, counted>>
vars == <<process, rows, pc, purge, faults>>

Loops == {Reports, Cleanup}
Purgers == {Cleanup} \cup Calls
Reporters == {Reports} \cup Jobs
Actors == Purgers \cup Reporters

Goto(a, next) == pc' = [pc EXCEPT ![a] = next]

\* A loop logs what its task raised, and sleeps; a request is answered.
Ends(a) == Goto(a, IF a \in Loops THEN "sleep" ELSE "done")

\* What a purge knew is forgotten with it.
Forget(p) ==
  /\ pending' = [pending EXCEPT ![p] = {}]
  /\ cutoff' = [cutoff EXCEPT ![p] = 0]
  /\ table' = [table EXCEPT ![p] = 1]

Fault == faults < MaxFaults /\ faults' = faults + 1

Row(name) == [table |-> name, at |-> clock, id |-> made + 1]
Insert(name) ==
  /\ made < MaxRows
  /\ made' = made + 1
  /\ db' = db \cup {Row(name)}
  /\ UNCHANGED clock

-----------------------------------------------------------------------------
(* The rest of the program.                                                *)

\* Scoring and its dead letters.
Write ==
  /\ phase = "up"
  /\ \E name \in {"prediction_logs", "dead_letters"} : Insert(name)
  /\ UNCHANGED <<process, pc, purge, faults>>

DayPasses ==
  /\ phase = "up"
  /\ clock < MaxClock
  /\ clock' = clock + 1
  /\ UNCHANGED <<process, db, made, pc, purge, faults>>

-----------------------------------------------------------------------------
(* RetentionService.purge.                                                 *)

Targets == <<"prediction_logs", "drift_reports", "dead_letters">>

\* Variant: the endpoint deletes in the other order.
BackwardsForCalls(p, i) == IF p \in Calls THEN Targets[4 - i] ELSE Targets[i]
TargetOf(p, i) == Targets[i]

\* Variant: a row at the limit is deleted.
ExpiredOrDue(p) == {r \in db : r.at <= cutoff[p]}
Expired(p) == {r \in db : r.at < cutoff[p]}

\* Variant: a call without a number of days is not refused.
UnrefusedDays(p) == IF p = Cleanup THEN {Window} ELSE Asked \cup {retention}

\* The endpoint answers 400 when neither the call nor the settings have a number of days.
DaysOf(p) == IF p = Cleanup THEN {Window} ELSE Asked \cup ({retention} \ {0})

\* The loop's task, or the endpoint.
BeginPurge(p) ==
  /\ \/ p = Cleanup /\ p \notin cancelled /\ pc[p] = "ready"
     \/ p \in Calls /\ phase = "up" /\ pc[p] = "idle"
  /\ \E d \in DaysOf(p) : days' = [days EXCEPT ![p] = d] /\ cutoff' = [cutoff EXCEPT ![p] = clock - d]
  /\ counted' = [counted EXCEPT ![p] = {}]
  /\ Goto(p, "purge")
  /\ UNCHANGED <<process, rows, table, pending, faults>>

Purging(p) == pc[p] = "purge" /\ p \notin cancelled

Doomed(p) == {r \in Expired(p) : r.table = TargetOf(p, table[p])}

\* A DELETE waits for the rows that another transaction has deleted.
Waits(p) == \E q \in Purgers \ {p} : Doomed(p) \cap pending[q] # {}

\* Variant: the rows are counted by a SELECT before they are deleted.
CountThenDelete(p) ==
  /\ Purging(p) /\ table[p] <= 3
  /\ pending' = [pending EXCEPT ![p] = @ \cup (Doomed(p) \ UNION {pending[q] : q \in Purgers})]
  /\ counted' = [counted EXCEPT ![p] = @ \cup Doomed(p)]
  /\ table' = [table EXCEPT ![p] = @ + 1]
  /\ UNCHANGED <<process, rows, pc, days, cutoff, faults>>

\* Variant: each table is committed by itself.
CommitEachTable(p) ==
  /\ Purging(p) /\ table[p] <= 3 /\ ~Waits(p)
  /\ db' = db \ Doomed(p)
  /\ counted' = [counted EXCEPT ![p] = @ \cup Doomed(p)]
  /\ table' = [table EXCEPT ![p] = @ + 1]
  /\ UNCHANGED <<process, clock, made, pc, days, cutoff, pending, faults>>

\* deleted[name] is the DELETE's row count.
DeleteTable(p) ==
  /\ Purging(p) /\ table[p] <= 3 /\ ~Waits(p)
  /\ pending' = [pending EXCEPT ![p] = @ \cup Doomed(p)]
  /\ counted' = [counted EXCEPT ![p] = @ \cup Doomed(p)]
  /\ table' = [table EXCEPT ![p] = @ + 1]
  /\ UNCHANGED <<process, rows, pc, days, cutoff, faults>>

CommitPurge(p) ==
  /\ Purging(p) /\ table[p] = 4
  /\ db' = db \ pending[p]
  /\ Forget(p)
  /\ Ends(p)
  /\ UNCHANGED <<process, clock, made, days, counted, faults>>

\* The session is closed, which rolls back; a commit that raises may have been done.
RollBack(p) ==
  /\ db' \in {db} \cup (IF table[p] = 4 THEN {db \ pending[p]} ELSE {})
  /\ Forget(p)
  /\ counted' = [counted EXCEPT ![p] = {}]
  /\ UNCHANGED <<clock, made, days>>

\* Variant: a failed task ends its loop.
FailureEndsLoop(p) ==
  /\ Purging(p)
  /\ Fault
  /\ RollBack(p)
  /\ Goto(p, IF p \in Loops THEN "ended" ELSE "done")
  /\ UNCHANGED process

PurgeRaises(p) ==
  /\ Purging(p)
  /\ Fault
  /\ RollBack(p)
  /\ Ends(p)
  /\ UNCHANGED process

-----------------------------------------------------------------------------
(* Drift reports.                                                          *)

Submit(j) ==
  /\ phase = "up"
  /\ pc[j] = "idle"
  /\ Goto(j, "ready")
  /\ UNCHANGED <<process, rows, purge, faults>>

\* The report is computed from the recent rows and inserted.
StoreReport(a) ==
  /\ pc[a] = "ready" /\ a \notin cancelled
  /\ Insert("drift_reports")
  /\ Ends(a)
  /\ UNCHANGED <<process, purge, faults>>

ReportRaises(a) ==
  /\ pc[a] = "ready" /\ a \notin cancelled
  /\ Fault
  /\ Ends(a)
  /\ UNCHANGED <<process, rows, purge>>

-----------------------------------------------------------------------------
(* PeriodicScheduler, and the lifespan that starts and stops two of them.  *)

Wake(l) ==
  /\ pc[l] = "sleep" /\ l \notin cancelled
  /\ Goto(l, "ready")
  /\ UNCHANGED <<process, rows, purge, faults>>

\* The requests in progress are finished first.
BeginStop ==
  /\ phase = "up"
  /\ \A c \in Calls : pc[c] # "purge"
  /\ phase' = "reports"
  /\ UNCHANGED <<retention, cancelled, rows, pc, purge, faults>>

Stopping == IF phase = "reports" THEN {Reports} ELSE IF phase = "cleanup" THEN {Cleanup} ELSE {}

\* stop(): self._handle.cancel().
Cancel(l) ==
  /\ l \in Stopping
  /\ pc[l] \notin {"off", "ended"} /\ l \notin cancelled
  /\ cancelled' = cancelled \cup {l}
  /\ UNCHANGED <<retention, phase, rows, pc, purge, faults>>

\* Variant: _run logs the cancellation as it logs an error.
SwallowCancel(l) ==
  /\ l \in cancelled /\ pc[l] # "ended"
  /\ cancelled' = cancelled \ {l}
  /\ IF pc[l] = "purge" THEN RollBack(l) ELSE UNCHANGED <<rows, purge>>
  /\ Goto(l, "sleep")
  /\ UNCHANGED <<retention, phase, faults>>

\* CancelledError, at the await the task is at, is no Exception: it leaves _run.
Unwind(l) ==
  /\ l \in cancelled /\ pc[l] # "ended"
  /\ IF pc[l] = "purge" THEN RollBack(l) ELSE UNCHANGED <<rows, purge>>
  /\ Goto(l, "ended")
  /\ UNCHANGED <<process, faults>>

\* Variant: stop() does not wait for the task.
StopWithoutWaiting(l) ==
  /\ l \in Stopping
  /\ pc[l] = "off" \/ l \in cancelled
  /\ phase' = IF l = Reports THEN "cleanup" ELSE "down"
  /\ UNCHANGED <<retention, cancelled, rows, pc, purge, faults>>

\* stop() returns; after the second, dispose_engine.
Stopped(l) ==
  /\ l \in Stopping
  /\ pc[l] \in {"off", "ended"}
  /\ phase' = IF l = Reports THEN "cleanup" ELSE "down"
  /\ UNCHANGED <<retention, cancelled, rows, pc, purge, faults>>

\* The tasks of BackgroundJobQueue, which nothing waits for, go on until the event
\* loop is closed.
LoopCloses ==
  /\ phase = "down"
  /\ \E j \in Jobs : pc[j] = "ready"
  /\ pc' = [a \in Actors |-> IF a \in Jobs /\ pc[a] = "ready" THEN "done" ELSE pc[a]]
  /\ UNCHANGED <<process, rows, purge, faults>>

-----------------------------------------------------------------------------
Init ==
  /\ phase = "up" /\ cancelled = {}
  /\ clock = 0 /\ db = {} /\ made = 0
  /\ retention \in {0, Window}
  /\ \E on \in Configured :
       /\ Cleanup \in on => retention # 0
       /\ pc = [a \in Actors |-> IF a \notin Loops THEN "idle" ELSE IF a \in on THEN "ready" ELSE "off"]
  /\ days = [p \in Purgers |-> Window]
  /\ cutoff = [p \in Purgers |-> 0]
  /\ table = [p \in Purgers |-> 1]
  /\ pending = [p \in Purgers |-> {}]
  /\ counted = [p \in Purgers |-> {}]
  /\ faults = 0

PurgeStep(p) == DeleteTable(p) \/ CommitPurge(p)
StopStep == \E l \in Loops : Cancel(l) \/ Unwind(l) \/ Stopped(l)

Next ==
  \/ Write \/ DayPasses
  \/ \E p \in Purgers : BeginPurge(p) \/ PurgeStep(p) \/ PurgeRaises(p)
  \/ \E j \in Jobs : Submit(j)
  \/ \E a \in Reporters : StoreReport(a) \/ ReportRaises(a)
  \/ \E l \in Loops : Wake(l)
  \/ BeginStop \/ StopStep \/ LoopCloses

\* What has begun goes on, and timers fire.
Fairness ==
  /\ WF_vars(BeginPurge(Cleanup)) /\ WF_vars(Wake(Cleanup))
  /\ \A p \in Purgers : WF_vars(PurgeStep(p))
  /\ WF_vars(StopStep)

Spec == Init /\ [][Next]_vars /\ Fairness

-----------------------------------------------------------------------------
(* Correctness.                                                            *)

RowSet == [table : {"prediction_logs", "drift_reports", "dead_letters"}, at : Nat, id : Nat]

TypeOK ==
  /\ retention \in {0, Window}
  /\ phase \in {"up", "reports", "cleanup", "down"}
  /\ cancelled \subseteq Loops
  /\ clock \in Nat /\ db \subseteq RowSet /\ made \in Nat
  /\ pc \in [Actors -> {"off", "idle", "ready", "purge", "sleep", "done", "ended"}]
  /\ days \in [Purgers -> Nat \ {0}]
  /\ cutoff \in [Purgers -> Int]
  /\ table \in [Purgers -> 1..4]
  /\ pending \in [Purgers -> SUBSET RowSet]
  /\ counted \in [Purgers -> SUBSET RowSet]
  /\ faults \in Nat

\* README.md: rows are "purged after a retention window": what a purge deletes and
\* reports is older than the window that was asked for.
YoungRowsStay ==
  \A p \in Purgers : \A r \in pending[p] \cup counted[p] : r.at + days[p] < clock

\* The rows that go are those of one purge, which leaves none that is past its
\* cutoff: the three tables are purged together or not at all.
AllOrNothing ==
  [][db \ db' # {} =>
       \E p \in Purgers : /\ pc[p] = "purge" /\ pc'[p] # "purge"
                          /\ \A r \in db' : r.at >= cutoff[p]]_vars

\* A row is reported deleted by one clean-up at most, also when two of them
\* overlap, and only when it is gone.
CountedOnce ==
  \A p, q \in Purgers :
    /\ pc[p] # "purge" => counted[p] \cap db = {}
    /\ p # q => counted[p] \cap counted[q] = {}

\* Purges that wait for each other's rows: one of them can always go on.
SomePurgeGoesOn ==
  (\E p \in Purgers : Purging(p)) => \E p \in Purgers : Purging(p) /\ (table[p] = 4 \/ ~Waits(p))

\* Once dispose_engine has run, no periodic task runs or holds a transaction.
QuietWhenDown ==
  phase = "down" => \A l \in Loops : pc[l] \in {"off", "ended"} /\ (l = Cleanup => pending[l] = {})

\* A shutdown that has begun comes to its end.
StopEnds == phase # "up" ~> phase = "down"

\* Where the clean-up is scheduled an expired row does not stay while the process
\* is up, whatever tasks have failed.
ExpiredGo ==
  \A i \in 1..MaxRows :
    (\E r \in db : r.id = i /\ r.at + Window < clock) ~>
      (phase # "up" \/ pc[Cleanup] = "off" \/ \A r \in db : r.id # i)
================================================================================
