-------------------------- MODULE MaintenanceProofs --------------------------
(***************************************************************************)
(* The purges take old rows only, all of them or none, count each row      *)
(* once, and never wait for each other in a circle, whatever the number of *)
(* clean-ups, the windows and the failures; and the periodic tasks are     *)
(* over when the process goes down.                                        *)
(***************************************************************************)
EXTENDS Maintenance, TLAPS

\* The tables a purge is through with.
Before(i, name) == \E k \in 1..3 : k < i /\ name = Targets[k]

\* A purge in progress has deleted what was expired in those tables.
PurgeInv(p) ==
  /\ pc[p] # "purge" => pending[p] = {} /\ table[p] = 1 /\ counted[p] \cap db = {}
  /\ pc[p] = "purge" =>
       /\ cutoff[p] + days[p] <= clock
       /\ counted[p] = pending[p]
       /\ \A r \in db : r.at < cutoff[p] /\ Before(table[p], r.table) => r \in pending[p]
  /\ \A r \in pending[p] : r \in db /\ r.at < cutoff[p] /\ Before(table[p], r.table)

\* Loops are cancelled when no call is served, and end in their order.
StopInv ==
  /\ cancelled # {} => phase # "up"
  /\ phase # "up" => \A c \in Calls : pc[c] # "purge"
  /\ phase \in {"cleanup", "down"} => pc[Reports] \in {"off", "ended"}
  /\ phase = "down" => pc[Cleanup] \in {"off", "ended"}
  /\ pc[Reports] # "purge"

IInv ==
  /\ TypeOK
  /\ \A p \in Purgers : PurgeInv(p)
  /\ \A p, q \in Purgers : p # q => counted[p] \cap counted[q] = {}
  /\ \A r \in db : r.id <= made
  /\ \A p \in Purgers : \A r \in counted[p] : r.id <= made
  /\ YoungRowsStay
  /\ StopInv

LEMMA Distinct ==
  /\ Cleanup \in Purgers /\ Calls \subseteq Purgers /\ Purgers \subseteq Actors
  /\ Reports \in Actors /\ Jobs \subseteq Actors /\ Reports \notin Purgers
  /\ Cleanup \notin Calls /\ Jobs \cap (Purgers \cup Loops) = {} /\ Calls \cap Loops = {}
  /\ Loops = {Reports, Cleanup} /\ Reports # Cleanup
  BY ActorsAssumption DEF Purgers, Reporters, Actors, Loops

\* The three tables are all there are.
LEMMA Through ==
  /\ \A r \in RowSet : Before(4, r.table)
  /\ \A i \in 1..3 : \A name : Before(i + 1, name) <=> Before(i, name) \/ name = Targets[i]
  /\ \A name : ~Before(1, name)
  /\ \A i, k \in 1..4 : \A p : i \in 1..3 /\ Before(k, TargetOf(p, i)) => i < k
  BY DEF Before, Targets, RowSet, TargetOf

LEMMA Starts == Init => IInv
<1> SUFFICES ASSUME Init PROVE IInv
  OBVIOUS
<1>1. TypeOK
  BY Distinct, DaysAssumption DEF Init, TypeOK, Purgers
<1>2. (\A p \in Purgers : PurgeInv(p)) /\ YoungRowsStay
  BY Distinct DEF Init, PurgeInv, YoungRowsStay
<1>3. StopInv
  BY Distinct DEF Init, StopInv
<1> QED
  BY <1>1, <1>2, <1>3 DEF Init, IInv

-----------------------------------------------------------------------------
\* What does not touch a purge: insertions, days, and the steps of other actors.
LEMMA OthersKeep ==
  ASSUME IInv,
         UNCHANGED purge,
         \A p \in Purgers : pc'[p] = "purge" <=> pc[p] = "purge",
         clock' \in Nat, clock <= clock',
         made' \in Nat, made <= made', db' \subseteq RowSet,
         \A r \in db' : r \in db \/ (r.at = clock /\ r.id = made + 1 /\ made' = made + 1),
         db \subseteq db'
  PROVE  /\ \A p \in Purgers : PurgeInv(p)'
         /\ \A p, q \in Purgers : p # q => counted'[p] \cap counted'[q] = {}
         /\ \A r \in db' : r.id <= made'
         /\ \A p \in Purgers : \A r \in counted'[p] : r.id <= made'
         /\ YoungRowsStay'
<1> USE DEF purge
<1>a. /\ clock \in Nat /\ made \in Nat /\ days \in [Purgers -> Nat \ {0}]
      /\ cutoff \in [Purgers -> Int] /\ db \subseteq RowSet
      /\ \A p \in Purgers : pending[p] \subseteq RowSet /\ counted[p] \subseteq RowSet
      /\ \A r \in RowSet : r.at \in Nat /\ r.id \in Nat
  BY DEF IInv, TypeOK, RowSet
<1>1. ASSUME NEW p \in Purgers PROVE PurgeInv(p)'
  <2>1. pc'[p] # "purge" => counted[p] \cap db' = {}
    <3> SUFFICES ASSUME pc'[p] # "purge", NEW r \in db', r \in counted[p] PROVE FALSE
      OBVIOUS
    <3>1. r \notin db /\ r.id <= made
      BY DEF IInv, PurgeInv
    <3> QED
      BY <3>1, <1>a
  <2>2. pc'[p] = "purge" =>
          \A r \in db' : r.at < cutoff[p] /\ Before(table[p], r.table) => r \in pending[p]
    <3> SUFFICES ASSUME pc'[p] = "purge", NEW r \in db', r.at < cutoff[p],
                        Before(table[p], r.table), r \notin db
                 PROVE  FALSE
      BY DEF IInv, PurgeInv
    <3>1. r.at = clock /\ cutoff[p] + days[p] <= clock
      BY DEF IInv, PurgeInv
    <3> QED
      BY <3>1, <1>a
  <2>3. cutoff[p] + days[p] <= clock => cutoff[p] + days[p] <= clock'
    BY <1>a
  <2> QED
    BY <2>1, <2>2, <2>3 DEF IInv, PurgeInv, Before
<1>2. \A r \in db' : r.id <= made'
  BY <1>a DEF IInv
<1>3. \A p \in Purgers : \A r \in counted'[p] : r.id <= made'
  BY <1>a DEF IInv
<1>4. YoungRowsStay'
  BY <1>a DEF IInv, YoungRowsStay
<1> QED
  BY <1>1, <1>2, <1>3, <1>4 DEF IInv

LEMMA BeginKeeps ==
  ASSUME IInv, NEW p \in Purgers, BeginPurge(p)
  PROVE  IInv'
<1> USE Distinct DEF process, rows, Goto
<1>1. PICK d \in Nat \ {0} :
        /\ days' = [days EXCEPT ![p] = d] /\ cutoff' = [cutoff EXCEPT ![p] = clock - d]
        /\ pc[p] \in {"ready", "idle"}
        /\ p = Cleanup \/ phase = "up"
  BY DaysAssumption DEF IInv, TypeOK, BeginPurge, DaysOf
<1>2. /\ pc' = [pc EXCEPT ![p] = "purge"] /\ cutoff' = [cutoff EXCEPT ![p] = clock - d]
      /\ counted' = [counted EXCEPT ![p] = {}]
      /\ clock' = clock /\ db' = db /\ made' = made /\ table' = table /\ pending' = pending
      /\ retention' = retention /\ phase' = phase /\ cancelled' = cancelled /\ faults' = faults
  BY <1>1 DEF BeginPurge, IInv, TypeOK
<1>3. TypeOK'
  BY <1>1, <1>2 DEF IInv, TypeOK
<1>4. \A q \in Purgers : PurgeInv(q)'
  <2>1. PurgeInv(p)'
    <3>1. pending[p] = {} /\ table[p] = 1 /\ clock \in Nat /\ table'[p] = 1 /\ pending'[p] = {}
      BY <1>1, <1>2 DEF IInv, PurgeInv, TypeOK
    <3>2. pc'[p] = "purge" /\ cutoff'[p] = clock - d /\ days'[p] = d /\ counted'[p] = {}
      BY <1>1, <1>2 DEF IInv, TypeOK
    <3>3. cutoff'[p] + days'[p] <= clock
      BY <3>1, <3>2
    <3>4. \A r \in db : ~Before(table'[p], r.table)
      BY <3>1, Through
    <3> QED
      BY <1>2, <3>1, <3>2, <3>3, <3>4 DEF PurgeInv
  <2>2. \A q \in Purgers \ {p} : PurgeInv(q)'
    BY <1>1, <1>2 DEF IInv, PurgeInv, TypeOK, Before
  <2> QED
    BY <2>1, <2>2
<1>5. /\ \A q, r \in Purgers : q # r => counted'[q] \cap counted'[r] = {}
      /\ \A q \in Purgers : counted'[q] \subseteq counted[q]
  BY <1>2 DEF IInv, TypeOK
<1>6. YoungRowsStay'
  <2>1. pending[p] = {} /\ counted'[p] = {} /\ pending'[p] = {}
    BY <1>1, <1>2 DEF IInv, PurgeInv, TypeOK
  <2> QED
    BY <1>1, <1>2, <2>1 DEF IInv, YoungRowsStay, TypeOK
<1>7. StopInv'
  BY <1>1, <1>2 DEF IInv, StopInv, TypeOK, BeginPurge
<1> QED
  BY <1>2, <1>3, <1>4, <1>5, <1>6, <1>7 DEF IInv

LEMMA DeleteKeeps ==
  ASSUME IInv, NEW p \in Purgers, DeleteTable(p)
  PROVE  IInv'
<1> USE Distinct DEF process, rows
<1>1. /\ pc[p] = "purge" /\ table[p] \in 1..3
      /\ pending' = [pending EXCEPT ![p] = @ \cup Doomed(p)]
      /\ counted' = [counted EXCEPT ![p] = @ \cup Doomed(p)]
      /\ table' = [table EXCEPT ![p] = @ + 1]
      /\ clock' = clock /\ db' = db /\ made' = made /\ pc' = pc /\ days' = days
      /\ cutoff' = cutoff /\ retention' = retention /\ phase' = phase /\ cancelled' = cancelled /\ faults' = faults
      /\ \A q \in Purgers \ {p} : Doomed(p) \cap pending[q] = {}
  BY DEF DeleteTable, Purging, Waits, IInv, TypeOK
<1>2. Doomed(p) = {r \in db : r.at < cutoff[p] /\ r.table = Targets[table[p]]}
  BY DEF Doomed, Expired, TargetOf
<1>3. TypeOK'
  BY <1>1, <1>2 DEF IInv, TypeOK
<1>4. /\ pending'[p] = pending[p] \cup Doomed(p) /\ counted'[p] = counted[p] \cup Doomed(p)
      /\ table'[p] = table[p] + 1
      /\ \A q \in Purgers \ {p} :
           pending'[q] = pending[q] /\ counted'[q] = counted[q] /\ table'[q] = table[q]
  BY <1>1 DEF IInv, TypeOK
<1>5. \A q \in Purgers : PurgeInv(q)'
  <2>1. PurgeInv(p)'
    <3>1. \A r \in db : Before(table'[p], r.table) <=>
                          Before(table[p], r.table) \/ r.table = Targets[table[p]]
      BY <1>1, <1>4, Through
    <3> QED
      BY <1>1, <1>2, <1>4, <3>1 DEF IInv, PurgeInv
  <2>2. \A q \in Purgers \ {p} : PurgeInv(q)'
    BY <1>1, <1>4 DEF IInv, PurgeInv, Before
  <2> QED
    BY <2>1, <2>2
<1>6. \A q \in Purgers \ {p} : Doomed(p) \cap counted[q] = {}
  BY <1>1, <1>2 DEF IInv, PurgeInv
<1>7. \A q, r \in Purgers : q # r => counted'[q] \cap counted'[r] = {}
  BY <1>4, <1>6 DEF IInv
<1>8. \A q \in Purgers : \A r \in counted'[q] : r.id <= made
  BY <1>2, <1>4 DEF IInv
<1>9. YoungRowsStay'
  <2>1. \A r \in Doomed(p) : r.at + days[p] < clock
    <3>1. /\ cutoff[p] + days[p] <= clock /\ clock \in Nat /\ cutoff[p] \in Int /\ days[p] \in Nat
          /\ \A r \in db : r.at \in Nat
      BY <1>1 DEF IInv, PurgeInv, TypeOK, RowSet
    <3> QED
      BY <1>2, <3>1
  <2> QED
    BY <1>1, <1>4, <2>1 DEF IInv, YoungRowsStay
<1>10. StopInv'
  BY <1>1 DEF IInv, StopInv
<1> QED
  BY <1>1, <1>3, <1>5, <1>7, <1>8, <1>9, <1>10 DEF IInv

\* A purge ends: with its commit, or rolled back.
LEMMA EndKeeps ==
  ASSUME IInv, NEW p \in Purgers, pc[p] = "purge", Forget(p),
         \/ db' = db /\ counted' = [counted EXCEPT ![p] = {}]
         \/ db' = db \ pending[p] /\ counted' \in {counted, [counted EXCEPT ![p] = {}]},
         NEW next \in {"sleep", "done", "ended"}, pc' = [pc EXCEPT ![p] = next],
         UNCHANGED <<process, clock, made, days>>,
         faults' \in Nat,
         next = "done" => p \in Calls, next # "done" => p = Cleanup
  PROVE  IInv'
<1> USE Distinct DEF process
<1>a. /\ clock \in Nat /\ made \in Nat /\ table \in [Purgers -> 1..4]
      /\ pending \in [Purgers -> SUBSET RowSet] /\ counted \in [Purgers -> SUBSET RowSet]
      /\ pc \in [Actors -> {"off", "idle", "ready", "purge", "sleep", "done", "ended"}]
  BY DEF IInv, TypeOK
<1>1. /\ pending'[p] = {} /\ table'[p] = 1 /\ pc'[p] = next /\ pc'[p] # "purge"
      /\ counted'[p] \in {counted[p], {}}
      /\ \A q \in Purgers \ {p} : /\ pending'[q] = pending[q] /\ table'[q] = table[q]
                                  /\ cutoff'[q] = cutoff[q] /\ counted'[q] = counted[q]
      /\ \A a \in Actors \ {p} : pc'[a] = pc[a]
      /\ db' \subseteq db
  BY <1>a DEF Forget, IInv, TypeOK
<1>2. TypeOK'
  <2>1. pc' \in [Actors -> {"off", "idle", "ready", "purge", "sleep", "done", "ended"}]
    BY <1>a
  <2>2. counted' \in [Purgers -> SUBSET RowSet] /\ pending' \in [Purgers -> SUBSET RowSet]
    BY <1>a DEF Forget
  <2>3. cutoff' \in [Purgers -> Int] /\ table' \in [Purgers -> 1..4]
    BY <1>a DEF Forget, IInv, TypeOK
  <2> QED
    BY <2>1, <2>2, <2>3, <1>1 DEF IInv, TypeOK
<1>3. counted'[p] \cap db' = {}
  BY <1>a DEF IInv, PurgeInv
<1>4. ASSUME NEW q \in Purgers, q # p PROVE PurgeInv(q)'
  <2>1. \A r \in pending[q] : r \in db'
    <3>1. pending[q] \subseteq counted[q] /\ pending[p] = counted[p]
      BY DEF IInv, PurgeInv
    <3>2. pending[q] \cap pending[p] = {} /\ pending[q] \subseteq db
      BY <1>4, <3>1 DEF IInv, PurgeInv
    <3> QED
      BY <3>2
  <2> QED
    BY <1>1, <1>4, <2>1 DEF IInv, PurgeInv, Before
<1>5. PurgeInv(p)'
  BY <1>1, <1>3 DEF PurgeInv
<1>6. \A q, r \in Purgers : q # r => counted'[q] \cap counted'[r] = {}
  BY <1>1 DEF IInv
<1>7. \A q \in Purgers : counted'[q] \subseteq counted[q] /\ pending'[q] \subseteq pending[q]
  BY <1>1
<1>8. YoungRowsStay'
  BY <1>7 DEF IInv, YoungRowsStay
<1>9. StopInv'
  BY <1>1 DEF IInv, StopInv
<1> QED
  BY <1>1, <1>2, <1>4, <1>5, <1>6, <1>7, <1>8, <1>9 DEF IInv

-----------------------------------------------------------------------------
\* A row that is inserted is new, and of today.
LEMMA Inserted ==
  ASSUME IInv, NEW name \in {"prediction_logs", "drift_reports", "dead_letters"}, Insert(name)
  PROVE  /\ clock' = clock /\ clock \in Nat /\ made' = made + 1 /\ made \in Nat
         /\ db \subseteq db' /\ db' \subseteq RowSet
         /\ \A r \in db' : r \in db \/ (r.at = clock /\ r.id = made + 1 /\ made' = made + 1)
  BY DEF IInv, TypeOK, Insert, Row, RowSet

\* The program counters that the steps of others than purges assign.
LEMMA OthersStep ==
  ASSUME IInv,
         UNCHANGED <<retention, purge>>,
         \/ UNCHANGED rows
         \/ clock' = clock + 1 /\ UNCHANGED <<db, made>>
         \/ \E name \in {"prediction_logs", "drift_reports", "dead_letters"} : Insert(name),
         pc' \in [Actors -> {"off", "idle", "ready", "purge", "sleep", "done", "ended"}],
         \A p \in Purgers : pc'[p] = "purge" <=> pc[p] = "purge",
         phase' \in {"up", "reports", "cleanup", "down"}, cancelled' \subseteq Loops,
         faults' \in Nat,
         StopInv'
  PROVE  IInv'
<1>1. /\ clock \in Nat /\ made \in Nat /\ db \subseteq RowSet
      /\ clock' \in Nat /\ clock <= clock' /\ made' \in Nat /\ made <= made'
      /\ db' \subseteq RowSet /\ db \subseteq db'
      /\ \A r \in db' : r \in db \/ (r.at = clock /\ r.id = made + 1 /\ made' = made + 1)
  <2>1. CASE UNCHANGED rows
    BY <2>1 DEF rows, IInv, TypeOK
  <2>2. CASE clock' = clock + 1 /\ UNCHANGED <<db, made>>
    BY <2>2 DEF IInv, TypeOK
  <2>3. CASE \E name \in {"prediction_logs", "drift_reports", "dead_letters"} : Insert(name)
    BY <2>3, Inserted, \A k \in Nat : k <= k /\ k <= k + 1 /\ k + 1 \in Nat
  <2> QED
    BY <2>1, <2>2, <2>3
<1>2. TypeOK'
  BY <1>1 DEF IInv, TypeOK, purge
<1> QED
  BY <1>1, <1>2, OthersKeep DEF IInv

LEMMA NextKeeps == IInv /\ [Next]_vars => IInv'
<1> SUFFICES ASSUME IInv, [Next]_vars PROVE IInv'
  OBVIOUS
<1> USE Distinct
<1> DEFINE Labels == {"off", "idle", "ready", "purge", "sleep", "done", "ended"}
<1>t. /\ pc \in [Actors -> Labels] /\ phase \in {"up", "reports", "cleanup", "down"}
      /\ cancelled \subseteq Loops /\ faults \in Nat /\ faults + 1 \in Nat /\ StopInv
  BY DEF IInv, TypeOK
<1>e. ASSUME NEW p \in Purgers, pc[p] = "purge", Ends(p)
      PROVE  \E next \in {"sleep", "done", "ended"} :
               /\ pc' = [pc EXCEPT ![p] = next]
               /\ next = "done" => p \in Calls
               /\ next # "done" => p = Cleanup
  BY <1>e DEF Ends, Goto, Purgers, Loops
<1>r. ASSUME NEW p \in Purgers, RollBack(p)
      PROVE  /\ Forget(p) /\ UNCHANGED <<clock, made, days>>
             /\ \/ db' = db /\ counted' = [counted EXCEPT ![p] = {}]
                \/ db' = db \ pending[p] /\ counted' \in {counted, [counted EXCEPT ![p] = {}]}
  BY <1>r DEF RollBack
<1>1. CASE Write
  BY <1>1, <1>t, OthersStep DEF Write, process, StopInv
<1>2. CASE DayPasses
  BY <1>2, <1>t, OthersStep DEF DayPasses, process, StopInv
<1>3. ASSUME NEW p \in Purgers, BeginPurge(p) PROVE IInv'
  BY <1>3, BeginKeeps
<1>4. ASSUME NEW p \in Purgers, DeleteTable(p) PROVE IInv'
  BY <1>4, DeleteKeeps
<1>5. ASSUME NEW p \in Purgers, CommitPurge(p) PROVE IInv'
  <2>1. pc[p] = "purge" /\ Ends(p) /\ Forget(p) /\ db' = db \ pending[p] /\ counted' = counted
        /\ UNCHANGED <<process, clock, made, days>> /\ faults' = faults
    BY <1>5 DEF CommitPurge, Purging
  <2> QED
    BY <2>1, <1>t, <1>e, EndKeeps
<1>6. ASSUME NEW p \in Purgers, PurgeRaises(p) PROVE IInv'
  <2>1. pc[p] = "purge" /\ Ends(p) /\ RollBack(p) /\ UNCHANGED process /\ faults' \in Nat
    BY <1>6, <1>t DEF PurgeRaises, Purging, Fault
  <2> QED
    BY <2>1, <1>e, <1>r, EndKeeps
<1>7. ASSUME NEW j \in Jobs, Submit(j) PROVE IInv'
  <2>1. pc' = [pc EXCEPT ![j] = "ready"] /\ j \notin Purgers /\ j \notin Loops /\ j \in Actors
    BY <1>7 DEF Submit, Goto
  <2>2. /\ pc' \in [Actors -> Labels]
        /\ \A a \in Actors \ {j} : pc'[a] = pc[a]
    BY <2>1, <1>t
  <2>3. StopInv' /\ UNCHANGED <<process, rows, purge, faults>>
    BY <1>7, <2>1, <2>2, <1>t DEF Submit, StopInv, process
  <2> QED
    BY <2>1, <2>2, <2>3, <1>t, OthersStep DEF process
<1>8. ASSUME NEW a \in Reporters, StoreReport(a) \/ ReportRaises(a) PROVE IInv'
  <2>1. a \notin Purgers /\ a \in Actors /\ a \notin Calls /\ a # Cleanup
    BY DEF Reporters
  <2>2. PICK next \in {"sleep", "done"} : pc' = [pc EXCEPT ![a] = next]
    BY <1>8 DEF StoreReport, ReportRaises, Ends, Goto
  <2>3. /\ pc' \in [Actors -> Labels]
        /\ \A b \in Actors \ {a} : pc'[b] = pc[b]
        /\ pc[a] = "ready" /\ pc'[a] # "purge"
    BY <1>8, <2>1, <2>2, <1>t DEF StoreReport, ReportRaises
  <2>4. /\ UNCHANGED <<process, purge>> /\ faults' \in Nat
        /\ UNCHANGED rows \/ Insert("drift_reports")
    BY <1>8, <1>t DEF StoreReport, ReportRaises, Fault
  <2>5. StopInv'
    BY <2>1, <2>3, <2>4, <1>t DEF StopInv, process
  <2> QED
    BY <2>1, <2>3, <2>4, <2>5, <1>t, OthersStep DEF process
<1>9. ASSUME NEW l \in Loops, Wake(l) PROVE IInv'
  <2>1. pc' = [pc EXCEPT ![l] = "ready"] /\ pc[l] = "sleep" /\ l \in Actors
        /\ UNCHANGED <<process, rows, purge, faults>>
    BY <1>9 DEF Wake, Goto
  <2>2. /\ pc' \in [Actors -> Labels] /\ pc'[l] = "ready"
        /\ \A a \in Actors \ {l} : pc'[a] = pc[a]
    BY <2>1, <1>t
  <2>3. StopInv'
    BY <2>1, <2>2, <1>t DEF StopInv, process
  <2> QED
    BY <2>1, <2>2, <2>3, <1>t, OthersStep DEF process
<1>10. CASE BeginStop
  <2>1. StopInv' /\ phase' = "reports"
    BY <1>10, <1>t DEF BeginStop, StopInv
  <2> QED
    BY <1>10, <2>1, <1>t, OthersStep DEF BeginStop
<1>11. ASSUME NEW l \in Loops, Cancel(l) PROVE IInv'
  <2>1. StopInv' /\ cancelled' \subseteq Loops
    BY <1>11, <1>t DEF Cancel, Stopping, StopInv
  <2> QED
    BY <1>11, <2>1, <1>t, OthersStep DEF Cancel
<1>12. ASSUME NEW l \in Loops, Unwind(l) PROVE IInv'
  <2>1. pc' = [pc EXCEPT ![l] = "ended"] /\ UNCHANGED <<process, faults>> /\ l \in Actors
    BY <1>12 DEF Unwind, Goto
  <2>2. CASE pc[l] = "purge" /\ l \in Purgers
    <3>1. l = Cleanup /\ RollBack(l)
      BY <1>12, <2>2 DEF Unwind
    <3> QED
      BY <2>1, <2>2, <3>1, <1>t, <1>r, EndKeeps
  <2>3. CASE pc[l] # "purge"
    <3>1. UNCHANGED <<rows, purge>>
      BY <1>12, <2>3 DEF Unwind
    <3>2. /\ pc' \in [Actors -> Labels] /\ pc'[l] = "ended"
          /\ \A a \in Actors \ {l} : pc'[a] = pc[a]
      BY <2>1, <1>t
    <3>3. StopInv'
      BY <2>1, <3>2, <1>t DEF StopInv, process
    <3> QED
      BY <2>1, <2>3, <3>1, <3>2, <3>3, <1>t, OthersStep DEF process
  <2>4. CASE pc[l] = "purge" /\ l = Reports
    BY <2>4 DEF IInv, StopInv
  <2> QED
    BY <2>2, <2>3, <2>4
<1>13. ASSUME NEW l \in Loops, Stopped(l) PROVE IInv'
  <2>1. StopInv' /\ phase' \in {"cleanup", "down"}
    BY <1>13, <1>t DEF Stopped, Stopping, StopInv
  <2> QED
    BY <1>13, <2>1, <1>t, OthersStep DEF Stopped
<1>14. CASE LoopCloses
  <2>1. /\ pc' \in [Actors -> Labels]
        /\ \A a \in Actors : a \notin Jobs => pc'[a] = pc[a]
        /\ UNCHANGED <<process, rows, purge, faults>>
    BY <1>14, <1>t DEF LoopCloses
  <2>2. StopInv' /\ \A p \in Purgers : pc'[p] = pc[p]
    BY <2>1, <1>t DEF StopInv, process
  <2> QED
    BY <2>1, <2>2, <1>t, OthersStep DEF process
<1>15. CASE UNCHANGED vars
  BY <1>15, <1>t, OthersStep DEF vars, process, StopInv
<1> QED
  BY <1>1, <1>2, <1>3, <1>4, <1>5, <1>6, <1>7, <1>8, <1>9, <1>10, <1>11, <1>12, <1>13, <1>14,
     <1>15 DEF Next, PurgeStep, StopStep

-----------------------------------------------------------------------------
(* The theorems.                                                           *)

\* The invariant is inductive.
THEOREM InductiveInvariant == Spec => []IInv
<1>1. Init => IInv
  BY Starts
<1>2. IInv /\ [Next]_vars => IInv'
  BY NextKeeps
<1> QED
  BY <1>1, <1>2, PTL DEF Spec

\* Program counters, tables, cutoffs and rows keep their types.
THEOREM TypeCorrect == Spec => []TypeOK
<1>1. IInv => TypeOK
  BY DEF IInv
<1> QED
  BY <1>1, InductiveInvariant, PTL

\* No purge deletes, or reports, a row of the window it was asked to keep.
THEOREM OldRowsOnly == Spec => []YoungRowsStay
<1>1. IInv => YoungRowsStay
  BY DEF IInv
<1> QED
  BY <1>1, InductiveInvariant, PTL

\* However many clean-ups overlap, a row is counted by one, which committed.
THEOREM EachRowOnce == Spec => []CountedOnce
<1>1. IInv => CountedOnce
  BY DEF IInv, CountedOnce, PurgeInv
<1> QED
  BY <1>1, InductiveInvariant, PTL

\* The fixed order of the tables: a purge only waits for one that is further on, so
\* that the one furthest on can go on.
THEOREM NoCircle == Spec => []SomePurgeGoesOn
<1>1. ASSUME IInv, NEW p \in Purgers, Purging(p), table[p] # 4, Waits(p)
      PROVE  \E q \in Purgers : Purging(q) /\ table[p] < table[q]
  <2>1. PICK q \in Purgers \ {p}, r \in db :
          r \in pending[q] /\ r.table = TargetOf(p, table[p])
    BY <1>1 DEF Waits, Doomed, Expired
  <2>2. pc[q] = "purge" /\ Before(table[q], r.table)
    BY <1>1, <2>1 DEF IInv, PurgeInv
  <2>3. table[p] \in 1..3 /\ table[q] \in 1..4 /\ table[p] \in 1..4
    BY <1>1 DEF IInv, TypeOK
  <2>4. table[p] < table[q]
    BY <2>1, <2>2, <2>3, Through
  <2>5. q \notin cancelled
    <3> SUFFICES ASSUME q \in cancelled PROVE FALSE
      OBVIOUS
    <3>1. q = Cleanup /\ p \in Calls /\ phase # "up"
      BY <1>1, <2>1, Distinct DEF IInv, TypeOK, StopInv, Purgers
    <3> QED
      BY <1>1, <3>1 DEF IInv, StopInv, Purging
  <2> QED
    BY <2>2, <2>4, <2>5 DEF Purging
<1>2. IInv => SomePurgeGoesOn
  <2> SUFFICES ASSUME IInv, NEW p \in Purgers, Purging(p),
                      \A q \in Purgers : Purging(q) => table[q] # 4 /\ Waits(q)
               PROVE  FALSE
    BY DEF SomePurgeGoesOn
  <2>1. \A q \in Purgers : table[q] \in 1..4
    BY DEF IInv, TypeOK
  <2>2. \A q \in Purgers : Purging(q) => \E r \in Purgers : Purging(r) /\ table[q] < table[r]
    BY <1>1
  <2>3. \A q \in Purgers : Purging(q) => table[q] \notin {3, 4}
    BY <2>1, <2>2
  <2>4. \A q \in Purgers : Purging(q) => table[q] # 2
    BY <2>1, <2>2, <2>3
  <2>5. \A q \in Purgers : Purging(q) => table[q] # 1
    BY <2>1, <2>2, <2>3, <2>4
  <2> QED
    BY <2>1, <2>3, <2>4, <2>5
<1> QED
  BY <1>2, InductiveInvariant, PTL

\* After dispose_engine no periodic task runs, and none has a transaction open.
THEOREM Quiet == Spec => []QuietWhenDown
<1>1. IInv => QuietWhenDown
  BY Distinct DEF IInv, StopInv, PurgeInv, QuietWhenDown
<1> QED
  BY <1>1, InductiveInvariant, PTL

\* Rows go in one step of one purge, from all the tables, and no expired row is left.
THEOREM TogetherOrNotAtAll == Spec => AllOrNothing
<1> DEFINE Whole == db \ db' # {} =>
             \E p \in Purgers : /\ pc[p] = "purge" /\ pc'[p] # "purge"
                                /\ \A r \in db' : r.at >= cutoff[p]
<1>1. ASSUME IInv, NEW p \in Purgers, pc[p] = "purge", pc'[p] # "purge",
             db' = db \/ (table[p] = 4 /\ db' = db \ pending[p])
      PROVE  Whole
  <2> SUFFICES ASSUME table[p] = 4, db' = db \ pending[p], NEW r \in db' PROVE r.at >= cutoff[p]
    BY <1>1
  <2>1. r \in RowSet /\ r.at \in Nat /\ cutoff[p] \in Int
    BY <1>1 DEF IInv, TypeOK, RowSet
  <2>2. ~(r.at < cutoff[p])
    BY <1>1, <2>1, Through DEF IInv, PurgeInv
  <2> QED
    BY <2>1, <2>2
<1>2. IInv /\ [Next]_vars => Whole
  <2> SUFFICES ASSUME IInv, [Next]_vars PROVE Whole
    OBVIOUS
  <2>t. /\ pc \in [Actors -> {"off", "idle", "ready", "purge", "sleep", "done", "ended"}]
        /\ Purgers \subseteq Actors /\ Loops \subseteq Actors
    BY Distinct DEF IInv, TypeOK
  <2>1. ASSUME NEW p \in Purgers, CommitPurge(p) \/ PurgeRaises(p) PROVE Whole
    <3>1. /\ pc[p] = "purge" /\ pc'[p] # "purge"
          /\ db' = db \/ (table[p] = 4 /\ db' = db \ pending[p])
      BY <2>1, <2>t DEF CommitPurge, PurgeRaises, RollBack, Purging, Ends, Goto
    <3> QED
      BY <1>1, <3>1
  <2>2. ASSUME NEW l \in Loops, Unwind(l) PROVE Whole
    <3>1. CASE pc[l] = "purge"
      <4>1. l = Cleanup
        BY <3>1, Distinct DEF IInv, StopInv
      <4>2. /\ pc'[l] # "purge"
            /\ db' = db \/ (table[l] = 4 /\ db' = db \ pending[l])
        BY <2>2, <3>1, <2>t DEF Unwind, RollBack, Goto
      <4> QED
        BY <1>1, <3>1, <4>1, <4>2, Distinct
    <3>2. CASE pc[l] # "purge"
      BY <2>2, <3>2 DEF Unwind, rows
    <3> QED
      BY <3>1, <3>2
  <2>3. CASE db \subseteq db'
    BY <2>3
  <2>4. Write => db \subseteq db'
    BY DEF Write, Insert
  <2>5. DayPasses \/ BeginStop \/ LoopCloses => db' = db
    BY DEF DayPasses, BeginStop, LoopCloses, rows
  <2>6. \A p \in Purgers : BeginPurge(p) \/ DeleteTable(p) => db' = db
    BY DEF BeginPurge, DeleteTable, rows
  <2>7. /\ \A j \in Jobs : Submit(j) => db' = db
        /\ \A a \in Reporters : StoreReport(a) \/ ReportRaises(a) => db \subseteq db'
        /\ \A l \in Loops : Wake(l) \/ Cancel(l) \/ Stopped(l) => db' = db
    BY DEF Submit, StoreReport, ReportRaises, Wake, Cancel, Stopped, rows, Insert
  <2>8. UNCHANGED vars => db' = db
    BY DEF vars, rows
  <2> QED
    BY <2>1, <2>2, <2>3, <2>4, <2>5, <2>6, <2>7, <2>8 DEF Next, PurgeStep, StopStep
<1> QED
  BY <1>2, InductiveInvariant, PTL DEF Spec, AllOrNothing
================================================================================
