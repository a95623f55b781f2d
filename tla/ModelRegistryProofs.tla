------------------------- MODULE ModelRegistryProofs -------------------------
(***************************************************************************)
(* At most one registered model is active, whatever the activations,       *)
(* failures and stops, when the database has a single writer or the        *)
(* operators activate one model at a time; in the second case, without     *)
(* failures, it is also the one the process serves.  In every case, one of *)
(* the activations in flight can go on, or PostgreSQL breaks a circle, and *)
(* every step of an activation takes it forward.  Two rows become active   *)
(* only if a model is registered between an UPDATE and its COMMIT.         *)
(***************************************************************************)
EXTENDS ModelRegistry, Sums, FiniteSetTheorems, TLAPS

\* Every variable stays in its type.
THEOREM TypeCorrect == Spec => []TypeOK
<1>1. Init => TypeOK
  BY LockingsAssumption, BoundsAssumption DEF Init, TypeOK, InFlight, Active
<1>2. TypeOK /\ [Next]_vars => TypeOK'
  <2> SUFFICES ASSUME TypeOK, [Next]_vars PROVE TypeOK'
    OBVIOUS
  <2> USE DEF TypeOK, Goto, InFlight, Active, deployment, table, request, locks
  <2>1. CASE Start
    BY <2>1 DEF Start
  <2>2. ASSUME NEW m \in Models, Register(m) PROVE TypeOK'
    <3>1. /\ registered \subseteq registered' /\ registered' \subseteq Models
          /\ locking' = locking /\ clients' = clients /\ active' = active /\ api' = api
          /\ served' = served /\ pc' = pc /\ target' = target /\ seen' = seen
          /\ todo' = todo /\ held' = held /\ faults' = faults /\ stops' = stops
      BY <2>2 DEF Register
    <3>2. target' \in [Requests -> registered' \cup {Null}]
      BY <3>1
    <3>3. todo' \in [Requests -> SUBSET registered'] /\ held' \in [Requests -> SUBSET registered']
      BY <3>1
    <3>4. Active' \subseteq registered' /\ \A r \in Requests : InFlight(r)' => target'[r] # Null
      BY <3>1
    <3> QED
      BY <3>1, <3>2, <3>3, <3>4
  <2>3. ASSUME NEW r \in Requests, NEW m \in Models, Activate(r, m) PROVE TypeOK'
    <3>1. active[m] \in BOOLEAN
      OBVIOUS
    <3>2. seen' \in [Requests -> BOOLEAN]
      BY <2>3, <3>1, Zenon DEF Activate
    <3>3. /\ target' \in [Requests -> registered \cup {Null}]
          /\ pc' \in [Requests -> {"idle", "load", "deactivating", "activate", "swap", "done"}]
          /\ \A q \in Requests : InFlight(q)' => target'[q] # Null
      BY <2>3, DefaultAssumption DEF Activate
    <3>4. /\ locking' = locking /\ clients' = clients /\ registered' = registered
          /\ active' = active /\ api' = api /\ served' = served
          /\ todo' = todo /\ held' = held /\ faults' = faults /\ stops' = stops
      BY <2>3 DEF Activate
    <3> QED
      BY <3>2, <3>3, <3>4
  <2>4. ASSUME NEW r \in Requests, Step(r) PROVE TypeOK'
    <3>1. CASE Deactivate(r)
      <4> DEFINE others == registered \ {target[r]}
      <4>1. /\ todo' \in [Requests -> SUBSET registered]
            /\ held' \in [Requests -> SUBSET registered]
            /\ pc' \in [Requests -> {"idle", "load", "deactivating", "activate", "swap", "done"}]
        <5>1. CASE locking = "database"
          BY <3>1, <5>1 DEF Deactivate
        <5>2. CASE locking # "database"
          BY <3>1, <5>2 DEF Deactivate
        <5> QED
          BY <5>1, <5>2
      <4>2. /\ locking' = locking /\ clients' = clients /\ registered' = registered
            /\ active' = active /\ api' = api /\ served' = served /\ target' = target
            /\ seen' = seen /\ faults' = faults /\ stops' = stops
        BY <3>1 DEF Deactivate
      <4>3. \A q \in Requests : InFlight(q)' => InFlight(q)
        BY <3>1, <4>1 DEF Deactivate
      <4>4. Active' \subseteq registered' /\ \A q \in Requests : InFlight(q)' => target'[q] # Null
        BY <4>2, <4>3
      <4> QED
        BY <4>1, <4>2, <4>4
    <3>2. CASE \E m \in Models : LockRow(r, m)
      BY <3>2 DEF LockRow
    <3>3. CASE Commit(r)
      <4>1. active' \in [Models -> BOOLEAN]
        BY <3>3 DEF Commit
      <4>2. Active' \subseteq registered
        BY <3>3 DEF Commit
      <4>3. /\ locking' = locking /\ clients' = clients /\ registered' = registered
            /\ api' = api /\ served' = served /\ target' = target /\ seen' = seen /\ stops' = stops
        BY <3>3 DEF Commit
      <4>4. /\ todo' \in [Requests -> SUBSET registered]
            /\ held' \in [Requests -> SUBSET registered]
            /\ pc' \in [Requests -> {"idle", "load", "deactivating", "activate", "swap", "done"}]
            /\ \A q \in Requests : InFlight(q)' => InFlight(q)
            /\ faults' \in Nat
        BY <3>3 DEF Commit, NoLocks
      <4> QED
        BY <4>1, <4>2, <4>3, <4>4
    <3>4. CASE Swap(r)
      BY <3>4 DEF Swap
    <3>5. CASE LoadFails(r)
      BY <3>5 DEF LoadFails
    <3>6. CASE StatementFails(r)
      BY <3>6 DEF StatementFails, RollBack, NoLocks
    <3>7. CASE DeadlockVictim(r)
      BY <3>7 DEF DeadlockVictim, RollBack, NoLocks
    <3> QED
      BY <2>4, <3>1, <3>2, <3>3, <3>4, <3>5, <3>6, <3>7 DEF Step
  <2>5. CASE ApiStops
    BY <2>5 DEF ApiStops
  <2>6. CASE UNCHANGED vars
    BY <2>6 DEF vars
  <2> QED
    BY <2>1, <2>2, <2>3, <2>4, <2>5, <2>6 DEF Next
<1> QED
  BY <1>1, <1>2, PTL DEF Spec

-----------------------------------------------------------------------------
\* The database has one writer, or there is one activation at a time.
Serial == locking = "database" \/ clients = 1

\* Then no two transactions write together, and the one that writes has set,
\* or is about to set, every other active row inactive.
SerialInv ==
  /\ clients = 1 => \A q, r \in Requests : InFlight(q) /\ InFlight(r) => q = r
  /\ \A r \in Requests : pc[r] # "deactivating" => todo[r] = {}
  /\ Serial =>
       /\ AtMostOneActive
       /\ \A q, r \in Requests : Writing(q) /\ Writing(r) => q = r
       /\ \A r \in Requests : Writing(r) => Active \subseteq {target[r]} \cup held[r] \cup todo[r]

LEMMA AloneInFlight ==
  ASSUME clients = 1, Cardinality({q \in Requests : InFlight(q)}) < clients
  PROVE  \A q \in Requests : ~InFlight(q)
<1> DEFINE S == {q \in Requests : InFlight(q)}
<1>1. IsFiniteSet(S)
  BY RequestsAssumption, FS_Subset
<1>2. Cardinality(S) \in Nat /\ (Cardinality(S) = 0 <=> S = {})
  BY <1>1, FS_CardinalityType, FS_EmptySet
<1> QED
  BY <1>2

\* A step that neither commits nor begins to write keeps SerialInv.
LEMMA CalmStep ==
  ASSUME SerialInv, UNCHANGED <<locking, clients, active, target>>,
         \A r \in Requests : Writing(r)' => pc'[r] = pc[r] /\ held'[r] = held[r],
         \A r \in Requests : InFlight(r)' => InFlight(r),
         \A r \in Requests : \/ todo'[r] = todo[r] /\ (pc[r] # "deactivating" \/ pc'[r] = pc[r])
                             \/ todo'[r] = {} /\ pc'[r] # "deactivating"
  PROVE  SerialInv'
BY DEF SerialInv, Serial, AtMostOneActive, Active, Writing, InFlight

\* A step that leaves the requests and the rows alone keeps it too.
LEMMA StillStep ==
  ASSUME SerialInv, UNCHANGED <<locking, clients, active, target, pc, todo, held>>
  PROVE  SerialInv'
BY DEF SerialInv, Serial, AtMostOneActive, Active, Writing, InFlight

LEMMA SerialStep == TypeOK /\ TypeOK' /\ SerialInv /\ [Next]_vars => SerialInv'
<1> SUFFICES ASSUME TypeOK, TypeOK', SerialInv, [Next]_vars PROVE SerialInv'
  OBVIOUS
<1> USE DEF Goto, NoLocks, deployment, table, request, locks
<1>1. CASE Start
  BY <1>1, StillStep DEF Start
<1>2. CASE \E m \in Models : Register(m)
  BY <1>2, StillStep DEF Register
<1>3. ASSUME NEW r \in Requests, NEW m \in Models, Activate(r, m) PROVE SerialInv'
  <2>1. /\ locking' = locking /\ clients' = clients /\ active' = active
        /\ todo' = todo /\ held' = held /\ pc[r] = "idle" /\ pc'[r] = "load"
        /\ \A q \in Requests \ {r} : pc'[q] = pc[q] /\ target'[q] = target[q]
    BY <1>3 DEF Activate, TypeOK
  <2>2. \A q \in Requests : Writing(q)' => Writing(q) /\ q # r
    BY <2>1 DEF Writing
  <2>3. clients = 1 => \A q \in Requests : InFlight(q)' => q = r
    BY <1>3, <2>1, AloneInFlight DEF Activate, InFlight
  <2>4. \A q \in Requests : pc'[q] # "deactivating" => todo'[q] = {}
    BY <2>1 DEF SerialInv
  <2> QED
    BY <2>1, <2>2, <2>3, <2>4 DEF SerialInv, Serial, AtMostOneActive, Active
<1>4. ASSUME NEW r \in Requests, Step(r) PROVE SerialInv'
  <2>1. CASE Deactivate(r)
    <3>1. /\ locking' = locking /\ clients' = clients /\ active' = active
          /\ target' = target /\ pc[r] = "load" /\ Active \subseteq registered
          /\ pc'[r] \in {"activate", "deactivating"}
          /\ \A q \in Requests \ {r} : pc'[q] = pc[q] /\ todo'[q] = todo[q] /\ held'[q] = held[q]
      BY <2>1 DEF Deactivate, TypeOK
    <3>2. /\ registered \ {target[r]} \subseteq held'[r] \cup todo'[r]
          /\ pc'[r] # "deactivating" => todo'[r] = {}
      <4>1. todo[r] = {}
        BY <3>1 DEF SerialInv
      <4>2. CASE held' = [held EXCEPT ![r] = registered \ {target[r]}] /\ pc'[r] = "activate" /\ todo' = todo
        BY <4>1, <4>2 DEF TypeOK
      <4>3. CASE /\ todo' = [todo EXCEPT ![r] = registered \ {target[r]}]
                 /\ pc' = [pc EXCEPT ![r] = IF registered \ {target[r]} = {} THEN "activate" ELSE "deactivating"]
        BY <4>3 DEF TypeOK
      <4> QED
        BY <2>1, <4>2, <4>3 DEF Deactivate, TypeOK
    <3>3. Serial => \A q \in Requests \ {r} : ~Writing(q)
      <4>1. CASE locking = "database"
        BY <2>1, <4>1 DEF Deactivate
      <4>2. CASE clients = 1
        BY <3>1, <4>2 DEF SerialInv, Writing, InFlight
      <4> QED
        BY <4>1, <4>2 DEF Serial
    <3>4. clients = 1 => \A p, q \in Requests : InFlight(p)' /\ InFlight(q)' => p = q
      BY <3>1 DEF SerialInv, InFlight
    <3>5. \A q \in Requests : pc'[q] # "deactivating" => todo'[q] = {}
      BY <3>1, <3>2 DEF SerialInv
    <3>6. Serial => \A q \in Requests \ {r} : ~Writing(q)'
      BY <3>1, <3>3 DEF Writing
    <3> QED
      BY <3>1, <3>2, <3>4, <3>5, <3>6 DEF SerialInv, Serial, AtMostOneActive, Active
  <2>2. ASSUME NEW m \in Models, LockRow(r, m) PROVE SerialInv'
    <3>1. /\ locking' = locking /\ clients' = clients /\ active' = active
          /\ target' = target /\ pc[r] = "deactivating" /\ pc'[r] \in {"activate", "deactivating"}
          /\ \A q \in Requests \ {r} : pc'[q] = pc[q] /\ todo'[q] = todo[q] /\ held'[q] = held[q]
          /\ held'[r] = held[r] \cup {m} /\ todo'[r] = todo[r] \ {m}
          /\ pc'[r] # "deactivating" => todo'[r] = {}
      BY <2>2 DEF LockRow, TypeOK
    <3>2. \A q \in Requests : /\ (Writing(q)' <=> Writing(q)) /\ (InFlight(q)' <=> InFlight(q))
                              /\ held'[q] \cup todo'[q] = held[q] \cup todo[q] \cup (IF q = r THEN {m} ELSE {})
      BY <3>1 DEF Writing, InFlight
    <3> QED
      BY <3>1, <3>2 DEF SerialInv, Serial, AtMostOneActive, Active
  <2>3. CASE Commit(r)
    <3>1. /\ locking' = locking /\ clients' = clients /\ target' = target
          /\ pc[r] = "activate" /\ pc'[r] \in {"swap", "done"}
          /\ todo'[r] = {} /\ held'[r] = {}
          /\ \A q \in Requests \ {r} : pc'[q] = pc[q] /\ todo'[q] = todo[q] /\ held'[q] = held[q]
      BY <2>3 DEF Commit, TypeOK
    <3>2. \A q \in Requests : /\ Writing(q)' => Writing(q) /\ q # r
                              /\ InFlight(q)' => InFlight(q)
      BY <3>1 DEF Writing, InFlight
    <3>3. \A q \in Requests : pc'[q] # "deactivating" => todo'[q] = {}
      BY <3>1 DEF SerialInv
    <3>4. Serial => Active' \subseteq {target[r]}
      <4>1. Serial => Active \subseteq {target[r]} \cup held[r]
        BY <3>1 DEF SerialInv, Writing
      <4>2. Active' \subseteq {target[r]} \cup (Active \ held[r])
        BY <2>3 DEF Commit, Active
      <4> QED
        BY <4>1, <4>2
    <3>5. Serial => \A q \in Requests : ~Writing(q)'
      BY <3>1, <3>2 DEF SerialInv, Writing
    <3> QED
      BY <3>1, <3>2, <3>3, <3>4, <3>5 DEF SerialInv, Serial, AtMostOneActive
  <2>4. CASE Swap(r) \/ LoadFails(r)
    <3>1. /\ UNCHANGED <<locking, clients, active, target, todo, held>>
          /\ pc[r] # "deactivating" /\ InFlight(r)
          /\ pc' = [pc EXCEPT ![r] = "done"]
      BY <2>4 DEF Swap, LoadFails, InFlight
    <3> QED
      BY <3>1, CalmStep DEF TypeOK, Writing, InFlight
  <2>5. CASE StatementFails(r) \/ DeadlockVictim(r)
    <3>1. RollBack(r)
      BY <2>5 DEF StatementFails, DeadlockVictim
    <3> QED
      BY <3>1, CalmStep DEF RollBack, TypeOK, Writing, InFlight
  <2> QED
    BY <1>4, <2>1, <2>2, <2>3, <2>4, <2>5 DEF Step
<1>5. CASE ApiStops
  BY <1>5, CalmStep DEF ApiStops, TypeOK, Writing, InFlight
<1>6. CASE UNCHANGED vars
  BY <1>6, StillStep DEF vars
<1> QED
  BY <1>1, <1>2, <1>3, <1>4, <1>5, <1>6 DEF Next

\* At most one row is active when activations are serialised by the database or
\* by the operators.
THEOREM OneActive == Spec => []OneActiveWhenSerialised
<1>1. Init => SerialInv
  BY DEF Init, SerialInv, InFlight, Writing, AtMostOneActive
<1>2. SerialInv => OneActiveWhenSerialised
  BY DEF SerialInv, Serial, OneActiveWhenSerialised
<1> QED
  BY <1>1, <1>2, SerialStep, TypeCorrect, PTL DEF Spec

-----------------------------------------------------------------------------
\* What the table says is active is what the process serves.
Agreed == IF Active = {} THEN served = Default ELSE Active = {served}

\* Activations run over a process that is up; while none waits for its swap,
\* table and process agree, and one that waits has made its target the only
\* active row.  What its session read of that row has stayed true.
ServeInv ==
  clients = 1 /\ faults = 0 =>
    /\ \A r \in Requests : InFlight(r) => api = "up"
    /\ api = "up" /\ (\A r \in Requests : pc[r] # "swap") => Agreed
    /\ \A r \in Requests :
         /\ pc[r] \in {"load", "deactivating", "activate"} => seen[r] = active[target[r]]
         /\ pc[r] = "swap" => Active = {target[r]}
         /\ Writing(r) => target[r] \notin held[r] \cup todo[r]
         /\ ~Writing(r) => held[r] = {}

\* A step of a request that leaves the table and the served model alone keeps
\* them agreed, unless the request waits for its swap.
LEMMA AgreeingStep ==
  ASSUME TypeOK, TypeOK', SerialInv, ServeInv, NEW r \in Requests, InFlight(r),
         clients = 1, faults = 0, pc[r] # "swap",
         UNCHANGED <<clients, active, served, api, target, seen>>,
         \A q \in Requests \ {r} : pc'[q] = pc[q] /\ held'[q] = held[q] /\ todo'[q] = todo[q],
         \/ pc'[r] \in {"deactivating", "activate"} /\ target[r] \notin held'[r] \cup todo'[r]
         \/ pc'[r] = "done" /\ held'[r] = {}
  PROVE  ServeInv'
<1>1. api = "up" /\ \A q \in Requests \ {r} : ~InFlight(q)
  BY DEF ServeInv, SerialInv
<1>2. \A q \in Requests : pc[q] # "swap" /\ pc'[q] # "swap"
  BY <1>1 DEF InFlight
<1>3. Agreed' /\ seen[r] = active[target[r]]
  BY <1>1, <1>2 DEF ServeInv, Agreed, Active, InFlight, TypeOK
<1>4. \A q \in Requests \ {r} : ~InFlight(q)' /\ ~Writing(q)' /\ held'[q] = {}
  BY <1>1 DEF ServeInv, InFlight, Writing
<1> QED
  BY <1>1, <1>2, <1>3, <1>4 DEF ServeInv, InFlight, Writing

LEMMA ServeStep == TypeOK /\ TypeOK' /\ SerialInv /\ ServeInv /\ [Next]_vars => ServeInv'
<1> SUFFICES ASSUME TypeOK, TypeOK', SerialInv, ServeInv, [Next]_vars,
                    clients' = 1, faults' = 0
             PROVE  ServeInv'
  BY DEF ServeInv
<1> USE DEF deployment, table, request, locks
<1>f. clients = 1 /\ faults = 0
  <2>1. clients' = clients /\ (faults' = faults \/ faults' = faults + 1)
    <3>1. ASSUME NEW r \in Requests, Step(r)
          PROVE  clients' = clients /\ (faults' = faults \/ faults' = faults + 1)
      BY <3>1 DEF Step, Deactivate, LockRow, Commit, Swap, LoadFails, StatementFails,
                  DeadlockVictim, RollBack
    <3> QED
      BY <3>1 DEF Next, Start, Register, Activate, ApiStops, vars
  <2>2. faults \in Nat
    BY DEF TypeOK
  <2> QED
    BY <2>1, <2>2
<1>a. \A q, r \in Requests : InFlight(q) /\ InFlight(r) => q = r
  BY <1>f DEF SerialInv
<1>1. CASE Start
  <2>1. /\ UNCHANGED <<registered, active, clients, pc, target, seen, todo, held>>
        /\ api = "down"
        /\ api' = "up" => Agreed'
    <3>1. \A m \in Models : Active = {m} => Active # {}
      OBVIOUS
    <3> QED
      BY <1>1, <1>f, <3>1 DEF Start, Agreed, Active, TypeOK
  <2>2. \A r \in Requests : ~InFlight(r)
    BY <1>f, <2>1 DEF ServeInv
  <2> QED
    BY <1>f, <2>1, <2>2 DEF ServeInv, InFlight, Writing
<1>2. CASE \E m \in Models : Register(m)
  BY <1>2, <1>f DEF Register, ServeInv, Agreed, Active, InFlight, Writing
<1>3. ASSUME NEW r \in Requests, NEW m \in Models, Activate(r, m) PROVE ServeInv'
  <2>1. \A q \in Requests : ~InFlight(q)
    BY <1>3, <1>f, AloneInFlight DEF Activate
  <2>2. /\ UNCHANGED <<active, api, served, todo, held>> /\ api = "up" /\ pc'[r] = "load"
        /\ target'[r] = m /\ seen'[r] = active[m]
        /\ \A q \in Requests \ {r} : pc'[q] = pc[q] /\ target'[q] = target[q] /\ seen'[q] = seen[q]
    BY <1>3 DEF Activate, Goto, TypeOK
  <2>3. \A q \in Requests : /\ pc[q] # "swap" /\ pc'[q] # "swap" /\ ~Writing(q)' /\ held'[q] = {}
                            /\ q # r => ~InFlight(q)'
    BY <1>f, <2>1, <2>2 DEF ServeInv, InFlight, Writing
  <2>4. Agreed'
    BY <1>f, <2>2, <2>3 DEF ServeInv, Agreed, Active
  <2> QED
    BY <2>2, <2>3, <2>4 DEF ServeInv, InFlight
<1>4. ASSUME NEW r \in Requests, Step(r) PROVE ServeInv'
  <2>a. InFlight(r) /\ api = "up" /\ \A q \in Requests \ {r} : ~InFlight(q) /\ held[q] = {}
    <3>1. InFlight(r)
      BY <1>4 DEF Step, Deactivate, LockRow, Commit, Swap, LoadFails, StatementFails,
                  DeadlockVictim, WaitsFor, InFlight
    <3> QED
      BY <3>1, <1>a, <1>f DEF ServeInv, InFlight, Writing
  <2>1. CASE Deactivate(r)
    <3>1. /\ pc[r] = "load" /\ held[r] = {} /\ todo[r] = {}
          /\ UNCHANGED <<clients, active, served, api, target, seen>>
          /\ pc'[r] \in {"deactivating", "activate"}
          /\ \A q \in Requests \ {r} : pc'[q] = pc[q] /\ held'[q] = held[q] /\ todo'[q] = todo[q]
      BY <2>1, <1>f DEF Deactivate, Goto, TypeOK, SerialInv, ServeInv, Writing
    <3>2. target[r] \notin held'[r] \cup todo'[r]
      BY <2>1, <3>1 DEF Deactivate, TypeOK
    <3> QED
      BY <1>f, <2>a, <3>1, <3>2, AgreeingStep
  <2>2. ASSUME NEW m \in Models, LockRow(r, m) PROVE ServeInv'
    <3>1. /\ pc[r] = "deactivating" /\ m \in todo[r]
          /\ UNCHANGED <<clients, active, served, api, target, seen>>
          /\ pc'[r] \in {"deactivating", "activate"}
          /\ \A q \in Requests \ {r} : pc'[q] = pc[q] /\ held'[q] = held[q] /\ todo'[q] = todo[q]
          /\ held'[r] = held[r] \cup {m} /\ todo'[r] = todo[r] \ {m}
      BY <2>2 DEF LockRow, Goto, TypeOK
    <3>2. target[r] \notin held'[r] \cup todo'[r]
      BY <1>f, <3>1 DEF ServeInv, Writing
    <3> QED
      BY <1>f, <2>a, <3>1, <3>2, AgreeingStep
  <2>3. CASE Commit(r)
    <3>1. /\ pc[r] = "activate" /\ pc'[r] = "swap" /\ held'[r] = {} /\ todo[r] = {}
          /\ UNCHANGED <<registered, clients, served, api, target, seen>>
          /\ \A q \in Requests \ {r} : pc'[q] = pc[q] /\ held'[q] = held[q]
      BY <2>3, <1>f DEF Commit, Goto, NoLocks, TypeOK, SerialInv
    <3>2. /\ Active \subseteq {target[r]} \cup held[r] /\ target[r] \notin held[r]
          /\ seen[r] = active[target[r]] /\ target[r] \in Models
      BY <3>1, <1>f, <2>a, DefaultAssumption DEF SerialInv, Serial, ServeInv, Writing, TypeOK
    <3>3. Active' = {target[r]}
      <4>1. active'[target[r]]
        BY <2>3, <3>2 DEF Commit, Writes, TypeOK
      <4>2. \A m \in Models \ {target[r]} : ~active'[m]
        BY <2>3, <3>2 DEF Commit, Active
      <4> QED
        BY <3>2, <4>1, <4>2 DEF Active
    <3>4. \A q \in Requests : (q # r => ~InFlight(q)') /\ ~Writing(q)' /\ held'[q] = {}
      BY <2>a, <3>1 DEF InFlight, Writing
    <3> QED
      BY <2>a, <3>1, <3>3, <3>4 DEF ServeInv, InFlight
  <2>4. CASE Swap(r)
    <3>1. /\ pc[r] = "swap" /\ served' = target[r] /\ Active' = Active /\ Active = {target[r]}
          /\ UNCHANGED <<clients, api, target, seen, todo, held>>
          /\ pc'[r] = "done" /\ \A q \in Requests \ {r} : pc'[q] = pc[q]
      BY <2>4, <1>f DEF Swap, Goto, TypeOK, ServeInv, Active
    <3>2. \A q \in Requests : ~InFlight(q)' /\ ~Writing(q)' /\ held'[q] = {}
      BY <1>f, <2>a, <3>1 DEF InFlight, Writing, ServeInv
    <3>3. Agreed'
      BY <3>1 DEF Agreed
    <3> QED
      BY <3>2, <3>3 DEF ServeInv, InFlight
  <2>5. CASE LoadFails(r)
    <3>1. /\ pc[r] = "load" /\ pc'[r] = "done" /\ held'[r] = held[r]
          /\ UNCHANGED <<clients, active, served, api, target, seen, todo, held>>
          /\ \A q \in Requests \ {r} : pc'[q] = pc[q]
      BY <2>5 DEF LoadFails, Goto, TypeOK
    <3>2. held[r] = {}
      BY <1>f, <3>1 DEF ServeInv, Writing
    <3> QED
      BY <1>f, <2>a, <3>1, <3>2, AgreeingStep
  <2>6. CASE StatementFails(r)
    BY <2>6, <1>f DEF StatementFails, TypeOK
  <2>7. CASE DeadlockVictim(r)
    <3>1. PICK cycle \in SUBSET Requests :
            r \in cycle /\ \A q \in cycle : \E p \in cycle : WaitsFor(q, p)
      BY <2>7 DEF DeadlockVictim
    <3>2. PICK p \in cycle : WaitsFor(r, p)
      BY <3>1
    <3>3. p # r /\ held[p] # {}
      BY <3>2 DEF WaitsFor
    <3> QED
      BY <2>a, <3>1, <3>3
  <2> QED
    BY <1>4, <2>1, <2>2, <2>3, <2>4, <2>5, <2>6, <2>7 DEF Step
<1>5. CASE ApiStops
  BY <1>5, <1>f DEF ApiStops, ServeInv, InFlight, Writing
<1>6. CASE UNCHANGED vars
  BY <1>6 DEF vars, ServeInv, Agreed, Active, InFlight, Writing
<1> QED
  BY <1>1, <1>2, <1>3, <1>4, <1>5, <1>6 DEF Next

\* When operators activate one model at a time and nothing fails, what the
\* process serves at rest is what the table says is active, over restarts too.
THEOREM ServesWhatIsActive == Spec => []SerialServesActive
<1>1. Init => SerialInv /\ ServeInv
  BY DEF Init, SerialInv, ServeInv, InFlight, Writing, AtMostOneActive
<1>2. ServeInv => SerialServesActive
  BY DEF ServeInv, SerialServesActive, RecordsServed, AtRest, Agreed, InFlight
<1> QED
  BY <1>1, <1>2, SerialStep, ServeStep, TypeCorrect, PTL DEF Spec

-----------------------------------------------------------------------------
(* Activations do not deadlock.                                            *)

\* The next call of an activation can be made, failures aside.
CanGo(r) ==
  \/ pc[r] = "load" /\ (locking = "database" => \A q \in Requests : ~Writing(q))
  \/ pc[r] = "deactivating" /\ \E m \in todo[r] : Free(r, m)
  \/ pc[r] = "activate" /\ (Writes(r) => Free(r, target[r]))
  \/ pc[r] = "swap"

\* Activations that wait for each other: PostgreSQL aborts one (DeadlockVictim).
Circle(C) ==
  /\ C # {}
  /\ \A q \in C : \E p \in C : WaitsFor(q, p)
  /\ \A q \in C : \E p \in C : WaitsFor(p, q)

\* While an activation is in flight, one can go on, or the database breaks a circle.
SomeActivationGoesOn ==
  (\E r \in Requests : InFlight(r)) =>
    \/ \E r \in Requests : CanGo(r)
    \/ locking = "rows" /\ \E C \in SUBSET Requests : Circle(C)

\* Rows are held by transactions that are open, and locked one by one while some are left.
LockInv ==
  \A r \in Requests : /\ pc[r] = "deactivating" => todo[r] # {} /\ locking = "rows"
                      /\ held[r] # {} => Writing(r)

\* A step that changes one request at most keeps LockInv if that request keeps it.
LEMMA LockFrame ==
  ASSUME LockInv, locking' = locking, NEW r \in Requests,
         \A q \in Requests \ {r} : pc'[q] = pc[q] /\ todo'[q] = todo[q] /\ held'[q] = held[q],
         pc'[r] = "deactivating" => todo'[r] # {} /\ locking = "rows",
         held'[r] # {} => pc'[r] \in {"deactivating", "activate"}
  PROVE  LockInv'
BY DEF LockInv, Writing

LEMMA LockStep == TypeOK /\ LockInv /\ [Next]_vars => LockInv'
<1> SUFFICES ASSUME TypeOK, LockInv, [Next]_vars PROVE LockInv'
  OBVIOUS
<1> USE DEF Goto, NoLocks, deployment, table, request, locks
<1>1. CASE Start
  BY <1>1 DEF Start, LockInv, Writing
<1>2. CASE \E m \in Models : Register(m)
  BY <1>2 DEF Register, LockInv, Writing
<1>3. ASSUME NEW r \in Requests, NEW m \in Models, Activate(r, m) PROVE LockInv'
  <2>1. /\ locking' = locking /\ todo' = todo /\ held' = held /\ pc'[r] = "load" /\ pc[r] = "idle"
        /\ \A q \in Requests \ {r} : pc'[q] = pc[q]
    BY <1>3 DEF Activate, TypeOK
  <2>2. held[r] = {}
    BY <2>1 DEF LockInv, Writing
  <2> QED
    BY <2>1, <2>2, LockFrame
<1>4. ASSUME NEW r \in Requests, Step(r) PROVE LockInv'
  <2>1. CASE Deactivate(r)
    <3>1. /\ locking' = locking /\ pc[r] = "load"
          /\ \A q \in Requests \ {r} : pc'[q] = pc[q] /\ todo'[q] = todo[q] /\ held'[q] = held[q]
      BY <2>1 DEF Deactivate, TypeOK
    <3>2. held[r] = {}
      BY <3>1 DEF LockInv, Writing
    <3>3. /\ pc'[r] \in {"deactivating", "activate"}
          /\ pc'[r] = "deactivating" => todo'[r] # {} /\ locking = "rows"
      <4>1. CASE pc' = [pc EXCEPT ![r] = "activate"]
        BY <4>1 DEF TypeOK
      <4>2. CASE /\ locking = "rows"
                 /\ todo' = [todo EXCEPT ![r] = registered \ {target[r]}]
                 /\ pc' = [pc EXCEPT ![r] = IF registered \ {target[r]} = {} THEN "activate" ELSE "deactivating"]
        BY <4>2 DEF TypeOK
      <4> QED
        BY <2>1, <4>1, <4>2 DEF Deactivate
    <3> QED
      BY <3>1, <3>3, LockFrame
  <2>2. ASSUME NEW m \in Models, LockRow(r, m) PROVE LockInv'
    <3>1. /\ locking' = locking /\ pc[r] = "deactivating" /\ pc'[r] \in {"activate", "deactivating"}
          /\ \A q \in Requests \ {r} : pc'[q] = pc[q] /\ todo'[q] = todo[q] /\ held'[q] = held[q]
          /\ todo'[r] = todo[r] \ {m}
          /\ pc'[r] = "deactivating" => todo[r] # {m}
      BY <2>2 DEF LockRow, TypeOK
    <3>2. pc'[r] = "deactivating" => todo'[r] # {} /\ locking = "rows"
      BY <2>2, <3>1 DEF LockRow, LockInv
    <3> QED
      BY <3>1, <3>2, LockFrame
  <2>3. CASE Commit(r)
    <3>1. /\ locking' = locking /\ pc'[r] \in {"swap", "done"} /\ held'[r] = {}
          /\ \A q \in Requests \ {r} : pc'[q] = pc[q] /\ todo'[q] = todo[q] /\ held'[q] = held[q]
      BY <2>3 DEF Commit, TypeOK
    <3> QED
      BY <3>1, LockFrame
  <2>4. CASE Swap(r) \/ LoadFails(r)
    <3>1. /\ locking' = locking /\ todo' = todo /\ held' = held /\ pc'[r] = "done"
          /\ pc[r] \in {"load", "swap"}
          /\ \A q \in Requests \ {r} : pc'[q] = pc[q]
      BY <2>4 DEF Swap, LoadFails, TypeOK
    <3>2. held[r] = {}
      BY <3>1 DEF LockInv, Writing
    <3> QED
      BY <3>1, <3>2, LockFrame
  <2>5. CASE StatementFails(r) \/ DeadlockVictim(r)
    <3>1. RollBack(r)
      BY <2>5 DEF StatementFails, DeadlockVictim
    <3>2. /\ locking' = locking /\ pc'[r] = "done" /\ held'[r] = {}
          /\ \A q \in Requests \ {r} : pc'[q] = pc[q] /\ todo'[q] = todo[q] /\ held'[q] = held[q]
      BY <3>1 DEF RollBack, TypeOK
    <3> QED
      BY <3>2, LockFrame
  <2> QED
    BY <1>4, <2>1, <2>2, <2>3, <2>4, <2>5 DEF Step
<1>5. CASE ApiStops
  <2>1. /\ locking' = locking
        /\ \A r \in Requests : held'[r] = {} /\ pc'[r] = IF InFlight(r) THEN "done" ELSE pc[r]
    BY <1>5 DEF ApiStops
  <2>2. \A r \in Requests : pc'[r] # "deactivating"
    BY <2>1 DEF InFlight
  <2> QED
    BY <2>1, <2>2 DEF LockInv
<1>6. CASE UNCHANGED vars
  BY <1>6 DEF vars, LockInv, Writing
<1> QED
  BY <1>1, <1>2, <1>3, <1>4, <1>5, <1>6 DEF Next

\* Among finitely many activations that each wait for another of them, some wait in a circle.
LEMMA CircleExists ==
  ASSUME NEW W \in SUBSET Requests, W # {}, \A q \in W : \E p \in W : WaitsFor(q, p)
  PROVE  \E C \in SUBSET Requests : Circle(C)
<1> DEFINE F == {C \in SUBSET Requests : C # {} /\ \A q \in C : \E p \in C : WaitsFor(q, p)}
<1>1. F \in SUBSET SUBSET Requests /\ F # {}
  OBVIOUS
<1>2. PICK C \in F : \A V \in F : V \subseteq C => V = C
  <2> HIDE DEF F
  <2> QED
    BY <1>1, RequestsAssumption, MinimalSubset
<1>3. ASSUME NEW q \in C, \A p \in C : ~WaitsFor(p, q)
      PROVE  FALSE
  <2> DEFINE V == C \ {q}
  <2>1. \A x \in V : \E p \in V : WaitsFor(x, p)
    BY <1>3
  <2>2. PICK p \in C : WaitsFor(q, p)
    OBVIOUS
  <2>3. p \in V
    BY <2>2 DEF WaitsFor
  <2>4. V \in F /\ V \subseteq C /\ V # C
    BY <2>1, <2>3
  <2> QED
    BY <1>2, <2>4
<1> QED
  BY <1>3 DEF Circle

\* What an activation waits for, another one holds.
LEMMA HeldBy ==
  ASSUME LockInv, NEW q \in Requests, NEW m, ~Free(q, m)
  PROVE  \E p \in Requests : p # q /\ m \in held[p] /\ Writing(p)
BY DEF Free, LockInv

\* Activations never all wait for each other for good: while one is in flight,
\* one of those in flight can make its next call, or PostgreSQL aborts one of a
\* circle.  It is what EveryActivationEnds needs besides fairness.
THEOREM ActivationsGoOn == Spec => []SomeActivationGoesOn
<1>1. Init => LockInv
  BY DEF Init, LockInv
<1>2. TypeOK /\ SerialInv /\ LockInv => SomeActivationGoesOn
  <2> SUFFICES ASSUME TypeOK, SerialInv, LockInv, NEW r0 \in Requests, InFlight(r0),
                      \A r \in Requests : ~CanGo(r)
               PROVE  locking = "rows" /\ \E C \in SUBSET Requests : Circle(C)
    BY DEF SomeActivationGoesOn
  <2>1. CASE locking = "database"
    <3>1. \A q, r \in Requests : Writing(q) /\ Writing(r) => q = r
      BY <2>1 DEF SerialInv, Serial
    <3>2. PICK w \in Requests : Writing(w)
      <4>1. pc[r0] \in {"load", "deactivating", "activate"}
        BY DEF CanGo, InFlight, TypeOK
      <4>2. CASE pc[r0] = "load"
        BY <4>2 DEF CanGo
      <4> QED
        BY <4>1, <4>2 DEF Writing
    <3>3. pc[w] = "activate"
      BY <2>1, <3>2 DEF LockInv, Writing
    <3>4. \A m : Free(w, m)
      BY <3>1, <3>2, HeldBy
    <3> QED
      BY <3>3, <3>4 DEF CanGo
  <2>2. CASE locking = "rows"
    <3> DEFINE W == {q \in Requests : Writing(q)}
    <3>1. r0 \in W
      BY <2>2 DEF CanGo, InFlight, Writing, TypeOK
    <3>2. ASSUME NEW q \in W PROVE \E p \in W : WaitsFor(q, p)
      <4>1. CASE pc[q] = "deactivating"
        <5>1. PICK m \in todo[q] : ~Free(q, m)
          BY <4>1 DEF CanGo, LockInv
        <5> QED
          BY <4>1, <5>1, HeldBy DEF WaitsFor
      <4>2. CASE pc[q] = "activate"
        <5>1. Writes(q) /\ ~Free(q, target[q])
          BY <4>2 DEF CanGo
        <5> QED
          BY <4>2, <5>1, HeldBy DEF WaitsFor
      <4> QED
        BY <4>1, <4>2 DEF Writing
    <3> HIDE DEF W
    <3>3. W \in SUBSET Requests
      BY DEF W
    <3> QED
      BY <2>2, <3>1, <3>2, <3>3, CircleExists
  <2> QED
    BY <2>1, <2>2 DEF TypeOK
<1>3. Init => SerialInv
  BY DEF Init, SerialInv, InFlight, Writing, AtMostOneActive
<1> QED
  BY <1>1, <1>2, <1>3, SerialStep, LockStep, TypeCorrect, PTL DEF Spec

-----------------------------------------------------------------------------
\* The calls of an activation, in their order.
Place(call) ==
  CASE call = "idle" -> 0
    [] call = "load" -> 1
    [] call = "deactivating" -> 2
    [] call = "activate" -> 3
    [] call = "swap" -> 4
    [] call = "done" -> 5

\* r has moved on to a later call, or locked one of the rows it had to lock.
Forward(r) ==
  \/ Place(pc[r]) < Place(pc'[r])
  \/ pc'[r] = pc[r] /\ \E m \in todo[r] : todo'[r] = todo[r] \ {m}

\* Every step of an activation takes it forward, and nothing takes it back.
OnlyForward ==
  \A r \in Requests : /\ Step(r) => Forward(r)
                      /\ Forward(r) \/ (pc'[r] = pc[r] /\ todo'[r] = todo[r])

\* An activation is never taken back to an earlier call, whatever the others, the
\* database and the stops do, and each of its own steps takes it forward: it
\* cannot go round for ever without ending.
THEOREM ActivationsMoveForward == Spec => [][OnlyForward]_vars
<1>1. TypeOK /\ SerialInv /\ Next => OnlyForward
  <2> SUFFICES ASSUME TypeOK, SerialInv, Next PROVE OnlyForward
    OBVIOUS
  <2> DEFINE Same(q) == pc'[q] = pc[q] /\ todo'[q] = todo[q]
  <2> USE DEF Goto, NoLocks, deployment, table, request, locks
  <2>1. ASSUME NEW r \in Requests, Step(r)
        PROVE  Forward(r) /\ \A q \in Requests \ {r} : Same(q)
    <3>1. CASE Deactivate(r)
      <4>1. /\ pc[r] = "load" /\ pc'[r] \in {"activate", "deactivating"}
            /\ \A q \in Requests \ {r} : Same(q)
        BY <3>1 DEF Deactivate, TypeOK
      <4> QED
        BY <4>1 DEF Forward, Place
    <3>2. ASSUME NEW m \in Models, LockRow(r, m)
          PROVE  Forward(r) /\ \A q \in Requests \ {r} : Same(q)
      <4>1. /\ pc[r] = "deactivating" /\ pc'[r] \in {"activate", "deactivating"}
            /\ m \in todo[r] /\ todo'[r] = todo[r] \ {m}
            /\ \A q \in Requests \ {r} : Same(q)
        BY <3>2 DEF LockRow, TypeOK
      <4> QED
        BY <4>1 DEF Forward, Place
    <3>3. CASE Commit(r)
      <4>1. /\ pc[r] = "activate" /\ pc'[r] \in {"swap", "done"}
            /\ \A q \in Requests \ {r} : Same(q)
        BY <3>3 DEF Commit, TypeOK
      <4> QED
        BY <4>1 DEF Forward, Place
    <3>4. CASE Swap(r) \/ LoadFails(r) \/ StatementFails(r) \/ DeadlockVictim(r)
      <4>1. InFlight(r) /\ pc'[r] = "done" /\ \A q \in Requests \ {r} : Same(q)
        <5>1. CASE Swap(r) \/ LoadFails(r)
          BY <5>1 DEF Swap, LoadFails, InFlight, TypeOK
        <5>2. CASE StatementFails(r)
          BY <5>2 DEF StatementFails, RollBack, TypeOK
        <5>3. CASE DeadlockVictim(r)
          <6>1. PICK C \in SUBSET Requests : r \in C /\ \A q \in C : \E p \in C : WaitsFor(q, p)
            BY <5>3 DEF DeadlockVictim
          <6>2. InFlight(r)
            BY <6>1 DEF WaitsFor, InFlight
          <6> QED
            BY <5>3, <6>2 DEF DeadlockVictim, RollBack, TypeOK
        <5> QED
          BY <3>4, <5>1, <5>2, <5>3
      <4>2. pc[r] \in {"load", "deactivating", "activate", "swap"}
        BY <4>1 DEF InFlight, TypeOK
      <4> QED
        BY <4>1, <4>2 DEF Forward, Place
    <3> QED
      BY <2>1, <3>1, <3>2, <3>3, <3>4 DEF Step
  <2>2. CASE \E r \in Requests : Step(r)
    <3> PICK r \in Requests : Step(r)
      BY <2>2
    <3> HIDE DEF Same
    <3>1. \A q \in Requests : Forward(q) \/ Same(q)
      BY <2>1, Zenon
    <3>2. \A q \in Requests : Step(q) => Forward(q)
      BY <2>1, Zenon
    <3> QED
      BY <3>1, <3>2, Zenon DEF OnlyForward, Same
  <2>3. CASE ~ \E r \in Requests : Step(r)
    <3> SUFFICES ASSUME NEW q \in Requests PROVE Forward(q) \/ Same(q)
      BY <2>3 DEF OnlyForward
    <3>1. CASE Start
      BY <3>1 DEF Start
    <3>2. CASE \E m \in Models : Register(m)
      BY <3>2 DEF Register
    <3>3. ASSUME NEW r \in Requests, NEW m \in Models, Activate(r, m)
          PROVE  Forward(q) \/ Same(q)
      <4>1. CASE q = r
        BY <3>3, <4>1 DEF Activate, Forward, Place, TypeOK
      <4>2. CASE q # r
        BY <3>3, <4>2 DEF Activate, TypeOK
      <4> QED
        BY <4>1, <4>2
    <3>4. CASE ApiStops
      <4>1. pc'[q] = (IF InFlight(q) THEN "done" ELSE pc[q]) /\ todo'[q] = {}
        BY <3>4 DEF ApiStops
      <4>2. CASE InFlight(q)
        <5>1. pc[q] \in {"load", "deactivating", "activate", "swap"}
          BY <4>2 DEF InFlight, TypeOK
        <5> QED
          BY <4>1, <4>2, <5>1 DEF Forward, Place
      <4>3. CASE ~InFlight(q)
        BY <4>1, <4>3 DEF InFlight, SerialInv
      <4> QED
        BY <4>2, <4>3
    <3> QED
      BY <2>3, <3>1, <3>2, <3>3, <3>4 DEF Next
  <2> QED
    BY <2>2, <2>3
<1>2. Init => SerialInv
  BY DEF Init, SerialInv, InFlight, Writing, AtMostOneActive
<1>3. TypeOK /\ SerialInv /\ [Next]_vars => [OnlyForward]_vars
  BY <1>1
<1> QED
  BY <1>2, <1>3, SerialStep, TypeCorrect, PTL DEF Spec

-----------------------------------------------------------------------------
(* What makes two rows active.                                             *)

\* No model is registered between an activation's UPDATE and its COMMIT.
RegisteredApart == registered' # registered => \A r \in Requests : ~Writing(r)

\* Then an UPDATE meets every other row there is when its transaction commits.
WholeInv ==
  /\ AtMostOneActive
  /\ \A r \in Requests : Writing(r) => held[r] \cup todo[r] = registered \ {target[r]}
  /\ \A r \in Requests : pc[r] # "deactivating" => todo[r] = {}

\* A step that leaves the table alone keeps WholeInv, if the request that takes it does.
LEMMA WholeFrame ==
  ASSUME WholeInv, UNCHANGED <<active, registered>>, NEW r \in Requests,
         \A q \in Requests \ {r} :
           pc'[q] = pc[q] /\ target'[q] = target[q] /\ todo'[q] = todo[q] /\ held'[q] = held[q],
         pc'[r] # "deactivating" => todo'[r] = {},
         pc'[r] \in {"deactivating", "activate"} => held'[r] \cup todo'[r] = registered \ {target'[r]}
  PROVE  WholeInv'
BY DEF WholeInv, Writing, AtMostOneActive, Active

LEMMA WholeStep ==
  TypeOK /\ WholeInv /\ LockInv /\ [Next]_vars /\ [RegisteredApart]_vars => WholeInv'
<1> SUFFICES ASSUME TypeOK, WholeInv, LockInv, [Next]_vars, [RegisteredApart]_vars PROVE WholeInv'
  OBVIOUS
<1> USE DEF Goto, NoLocks, deployment, table, request, locks
<1>1. CASE Start
  BY <1>1 DEF Start, WholeInv, Writing, AtMostOneActive, Active
<1>2. ASSUME NEW m \in Models, Register(m) PROVE WholeInv'
  <2>1. /\ registered' # registered
        /\ UNCHANGED <<active, pc, target, todo, held>>
    BY <1>2 DEF Register
  <2>2. \A r \in Requests : ~Writing(r)
    BY <2>1 DEF RegisteredApart, vars
  <2> QED
    BY <2>1, <2>2 DEF WholeInv, Writing, AtMostOneActive, Active
<1>3. ASSUME NEW r \in Requests, NEW m \in Models, Activate(r, m) PROVE WholeInv'
  <2>1. /\ UNCHANGED <<active, registered, todo, held>> /\ pc[r] = "idle" /\ pc'[r] = "load"
        /\ \A q \in Requests \ {r} : pc'[q] = pc[q] /\ target'[q] = target[q]
    BY <1>3 DEF Activate, TypeOK
  <2>2. todo[r] = {}
    BY <2>1 DEF WholeInv
  <2> QED
    BY <2>1, <2>2, WholeFrame
<1>4. ASSUME NEW r \in Requests, Step(r) PROVE WholeInv'
  <2>1. CASE Deactivate(r)
    <3> DEFINE others == registered \ {target[r]}
    <3>1. /\ UNCHANGED <<active, registered, target>> /\ pc[r] = "load"
          /\ \A q \in Requests \ {r} : pc'[q] = pc[q] /\ todo'[q] = todo[q] /\ held'[q] = held[q]
      BY <2>1 DEF Deactivate, TypeOK
    <3>2. todo[r] = {} /\ held[r] = {}
      BY <3>1 DEF WholeInv, LockInv, Writing
    <3>3. held'[r] \cup todo'[r] = others /\ (pc'[r] # "deactivating" => todo'[r] = {})
      <4>1. CASE held' = [held EXCEPT ![r] = others] /\ todo' = todo
        BY <3>2, <4>1 DEF TypeOK
      <4>2. CASE /\ todo' = [todo EXCEPT ![r] = others] /\ held' = held
                 /\ pc' = [pc EXCEPT ![r] = IF others = {} THEN "activate" ELSE "deactivating"]
        BY <3>2, <4>2 DEF TypeOK
      <4> QED
        BY <2>1, <4>1, <4>2 DEF Deactivate
    <3> QED
      BY <3>1, <3>3, WholeFrame
  <2>2. ASSUME NEW m \in Models, LockRow(r, m) PROVE WholeInv'
    <3>1. /\ UNCHANGED <<active, registered, target>> /\ pc[r] = "deactivating"
          /\ \A q \in Requests \ {r} : pc'[q] = pc[q] /\ todo'[q] = todo[q] /\ held'[q] = held[q]
          /\ held'[r] = held[r] \cup {m} /\ todo'[r] = todo[r] \ {m} /\ m \in todo[r]
          /\ pc'[r] # "deactivating" => todo'[r] = {}
      BY <2>2 DEF LockRow, TypeOK
    <3>2. held'[r] \cup todo'[r] = registered \ {target[r]}
      <4>1. held[r] \cup todo[r] = registered \ {target[r]}
        BY <3>1 DEF WholeInv, Writing
      <4> QED
        BY <3>1, <4>1
    <3> QED
      BY <3>1, <3>2, WholeFrame
  <2>3. CASE Commit(r)
    <3>1. /\ UNCHANGED <<registered, target>> /\ pc[r] = "activate" /\ pc'[r] \in {"swap", "done"}
          /\ \A q \in Requests \ {r} : pc'[q] = pc[q] /\ todo'[q] = todo[q] /\ held'[q] = held[q]
          /\ todo'[r] = {}
      BY <2>3 DEF Commit, TypeOK
    <3>2. held[r] = registered \ {target[r]}
      BY <3>1 DEF WholeInv, Writing
    <3>3. Active' \subseteq {target[r]} \cup (Active \ held[r])
      BY <2>3 DEF Commit, Active
    <3>4. Active' \subseteq {target[r]}
      BY <3>2, <3>3 DEF TypeOK
    <3>5. AtMostOneActive'
      BY <3>4 DEF AtMostOneActive
    <3> QED
      BY <3>1, <3>5 DEF WholeInv, Writing
  <2>4. CASE Swap(r) \/ LoadFails(r)
    <3>1. /\ UNCHANGED <<active, registered, target, todo, held>> /\ pc'[r] = "done"
          /\ pc[r] # "deactivating"
          /\ \A q \in Requests \ {r} : pc'[q] = pc[q]
      BY <2>4 DEF Swap, LoadFails, TypeOK
    <3>2. todo[r] = {}
      BY <3>1 DEF WholeInv
    <3> QED
      BY <3>1, <3>2, WholeFrame
  <2>5. CASE StatementFails(r) \/ DeadlockVictim(r)
    <3>1. RollBack(r)
      BY <2>5 DEF StatementFails, DeadlockVictim
    <3>2. /\ UNCHANGED <<active, registered, target>> /\ pc'[r] = "done" /\ todo'[r] = {}
          /\ \A q \in Requests \ {r} : pc'[q] = pc[q] /\ todo'[q] = todo[q] /\ held'[q] = held[q]
      BY <3>1 DEF RollBack, TypeOK
    <3> QED
      BY <3>2, WholeFrame
  <2> QED
    BY <1>4, <2>1, <2>2, <2>3, <2>4, <2>5 DEF Step
<1>5. CASE ApiStops
  <2>1. /\ UNCHANGED <<active, registered, target>>
        /\ \A q \in Requests : todo'[q] = {} /\ pc'[q] = IF InFlight(q) THEN "done" ELSE pc[q]
    BY <1>5 DEF ApiStops
  <2>2. \A q \in Requests : ~Writing(q)'
    BY <2>1 DEF Writing, InFlight
  <2> QED
    BY <2>1, <2>2 DEF WholeInv, AtMostOneActive, Active
<1>6. CASE UNCHANGED vars
  BY <1>6 DEF vars, WholeInv, Writing, AtMostOneActive, Active
<1> QED
  BY <1>1, <1>2, <1>3, <1>4, <1>5, <1>6 DEF Next

\* However activations overlap, on whichever database, at most one row is active as
\* long as no model is registered between an activation's UPDATE and its COMMIT: that
\* is what it takes to make two active.
THEOREM OneActiveApart == Spec /\ [][RegisteredApart]_vars => []AtMostOneActive
<1>1. Init => WholeInv /\ LockInv
  BY DEF Init, WholeInv, LockInv, Writing, AtMostOneActive
<1>2. WholeInv => AtMostOneActive
  BY DEF WholeInv
<1> QED
  BY <1>1, <1>2, WholeStep, LockStep, TypeCorrect, PTL DEF Spec
==============================================================================
