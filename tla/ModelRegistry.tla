---------------------------- MODULE ModelRegistry ----------------------------
(***************************************************************************)
(* The model registry (table model_registry) and the model the API      *)
(* process serves: registration, activation with its hot swap, and the     *)
(* promotion of the active row at start-up.                                *)
(*                                                                         *)
(* An activation reads its row, loads the artifact, updates the other      *)
(* rows, updates its own row, commits, and after one more await swaps the  *)
(* served model.  Two things of the environment matter: the session's      *)
(* identity map (an attribute assigned the value it was read with is not   *)
(* written) and the locks of the database (SQLite: one writer; PostgreSQL, *)
(* READ COMMITTED: the rows written).                                      *)
(***************************************************************************)
EXTENDS Integers, FiniteSets

CONSTANTS
  Models,      \* registrable (name, version) pairs
  Requests,    \* activation requests
  Lockings,    \* subset of {"database", "rows"}: the databases considered
  MaxClients,  \* activations that may be in flight together
  MaxFaults,   \* bound: database and artifact failures
  MaxStops,    \* bound: stops of the API process
  Default,     \* the bundle of settings.model_artifact_path
  Null

ASSUME DefaultAssumption == Default \notin Models /\ Null \notin Models
ASSUME RequestsAssumption == IsFiniteSet(Requests)
ASSUME LockingsAssumption == Lockings \subseteq {"database", "rows"}
ASSUME BoundsAssumption ==
  MaxClients \in Nat /\ MaxFaults \in Nat /\ MaxStops \in Nat

VARIABLES
  locking,     \* the database of this deployment
  clients,     \* how many activations its operators run at a time
  registered,  \* the rows of model_registry
  active,      \* is_active, as committed
  api,         \* "down", "up", or "failed" to start
  served,      \* model_provider.bundle
  pc,          \* the await each activation request is at
  target,      \* its model_id
  seen,        \* is_active as its session read it
  todo,        \* rows its UPDATE has still to lock and write
  held,        \* rows its open transaction has set inactive
  faults,
  stops

deployment == <<locking, clients>>
table == <<registered, active>>
request == <<target, seen>>
locks == <<todo, held>>
vars == <<deployment, table, api, served, pc, request, locks, faults, stops>>

InFlight(r) == pc[r] \notin {"idle", "done"}
Writing(r) == pc[r] \in {"deactivating", "activate"}
Active == {m \in Models : active[m]}

Goto(r, next) == pc' = [pc EXCEPT ![r] = next]
NoLocks(r) == todo' = [todo EXCEPT ![r] = {}] /\ held' = [held EXCEPT ![r] = {}]

-----------------------------------------------------------------------------
(* Start-up and registration.                                              *)

\* Variant: start-up promotes nothing.
StartUnpromoted ==
  /\ api = "down"
  /\ api' = "up"
  /\ served' = Default
  /\ UNCHANGED <<deployment, table, pc, request, locks, faults, stops>>

\* _promote_active_registered_model: get_active is scalar_one_or_none, outside
\* the try; a missing or invalid artifact leaves the default bundle.
Start ==
  /\ api = "down"
  /\ \/ Active = {} /\ api' = "up" /\ served' = Default /\ UNCHANGED faults
     \/ Cardinality(Active) > 1 /\ api' = "failed" /\ UNCHANGED <<served, faults>>
     \/ \E m \in Active :
          /\ Active = {m}
          /\ api' = "up"
          /\ \/ served' = m /\ UNCHANGED faults
             \/ served' = Default /\ faults < MaxFaults /\ faults' = faults + 1
  /\ UNCHANGED <<deployment, table, pc, request, locks, stops>>

\* An INSERT: SQLite makes it wait for an open write transaction.
Register(m) ==
  /\ api = "up"
  /\ m \notin registered
  /\ locking = "database" => \A r \in Requests : ~Writing(r)
  /\ registered' = registered \cup {m}
  /\ UNCHANGED <<deployment, active, api, served, pc, request, locks, faults, stops>>

-----------------------------------------------------------------------------
(* Activation.                                                             *)

\* Variant: an unknown model_id is not refused.
ActivateUnknown(r, m) ==
  /\ api = "up"
  /\ pc[r] = "idle"
  /\ Cardinality({q \in Requests : InFlight(q)}) < clients
  /\ target' = [target EXCEPT ![r] = m]
  /\ seen' = [seen EXCEPT ![r] = active[m]]
  /\ Goto(r, "load")
  /\ UNCHANGED <<deployment, table, api, served, locks, faults, stops>>

\* get_by_id: the row, with its is_active, enters the session.
Activate(r, m) ==
  /\ api = "up"
  /\ pc[r] = "idle"
  /\ m \in registered
  /\ Cardinality({q \in Requests : InFlight(q)}) < clients
  /\ target' = [target EXCEPT ![r] = m]
  /\ seen' = [seen EXCEPT ![r] = active[m]]
  /\ Goto(r, "load")
  /\ UNCHANGED <<deployment, table, api, served, locks, faults, stops>>

\* load_registered_bundle raises: 422, nothing else happens.
LoadFails(r) ==
  /\ pc[r] = "load"
  /\ Goto(r, "done")
  /\ UNCHANGED <<deployment, table, api, served, request, locks, faults, stops>>

\* Variant: the UPDATE of the other rows is dropped.
DeactivateNothing(r) ==
  /\ pc[r] = "load"
  /\ locking = "database" => \A q \in Requests : ~Writing(q)
  /\ Goto(r, "activate")
  /\ UNCHANGED <<deployment, table, api, served, request, locks, faults, stops>>

\* The artifact is loaded and UPDATE ... WHERE id != model_id begins.  SQLite
\* gives it the whole database; PostgreSQL has it lock the rows one by one, in
\* heap order, which earlier updates have shuffled.
Deactivate(r) ==
  /\ pc[r] = "load"
  /\ LET others == registered \ {target[r]}
     IN  \/ /\ locking = "database"
            /\ \A q \in Requests : ~Writing(q)
            /\ held' = [held EXCEPT ![r] = others]
            /\ Goto(r, "activate")
            /\ UNCHANGED todo
         \/ /\ locking = "rows"
            /\ todo' = [todo EXCEPT ![r] = others]
            /\ Goto(r, IF others = {} THEN "activate" ELSE "deactivating")
            /\ UNCHANGED held
  /\ UNCHANGED <<deployment, table, api, served, request, faults, stops>>

Free(r, m) == \A q \in Requests \ {r} : m \notin held[q]

LockRow(r, m) ==
  /\ pc[r] = "deactivating"
  /\ m \in todo[r]
  /\ Free(r, m)
  /\ todo' = [todo EXCEPT ![r] = @ \ {m}]
  /\ held' = [held EXCEPT ![r] = @ \cup {m}]
  /\ Goto(r, IF todo[r] = {m} THEN "activate" ELSE "deactivating")
  /\ UNCHANGED <<deployment, table, api, served, request, faults, stops>>

\* row.is_active = True; commit.  The flush writes the row only when the
\* session read it as inactive.
Writes(r) == ~seen[r]

Commit(r) ==
  /\ pc[r] = "activate"
  /\ Writes(r) => Free(r, target[r])
  /\ active' = [m \in Models |->
                  IF m = target[r] /\ Writes(r) THEN TRUE ELSE active[m] /\ m \notin held[r]]
  /\ NoLocks(r)
  /\ \/ Goto(r, "swap") /\ UNCHANGED faults
     \/ Goto(r, "done") /\ faults < MaxFaults /\ faults' = faults + 1  \* stored, but raised
  /\ UNCHANGED <<deployment, registered, api, served, request, stops>>

\* The refresh has returned.
Swap(r) ==
  /\ pc[r] = "swap"
  /\ served' = target[r]
  /\ Goto(r, "done")
  /\ UNCHANGED <<deployment, table, api, request, locks, faults, stops>>

\* Variant: a failed request leaves its session open.
KeepTransaction(r) ==
  /\ Goto(r, "done")
  /\ UNCHANGED <<deployment, table, api, served, request, locks, stops>>

\* Closing the request's session rolls its transaction back.
RollBack(r) ==
  /\ Goto(r, "done")
  /\ NoLocks(r)
  /\ UNCHANGED <<deployment, table, api, served, request, stops>>

\* A statement raises: the connection is lost, or SQLite's busy timeout expires.
StatementFails(r) ==
  /\ InFlight(r)
  /\ faults < MaxFaults
  /\ faults' = faults + 1
  /\ RollBack(r)

\* r may be waiting for a row that q has written.
WaitsFor(r, q) ==
  /\ q # r
  /\ \/ pc[r] = "deactivating" /\ todo[r] \cap held[q] # {}
     \/ pc[r] = "activate" /\ Writes(r) /\ target[r] \in held[q]

\* PostgreSQL aborts a transaction that waits for itself.
DeadlockVictim(r) ==
  /\ locking = "rows"
  /\ \E cycle \in SUBSET Requests :
       /\ r \in cycle
       /\ \A q \in cycle : \E p \in cycle : WaitsFor(q, p)
       /\ \A q \in cycle : \E p \in cycle : WaitsFor(p, q)
  /\ RollBack(r)
  /\ UNCHANGED faults

ApiStops ==
  /\ api = "up"
  /\ stops < MaxStops
  /\ stops' = stops + 1
  /\ api' = "down"
  /\ pc' = [r \in Requests |-> IF InFlight(r) THEN "done" ELSE pc[r]]
  /\ todo' = [r \in Requests |-> {}]
  /\ held' = [r \in Requests |-> {}]
  /\ UNCHANGED <<deployment, table, served, request, faults>>

-----------------------------------------------------------------------------
\* The service is about to start over a registry that earlier lives of it have
\* left with at most one active row.
Init ==
  /\ locking \in Lockings
  /\ clients \in 1..MaxClients
  /\ registered \in SUBSET Models
  /\ active \in [Models -> BOOLEAN]
  /\ Active \subseteq registered
  /\ \A m, n \in Active : m = n
  /\ api = "down"
  /\ served = Default
  /\ pc = [r \in Requests |-> "idle"]
  /\ target = [r \in Requests |-> Null]
  /\ seen = [r \in Requests |-> FALSE]
  /\ todo = [r \in Requests |-> {}]
  /\ held = [r \in Requests |-> {}]
  /\ faults = 0
  /\ stops = 0

Step(r) ==
  \/ Deactivate(r) \/ \E m \in Models : LockRow(r, m)
  \/ Commit(r) \/ Swap(r)
  \/ LoadFails(r) \/ StatementFails(r) \/ DeadlockVictim(r)

Next ==
  \/ Start
  \/ \E m \in Models : Register(m)
  \/ \E r \in Requests : Step(r) \/ \E m \in Models : Activate(r, m)
  \/ ApiStops

Spec == Init /\ [][Next]_vars

\* The event loop resumes what is ready, and the database resolves waits.
FairSpec == Spec /\ \A r \in Requests : WF_vars(Step(r))

-----------------------------------------------------------------------------
(* Correctness.                                                            *)

\* The variables stay in their types, and only rows that exist are active,
\* targeted or locked.
TypeOK ==
  /\ locking \in {"database", "rows"}
  /\ clients \in Nat
  /\ registered \subseteq Models
  /\ active \in [Models -> BOOLEAN]
  /\ Active \subseteq registered
  /\ api \in {"down", "up", "failed"}
  /\ served \in registered \cup {Default}
  /\ pc \in [Requests -> {"idle", "load", "deactivating", "activate", "swap", "done"}]
  /\ target \in [Requests -> registered \cup {Null}]
  /\ \A r \in Requests : InFlight(r) => target[r] # Null
  /\ seen \in [Requests -> BOOLEAN]
  /\ todo \in [Requests -> SUBSET registered]
  /\ held \in [Requests -> SUBSET registered]
  /\ faults \in Nat
  /\ stops \in Nat

\* docs/deployment/blue-green-models.md: "only one is active at a time".
AtMostOneActive == \A m, n \in Active : m = n

\* It holds when the database has one writer, whatever the activations and
\* their failures, or when operators activate one model at a time.
OneActiveWhenSerialised ==
  locking = "database" \/ clients = 1 => AtMostOneActive

AtRest == api = "up" /\ \A r \in Requests : ~InFlight(r)

\* docs/deployment/blue-green-models.md: "The active version is recorded in the
\* database, so it is re-loaded on startup: a promotion survives restarts and
\* rollouts": where nothing fails, what the process serves at rest is what the table
\* says is active.
RecordsServed ==
  faults = 0 /\ AtRest => IF Active = {} THEN served = Default ELSE Active = {served}

\* It holds when operators activate one model at a time, over restarts too.
SerialServesActive == clients = 1 => RecordsServed

\* Deadlocks between activations are broken: every activation ends.
EveryActivationEnds == \A r \in Requests : InFlight(r) ~> pc[r] = "done"
==============================================================================
