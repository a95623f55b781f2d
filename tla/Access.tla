--------------------------------- MODULE Access ---------------------------------
(***************************************************************************)
(* From a request's arrival at a replica to its handler: the rate limit,   *)
(* the size limit, who is calling and whether their role suffices; logins, *)
(* new users, and the administrator that each replica makes sure of before *)
(* it serves.  The replicas share the users table and nothing else.        *)
(***************************************************************************)
EXTENDS RateLimit, FiniteSets

CONSTANTS
  Replicas,
  MaxRequests, \* bound: requests, numbered as they arrive
  Names,       \* usernames
  Boot,        \* settings.bootstrap_admin_username
  ApiKeys,     \* values of X-API-Key
  EmptyKey,    \* the empty one
  ForeignKeys, \* those with a character outside of ASCII
  ValidKey,    \* settings.api_key
  Lifetime,    \* settings.access_token_expire_minutes, in seconds
  None,
  MaxClock,    \* bound: ticks
  Demand       \* bound: per limit that is considered, the replicas that are started, the
               \* requests that arrive, the routes they ask for and the API keys they carry

ASSUME AccessAssumption ==
  /\ Boot \in Names /\ None \notin Names \cup ApiKeys
  /\ Lifetime \in Nat \ {0} /\ MaxClock \in Nat /\ MaxRequests \in Nat
  /\ DOMAIN Demand \subseteq Nat
  /\ \A l \in DOMAIN Demand : Demand[l].keys \subseteq ApiKeys

VARIABLES
  replica,    \* how far each replica's start has got
  users,      \* per name: None, or its role and who created it
  tokens,     \* the access tokens that were issued
  pc,         \* how far each request has got
  request,    \* per request: what it carries
  principal,  \* per request: its caller and when that was established
  outcome     \* per request: its answer

accounts == <<replica, users, tokens>>
requests == <<pc, request, principal, outcome>>
vars == <<limit, clock, limiter, accounts, requests>>

Requests == 1..MaxRequests

Roles == {"admin", "analyst", "service"}
ALL_ROLES == Roles
PREDICT_ROLES == {"service", "admin"}
ADMIN_ROLES == {"admin"}

Guarded == {"predict", "report", "manage", "users"}
Open == {"login", "health"}

\* Variant: the users router has the guard of the reports.
GuardForgotten(route) == IF route = "predict" THEN PREDICT_ROLES ELSE IF route = "manage" THEN ADMIN_ROLES ELSE ALL_ROLES

\* The require_roles of each router.
AllowedRoles(route) ==
  CASE route = "predict" -> PREDICT_ROLES
    [] route \in {"manage", "users"} -> ADMIN_ROLES
    [] route = "report" -> ALL_ROLES

User == [role : Roles, by : Replicas \cup Requests]
ASSUME NoneAssumption == None \notin User
\* sub, role, iat and, for history, the tick the token was issued at.
Token == [sub : Names, role : Roles, iat : Nat, at : Nat]

\* Variant: a header that is there counts, with or without a value.
ClientKeyByHeader(api, bearer) ==
  IF api # None THEN <<"key", api>>
  ELSE IF bearer # None THEN <<"tok", bearer.sub, bearer.role, bearer.iat>>
  ELSE <<"ip">>

\* X-API-Key unless it is empty, then Authorization, then the address: all clients
\* have one.
ClientKey(api, bearer) ==
  IF api \notin {None, EmptyKey} THEN <<"key", api>>
  ELSE IF bearer # None THEN <<"tok", bearer.sub, bearer.role, bearer.iat>>
  ELSE <<"ip">>

Keys ==
  {<<"key", a>> : a \in ApiKeys \ {EmptyKey}} \cup {<<"ip">>}
    \cup {<<"tok", n, r, i>> : n \in Names, r \in Roles, i \in 0..clock}

Goto(r, next) == pc' = [pc EXCEPT ![r] = next]
Answer(r, status) == Goto(r, "done") /\ outcome' = [outcome EXCEPT ![r] = status]

Tick ==
  /\ clock < MaxClock
  /\ clock' = clock + 1
  /\ UNCHANGED <<limit, limiter, accounts, requests>>

-----------------------------------------------------------------------------
(* AuthService.ensure_user, in a replica's start.                          *)

Become(p, next) == replica' = [replica EXCEPT ![p] = next]

\* Variant: the user is created without a look whether it exists.
NeverLook(p) ==
  /\ replica[p] = "booting"
  /\ Become(p, "creating")
  /\ UNCHANGED <<limit, clock, limiter, users, tokens, requests>>

LookUp(p) ==
  /\ replica[p] = "booting"
  /\ Become(p, IF users[Boot] # None THEN "up" ELSE "creating")
  /\ UNCHANGED <<limit, clock, limiter, users, tokens, requests>>

\* The name is unique: who comes second raises IntegrityError, and does not start.
CreateBoot(p) ==
  /\ replica[p] = "creating"
  /\ IF users[Boot] = None
       THEN users' = [users EXCEPT ![Boot] = [role |-> "admin", by |-> p]] /\ Become(p, "up")
       ELSE Become(p, "failed") /\ UNCHANGED users
  /\ UNCHANGED <<limit, clock, limiter, tokens, requests>>

\* The platform starts a task that failed again.
Restart(p) ==
  /\ replica[p] = "failed"
  /\ Become(p, "booting")
  /\ UNCHANGED <<limit, clock, limiter, users, tokens, requests>>

-----------------------------------------------------------------------------
(* A request.                                                              *)

\* The rate limit, which health and metrics endpoints do not know.
Arrive(r) ==
  /\ pc[r] = "idle" /\ \A s \in Requests : s < r => pc[s] # "idle"
  /\ r <= Demand[limit].requests
  /\ \E p \in Replicas, route \in (Guarded \cup Open) \cap Demand[limit].routes, api \in {None} \cup Demand[limit].keys,
        bearer \in {None} \cup tokens :
       /\ replica[p] = "up"
       /\ request' = [request EXCEPT ![r] = [route |-> route, api |-> api, bearer |-> bearer]]
       /\ LET client == <<p, ClientKey(api, bearer)>>
              limited == limit # 0 /\ route # "health"
          IN  \/ ~limited /\ Goto(r, "inside") /\ UNCHANGED <<limit, clock, limiter, outcome>>
              \/ limited /\ Allow(client) /\ Goto(r, "inside") /\ UNCHANGED outcome
              \/ limited /\ Refuse(client) /\ Answer(r, 429)
  /\ UNCHANGED <<accounts, principal>>

\* Content-Length exceeds settings.max_request_bytes.
TooLarge(r) ==
  /\ pc[r] = "inside"
  /\ Answer(r, 413)
  /\ UNCHANGED <<limit, clock, limiter, accounts, request, principal>>

\* Variant: a token is good in the second it expires in.
ExpiredLate(t) == t.iat + Lifetime < clock \div PerSecond
\* exp is issued_at + expires_minutes, cut to seconds, as jwt encodes it.
Expired(t) == (t.iat + Lifetime) * PerSecond <= clock

\* The status that _resolve_principal raises, or 200.  Any X-API-Key there is
\* decides, and compare_digest raises TypeError for keys outside of ASCII.
Resolution(q) ==
  IF q.api # None THEN IF {q.api, ValidKey} \cap ForeignKeys # {} THEN 500
                       ELSE IF q.api = ValidKey THEN 200 ELSE 403
  ELSE IF q.bearer = None \/ Expired(q.bearer) THEN 401
  ELSE 200

\* A valid key is a service account.
RoleOf(q) == IF q.api # None THEN "service" ELSE q.bearer.role

Admit(r) ==
  /\ pc[r] = "inside" /\ request[r].route \in Open
  /\ Goto(r, "handling")
  /\ UNCHANGED <<limit, clock, limiter, accounts, request, principal, outcome>>

\* require_roles.
Authorize(r) ==
  LET q == request[r] IN
  /\ pc[r] = "inside" /\ q.route \in Guarded
  /\ \/ /\ Resolution(q) # 200
        /\ Answer(r, Resolution(q))
        /\ principal' = [principal EXCEPT ![r].at = clock]
     \/ /\ Resolution(q) = 200
        /\ principal' = [principal EXCEPT ![r] = [role |-> RoleOf(q), at |-> clock]]
        /\ IF RoleOf(q) \in AllowedRoles(q.route) THEN Goto(r, "handling") /\ UNCHANGED outcome
                                                  ELSE Answer(r, 403)
  /\ UNCHANGED <<limit, clock, limiter, accounts, request>>

Handling(r, route) == pc[r] = "handling" /\ request[r].route = route

\* AuthService.login: the name and its password are looked up, or one of them is wrong.
Login(r) ==
  /\ Handling(r, "login")
  /\ \/ Answer(r, 401) /\ UNCHANGED tokens
     \/ /\ Answer(r, 200)
        /\ \E n \in Names : /\ users[n] # None
                            /\ tokens' = tokens \cup {[sub |-> n, role |-> users[n].role,
                                                       iat |-> clock \div PerSecond, at |-> clock]}
  /\ UNCHANGED <<limit, clock, limiter, replica, users, request, principal>>

\* DuplicateUserError.
Duplicate == 409

\* Variant: a second user of the name takes the first one's place.
CreateOver(r) ==
  /\ Handling(r, "users")
  /\ \E n \in Names, role \in Roles : users' = [users EXCEPT ![n] = [role |-> role, by |-> r]]
  /\ Answer(r, 201)
  /\ UNCHANGED <<limit, clock, limiter, replica, tokens, request, principal>>

\* AuthService.create_user.
CreateUser(r) ==
  /\ Handling(r, "users")
  /\ \E n \in Names, role \in Roles :
       IF users[n] = None
         THEN users' = [users EXCEPT ![n] = [role |-> role, by |-> r]] /\ Answer(r, 201)
         ELSE Answer(r, Duplicate) /\ UNCHANGED users
  /\ UNCHANGED <<limit, clock, limiter, replica, tokens, request, principal>>

\* The other endpoints.
Handle(r) ==
  /\ pc[r] = "handling" /\ request[r].route \notin {"login", "users"}
  /\ Answer(r, 200)
  /\ UNCHANGED <<limit, clock, limiter, accounts, request, principal>>

-----------------------------------------------------------------------------
Init ==
  /\ limit \in DOMAIN Demand
  /\ clock = 0 /\ limiter = <<>>
  /\ replica = [p \in Replicas |-> IF p \in Demand[limit].replicas THEN "booting" ELSE "off"]
  /\ users = [n \in Names |-> None]
  /\ tokens = {}
  /\ pc = [r \in Requests |-> "idle"]
  /\ request = [r \in Requests |-> [route |-> "health", api |-> None, bearer |-> None]]
  /\ principal = [r \in Requests |-> [role |-> None, at |-> 0]]
  /\ outcome = [r \in Requests |-> 0]

Start(p) == LookUp(p) \/ CreateBoot(p) \/ Restart(p)

Next ==
  \/ Tick
  \/ \E p \in Replicas : Start(p)
  \/ \E r \in Requests :
       \/ Arrive(r) \/ TooLarge(r) \/ Admit(r) \/ Authorize(r)
       \/ Login(r) \/ CreateUser(r) \/ Handle(r)

\* A start goes on, and the platform starts failed tasks again.
Spec == Init /\ [][Next]_vars /\ \A p \in Replicas : WF_vars(Start(p))

-----------------------------------------------------------------------------
(* Correctness.                                                            *)

TypeOK ==
  /\ limit \in DOMAIN Demand /\ clock \in Nat
  /\ DOMAIN limiter \subseteq Replicas \X Keys /\ limiter \in [DOMAIN limiter -> Entry]
  /\ replica \in [Replicas -> {"off", "booting", "creating", "failed", "up"}]
  /\ users \in [Names -> User \cup {None}]
  /\ tokens \subseteq Token
  /\ pc \in [Requests -> {"idle", "inside", "handling", "done"}]
  /\ request \in [Requests -> [route : Guarded \cup Open, api : {None} \cup ApiKeys,
                               bearer : {None} \cup tokens]]
  /\ principal \in [Requests -> [role : Roles \cup {None}, at : Nat]]
  /\ outcome \in [Requests -> {0, 200, 201, 401, 403, 409, 413, 429, 500}]

\* README.md, Authentication and roles: the table of what each role may use.
Granted(role) ==
  CASE role = "admin" -> {"predict", "manage", "users", "report"}
    [] role = "service" -> {"predict", "report"}
    [] role = "analyst" -> {"report"}

\* A guarded handler runs for callers whose role, as the users table has it, is granted
\* what they ask for, however long ago they logged in.
RolesHold ==
  \A r \in Requests :
    LET q == request[r] IN
    q.route \in Guarded /\ (pc[r] = "handling" \/ outcome[r] \in {200, 201, 409}) =>
      IF q.api # None THEN q.api = ValidKey /\ q.route \in Granted("service")
      ELSE q.bearer # None /\ users[q.bearer.sub] # None /\ q.route \in Granted(users[q.bearer.sub].role)

\* TokenResponse.expires_in: a token is never accepted when its time is over, and is
\* refused a second early at most.
TokensLast ==
  \A r \in Requests :
    LET q == request[r]
        end == q.bearer.at + Lifetime * PerSecond
    IN  q.route \in Guarded /\ q.api = None /\ q.bearer # None =>
          /\ principal[r].role # None => principal[r].at < end
          /\ outcome[r] = 401 => principal[r].at + PerSecond > end

\* README.md: a bootstrap admin "is created on startup so an administrator always
\* exists", whoever else starts or creates users meanwhile; and who was told that an
\* account was created (201) is the one who created it.
AccountsStand ==
  /\ (\E p \in Replicas : replica[p] = "up") => \E n \in Names : users[n] # None /\ users[n].role = "admin"
  /\ \A r \in Requests : outcome[r] = 201 => \E n \in Names : users[n] # None /\ users[n].by = r

\* Replicas that start together come up, though they may all create the administrator.
ReplicasComeUp == \A p \in Replicas : <>(replica[p] \in {"up", "off"})
================================================================================
