------------------------------ MODULE AccessProofs ------------------------------
(***************************************************************************)
(* The limit, the roles, the accounts and the tokens' lives hold for any   *)
(* number of replicas, clients and requests, and any limit and window.     *)
(***************************************************************************)
EXTENDS Access, TLAPS

\* How many requests of the current window were let through.
Through(n) == IF n <= limit THEN n ELSE limit

\* The windows of a client with n requests since s, of which a were let through: those
\* of earlier windows, but for the limit of the last of these, are a Window before s.
Windows(a, s, n) ==
  /\ a \in Seq(Nat) /\ s \in Nat /\ n \in Nat /\ s <= clock
  /\ Through(n) <= Len(a)
  /\ \A i \in 1..Len(a) :
       /\ a[i] <= clock
       /\ i <= Len(a) - Through(n) => a[i] <= s
       /\ i <= Len(a) - Through(n) - limit => a[i] + WindowTicks <= s
       /\ i + 2 * limit <= Len(a) => a[i + 2 * limit] - a[i] >= WindowTicks

\* A client that was refused was told a time in the second after its window.
Hint(s, n, t) ==
  t \in Nat /\ (t # 0 => n > limit /\ s + WindowTicks < t /\ t <= s + WindowTicks + PerSecond)

EntryInv(e) == e \in Entry /\ Windows(e.admitted, e.start, e.count) /\ Hint(e.start, e.count, e.retryAt)

LimitInv ==
  /\ limit \in Nat /\ clock \in Nat
  /\ DOMAIN limiter # {} => limit # 0
  /\ limiter \in [DOMAIN limiter -> Entry]
  /\ \A c \in DOMAIN limiter : EntryInv(limiter[c])

LEMMA Ticks == WindowTicks \in Nat \ {0} /\ PerSecond \in Nat \ {0}
<1>1. \A x, y \in Nat \ {0} : x * y \in Nat \ {0}
  OBVIOUS
<1> QED
  BY <1>1, LimitAssumption DEF WindowTicks

\* What int() leaves of a number of seconds.
LEMMA Seconds ==
  ASSUME NEW x \in Nat
  PROVE  /\ x \div PerSecond \in Nat
         /\ (x \div PerSecond) * PerSecond \in Nat
         /\ (x \div PerSecond) * PerSecond <= x
         /\ x < (x \div PerSecond) * PerSecond + PerSecond
         /\ (x \div PerSecond + 1) * PerSecond = (x \div PerSecond) * PerSecond + PerSecond
<1> DEFINE d == x \div PerSecond
<1>1. d \in Nat /\ d * PerSecond <= x /\ x < d * PerSecond + PerSecond
  BY LimitAssumption
<1>2. d * PerSecond \in Nat /\ (d + 1) * PerSecond = d * PerSecond + PerSecond
  BY <1>1, LimitAssumption
<1> QED
  BY <1>1, <1>2

\* A window that is over is done with.
LEMMA Restarted ==
  ASSUME limit \in Nat \ {0}, clock \in Nat, NEW a, NEW s, NEW n, Windows(a, s, n),
         clock - s >= WindowTicks
  PROVE  Windows(a, clock, 0)
<1>1. Through(0) = 0 /\ Through(n) <= limit
  BY DEF Through, Windows
<1>2. ASSUME NEW i \in 1..Len(a), i <= Len(a) - limit PROVE a[i] + WindowTicks <= clock
  <2>1. i <= Len(a) - Through(n) /\ a[i] \in Nat
    BY <1>1, <1>2 DEF Windows, Through
  <2>2. a[i] <= s
    BY <2>1 DEF Windows
  <2> QED
    BY <2>1, <2>2, Ticks DEF Windows
<1> QED
  BY <1>1, <1>2 DEF Windows

\* One more request is let through.
LEMMA OneMore ==
  ASSUME limit \in Nat \ {0}, clock \in Nat, NEW a, NEW s, NEW n, Windows(a, s, n), n + 1 <= limit
  PROVE  Windows(Append(a, clock), s, n + 1)
<1>1. a \in Seq(Nat) /\ s \in Nat /\ n \in Nat /\ s <= clock /\ n <= Len(a) /\ Len(a) \in Nat
  BY DEF Windows, Through
<1>a. /\ Append(a, clock) \in Seq(Nat) /\ Len(Append(a, clock)) = Len(a) + 1
      /\ Append(a, clock)[Len(a) + 1] = clock
      /\ \A i \in 1..Len(a) : Append(a, clock)[i] = a[i]
  BY <1>1
<1>2. PICK b \in Seq(Nat) :
        /\ b = Append(a, clock) /\ Len(b) = Len(a) + 1 /\ b[Len(a) + 1] = clock
        /\ \A i \in 1..Len(a) : b[i] = a[i]
  BY <1>a, Zenon
<1>3. Through(n) = n /\ Through(n + 1) = n + 1
  BY <1>1 DEF Through
<1>4. ASSUME NEW i \in 1..Len(a)
      PROVE  /\ a[i] \in Nat /\ a[i] <= clock
             /\ i <= Len(a) - n => a[i] <= s
             /\ i <= Len(a) - n - limit => a[i] + WindowTicks <= s
             /\ i + 2 * limit <= Len(a) => a[i + 2 * limit] - a[i] >= WindowTicks
  BY <1>1, <1>3 DEF Windows
<1>5. ASSUME NEW i \in 1..Len(b), i + 2 * limit <= Len(b)
      PROVE  b[i + 2 * limit] - b[i] >= WindowTicks
  <2>1. i \in 1..Len(a) /\ b[i] = a[i]
    BY <1>1, <1>2, <1>5
  <2>2. CASE i + 2 * limit <= Len(a)
    BY <1>1, <1>2, <1>4, <2>1, <2>2
  <2>3. CASE i + 2 * limit = Len(a) + 1
    <3>1. i <= Len(a) - n - limit
      BY <1>1, <2>3
    <3>2. a[i] + WindowTicks <= clock
      BY <1>1, <1>4, <2>1, <3>1, Ticks
    <3>3. b[i + 2 * limit] = clock /\ b[i] = a[i] /\ a[i] \in Nat
      BY <1>2, <1>4, <2>1, <2>3
    <3> QED
      BY <3>2, <3>3, Ticks
  <2> QED
    <3>1. i + 2 * limit <= Len(a) + 1 /\ i + 2 * limit \in Int /\ Len(a) \in Nat
      BY <1>1, <1>2, <1>5
    <3>2. \A x, y \in Int : x <= y + 1 => x <= y \/ x = y + 1
      OBVIOUS
    <3>3. i + 2 * limit <= Len(a) \/ i + 2 * limit = Len(a) + 1
      BY <3>1, <3>2
    <3> QED
      BY <2>2, <2>3, <3>3, Zenon
<1>6. ASSUME NEW i \in 1..Len(b)
      PROVE  /\ b[i] <= clock
             /\ i <= Len(b) - (n + 1) => b[i] <= s
             /\ i <= Len(b) - (n + 1) - limit => b[i] + WindowTicks <= s
  <2>1. CASE i \in 1..Len(a)
    BY <1>1, <1>2, <1>4, <2>1
  <2>2. CASE i = Len(a) + 1
    BY <1>1, <1>2, <2>2
  <2> QED
    BY <1>1, <1>2, <2>1, <2>2
<1>7. n + 1 <= Len(b)
  BY <1>1, <1>2
<1>8. Windows(b, s, n + 1)
  <2>1. \A i \in 1..Len(b) :
          /\ b[i] <= clock
          /\ i <= Len(b) - Through(n + 1) => b[i] <= s
          /\ i <= Len(b) - Through(n + 1) - limit => b[i] + WindowTicks <= s
          /\ i + 2 * limit <= Len(b) => b[i + 2 * limit] - b[i] >= WindowTicks
    BY <1>3, <1>5, <1>6
  <2>2. s \in Nat /\ n + 1 \in Nat /\ s <= clock /\ Through(n + 1) <= Len(b)
    BY <1>1, <1>3, <1>7
  <2> QED
    BY <1>2, <2>1, <2>2 DEF Windows
<1> QED
  BY <1>2, <1>8

\* The entry a check works on is sound, and if it refuses, its window is not over.
LEMMA RefreshedInv ==
  ASSUME LimitInv, limit # 0, NEW c
  PROVE  LET e == Refreshed(c) IN
         /\ e \in Entry /\ Windows(e.admitted, e.start, e.count)
         /\ clock - e.start < WindowTicks
<1>a. limit \in Nat \ {0} /\ clock \in Nat
  BY DEF LimitInv
<1>1. Known(c) \in Entry /\ Windows(Known(c).admitted, Known(c).start, Known(c).count)
  <2>1. CASE c \in DOMAIN limiter
    BY <2>1 DEF LimitInv, EntryInv, Known
  <2>2. CASE c \notin DOMAIN limiter
    <3>1. Known(c) = [start |-> clock, count |-> 0, admitted |-> <<>>, retryAt |-> 0]
      BY <2>2 DEF Known
    <3>2. Windows(<<>>, clock, 0)
      BY <1>a DEF Windows, Through
    <3> QED
      BY <1>a, <3>1, <3>2 DEF Entry
  <2> QED
    BY <2>1, <2>2
<1>2. Known(c).start \in Nat /\ Known(c).count \in Nat
  BY <1>1 DEF Entry
<1>3. CASE Over(c)
  <2>1. Windows(Known(c).admitted, clock, 0)
    BY <1>1, <1>3, <1>a, Restarted DEF Over
  <2>2. Refreshed(c) = [Known(c) EXCEPT !.start = clock, !.count = 0]
    BY <1>3 DEF Refreshed
  <2>3. /\ Refreshed(c) \in Entry /\ Refreshed(c).start = clock /\ Refreshed(c).count = 0
        /\ Refreshed(c).admitted = Known(c).admitted
    <3>1. PICK k \in Entry : k = Known(c)
      BY <1>1
    <3>2. PICK f : f = [k EXCEPT !.start = clock, !.count = 0]
      OBVIOUS
    <3>3. f \in Entry /\ f.start = clock /\ f.count = 0 /\ f.admitted = k.admitted
      BY <1>a, <3>2 DEF Entry
    <3>4. f = Refreshed(c)
      BY <2>2, <3>1, <3>2
    <3> QED
      BY <3>1, <3>3, <3>4
  <2> QED
    BY <1>a, <2>1, <2>3, Ticks
<1>4. CASE ~Over(c)
  BY <1>1, <1>2, <1>4, <1>a, Ticks DEF Over, Refreshed
<1> QED
  BY <1>3, <1>4

LEMMA CheckKeeps ==
  ASSUME LimitInv, limit # 0, NEW c, Allow(c) \/ Refuse(c)
  PROVE  LimitInv'
<1> DEFINE e == Refreshed(c)
<1>a. /\ limit \in Nat \ {0} /\ clock \in Nat /\ limit' = limit /\ clock' = clock
      /\ limiter \in [DOMAIN limiter -> Entry]
  BY DEF LimitInv, Allow, Refuse
<1>1. /\ e \in Entry /\ Windows(e.admitted, e.start, e.count) /\ clock - e.start < WindowTicks
      /\ e.start \in Nat /\ e.count \in Nat /\ e.admitted \in Seq(Nat) /\ e.start <= clock
  BY RefreshedInv DEF Windows
<1> HIDE DEF e
<1>2. ASSUME NEW f \in Entry, Record(c, f), EntryInv(f) PROVE LimitInv'
  <2>1. /\ DOMAIN limiter' = DOMAIN limiter \cup {c}
        /\ \A x \in DOMAIN limiter' : limiter'[x] = IF x = c THEN f ELSE limiter[x]
        /\ limiter' = [x \in DOMAIN limiter' |-> limiter'[x]]
    BY <1>2 DEF Record
  <2>2. \A x \in DOMAIN limiter' : EntryInv(limiter'[x])
    BY <1>2, <2>1 DEF LimitInv
  <2>3. \A x : EntryInv(x) <=> EntryInv(x)'
    BY <1>a DEF EntryInv, Windows, Hint, Through
  <2>4. \A x \in DOMAIN limiter' : limiter'[x] \in Entry
    BY <2>2 DEF EntryInv
  <2>5. \A x \in DOMAIN limiter' : EntryInv(limiter[x])'
    BY <1>a, <2>2 DEF EntryInv, Windows, Hint, Through
  <2> QED
    BY <1>a, <2>1, <2>4, <2>5 DEF LimitInv
<1>3. CASE Allow(c)
  <2> DEFINE f == [e EXCEPT !.count = @ + 1, !.admitted = Append(@, clock), !.retryAt = 0]
  <2>1. Record(c, f) /\ e.count + 1 <= limit
    BY <1>3 DEF Allow, Allowed, e
  <2>2. /\ f.admitted = Append(e.admitted, clock) /\ f.start = e.start /\ f.count = e.count + 1
        /\ f.retryAt = 0 /\ f \in Entry
    <3>1. e \in Entry /\ e.count + 1 \in Nat /\ Append(e.admitted, clock) \in Seq(Nat)
      BY <1>1, <1>a
    <3> QED
      BY <3>1 DEF Entry
  <2>3. Windows(f.admitted, f.start, f.count)
    BY <1>1, <1>a, <2>1, <2>2, OneMore
  <2>4. EntryInv(f)
    BY <2>2, <2>3 DEF EntryInv, Hint
  <2> QED
    BY <1>2, <2>1, <2>2, <2>4
<1>4. CASE Refuse(c)
  <2> DEFINE left == WindowTicks - (clock - e.start)
             told == clock + (left \div PerSecond + 1) * PerSecond
             f == [e EXCEPT !.count = @ + 1, !.retryAt = told]
  <2>1. Record(c, f) /\ ~(e.count + 1 <= limit)
    BY <1>4 DEF Refuse, Allowed, RetryAfter, e
  <2>2. left \in Nat
    BY <1>1, <1>a, Ticks
  <2> HIDE DEF left
  <2>3. told \in Nat /\ told <= clock + left + PerSecond /\ clock + left < told
    BY <1>a, <2>2, Seconds, Ticks
  <2> HIDE DEF told
  <2>4. told # 0 /\ e.start + WindowTicks < told /\ told <= e.start + WindowTicks + PerSecond
    BY <1>1, <1>a, <2>2, <2>3, Ticks DEF left
  <2>5. /\ f.admitted = e.admitted /\ f.start = e.start /\ f.count = e.count + 1
        /\ f.retryAt = told /\ f \in Entry
    <3>1. e \in Entry /\ e.count + 1 \in Nat /\ told \in Nat
      BY <1>1, <2>3
    <3> QED
      BY <3>1 DEF Entry
  <2>6. Through(e.count + 1) = limit /\ Through(e.count) = limit
    BY <1>1, <1>a, <2>1 DEF Through
  <2>7. Windows(e.admitted, e.start, e.count + 1)
    BY <1>1, <2>6 DEF Windows
  <2>8. EntryInv(f)
    BY <1>1, <1>a, <2>1, <2>3, <2>4, <2>5, <2>7 DEF EntryInv, Hint
  <2> QED
    BY <1>2, <2>1, <2>5, <2>8
<1> QED
  BY <1>3, <1>4

\* Time passes, and what was said of a client still holds.
LEMMA TickKeeps ==
  ASSUME LimitInv, limit' = limit, limiter' = limiter, clock' = clock + 1
  PROVE  LimitInv'
<1>1. ASSUME NEW c \in DOMAIN limiter PROVE EntryInv(limiter[c])'
  <2>1. EntryInv(limiter[c]) /\ clock \in Nat
    BY DEF LimitInv
  <2>2. \A i \in 1..Len(limiter[c].admitted) : limiter[c].admitted[i] \in Nat
    BY <2>1 DEF EntryInv, Windows
  <2> QED
    BY <2>1, <2>2 DEF EntryInv, Windows, Hint, Through
<1> QED
  BY <1>1 DEF LimitInv

\* What the limit's two properties rest on.
LEMMA LimitHolds == LimitInv => TwoWindowsAtMost /\ RetryAfterTells
<1> SUFFICES ASSUME LimitInv PROVE TwoWindowsAtMost /\ RetryAfterTells
  OBVIOUS
<1>1. TwoWindowsAtMost
  <2> SUFFICES ASSUME NEW c \in DOMAIN limiter, NEW i \in DOMAIN limiter[c].admitted,
                      i + 2 * limit \in DOMAIN limiter[c].admitted
               PROVE  limiter[c].admitted[i + 2 * limit] - limiter[c].admitted[i] >= WindowTicks
    BY DEF TwoWindowsAtMost
  <2>1. Windows(limiter[c].admitted, limiter[c].start, limiter[c].count)
    BY DEF LimitInv, EntryInv
  <2>2. /\ DOMAIN limiter[c].admitted = 1..Len(limiter[c].admitted)
        /\ Len(limiter[c].admitted) \in Nat
    BY <2>1 DEF Windows
  <2>3. limit \in Nat /\ i \in 1..Len(limiter[c].admitted) /\ i + 2 * limit <= Len(limiter[c].admitted)
    BY <2>2 DEF LimitInv
  <2> QED
    BY <2>1, <2>3 DEF Windows
<1>2. RetryAfterTells
  <2> SUFFICES ASSUME NEW c \in DOMAIN limiter, limiter[c].retryAt # 0
               PROVE  /\ clock >= limiter[c].retryAt => Allowed(c)
                      /\ clock + PerSecond < limiter[c].retryAt => ~Allowed(c)
    BY DEF RetryAfterTells
  <2> DEFINE e == limiter[c]
  <2>1. /\ e \in Entry /\ e.count > limit /\ e.start + WindowTicks < e.retryAt
        /\ e.retryAt <= e.start + WindowTicks + PerSecond
        /\ e.start \in Nat /\ e.count \in Nat /\ e.retryAt \in Nat
        /\ limit \in Nat \ {0} /\ clock \in Nat /\ Known(c) = e
    BY DEF LimitInv, EntryInv, Hint, Entry, Known
  <2> HIDE DEF e
  <2>2. CASE clock >= e.retryAt
    <3>1. Over(c)
      BY <2>1, <2>2, Ticks DEF Over
    <3>2. Refreshed(c).count = 0
      BY <2>1, <3>1 DEF Refreshed, Entry
    <3> QED
      BY <2>1, <2>2, <3>2, Ticks DEF Allowed, e
  <2>3. CASE clock < e.retryAt
    <3>1. clock + PerSecond < e.retryAt => ~Over(c)
      BY <2>1, Ticks DEF Over
    <3>2. clock + PerSecond < e.retryAt => Refreshed(c).count = e.count
      BY <2>1, <3>1 DEF Refreshed
    <3> QED
      BY <2>1, <2>3, <3>2, Ticks DEF Allowed, e
  <2> QED
    BY <2>1, <2>2, <2>3 DEF e
<1> QED
  BY <1>1, <1>2

-----------------------------------------------------------------------------
(* Accounts and requests.                                                  *)

\* A token tells its user's role and, to the second, when it was issued.
TokenInv(t) ==
  /\ users[t.sub] # None /\ users[t.sub].role = t.role
  /\ t.at <= clock /\ t.iat <= clock
  /\ t.iat * PerSecond <= t.at /\ t.at < t.iat * PerSecond + PerSecond

\* The administrator exists before anyone is served, which is why no one takes its name.
BootInv ==
  /\ users[Boot] # None => users[Boot].role = "admin"
  /\ \A p \in Replicas : replica[p] = "up" => users[Boot] # None

Permitted(q) ==
  IF q.api # None THEN q.api = ValidKey /\ q.route \in Granted("service")
  ELSE q.bearer # None /\ users[q.bearer.sub] # None /\ q.route \in Granted(users[q.bearer.sub].role)

RequestInv(r) ==
  /\ pc[r] # "done" => outcome[r] = 0
  /\ pc[r] \in {"idle", "inside"} => principal[r].role = None
  /\ pc[r] # "idle" => users[Boot] # None
  /\ outcome[r] = 201 => \E n \in Names : users[n] # None /\ users[n].by = r
  /\ request[r].route \in Guarded /\ (pc[r] = "handling" \/ outcome[r] \in {200, 201, 409}) =>
       Permitted(request[r])
  /\ request[r].route \in Guarded /\ request[r].api = None /\ request[r].bearer # None =>
       LET end == request[r].bearer.at + Lifetime * PerSecond IN
       /\ principal[r].role # None => principal[r].at < end
       /\ outcome[r] = 401 => principal[r].at + PerSecond > end

IInv ==
  /\ TypeOK /\ LimitInv /\ BootInv
  /\ \A t \in tokens : TokenInv(t)
  /\ \A r \in Requests : RequestInv(r)

LEMMA Starts == Init => IInv
<1> SUFFICES ASSUME Init PROVE IInv
  OBVIOUS
<1>1. TypeOK
  BY AccessAssumption DEF Init, TypeOK, Guarded, Open
<1>2. LimitInv
  <2>1. limit \in Nat /\ clock \in Nat /\ DOMAIN limiter = {} /\ limiter = [c \in DOMAIN limiter |-> limiter[c]]
    BY AccessAssumption DEF Init
  <2> QED
    BY <2>1 DEF LimitInv
<1>3. BootInv /\ (\A t \in tokens : TokenInv(t)) /\ \A r \in Requests : RequestInv(r)
  BY AccessAssumption DEF Init, BootInv, RequestInv, Guarded
<1> QED
  BY <1>1, <1>2, <1>3 DEF IInv

\* Users are never changed, nor deleted.
Grows == \A n \in Names : users[n] # None => users'[n] = users[n]

LEMMA TokensStand ==
  ASSUME IInv, Grows, NEW t \in tokens, clock' \in {clock, clock + 1}
  PROVE  TokenInv(t)'
<1>1. /\ TokenInv(t) /\ t.sub \in Names /\ t.at \in Nat /\ t.iat \in Nat /\ clock \in Nat
  BY DEF IInv, TypeOK, Token
<1> QED
  BY <1>1 DEF TokenInv, Grows

LEMMA RequestsStand ==
  ASSUME IInv, Grows, NEW r \in Requests,
         pc'[r] = pc[r], request'[r] = request[r], principal'[r] = principal[r],
         outcome'[r] = outcome[r]
  PROVE  RequestInv(r)'
<1>1. RequestInv(r) /\ Boot \in Names
  BY AccessAssumption DEF IInv
<1>2. Permitted(request[r]) => Permitted(request[r])'
  <2>1. request[r].bearer # None => request[r].bearer.sub \in Names
    BY DEF IInv, TypeOK, Token
  <2> QED
    BY <2>1 DEF Permitted, Grows
<1>3. (\E n \in Names : users[n] # None /\ users[n].by = r) =>
        \E n \in Names : users'[n] # None /\ users'[n].by = r
  BY DEF Grows
<1> QED
  BY <1>1, <1>2, <1>3 DEF RequestInv, Grows, Permitted

\* The keys of the clients stay keys.
LEMMA KeysStand == ASSUME clock \in Nat, clock' \in {clock, clock + 1} PROVE Keys \subseteq Keys'
  BY DEF Keys

\* What only requests change, and each only its own.
LEMMA RequestStep ==
  ASSUME IInv, NEW r \in Requests,
         UNCHANGED <<limit, clock, replica>>, LimitInv', Grows,
         DOMAIN limiter' \subseteq Replicas \X Keys, limiter' \in [DOMAIN limiter' -> Entry],
         users' \in [Names -> User \cup {None}],
         users'[Boot] = users[Boot],
         tokens' \subseteq Token, tokens \subseteq tokens',
         \A t \in tokens' \ tokens : TokenInv(t)',
         pc' \in [Requests -> {"idle", "inside", "handling", "done"}],
         request' \in [Requests -> [route : Guarded \cup Open, api : {None} \cup ApiKeys,
                                    bearer : {None} \cup tokens]],
         principal' \in [Requests -> [role : Roles \cup {None}, at : Nat]],
         outcome' \in [Requests -> {0, 200, 201, 401, 403, 409, 413, 429, 500}],
         \A s \in Requests \ {r} : /\ pc'[s] = pc[s] /\ request'[s] = request[s]
                                   /\ principal'[s] = principal[s] /\ outcome'[s] = outcome[s],
         RequestInv(r)'
  PROVE  IInv'
<1>2. request' \in [Requests -> [route : Guarded \cup Open, api : {None} \cup ApiKeys,
                                 bearer : {None} \cup tokens']]
  OBVIOUS
<1>3. Keys' = Keys
  BY DEF Keys
<1>4. TypeOK'
  BY <1>2, <1>3 DEF IInv, TypeOK
<1>5. BootInv'
  BY DEF IInv, BootInv
<1>6. \A t \in tokens' : TokenInv(t)'
  BY TokensStand
<1>7. ASSUME NEW s \in Requests, s # r PROVE RequestInv(s)'
  BY <1>7, RequestsStand
<1> QED
  BY <1>4, <1>5, <1>6, <1>7 DEF IInv

LEMMA TickStep == ASSUME IInv, Tick PROVE IInv'
<1> USE DEF accounts, requests
<1>1. clock \in Nat /\ clock' = clock + 1 /\ Grows
  BY DEF IInv, TypeOK, Tick, Grows
<1>2. TypeOK'
  <2>1. Keys \subseteq Keys'
    BY <1>1, KeysStand
  <2> QED
    BY <1>1, <2>1 DEF IInv, TypeOK, Tick
<1>3. LimitInv'
  BY TickKeeps DEF IInv, Tick
<1>4. BootInv'
  BY DEF IInv, BootInv, Tick
<1>5. (\A t \in tokens' : TokenInv(t)') /\ \A r \in Requests : RequestInv(r)'
  BY <1>1, TokensStand, RequestsStand DEF Tick
<1> QED
  BY <1>2, <1>3, <1>4, <1>5 DEF IInv

LEMMA StartStep == ASSUME IInv, NEW p \in Replicas, Start(p) PROVE IInv'
<1> USE DEF requests, Become
<1>1. UNCHANGED <<limit, clock, limiter, tokens, requests>>
  BY DEF Start, LookUp, CreateBoot, Restart
<1>2. /\ Grows /\ users' \in [Names -> User \cup {None}]
      /\ users[Boot] # None => users' = users
      /\ users' = users \/ users'[Boot] = [role |-> "admin", by |-> p]
      /\ \/ replica' = [replica EXCEPT ![p] = "creating"] \/ replica' = [replica EXCEPT ![p] = "failed"]
         \/ replica' = [replica EXCEPT ![p] = "booting"]
         \/ replica' = [replica EXCEPT ![p] = "up"] /\ users'[Boot] # None
  <2>1. CASE LookUp(p) \/ Restart(p)
    BY <2>1 DEF LookUp, Restart, Grows, IInv, TypeOK
  <2>2. CASE CreateBoot(p) /\ users[Boot] # None
    BY <2>2 DEF CreateBoot, Grows, IInv, TypeOK
  <2>3. CASE CreateBoot(p) /\ users[Boot] = None
    <3>1. users' = [users EXCEPT ![Boot] = [role |-> "admin", by |-> p]] /\ Boot \in Names
      BY <2>3, AccessAssumption DEF CreateBoot
    <3>2. [role |-> "admin", by |-> p] \in User /\ [role |-> "admin", by |-> p].role = "admin"
      BY DEF User, Roles
    <3>3. users \in [Names -> User \cup {None}] /\ \A u \in User : u # None \/ u = None
      BY DEF IInv, TypeOK
    <3>4. users' \in [Names -> User \cup {None}] /\ users'[Boot] = [role |-> "admin", by |-> p]
      BY <3>1, <3>2, <3>3
    <3>5. Grows
      BY <2>3, <3>1, <3>3 DEF Grows
    <3> QED
      BY <2>3, <3>1, <3>2, <3>4, <3>5, NoneAssumption DEF CreateBoot
  <2> QED
    BY <2>1, <2>2, <2>3 DEF Start
<1>3. TypeOK'
  <2>1. replica' \in [Replicas -> {"off", "booting", "creating", "failed", "up"}]
    <3>1. replica \in [Replicas -> {"off", "booting", "creating", "failed", "up"}]
      BY DEF IInv, TypeOK
    <3> QED
      BY <1>2, <3>1
  <2>2. Keys' = Keys
    BY <1>1 DEF Keys
  <2>3. /\ limit' \in DOMAIN Demand /\ clock' \in Nat
        /\ DOMAIN limiter' \subseteq Replicas \X Keys' /\ limiter' \in [DOMAIN limiter' -> Entry]
    BY <1>1, <2>2 DEF IInv, TypeOK
  <2>4. /\ tokens' \subseteq Token
        /\ pc' \in [Requests -> {"idle", "inside", "handling", "done"}]
        /\ outcome' \in [Requests -> {0, 200, 201, 401, 403, 409, 413, 429, 500}]
        /\ principal' \in [Requests -> [role : Roles \cup {None}, at : Nat]]
    BY <1>1 DEF IInv, TypeOK
  <2>5. request' \in [Requests -> [route : Guarded \cup Open, api : {None} \cup ApiKeys,
                                   bearer : {None} \cup tokens']]
    BY <1>1 DEF IInv, TypeOK
  <2> QED
    BY <1>2, <2>1, <2>3, <2>4, <2>5 DEF TypeOK
<1>4. LimitInv'
  <2>1. \A c \in DOMAIN limiter : EntryInv(limiter[c]) => EntryInv(limiter[c])'
    BY <1>1 DEF EntryInv, Windows, Hint, Through
  <2> QED
    BY <1>1, <2>1 DEF IInv, LimitInv
<1>5. BootInv'
  <2>1. Boot \in Names /\ replica \in [Replicas -> {"off", "booting", "creating", "failed", "up"}]
    BY AccessAssumption DEF IInv, TypeOK
  <2>2. users'[Boot] # None => users'[Boot].role = "admin"
    BY <1>2 DEF IInv, BootInv
  <2>3. users[Boot] # None => users'[Boot] # None
    BY <1>2
  <2> QED
    BY <1>2, <2>1, <2>2, <2>3 DEF IInv, BootInv
<1>6. (\A t \in tokens' : TokenInv(t)') /\ \A r \in Requests : RequestInv(r)'
  BY <1>1, <1>2, TokensStand, RequestsStand
<1> QED
  BY <1>3, <1>4, <1>5, <1>6 DEF IInv

\* What TypeOK says of a request that is on its way.
LEMMA RequestTypes ==
  ASSUME IInv, NEW r \in Requests
  PROVE  /\ request[r] \in [route : Guarded \cup Open, api : {None} \cup ApiKeys, bearer : {None} \cup tokens]
         /\ principal[r] \in [role : Roles \cup {None}, at : Nat]
         /\ pc \in [Requests -> {"idle", "inside", "handling", "done"}]
         /\ request[r].bearer # None => request[r].bearer \in tokens /\ request[r].bearer \in Token
         /\ limit \in Nat /\ clock \in Nat /\ tokens \subseteq Token
         /\ RequestInv(r)
  BY AccessAssumption DEF IInv, TypeOK

LEMMA ArriveStep == ASSUME IInv, NEW r \in Requests, Arrive(r) PROVE IInv'
<1> USE DEF accounts
<1>0. PICK p \in Replicas, route \in (Guarded \cup Open) \cap Demand[limit].routes,
           api \in {None} \cup Demand[limit].keys, bearer \in {None} \cup tokens :
        /\ replica[p] = "up"
        /\ request' = [request EXCEPT ![r] = [route |-> route, api |-> api, bearer |-> bearer]]
        /\ LET client == <<p, ClientKey(api, bearer)>>
               limited == limit # 0 /\ route # "health"
           IN  \/ ~limited /\ Goto(r, "inside") /\ UNCHANGED <<limit, clock, limiter, outcome>>
               \/ limited /\ Allow(client) /\ Goto(r, "inside") /\ UNCHANGED outcome
               \/ limited /\ Refuse(client) /\ Answer(r, 429)
  BY Zenon DEF Arrive
<1>a. /\ replica[p] = "up"
      /\ request' = [request EXCEPT ![r] = [route |-> route, api |-> api, bearer |-> bearer]]
      /\ \/ Goto(r, "inside") /\ UNCHANGED <<limit, clock, limiter, outcome>>
         \/ /\ limit # 0 /\ Allow(<<p, ClientKey(api, bearer)>>)
            /\ Goto(r, "inside") /\ UNCHANGED outcome
         \/ limit # 0 /\ Refuse(<<p, ClientKey(api, bearer)>>) /\ Answer(r, 429)
  BY <1>0
<1>b. PICK next \in {"inside", "done"}, status \in {0, 429} :
        /\ pc' = [pc EXCEPT ![r] = next] /\ outcome' = [outcome EXCEPT ![r] = status]
        /\ next = "inside" => status = 0
  <2>1. outcome = [outcome EXCEPT ![r] = 0]
    BY RequestTypes DEF Arrive, RequestInv, IInv, TypeOK
  <2> QED
    BY <1>a, <2>1 DEF Goto, Answer
<1>c. \/ UNCHANGED <<limit, clock, limiter>>
      \/ limit # 0 /\ (Allow(<<p, ClientKey(api, bearer)>>) \/ Refuse(<<p, ClientKey(api, bearer)>>))
  BY <1>a
<1>d. pc[r] = "idle" /\ route \in Guarded \cup Open /\ api \in {None} \cup ApiKeys
  <2>1. limit \in DOMAIN Demand /\ Demand[limit].keys \subseteq ApiKeys
    BY AccessAssumption DEF IInv, TypeOK
  <2> QED
    BY <1>a, <2>1 DEF Arrive
<1>1. /\ p \in Replicas /\ bearer \in {None} \cup tokens /\ replica[p] = "up" /\ pc[r] = "idle"
      /\ route \in Guarded \cup Open /\ api \in {None} \cup ApiKeys
      /\ request' = [request EXCEPT ![r] = [route |-> route, api |-> api, bearer |-> bearer]]
      /\ next \in {"inside", "done"} /\ status \in {0, 429}
      /\ pc' = [pc EXCEPT ![r] = next] /\ outcome' = [outcome EXCEPT ![r] = status]
      /\ next = "inside" => status = 0
      /\ \/ UNCHANGED <<limit, clock, limiter>>
         \/ limit # 0 /\ (Allow(<<p, ClientKey(api, bearer)>>) \/ Refuse(<<p, ClientKey(api, bearer)>>))
  BY <1>a, <1>b, <1>c, <1>d
<1>2. UNCHANGED <<replica, users, tokens, principal>>
  BY DEF Arrive
<1>3. <<p, ClientKey(api, bearer)>> \in Replicas \X Keys
  <2>1. bearer # None => bearer.sub \in Names /\ bearer.role \in Roles /\ bearer.iat \in 0..clock
    BY DEF IInv, TypeOK, Token, TokenInv
  <2> QED
    BY <1>1, <2>1 DEF ClientKey, Keys
<1>4. /\ LimitInv' /\ UNCHANGED <<limit, clock>>
      /\ DOMAIN limiter' \subseteq Replicas \X Keys /\ limiter' \in [DOMAIN limiter' -> Entry]
  <2>1. CASE UNCHANGED <<limit, clock, limiter>>
    <3>1. \A c \in DOMAIN limiter : EntryInv(limiter[c]) => EntryInv(limiter[c])'
      BY <2>1 DEF EntryInv, Windows, Hint, Through
    <3> QED
      BY <2>1, <3>1 DEF IInv, LimitInv, TypeOK
  <2>2. CASE limit # 0 /\ (Allow(<<p, ClientKey(api, bearer)>>) \/ Refuse(<<p, ClientKey(api, bearer)>>))
    <3>1. LimitInv' /\ UNCHANGED <<limit, clock>>
      BY <2>2, CheckKeeps DEF IInv, Allow, Refuse
    <3>2. DOMAIN limiter' = DOMAIN limiter \cup {<<p, ClientKey(api, bearer)>>}
      BY <2>2 DEF Allow, Refuse, Record
    <3> QED
      BY <1>3, <3>1, <3>2 DEF IInv, TypeOK, LimitInv
  <2> QED
    BY <1>1, <2>1, <2>2
<1>5. RequestInv(r)'
  <2>1. users[Boot] # None /\ principal[r].role = None
    BY <1>1, RequestTypes DEF RequestInv, IInv, BootInv
  <2>2. pc'[r] = next /\ outcome'[r] = status /\ request'[r].api = api
    BY <1>1 DEF IInv, TypeOK
  <2> QED
    BY <1>1, <1>2, <2>1, <2>2 DEF RequestInv
<1>6. Grows
  BY <1>2 DEF Grows
<1>7. /\ request' \in [Requests -> [route : Guarded \cup Open, api : {None} \cup ApiKeys,
                                   bearer : {None} \cup tokens]]
      /\ outcome' \in [Requests -> {0, 200, 201, 401, 403, 409, 413, 429, 500}]
      /\ pc' \in [Requests -> {"idle", "inside", "handling", "done"}]
      /\ \A s \in Requests \ {r} : /\ pc'[s] = pc[s] /\ request'[s] = request[s]
                                  /\ outcome'[s] = outcome[s]
  BY <1>1 DEF IInv, TypeOK
<1>8. /\ users' \in [Names -> User \cup {None}] /\ users'[Boot] = users[Boot]
      /\ tokens' \subseteq Token /\ tokens' = tokens
      /\ principal' \in [Requests -> [role : Roles \cup {None}, at : Nat]]
      /\ \A s \in Requests \ {r} : principal'[s] = principal[s]
  BY <1>2 DEF IInv, TypeOK
<1> QED
  BY <1>1, <1>2, <1>4, <1>5, <1>6, <1>7, <1>8, RequestStep

\* The steps of a request that leave the limiter, users and tokens alone.
LEMMA InnerStep ==
  ASSUME IInv, NEW r \in Requests,
         UNCHANGED <<limit, clock, limiter, accounts, request>>,
         pc' \in [Requests -> {"idle", "inside", "handling", "done"}],
         pc'[r] \in {"handling", "done"},
         outcome' \in [Requests -> {0, 200, 201, 401, 403, 409, 413, 429, 500}],
         outcome'[r] \in {0, 200, 401, 403, 413, 500},
         principal' \in [Requests -> [role : Roles \cup {None}, at : Nat]],
         \A s \in Requests \ {r} : /\ pc'[s] = pc[s] /\ outcome'[s] = outcome[s]
                                   /\ principal'[s] = principal[s],
         pc'[r] = "handling" => outcome'[r] = 0,
         pc[r] # "idle",
         request[r].route \in Guarded /\ (pc'[r] = "handling" \/ outcome'[r] = 200) => Permitted(request[r]),
         request[r].route \in Guarded /\ request[r].api = None /\ request[r].bearer # None =>
           /\ principal'[r].role # None => principal'[r].at < request[r].bearer.at + Lifetime * PerSecond
           /\ outcome'[r] = 401 => principal'[r].at + PerSecond > request[r].bearer.at + Lifetime * PerSecond
  PROVE  IInv'
<1> USE DEF accounts
<1>2. LimitInv' /\ Grows
  <2>1. \A c \in DOMAIN limiter : EntryInv(limiter[c]) => EntryInv(limiter[c])'
    BY DEF EntryInv, Windows, Hint, Through
  <2> QED
    BY <2>1 DEF IInv, LimitInv, Grows
<1>3. RequestInv(r)'
  BY RequestTypes DEF RequestInv, Permitted
<1>4. /\ DOMAIN limiter' \subseteq Replicas \X Keys /\ limiter' \in [DOMAIN limiter' -> Entry]
      /\ users' \in [Names -> User \cup {None}] /\ users'[Boot] = users[Boot]
      /\ tokens' \subseteq Token /\ tokens' = tokens
      /\ request' \in [Requests -> [route : Guarded \cup Open, api : {None} \cup ApiKeys,
                                    bearer : {None} \cup tokens]]
      /\ \A s \in Requests \ {r} : request'[s] = request[s]
  BY DEF IInv, TypeOK
<1> QED
  BY <1>2, <1>3, <1>4, RequestStep

LEMMA AuthorizeStep == ASSUME IInv, NEW r \in Requests, Authorize(r) PROVE IInv'
<1> DEFINE q == request[r]
<1>1. /\ pc[r] = "inside" /\ q.route \in Guarded /\ clock \in Nat
      /\ UNCHANGED <<limit, clock, limiter, accounts, request>>
      /\ principal[r] \in [role : Roles \cup {None}, at : Nat] /\ principal[r].role = None
      /\ outcome = [outcome EXCEPT ![r] = 0]
  BY RequestTypes DEF Authorize, RequestInv, IInv, TypeOK
<1>2. q.api = None /\ q.bearer # None =>
        /\ q.bearer.iat \in Nat /\ q.bearer.at \in Nat /\ q.bearer.role \in Roles
        /\ TokenInv(q.bearer)
  BY RequestTypes DEF IInv, Token
<1>3. \A i, t \in Nat :
        /\ (i + Lifetime) * PerSecond = i * PerSecond + Lifetime * PerSecond
        /\ i * PerSecond \in Nat /\ Lifetime * PerSecond \in Nat
  BY AccessAssumption, Ticks
<1>4. q.api = None /\ q.bearer # None =>
        IF Expired(q.bearer) THEN clock + PerSecond > q.bearer.at + Lifetime * PerSecond
                             ELSE clock < q.bearer.at + Lifetime * PerSecond
  <2> SUFFICES ASSUME q.api = None, q.bearer # None
               PROVE  IF Expired(q.bearer)
                        THEN clock + PerSecond > q.bearer.at + Lifetime * PerSecond
                        ELSE clock < q.bearer.at + Lifetime * PerSecond
    OBVIOUS
  <2> DEFINE b == q.bearer.iat * PerSecond
             d == Lifetime * PerSecond
  <2>1. /\ b \in Nat /\ d \in Nat /\ q.bearer.at \in Nat /\ b <= q.bearer.at
        /\ q.bearer.at < b + PerSecond /\ Expired(q.bearer) = (b + d <= clock)
    BY <1>2, <1>3 DEF TokenInv, Expired
  <2> HIDE DEF b, d
  <2>2. IF b + d <= clock THEN clock + PerSecond > q.bearer.at + d ELSE clock < q.bearer.at + d
    BY <1>1, <2>1, Ticks
  <2> QED
    BY <2>1, <2>2 DEF d
<1>p. principal \in [Requests -> [role : Roles \cup {None}, at : Nat]]
  BY DEF IInv, TypeOK
<1>5. CASE Resolution(q) # 200
  <2>1. /\ principal' \in [Requests -> [role : Roles \cup {None}, at : Nat]]
        /\ principal'[r].role = None /\ principal'[r].at = clock
        /\ \A s \in Requests \ {r} : principal'[s] = principal[s]
    <3>1. [principal[r] EXCEPT !.at = clock] \in [role : Roles \cup {None}, at : Nat]
      BY <1>1
    <3>2. principal' = [principal EXCEPT ![r] = [principal[r] EXCEPT !.at = clock]]
      BY <1>5 DEF Authorize
    <3>3. [principal[r] EXCEPT !.at = clock].role = None /\ [principal[r] EXCEPT !.at = clock].at = clock
      BY <1>1
    <3> QED
      BY <3>1, <3>2, <3>3, <1>p
  <2>2. Resolution(q) \in {401, 403, 500} /\ Resolution(q) \in {0, 200, 401, 403, 413, 500}
    BY <1>5 DEF Resolution
  <2>3. pc' = [pc EXCEPT ![r] = "done"] /\ outcome' = [outcome EXCEPT ![r] = Resolution(q)]
    BY <1>5 DEF Authorize, Answer, Goto
  <2>4. q.api = None /\ q.bearer # None /\ Resolution(q) = 401 => Expired(q.bearer)
    BY DEF Resolution
  <2>5. /\ outcome' \in [Requests -> {0, 200, 201, 401, 403, 409, 413, 429, 500}]
        /\ pc' \in [Requests -> {"idle", "inside", "handling", "done"}]
        /\ outcome'[r] = Resolution(q) /\ pc'[r] = "done"
        /\ \A s \in Requests \ {r} : outcome'[s] = outcome[s] /\ pc'[s] = pc[s]
    BY <2>2, <2>3 DEF IInv, TypeOK
  <2>6. q.api = None /\ q.bearer # None /\ outcome'[r] = 401 =>
          principal'[r].at + PerSecond > q.bearer.at + Lifetime * PerSecond
    BY <1>4, <2>1, <2>4, <2>5
  <2>7. outcome'[r] \in {0, 200, 401, 403, 413, 500} /\ outcome'[r] # 200
    BY <2>2, <2>5
  <2> QED
    BY <1>1, <2>1, <2>5, <2>6, <2>7, InnerStep
<1>6. CASE Resolution(q) = 200
  <2>1. /\ q.api # None => q.api = ValidKey /\ RoleOf(q) = "service"
        /\ q.api = None => q.bearer # None /\ ~Expired(q.bearer) /\ RoleOf(q) = q.bearer.role
    BY <1>6 DEF Resolution, RoleOf
  <2>2. /\ principal' \in [Requests -> [role : Roles \cup {None}, at : Nat]]
        /\ principal'[r].role = RoleOf(q) /\ principal'[r].at = clock
        /\ \A s \in Requests \ {r} : principal'[s] = principal[s]
    <3>1. [role |-> RoleOf(q), at |-> clock] \in [role : Roles \cup {None}, at : Nat]
      BY <1>1, <1>2, <2>1 DEF Roles
    <3>2. principal' = [principal EXCEPT ![r] = [role |-> RoleOf(q), at |-> clock]]
      BY <1>6 DEF Authorize
    <3> QED
      BY <3>1, <3>2, <1>p
  <2>3. RoleOf(q) \in AllowedRoles(q.route) => Permitted(q)
    <3>1. ASSUME NEW route \in Guarded, NEW role \in Roles, role \in AllowedRoles(route)
          PROVE  route \in Granted(role)
      BY <3>1 DEF Guarded, Roles, AllowedRoles, Granted, PREDICT_ROLES, ADMIN_ROLES, ALL_ROLES
    <3>2. q.api = None => users[q.bearer.sub] # None /\ users[q.bearer.sub].role = q.bearer.role
      BY <1>2, <2>1 DEF TokenInv
    <3>3. RoleOf(q) \in Roles
      BY <1>2, <2>1 DEF Roles
    <3> QED
      BY <1>1, <2>1, <3>1, <3>2, <3>3 DEF Permitted
  <2>4. q.api = None /\ q.bearer # None =>
          principal'[r].at < q.bearer.at + Lifetime * PerSecond
    BY <1>4, <2>1, <2>2
  <2>5. CASE RoleOf(q) \in AllowedRoles(q.route)
    <3>1. pc' = [pc EXCEPT ![r] = "handling"] /\ outcome' = [outcome EXCEPT ![r] = 0]
      BY <1>1, <1>6, <2>5 DEF Authorize, Goto
    <3>2. /\ outcome' \in [Requests -> {0, 200, 201, 401, 403, 409, 413, 429, 500}]
          /\ pc' \in [Requests -> {"idle", "inside", "handling", "done"}]
          /\ outcome'[r] = 0 /\ pc'[r] = "handling"
          /\ \A s \in Requests \ {r} : outcome'[s] = outcome[s] /\ pc'[s] = pc[s]
      BY <3>1 DEF IInv, TypeOK
    <3> QED
      BY <1>1, <2>2, <2>3, <2>4, <2>5, <3>2, InnerStep
  <2>6. CASE RoleOf(q) \notin AllowedRoles(q.route)
    <3>1. pc' = [pc EXCEPT ![r] = "done"] /\ outcome' = [outcome EXCEPT ![r] = 403]
      BY <1>6, <2>6 DEF Authorize, Answer, Goto
    <3>2. /\ outcome' \in [Requests -> {0, 200, 201, 401, 403, 409, 413, 429, 500}]
          /\ pc' \in [Requests -> {"idle", "inside", "handling", "done"}]
          /\ outcome'[r] = 403 /\ pc'[r] = "done"
          /\ \A s \in Requests \ {r} : outcome'[s] = outcome[s] /\ pc'[s] = pc[s]
      BY <3>1 DEF IInv, TypeOK
    <3> QED
      BY <1>1, <2>2, <2>4, <3>2, InnerStep
  <2> QED
    BY <2>5, <2>6
<1> QED
  BY <1>5, <1>6

LEMMA PlainStep == ASSUME IInv, NEW r \in Requests, TooLarge(r) \/ Admit(r) \/ Handle(r) PROVE IInv'
<1>1. /\ UNCHANGED <<limit, clock, limiter, accounts, request, principal>>
      /\ pc[r] # "idle" /\ RequestInv(r)
      /\ principal \in [Requests -> [role : Roles \cup {None}, at : Nat]]
      /\ outcome = [outcome EXCEPT ![r] = 0]
  BY RequestTypes DEF TooLarge, Admit, Handle, RequestInv, IInv, TypeOK
<1>2. PICK next \in {"handling", "done"}, status \in {0, 200, 413} :
        /\ pc' = [pc EXCEPT ![r] = next] /\ outcome' = [outcome EXCEPT ![r] = status]
        /\ next = "handling" => status = 0 /\ request[r].route \in Open
        /\ status = 200 => pc[r] = "handling"
  BY <1>1 DEF TooLarge, Admit, Handle, Goto, Answer
<1>3. request[r].route \in Guarded /\ (next = "handling" \/ status = 200) => Permitted(request[r])
  BY <1>1, <1>2 DEF RequestInv, Guarded, Open
<1>4. /\ outcome' \in [Requests -> {0, 200, 201, 401, 403, 409, 413, 429, 500}]
      /\ pc' \in [Requests -> {"idle", "inside", "handling", "done"}]
      /\ outcome'[r] = status /\ pc'[r] = next
      /\ \A s \in Requests \ {r} : outcome'[s] = outcome[s] /\ pc'[s] = pc[s]
  BY <1>2 DEF IInv, TypeOK
<1>5. request[r].route \in Guarded /\ request[r].api = None /\ request[r].bearer # None
      /\ principal'[r].role # None =>
        principal'[r].at < request[r].bearer.at + Lifetime * PerSecond
  BY <1>1 DEF RequestInv
<1>6. principal' \in [Requests -> [role : Roles \cup {None}, at : Nat]]
      /\ \A s \in Requests \ {r} : principal'[s] = principal[s]
  BY <1>1
<1> QED
  BY <1>1, <1>2, <1>3, <1>4, <1>5, <1>6, InnerStep

LEMMA LoginStep == ASSUME IInv, NEW r \in Requests, Login(r) PROVE IInv'
<1>0. PICK status \in {200, 401} :
        pc' = [pc EXCEPT ![r] = "done"] /\ outcome' = [outcome EXCEPT ![r] = status]
  BY DEF Login, Answer, Goto
<1>1. /\ UNCHANGED <<limit, clock, limiter, replica, users, request, principal>>
      /\ \A n \in Names : users[n] # None => users'[n] = users[n]
      /\ pc[r] = "handling" /\ request[r].route = "login"
      /\ pc' \in [Requests -> {"idle", "inside", "handling", "done"}] /\ pc'[r] = "done"
      /\ outcome' \in [Requests -> {0, 200, 201, 401, 403, 409, 413, 429, 500}]
      /\ outcome'[r] \in {200, 401}
      /\ \A s \in Requests \ {r} : outcome'[s] = outcome[s] /\ pc'[s] = pc[s]
  BY <1>0 DEF Login, Handling, IInv, TypeOK
<1>2. LimitInv'
  <2>1. \A c \in DOMAIN limiter : EntryInv(limiter[c]) => EntryInv(limiter[c])'
    BY <1>1 DEF EntryInv, Windows, Hint, Through
  <2> QED
    BY <1>1, <2>1 DEF IInv, LimitInv
<1>3. tokens' \subseteq Token /\ tokens \subseteq tokens' /\ \A t \in tokens' \ tokens : TokenInv(t)'
  <2>1. CASE UNCHANGED tokens
    BY <2>1 DEF IInv, TypeOK
  <2>2. CASE ~UNCHANGED tokens
    <3>1. PICK n \in Names : /\ users[n] # None
                             /\ tokens' = tokens \cup {[sub |-> n, role |-> users[n].role,
                                                        iat |-> clock \div PerSecond, at |-> clock]}
      BY <2>2 DEF Login
    <3>2. /\ users[n].role \in Roles /\ clock \in Nat /\ clock \div PerSecond \in Nat
          /\ (clock \div PerSecond) * PerSecond <= clock
          /\ clock < (clock \div PerSecond) * PerSecond + PerSecond
          /\ clock \div PerSecond <= clock
      <4>1. \A x, y \in Nat : y # 0 => x <= x * y
        OBVIOUS
      <4>2. clock \in Nat /\ users[n].role \in Roles
        BY <3>1 DEF IInv, TypeOK, User
      <4> QED
        BY <4>1, <4>2, Seconds, Ticks
    <3>3. tokens' \subseteq Token
      BY <3>1, <3>2 DEF Token, IInv, TypeOK
    <3>4. \A t \in tokens' \ tokens : TokenInv(t)'
      BY <1>1, <3>1, <3>2 DEF TokenInv
    <3> QED
      BY <3>1, <3>3, <3>4
  <2> QED
    BY <2>1, <2>2
<1>4. RequestInv(r)'
  BY <1>1, RequestTypes DEF RequestInv, Guarded
<1>5. /\ DOMAIN limiter' \subseteq Replicas \X Keys /\ limiter' \in [DOMAIN limiter' -> Entry]
      /\ users' \in [Names -> User \cup {None}]
      /\ request' \in [Requests -> [route : Guarded \cup Open, api : {None} \cup ApiKeys,
                                    bearer : {None} \cup tokens]]
      /\ principal' \in [Requests -> [role : Roles \cup {None}, at : Nat]]
  BY <1>1 DEF IInv, TypeOK
<1>6. Grows
  BY <1>1 DEF Grows
<1> QED
  BY <1>1, <1>2, <1>3, <1>4, <1>5, <1>6, RequestStep

LEMMA CreateStep == ASSUME IInv, NEW r \in Requests, CreateUser(r) PROVE IInv'
<1>1. /\ UNCHANGED <<limit, clock, limiter, replica, tokens, request, principal>>
      /\ pc[r] = "handling" /\ request[r].route = "users" /\ RequestInv(r)
      /\ pc' = [pc EXCEPT ![r] = "done"]
  BY RequestTypes DEF CreateUser, Handling, Answer, Goto
<1>2. PICK n \in Names, role \in Roles, status \in {201, 409} :
        /\ outcome' = [outcome EXCEPT ![r] = status]
        /\ IF status = 201 THEN users[n] = None /\ users' = [users EXCEPT ![n] = [role |-> role, by |-> r]]
                           ELSE users' = users
  BY DEF CreateUser, Answer, Duplicate
<1>3. /\ users \in [Names -> User \cup {None}] /\ [role |-> role, by |-> r] \in User
      /\ users[Boot] # None /\ Boot \in Names
  BY <1>1, AccessAssumption DEF IInv, TypeOK, User, RequestInv
<1>4. /\ users' \in [Names -> User \cup {None}] /\ users'[Boot] = users[Boot] /\ Grows
      /\ status = 201 => users'[n] = [role |-> role, by |-> r]
  BY <1>2, <1>3 DEF Grows
<1>5. /\ outcome' \in [Requests -> {0, 200, 201, 401, 403, 409, 413, 429, 500}] /\ outcome'[r] = status
      /\ pc' \in [Requests -> {"idle", "inside", "handling", "done"}] /\ pc'[r] = "done"
      /\ \A s \in Requests \ {r} : outcome'[s] = outcome[s] /\ pc'[s] = pc[s]
  BY <1>1, <1>2 DEF IInv, TypeOK
<1>6. LimitInv'
  <2>1. \A c \in DOMAIN limiter : EntryInv(limiter[c]) => EntryInv(limiter[c])'
    BY <1>1 DEF EntryInv, Windows, Hint, Through
  <2> QED
    BY <1>1, <2>1 DEF IInv, LimitInv
<1>7. RequestInv(r)'
  <2>1. Permitted(request[r])'
    <3>1. Permitted(request[r])
      BY <1>1 DEF RequestInv, Guarded
    <3>2. request[r].bearer # None => request[r].bearer.sub \in Names
      BY RequestTypes DEF Token
    <3> QED
      BY <1>1, <1>4, <3>1, <3>2 DEF Permitted, Grows
  <2>2. status = 201 => \E m \in Names : users'[m] # None /\ users'[m].by = r
    BY <1>3, <1>4, NoneAssumption
  <2> QED
    BY <1>1, <1>3, <1>4, <1>5, <2>1, <2>2 DEF RequestInv
<1>8. /\ DOMAIN limiter' \subseteq Replicas \X Keys /\ limiter' \in [DOMAIN limiter' -> Entry]
      /\ tokens' \subseteq Token
      /\ request' \in [Requests -> [route : Guarded \cup Open, api : {None} \cup ApiKeys,
                                    bearer : {None} \cup tokens]]
      /\ principal' \in [Requests -> [role : Roles \cup {None}, at : Nat]]
  BY <1>1 DEF IInv, TypeOK
<1> QED
  BY <1>1, <1>4, <1>5, <1>6, <1>7, <1>8, RequestStep

LEMMA StutterStep == ASSUME IInv, UNCHANGED vars PROVE IInv'
<1> USE DEF vars, accounts, requests
<1>1. \A c \in DOMAIN limiter : EntryInv(limiter[c]) => EntryInv(limiter[c])'
  BY DEF EntryInv, Windows, Hint, Through
<1>2. LimitInv'
  BY <1>1 DEF IInv, LimitInv
<1>3. TypeOK' /\ BootInv' /\ Grows
  BY DEF IInv, TypeOK, BootInv, Keys, Grows
<1>4. (\A t \in tokens' : TokenInv(t)') /\ \A r \in Requests : RequestInv(r)'
  BY <1>3, TokensStand, RequestsStand
<1> QED
  BY <1>2, <1>3, <1>4 DEF IInv

-----------------------------------------------------------------------------
(* The theorems.                                                           *)

\* The invariant is inductive.
THEOREM InductiveInvariant == Spec => []IInv
<1>1. Init => IInv
  BY Starts
<1>2. IInv /\ [Next]_vars => IInv'
  BY TickStep, StartStep, ArriveStep, PlainStep, AuthorizeStep, LoginStep, CreateStep, StutterStep
     DEF Next
<1> QED
  BY <1>1, <1>2, PTL DEF Spec

\* The limiter's entries, users, tokens and requests keep their types.
THEOREM TypeCorrect == Spec => []TypeOK
<1>1. IInv => TypeOK
  BY DEF IInv
<1> QED
  BY <1>1, InductiveInvariant, PTL

\* Whatever the limit, no Window sees a client let through more than twice as often.
THEOREM LimitKept == Spec => []TwoWindowsAtMost
<1>1. IInv => TwoWindowsAtMost
  BY LimitHolds DEF IInv
<1> QED
  BY <1>1, InductiveInvariant, PTL

\* Retry-After is enough, and too much by a second at most.
THEOREM RetryAfterExact == Spec => []RetryAfterTells
<1>1. IInv => RetryAfterTells
  BY LimitHolds DEF IInv
<1> QED
  BY <1>1, InductiveInvariant, PTL

\* Who reaches a handler has, in the users table, a role that README.md grants it to.
THEOREM RolesKept == Spec => []RolesHold
<1>1. IInv => RolesHold
  BY DEF IInv, RequestInv, Permitted, RolesHold
<1> QED
  BY <1>1, InductiveInvariant, PTL

\* Tokens live as long as their users were told, but for a second.
THEOREM TokenLife == Spec => []TokensLast
<1>1. IInv => TokensLast
  BY DEF IInv, RequestInv, TokensLast
<1> QED
  BY <1>1, InductiveInvariant, PTL

\* Replicas and requests that create users at once do not take each other's.
THEOREM AccountsKept == Spec => []AccountsStand
<1>1. IInv => AccountsStand
  BY AccessAssumption DEF IInv, BootInv, RequestInv, AccountsStand
<1> QED
  BY <1>1, InductiveInvariant, PTL
================================================================================
