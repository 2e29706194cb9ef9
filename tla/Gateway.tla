------------------------------- MODULE Gateway -------------------------------
(***************************************************************************)
(* What a request passes on its way to a handler, in the order of          *)
(* create_app: the role check (middleware/rbac.py), the rate limits        *)
(* (middleware/rate_limit.py), the size limit (middleware/size_limit.py),  *)
(* the authentication (middleware/auth.py) and the daily quota; and the    *)
(* handlers that change keys and tenants (routers/keys.py, tenants.py).    *)
(*                                                                         *)
(* Both middlewares keep a cache of keys per process, which no revocation  *)
(* invalidates; authentication reads the database each time. A key's role, *)
(* tenant and tier never change, so a cache is the set of keys it holds.   *)
(* All of it happens within one minute, one hour and one day: counters are *)
(* named by their window.                                                  *)
(***************************************************************************)
EXTENDS Naturals, FiniteSets

CONSTANTS
  Requests,
  At,           \* the process that serves a request
  Menu, Bearer, \* what a request may be for and whose key it may carry
  Keys, NoKey,  \* NoKey: no key, or one that was never issued
  Born,         \* the keys that exist at first
  Owners,       \* tenant ids of keys
  DefaultOwner, \* the tenant "default"
  Tiers, FreeTier,
  MinuteLimit, HourLimit, DayLimit,
  Tenants,      \* rows of the tenants table
  Names,
  Asked,        \* roles that are asked for new keys
  MaxFaults     \* bound on Redis errors

Roles == {"admin", "writer", "agent", "reader"}
TenantOps == {"found", "rename", "close"}
KeyOps == {"issue", "revoke", "rotate"}
Ops == {"read", "claim", "create"} \union KeyOps \union TenantOps

Row == [state: {"none", "live", "revoked"}, role: Roles, owner: Owners, tier: Tiers]

ASSUME ConstantsAssumption ==
  /\ NoKey \notin Keys /\ DefaultOwner \in Owners /\ FreeTier \in Tiers
  /\ Menu \in [Requests -> SUBSET Ops] /\ Bearer \in [Requests -> SUBSET Keys]
  /\ Born \in [Keys -> Row]
  /\ DOMAIN At = Requests
  /\ Asked \subseteq Roles
  /\ MinuteLimit \in Nat /\ HourLimit \in [Tiers -> Nat] /\ DayLimit \in Nat
  /\ MaxFaults \in Nat
  /\ IsFiniteSet(Requests)

VARIABLES
  key,        \* the api_keys table
  tenant,     \* the tenants table
  req,        \* the requests
  roleCache,  \* _role_cache of each process
  keyCache,   \* _key_cache of each process
  linked,     \* the processes reached Redis when they started
  redis,      \* the counters in Redis
  memory,     \* the counters in each process
  faults

vars == <<key, tenant, req, roleCache, keyCache, linked, redis, memory, faults>>

Procs == {At[r] : r \in Requests}

Windows == {"minute", "hour", "day"}
Stores == {"redis", "memory"}
Counters ==
  ({"minute"} \X (Keys \union {NoKey})) \union ({"hour", "day"} \X Owners)

NameOrNone == Names \union {"none"}
Request ==
  [pc: {"idle", "role", "fillRole", "info", "fillInfo", "size", "auth", "work", "commit",
        "done", "refused"} \union Windows,
   op: Ops, key: Keys \union {NoKey},
   late: BOOLEAN,                  \* the key had been revoked when the request came
   live: BOOLEAN,                  \* what the last SELECT of the key said
   owner: Owners, tier: Tiers,     \* what the rate limiter takes the key for
   adding: BOOLEAN,                \* the window was found open, the count is to be raised
   passed: SUBSET (Windows \X Stores),  \* the windows it passed, and who had the count
   beside: [Windows -> Nat],       \* others between their question and their count
   target: Keys \union Tenants \union {NoKey}, name: NameOrNone]

Fresh(op, k) ==
  [pc |-> "role", op |-> op, key |-> k,
   late |-> k # NoKey /\ key[k].state = "revoked",
   live |-> FALSE, owner |-> DefaultOwner, tier |-> FreeTier, adding |-> FALSE,
   passed |-> {}, beside |-> [w \in Windows |-> 0], target |-> NoKey, name |-> "none"]

-----------------------------------------------------------------------------
(* Roles *)

Level(role) == CASE role = "admin" -> 4 [] role = "writer" -> 3
                 [] role = "agent" -> 2 [] role = "reader" -> 1

\* Mutation: no rule matches the key endpoints, and that lets everyone in.
RequiredUnlessKeys(op) ==
  CASE op = "create" -> "writer" [] op = "claim" -> "agent" [] op \in TenantOps -> "admin"
    [] OTHER -> "reader"
Required(op) ==
  CASE op = "read" -> "reader" [] op = "claim" -> "agent" [] op = "create" -> "writer"
    [] OTHER -> "admin"

Enough(k, op) == Level(key[k].role) >= Level(Required(op))

Live(k) == k # NoKey /\ key[k].state = "live"

\* The request goes on to pc; what it was about is forgotten when it ends there.
Moved(r, pc) ==
  req' = [req EXCEPT ![r] = IF pc \notin {"done", "refused"} THEN [@ EXCEPT !.pc = pc]
                            ELSE [@ EXCEPT !.pc = pc, !.live = FALSE, !.target = NoKey, !.name = "none"]]
Ranked(r, k) == IF Enough(k, req[r].op) THEN Moved(r, "info") ELSE Moved(r, "refused")

\* The request arrives, with a key that its client has or with none.
Arrive(r) ==
  /\ req[r].pc = "idle"
  /\ \E op \in Menu[r], k \in {k \in Bearer[r] : key[k].state # "none"} \union {NoKey} :
       req' = [req EXCEPT ![r] = Fresh(op, k)]
  /\ UNCHANGED <<key, tenant, roleCache, keyCache, linked, redis, memory, faults>>

\* Without a key the request goes on, for the authentication to refuse. An entry of
\* the cache serves for 300 seconds: it may be too old whenever it is looked at.
CheckRole(r) ==
  LET k == req[r].key IN
  /\ req[r].pc = "role"
  /\ \/ k = NoKey /\ Moved(r, "info")
     \/ k \in roleCache[At[r]] /\ Ranked(r, k)
     \/ k # NoKey /\ req' = [req EXCEPT ![r].pc = "fillRole", ![r].live = Live(k)]
  /\ UNCHANGED <<key, tenant, roleCache, keyCache, linked, redis, memory, faults>>

\* The session is closed between the SELECT and this.
FillRole(r) ==
  LET k == req[r].key IN
  /\ req[r].pc = "fillRole"
  /\ IF req[r].live
     THEN roleCache' = [roleCache EXCEPT ![At[r]] = @ \union {k}] /\ Ranked(r, k)
     ELSE roleCache' = [roleCache EXCEPT ![At[r]] = @ \ {k}] /\ Moved(r, "info")
  /\ UNCHANGED <<key, tenant, keyCache, linked, redis, memory, faults>>

-----------------------------------------------------------------------------
(* Whom the request is counted for *)

Counted(r, k) ==
  req' = [req EXCEPT ![r].pc = "minute", ![r].owner = key[k].owner, ![r].tier = key[k].tier]

KeyInfo(r) ==
  LET k == req[r].key IN
  /\ req[r].pc = "info"
  /\ \/ k = NoKey /\ Moved(r, "minute")
     \/ k \in keyCache[At[r]] /\ Counted(r, k)
     \/ k # NoKey /\ req' = [req EXCEPT ![r].pc = "fillInfo", ![r].live = Live(k)]
  /\ UNCHANGED <<key, tenant, roleCache, keyCache, linked, redis, memory, faults>>

\* A revoked key is counted for the default tenant.
FillInfo(r) ==
  LET k == req[r].key IN
  /\ req[r].pc = "fillInfo"
  /\ IF req[r].live
     THEN keyCache' = [keyCache EXCEPT ![At[r]] = @ \union {k}] /\ Counted(r, k)
     ELSE keyCache' = [keyCache EXCEPT ![At[r]] = @ \ {k}] /\ Moved(r, "minute")
  /\ UNCHANGED <<key, tenant, roleCache, linked, redis, memory, faults>>

-----------------------------------------------------------------------------
(* The windows: per key and minute, per tenant and hour, per tenant and day *)

Subject(w, r) ==
  CASE w = "minute" -> req[r].key [] w = "hour" -> req[r].owner [] w = "day" -> key[req[r].key].owner

Counter(r) == <<req[r].pc, Subject(req[r].pc, r)>>

Limit(w, tier) ==
  CASE w = "minute" -> MinuteLimit [] w = "hour" -> HourLimit[tier] [] w = "day" -> DayLimit

\* Mutation: one request too many.
FullLate(n, r) == n > Limit(req[r].pc, req[r].tier)
Full(n, r) == n >= Limit(req[r].pc, req[r].tier)

After(w) == CASE w = "minute" -> "hour" [] w = "hour" -> "size" [] w = "day" -> "commit"

Settled(r, ok, store) ==
  req' = [req EXCEPT ![r].adding = FALSE, ![r].live = FALSE,
                     ![r].pc = IF ok THEN After(@) ELSE "refused",
                     ![r].passed = IF ok THEN @ \union {<<req[r].pc, store>>} ELSE @]

Beside(r) ==
  Cardinality({s \in Requests \ {r} : req[s].adding /\ req[s].pc \in Windows
                                      /\ Counter(s) = Counter(r)})

\* Without Redis the counters of the process are used, in one step: but for a day
\* whose count was read, which is not counted then.
Fallback(r) ==
  LET x == Counter(r)
      n == memory[At[r]][x]
      full == Full(n, r)
      uncounted == req[r].pc = "day" /\ req[r].adding IN
  /\ memory' = IF uncounted \/ (req[r].pc # "hour" /\ full) THEN memory
               ELSE [memory EXCEPT ![At[r]][x] = n + 1]
  /\ Settled(r, uncounted \/ ~full, "memory")

\* The count is read. Only the hour's is raised whatever it is. A full minute in Redis
\* refuses nobody: for the Retry-After header zrangebyscore is called with a parameter,
\* count, that redis-py does not have, and the TypeError counts as a failure of Redis.
Ask(r) ==
  /\ req[r].pc \in Windows /\ ~req[r].adding /\ linked
  /\ IF req[r].pc # "hour" /\ Full(redis[Counter(r)], r)
     THEN IF req[r].pc = "minute" THEN Fallback(r)
          ELSE Moved(r, "refused") /\ UNCHANGED memory
     ELSE /\ req' = [req EXCEPT ![r].adding = TRUE, ![r].beside[req[r].pc] = Beside(r)]
          /\ UNCHANGED memory
  /\ UNCHANGED <<key, tenant, roleCache, keyCache, linked, redis, faults>>

\* Mutation: the hour is judged by the count read before.
JudgedBefore(r) == TRUE
\* INCR returns the count that decides about the hour; the others are decided.
Judged(r) == req[r].pc = "hour" => ~Full(redis[Counter(r)], r)

Add(r) ==
  /\ req[r].pc \in Windows /\ req[r].adding
  /\ redis' = [redis EXCEPT ![Counter(r)] = @ + 1]
  /\ Settled(r, Judged(r), "redis")
  /\ UNCHANGED <<key, tenant, roleCache, keyCache, linked, memory, faults>>

NoRedis(r) ==
  /\ req[r].pc \in Windows /\ ~linked
  /\ Fallback(r)
  /\ UNCHANGED <<key, tenant, roleCache, keyCache, linked, redis, faults>>

\* A call of Redis fails; an increment may have been made all the same.
RedisFails(r) ==
  /\ req[r].pc \in Windows /\ linked /\ faults < MaxFaults
  /\ Fallback(r)
  /\ redis' \in {redis} \union IF req[r].adding
                                THEN {[redis EXCEPT ![Counter(r)] = @ + 1]} ELSE {}
  /\ faults' = faults + 1
  /\ UNCHANGED <<key, tenant, roleCache, keyCache, linked>>

\* The size limit never sees the key: it is that of the free tier for everyone.
CheckSize(r) ==
  /\ req[r].pc = "size"
  /\ Moved(r, "auth") \/ (req[r].op # "read" /\ Moved(r, "refused"))
  /\ UNCHANGED <<key, tenant, roleCache, keyCache, linked, redis, memory, faults>>

-----------------------------------------------------------------------------
(* Authentication and the handlers *)

\* Mutation: a cached key is taken for good.
AcceptedFromCache(r) == req[r].key \in roleCache[At[r]] \/ Live(req[r].key)
Accepted(r) == Live(req[r].key)

Authenticate(r) ==
  LET k == req[r].key IN
  /\ req[r].pc = "auth"
  /\ Moved(r, IF ~Accepted(r) \/ (req[r].op \in TenantOps /\ key[k].role # "admin") THEN "refused"
              ELSE IF req[r].op \in KeyOps \union TenantOps THEN "work"
              ELSE IF req[r].op # "create" THEN "done"
              ELSE IF key[k].tier = FreeTier THEN "day" ELSE "commit")
  /\ UNCHANGED <<key, tenant, roleCache, keyCache, linked, redis, memory, faults>>

\* Only an admin key reaches another tenant's.
InReach(r, k) == key[req[r].key].owner = key[k].owner \/ key[req[r].key].role = "admin"

Chosen(r, ok, x, n) ==
  IF ok THEN req' = [req EXCEPT ![r].pc = "commit", ![r].target = x, ![r].name = n]
  ELSE Moved(r, "refused")

\* The SELECT of revoke and rotate.
SelectKey(r) ==
  /\ req[r].pc = "work" /\ req[r].op \in {"revoke", "rotate"}
  /\ \E k \in Keys : Chosen(r, key[k].state = "live" /\ InReach(r, k), k, "none")
  /\ UNCHANGED <<key, tenant, roleCache, keyCache, linked, redis, memory, faults>>

\* The check for duplicates looks at tenants that are not deleted.
Taken(n, t) == \E u \in Tenants \ {t} : tenant[u].state = "open" /\ tenant[u].name = n

SelectTenant(r) ==
  /\ req[r].pc = "work" /\ req[r].op \in TenantOps
  /\ \E t \in Tenants, n \in Names :
       Chosen(r, CASE req[r].op = "found" -> ~\E u \in Tenants : Taken(n, u)
                   [] req[r].op = "rename" -> tenant[t].state = "open" /\ ~Taken(n, t)
                   [] req[r].op = "close" -> tenant[t].state = "open",
              t, n)
  /\ UNCHANGED <<key, tenant, roleCache, keyCache, linked, redis, memory, faults>>

\* Mutation: revoked is stored, the state is not.
IssuedStateless(k, role, owner, tier) ==
  [key EXCEPT ![k] = [revoked |-> FALSE, role |-> role, owner |-> owner, tier |-> tier]]
\* A key that was not issued yet gets its row.
Issued(k, role, owner, tier) ==
  [key EXCEPT ![k] = [state |-> "live", role |-> role, owner |-> owner, tier |-> tier]]

GrantedRole(own, role) ==
  IF own # "admin" /\ Level(role) > Level(own) THEN "writer" ELSE role

\* A new key is of the default tier, whatever its tenant's.
IssueKey(r) ==
  LET own == key[req[r].key] IN
  /\ req[r].pc = "work" /\ req[r].op = "issue"
  /\ \E k \in Keys, role \in Asked, owner \in Owners :
       /\ key[k].state = "none"
       /\ IF owner # own.owner /\ own.role # "admin"
          THEN Moved(r, "refused") /\ UNCHANGED key
          ELSE Moved(r, "done") /\ key' = Issued(k, GrantedRole(own.role, role), owner, FreeTier)
  /\ UNCHANGED <<tenant, roleCache, keyCache, linked, redis, memory, faults>>

CommitKey(r) ==
  LET k == req[r].target IN
  /\ req[r].pc = "commit" /\ req[r].op \in {"revoke", "rotate"}
  /\ IF req[r].op = "revoke" THEN key' = [key EXCEPT ![k].state = "revoked"]
     ELSE \E new \in Keys :
            /\ key[new].state = "none"
            /\ key' = [Issued(new, key[k].role, key[k].owner, key[k].tier)
                         EXCEPT ![k].state = "revoked"]
  /\ Moved(r, "done")
  /\ UNCHANGED <<tenant, roleCache, keyCache, linked, redis, memory, faults>>

\* Mutation: the table has no unique index on the name.
AlwaysUnique(n, t) == TRUE
\* The unique index counts deleted tenants too.
Unique(n, t) == \A u \in Tenants \ {t} : tenant[u].state # "none" => tenant[u].name # n

Changed(r, t) ==
  CASE req[r].op = "found" -> [tenant EXCEPT ![t] = [state |-> "open", name |-> req[r].name]]
    [] req[r].op = "rename" -> [tenant EXCEPT ![t].name = req[r].name]
    [] req[r].op = "close" -> [tenant EXCEPT ![t].state = "deleted"]

CommitTenant(r) ==
  /\ req[r].pc = "commit" /\ req[r].op \in TenantOps
  /\ \E t \in Tenants :
       /\ IF req[r].op = "found" THEN tenant[t].state = "none" ELSE t = req[r].target
       /\ IF req[r].op = "close" \/ Unique(req[r].name, t)
          THEN tenant' = Changed(r, t) /\ Moved(r, "done")
          ELSE Moved(r, "refused") /\ UNCHANGED tenant
  /\ UNCHANGED <<key, roleCache, keyCache, linked, redis, memory, faults>>

\* A creation is done, or fails: its place in the day is not given back.
CommitPacket(r) ==
  /\ req[r].pc = "commit" /\ req[r].op = "create"
  /\ Moved(r, "done") \/ Moved(r, "refused")
  /\ UNCHANGED <<key, tenant, roleCache, keyCache, linked, redis, memory, faults>>

-----------------------------------------------------------------------------

Idle == [Fresh("read", NoKey) EXCEPT !.pc = "idle"]

Init ==
  /\ key = Born
  /\ tenant = [t \in Tenants |-> [state |-> "none", name |-> "none"]]
  /\ req = [r \in Requests |-> Idle]
  /\ roleCache = [p \in Procs |-> {}]
  /\ keyCache = [p \in Procs |-> {}]
  /\ linked \in BOOLEAN
  /\ redis = [x \in Counters |-> 0]
  /\ memory = [p \in Procs |-> [x \in Counters |-> 0]]
  /\ faults = 0

Next ==
  \E r \in Requests :
       \/ Arrive(r) \/ CheckRole(r) \/ FillRole(r) \/ KeyInfo(r) \/ FillInfo(r)
       \/ Ask(r) \/ Add(r) \/ NoRedis(r) \/ RedisFails(r) \/ CheckSize(r) \/ Authenticate(r)
       \/ SelectKey(r) \/ SelectTenant(r) \/ IssueKey(r)
       \/ CommitKey(r) \/ CommitTenant(r) \/ CommitPacket(r)

Spec == Init /\ [][Next]_vars
-----------------------------------------------------------------------------

TypeOK ==
  /\ key \in [Keys -> Row]
  /\ tenant \in [Tenants -> [state: {"none", "open", "deleted"}, name: NameOrNone]]
  /\ req \in [Requests -> Request]
  /\ roleCache \in [Procs -> SUBSET Keys] /\ keyCache \in [Procs -> SUBSET Keys]
  /\ linked \in BOOLEAN
  /\ redis \in [Counters -> Nat]
  /\ memory \in [Procs -> [Counters -> Nat]]
  /\ faults \in Nat

\* The handler has the request.
Admitted(r) == req[r].pc \in {"day", "work", "commit", "done"}

RequiredLevel(op) ==
  CASE op = "read" -> 1 [] op = "claim" -> 2 [] op = "create" -> 3 [] OTHER -> 4

\* No handler runs for a key whose role is too low, although the role check lets a
\* request pass when it does not find the key, or finds it revoked.
RoleEnforced ==
  \A r \in Requests :
    Admitted(r) => req[r].key # NoKey /\ Level(key[req[r].key].role) >= RequiredLevel(req[r].op)

\* A request that comes after its key was revoked is refused, although the caches of
\* the middlewares go on to know the key.
RevokedIsRefused == \A r \in Requests : Admitted(r) => ~req[r].late

\* What a handler gets was counted for the tenant and the tier of its key, although
\* the rate limiter looks the key up on its own, earlier, and takes a revoked one
\* for the default tenant.
CountedForOwner ==
  \A r \in Requests :
    Admitted(r) => req[r].owner = key[req[r].key].owner /\ req[r].tier = key[req[r].key].tier

\* The requests like r that passed window w by a count in one of the stores, with no
\* higher limit than r's.
Peers(w, stores, r) ==
  {s \in Requests : /\ \E store \in stores : <<w, store>> \in req[s].passed
                    /\ Subject(w, s) = Subject(w, r)
                    /\ Limit(w, req[s].tier) <= Limit(w, req[r].tier)}

\* "Uses Redis for atomic counting": an hour lets no more requests of a tenant pass
\* than its limit by the count in Redis, in any number of processes; each process lets
\* as many more pass by its own count, but only once Redis has failed.
HourLimitHolds ==
  \A r \in Requests :
    LET limit == HourLimit[req[r].tier] IN
    /\ Cardinality(Peers("hour", {"redis"}, r)) <= limit
    /\ \A p \in Procs : Cardinality({s \in Peers("hour", {"memory"}, r) : At[s] = p}) <= limit
    /\ linked /\ faults = 0 => Peers("hour", {"memory"}, r) = {}

\* In Redis the minute and the day are asked and counted in two calls: they let as many
\* too many pass as were between the two at once. And when the minute is full there,
\* each process lets as many again pass by its own count, and no more.
OvershootBounded ==
  linked /\ faults = 0 => \A w \in {"minute", "day"}, r \in Requests :
    /\ <<w, "redis">> \in req[r].passed =>
         LET like == Peers(w, {"redis"}, r) IN
         \E s \in like : Cardinality(like) <= Limit(w, req[r].tier) + req[s].beside[w]
    /\ \A p \in Procs :
         Cardinality({s \in Peers(w, {"memory"}, r) : At[s] = p}) <=
           IF w = "day" THEN 0 ELSE MinuteLimit

\* No two tenants, open or deleted, ever have the same name, although the check for
\* duplicates and the insertion are two steps.
TenantNamesUnique ==
  \A t, u \in Tenants :
    tenant[t].state # "none" /\ tenant[u].state # "none" /\ t # u => tenant[t].name # tenant[u].name
=============================================================================
