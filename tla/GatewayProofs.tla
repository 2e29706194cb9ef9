----------------------------- MODULE GatewayProofs -----------------------------
(***************************************************************************)
(* What the gateway lets pass, for any number of requests, processes, keys *)
(* and tenants, any limits and any number of failures of Redis.            *)
(***************************************************************************)
EXTENDS Gateway, FiniteSetTheorems, TLAPS

Pcs == {"idle", "role", "fillRole", "info", "fillInfo", "size", "auth", "work", "commit",
        "done", "refused"} \union Windows
Handled == {"day", "work", "commit", "done"}
Counting == {"minute", "hour", "size", "auth"}
Ranking == {"info", "fillInfo"} \union Counting
Early == {"idle", "role", "fillRole", "info", "fillInfo"}

Gone(q, k) == k[q.key].state = "revoked"
Suffices(q, k) == Level(k[q.key].role) >= RequiredLevel(q.op)
Matches(q, k) == q.owner = k[q.key].owner /\ q.tier = k[q.key].tier

\* What is known of a request that has a key, given the table of keys.
KeyKnown(q, k) ==
  /\ k[q.key].state # "none"
  /\ q.late => Gone(q, k)
  /\ q.pc \in {"fillRole", "fillInfo"} => q.live \/ Gone(q, k)
  /\ q.pc \in Ranking => Gone(q, k) \/ Suffices(q, k)
  /\ q.pc \in Counting => Gone(q, k) \/ Matches(q, k)
  /\ q.pc \in Handled => ~q.late /\ Suffices(q, k) /\ Matches(q, k)

\* What is known of any request, given the tables.
RequestKnown(q, k, t) ==
  /\ IF q.key = NoKey THEN ~q.late /\ q.pc \notin Handled \union {"fillRole", "fillInfo"}
     ELSE KeyKnown(q, k)
  /\ q.pc = "day" => q.op = "create"
  /\ q.pc = "commit" /\ q.op \in {"revoke", "rotate"} =>
       q.target \in Keys /\ k[q.target].state # "none"
  /\ q.pc = "commit" /\ q.op \in {"rename", "close"} =>
       q.target \in Tenants /\ t[q.target].state # "none"
  /\ q.pc \in Early => q.passed = {}

RequestsKnown == \A r \in Requests : RequestKnown(req[r], key, tenant)

\* The requests q of a tenant that passed the hour by a count in the store, with a
\* limit of at most n.
Passers(q, store, o, n) ==
  {s \in Requests : /\ <<"hour", store>> \in q[s].passed
                    /\ q[s].owner = o /\ HourLimit[q[s].tier] <= n}
PassersAt(q, p, o, n) == {s \in Passers(q, "memory", o, n) : At[s] = p}

\* No more have passed than were counted, and no more than the limit.
HourCounts ==
  \A o \in Owners, n \in Nat :
    /\ Cardinality(Passers(req, "redis", o, n)) <= n
    /\ Cardinality(Passers(req, "redis", o, n)) <= redis[<<"hour", o>>]
    /\ \A p \in Procs :
         /\ Cardinality(PassersAt(req, p, o, n)) <= n
         /\ Cardinality(PassersAt(req, p, o, n)) <= memory[p][<<"hour", o>>]

MemoryUnused ==
  linked /\ faults = 0 => \A s \in Requests : <<"hour", "memory">> \notin req[s].passed

Inv == TypeOK /\ RequestsKnown /\ TenantNamesUnique /\ HourCounts /\ MemoryUnused

\* Keys are issued and then revoked, and are nothing else afterwards; tenants stay.
Forward ==
  /\ \A k \in Keys :
       /\ key[k].state # "none" =>
            /\ key'[k].state # "none" /\ key'[k].role = key[k].role
            /\ key'[k].owner = key[k].owner /\ key'[k].tier = key[k].tier
       /\ key[k].state = "revoked" => key'[k].state = "revoked"
  /\ \A t \in Tenants : tenant[t].state # "none" => tenant'[t].state # "none"

-----------------------------------------------------------------------------
(* Helpers *)

LEMMA Levels ==
  /\ \A role \in Roles : Level(role) \in Nat
  /\ \A op \in Ops : RequiredLevel(op) \in Nat /\ Level(Required(op)) = RequiredLevel(op)
  BY DEF Level, Roles, RequiredLevel, Required, Ops, KeyOps, TenantOps

LEMMA EnoughSuffices ==
  ASSUME NEW q \in Request, Enough(q.key, q.op)
  PROVE  Suffices(q, key)
  <1>1. q.op \in Ops
    BY DEF Request
  <1> QED BY <1>1, Levels DEF Enough, Suffices

LEMMA CountersOf ==
  /\ \A o \in Owners : <<"hour", o>> \in Counters /\ <<"day", o>> \in Counters
  /\ \A k \in Keys \union {NoKey} : <<"minute", k>> \in Counters
  BY DEF Counters

LEMMA FewPassers ==
  ASSUME NEW store, NEW o, NEW n
  PROVE  /\ IsFiniteSet(Passers(req, store, o, n)) /\ Cardinality(Passers(req, store, o, n)) \in Nat
         /\ \A p : IsFiniteSet(PassersAt(req, p, o, n)) /\ Cardinality(PassersAt(req, p, o, n)) \in Nat
  <1>1. IsFiniteSet(Requests)
    BY ConstantsAssumption
  <1>2. Passers(req, store, o, n) \in SUBSET Requests
        /\ \A p : PassersAt(req, p, o, n) \in SUBSET Requests
    BY DEF Passers, PassersAt
  <1> QED BY <1>1, <1>2, FS_Subset, FS_CardinalityType

LEMMA OneMore ==
  ASSUME NEW S, IsFiniteSet(S), NEW x, NEW T \in SUBSET (S \union {x})
  PROVE  Cardinality(S) \in Nat /\ Cardinality(T) \in Nat /\ Cardinality(T) <= Cardinality(S) + 1
  <1>1. /\ IsFiniteSet(S \union {x})
        /\ \/ Cardinality(S \union {x}) = Cardinality(S)
           \/ Cardinality(S \union {x}) = Cardinality(S) + 1
    BY FS_AddElement
  <1>2. Cardinality(S) \in Nat /\ Cardinality(S \union {x}) \in Nat
    BY <1>1, FS_CardinalityType
  <1>3. IsFiniteSet(T) /\ Cardinality(T) <= Cardinality(S \union {x})
    BY <1>1, FS_Subset
  <1>4. Cardinality(T) \in Nat
    BY <1>3, FS_CardinalityType
  <1> QED BY <1>1, <1>2, <1>3, <1>4

-----------------------------------------------------------------------------
(* What is known stays known *)

LEMMA KnowledgeLasts ==
  ASSUME Forward, NEW q \in Request, RequestKnown(q, key, tenant)
  PROVE  RequestKnown(q, key', tenant')
  <1>1. q.key \in Keys \union {NoKey}
    BY DEF Request
  <1>2. q.key # NoKey => KeyKnown(q, key')
    <2> SUFFICES ASSUME q.key # NoKey PROVE KeyKnown(q, key')
      OBVIOUS
    <2>1. q.key \in Keys /\ KeyKnown(q, key)
      BY <1>1 DEF RequestKnown
    <2>2. /\ key'[q.key].state # "none" /\ key'[q.key].role = key[q.key].role
          /\ key'[q.key].owner = key[q.key].owner /\ key'[q.key].tier = key[q.key].tier
          /\ key[q.key].state = "revoked" => key'[q.key].state = "revoked"
      BY <2>1 DEF Forward, KeyKnown
    <2> QED BY <2>1, <2>2 DEF KeyKnown, Gone, Suffices, Matches
  <1> QED BY <1>2 DEF RequestKnown, Forward

LEMMA RequestsGoOn ==
  ASSUME TypeOK, RequestsKnown, Forward, NEW r \in Requests, NEW q \in Request,
         req' = [req EXCEPT ![r] = q], RequestKnown(q, key', tenant')
  PROVE  req' \in [Requests -> Request] /\ RequestsKnown'
  <1>1. req' \in [Requests -> Request]
    BY DEF TypeOK
  <1>2. ASSUME NEW s \in Requests
        PROVE  RequestKnown(req'[s], key', tenant')
    <2>1. CASE s = r
      BY <2>1 DEF TypeOK
    <2>2. CASE s # r
      <3>1. req'[s] = req[s] /\ req[s] \in Request /\ RequestKnown(req[s], key, tenant)
        BY <2>2 DEF TypeOK, RequestsKnown
      <3> QED BY <3>1, KnowledgeLasts
    <2> QED BY <2>1, <2>2
  <1> QED BY <1>1, <1>2 DEF RequestsKnown

\* Counters only go up, and nobody who passed the hour is forgotten or changed.
LEMMA CountsStay ==
  ASSUME TypeOK, HourCounts, MemoryUnused, NEW r \in Requests, NEW q \in Request,
         req' = [req EXCEPT ![r] = q],
         \A store \in Stores : <<"hour", store>> \in q.passed <=> <<"hour", store>> \in req[r].passed,
         req[r].passed = {} \/ (q.owner = req[r].owner /\ q.tier = req[r].tier),
         \A o \in Owners : redis'[<<"hour", o>>] \in Nat
                           /\ redis[<<"hour", o>>] <= redis'[<<"hour", o>>],
         \A p \in Procs, o \in Owners :
           memory'[p][<<"hour", o>>] \in Nat
           /\ memory[p][<<"hour", o>>] <= memory'[p][<<"hour", o>>],
         linked' = linked, faults' \in Nat, faults <= faults'
  PROVE  HourCounts' /\ MemoryUnused'
  <1>1. \A s \in Requests : req'[s] = IF s = r THEN q ELSE req[s]
    BY DEF TypeOK
  <1>2. ASSUME NEW store \in Stores, NEW o, NEW n
        PROVE  Passers(req', store, o, n) = Passers(req, store, o, n)
    BY <1>1, <1>2 DEF Passers
  <1>3. ASSUME NEW p, NEW o, NEW n
        PROVE  PassersAt(req', p, o, n) = PassersAt(req, p, o, n)
    BY <1>2 DEF PassersAt, Stores
  <1>4. ASSUME NEW o \in Owners
        PROVE  /\ redis[<<"hour", o>>] \in Nat
               /\ \A p \in Procs : memory[p][<<"hour", o>>] \in Nat
    BY CountersOf DEF TypeOK
  <1>5. HourCounts'
    <2> SUFFICES ASSUME NEW o \in Owners, NEW n \in Nat
                 PROVE  /\ Cardinality(Passers(req', "redis", o, n)) <= n
                        /\ Cardinality(Passers(req', "redis", o, n)) <= redis'[<<"hour", o>>]
                        /\ \A p \in Procs :
                             /\ Cardinality(PassersAt(req', p, o, n)) <= n
                             /\ Cardinality(PassersAt(req', p, o, n)) <= memory'[p][<<"hour", o>>]
      BY DEF HourCounts
    <2>1. /\ Cardinality(Passers(req, "redis", o, n)) <= n
          /\ Cardinality(Passers(req, "redis", o, n)) <= redis'[<<"hour", o>>]
      <3>1. Cardinality(Passers(req, "redis", o, n)) \in Nat
        BY FewPassers
      <3> QED BY <1>4, <3>1 DEF HourCounts
    <2>2. ASSUME NEW p \in Procs
          PROVE  /\ Cardinality(PassersAt(req, p, o, n)) <= n
                 /\ Cardinality(PassersAt(req, p, o, n)) <= memory'[p][<<"hour", o>>]
      <3>1. Cardinality(PassersAt(req, p, o, n)) \in Nat
        BY FewPassers
      <3> QED BY <1>4, <3>1 DEF HourCounts
    <2> QED BY <1>2, <1>3, <2>1, <2>2 DEF Stores
  <1>6. MemoryUnused'
    <2>1. faults' = 0 => faults = 0
      BY DEF TypeOK
    <2> QED BY <1>1, <2>1 DEF MemoryUnused, Stores
  <1> QED BY <1>5, <1>6

-----------------------------------------------------------------------------
(* Steps that leave the counters and the tables alone *)

LEMMA Stays ==
  ASSUME UNCHANGED <<key, tenant>>
  PROVE  Forward
  BY DEF Forward

\* A step of r that is not about counters.
LEMMA Advance ==
  ASSUME Inv, NEW r \in Requests, NEW q \in Request, req' = [req EXCEPT ![r] = q],
         q.passed = req[r].passed,
         req[r].passed = {} \/ (q.owner = req[r].owner /\ q.tier = req[r].tier),
         RequestKnown(q, key', tenant'), Forward, key' \in [Keys -> Row],
         tenant' \in [Tenants -> [state: {"none", "open", "deleted"}, name: NameOrNone]],
         TenantNamesUnique',
         roleCache' \in [Procs -> SUBSET Keys], keyCache' \in [Procs -> SUBSET Keys],
         UNCHANGED <<linked, redis, memory, faults>>
  PROVE  Inv'
  <1>1. req' \in [Requests -> Request] /\ RequestsKnown'
    BY RequestsGoOn DEF Inv
  <1>2. TypeOK'
    BY <1>1 DEF Inv, TypeOK
  <1>3. \A o \in Owners : redis[<<"hour", o>>] \in Nat
                          /\ \A p \in Procs : memory[p][<<"hour", o>>] \in Nat
    BY CountersOf DEF Inv, TypeOK
  <1>4. /\ \A o \in Owners : redis'[<<"hour", o>>] \in Nat
                             /\ redis[<<"hour", o>>] <= redis'[<<"hour", o>>]
        /\ \A p \in Procs, o \in Owners :
             /\ memory'[p][<<"hour", o>>] \in Nat
             /\ memory[p][<<"hour", o>>] <= memory'[p][<<"hour", o>>]
        /\ linked' = linked /\ faults' \in Nat /\ faults <= faults'
    BY <1>3 DEF Inv, TypeOK
  <1>5. TypeOK /\ HourCounts /\ MemoryUnused
    BY DEF Inv
  <1>6. HourCounts' /\ MemoryUnused'
    BY <1>4, <1>5, CountsStay
  <1> QED BY <1>1, <1>2, <1>6 DEF Inv

\* A step of r that changes nothing but the request and the caches.
LEMMA Quiet ==
  ASSUME Inv, NEW r \in Requests, NEW q \in Request, req' = [req EXCEPT ![r] = q],
         q.passed = req[r].passed,
         req[r].passed = {} \/ (q.owner = req[r].owner /\ q.tier = req[r].tier),
         RequestKnown(q, key, tenant),
         roleCache' \in [Procs -> SUBSET Keys], keyCache' \in [Procs -> SUBSET Keys],
         UNCHANGED <<key, tenant, linked, redis, memory, faults>>
  PROVE  Inv'
  <1>1. /\ RequestKnown(q, key', tenant') /\ Forward
        /\ TenantNamesUnique' /\ key' \in [Keys -> Row]
        /\ tenant' \in [Tenants -> [state: {"none", "open", "deleted"}, name: NameOrNone]]
    BY Stays DEF Inv, TypeOK, TenantNamesUnique
  <1> QED BY <1>1, Advance

\* Everything about the request that a move leaves alone.
Same(q, p) ==
  /\ q.key = p.key /\ q.op = p.op /\ q.late = p.late
  /\ q.owner = p.owner /\ q.tier = p.tier /\ q.passed = p.passed

LEMMA MovedRequest ==
  ASSUME NEW r \in Requests, req[r] \in Request, NEW pc \in Pcs, Moved(r, pc)
  PROVE  \E q \in Request : /\ req' = [req EXCEPT ![r] = q] /\ q.pc = pc /\ Same(q, req[r])
                            /\ pc \notin {"done", "refused"} =>
                                 q.live = req[r].live /\ q.target = req[r].target
  <1> DEFINE p == [req[r] EXCEPT !.pc = pc]
             e == [req[r] EXCEPT !.pc = pc, !.live = FALSE, !.target = NoKey, !.name = "none"]
  <1>1. p \in Request /\ p.pc = pc /\ Same(p, req[r])
        /\ p.live = req[r].live /\ p.target = req[r].target
    BY DEF Request, Same, Pcs
  <1>2. e \in Request /\ e.pc = pc /\ Same(e, req[r])
    BY DEF Request, Same, Pcs, NameOrNone
  <1>3. req' = [req EXCEPT ![r] = IF pc \notin {"done", "refused"} THEN p ELSE e]
    BY DEF Moved
  <1> HIDE DEF p, e
  <1> QED BY <1>1, <1>2, <1>3

LEMMA ReqFacts ==
  ASSUME Inv, NEW r \in Requests
  PROVE  req[r] \in Request /\ RequestKnown(req[r], key, tenant)
  BY DEF Inv, TypeOK, RequestsKnown

\* A move is fine if what is known of the request stays true at the new place.
LEMMA MovedQuiet ==
  ASSUME Inv, NEW r \in Requests, NEW pc \in Pcs, Moved(r, pc),
         \A q \in Request :
           /\ q.pc = pc /\ Same(q, req[r])
           /\ pc \notin {"done", "refused"} => q.live = req[r].live /\ q.target = req[r].target
           => RequestKnown(q, key, tenant),
         roleCache' \in [Procs -> SUBSET Keys], keyCache' \in [Procs -> SUBSET Keys],
         UNCHANGED <<key, tenant, linked, redis, memory, faults>>
  PROVE  Inv'
  <1>1. PICK q \in Request :
          /\ req' = [req EXCEPT ![r] = q] /\ q.pc = pc /\ Same(q, req[r])
          /\ pc \notin {"done", "refused"} => q.live = req[r].live /\ q.target = req[r].target
    BY ReqFacts, MovedRequest
  <1>2. RequestKnown(q, key, tenant)
    BY <1>1
  <1> QED BY <1>1, <1>2, Quiet DEF Same

\* At "refused" next to nothing has to be known.
LEMMA RefusedKnown ==
  ASSUME NEW p, RequestKnown(p, key, tenant), NEW q, q.pc = "refused", Same(q, p)
  PROVE  RequestKnown(q, key, tenant)
  BY DEF RequestKnown, KeyKnown, Same, Gone, Handled, Ranking, Counting, Early

LEMMA CachesType ==
  ASSUME Inv
  PROVE  roleCache \in [Procs -> SUBSET Keys] /\ keyCache \in [Procs -> SUBSET Keys]
  BY DEF Inv, TypeOK

-----------------------------------------------------------------------------
(* The role check and the lookup of the tenant *)

LEMMA ArriveStep ==
  ASSUME Inv, NEW r \in Requests, Arrive(r)
  PROVE  Inv'
  <1>1. PICK op \in Menu[r], k \in {k \in Bearer[r] : key[k].state # "none"} \union {NoKey} :
          req' = [req EXCEPT ![r] = Fresh(op, k)]
    BY DEF Arrive
  <1>2. op \in Ops /\ k \in Keys \union {NoKey} /\ (k # NoKey => key[k].state # "none")
    BY ConstantsAssumption
  <1> DEFINE q == Fresh(op, k)
  <1>3. /\ q \in Request /\ q.pc = "role" /\ q.key = k /\ q.op = op /\ q.passed = {}
        /\ q.late = (k # NoKey /\ key[k].state = "revoked")
    BY <1>2, ConstantsAssumption DEF Fresh, Request, Windows, NameOrNone
  <1>4. req[r].passed = {}
    BY ReqFacts DEF Arrive, RequestKnown, Early
  <1> HIDE DEF q
  <1>5. RequestKnown(q, key, tenant)
    BY <1>2, <1>3 DEF RequestKnown, KeyKnown, Gone, Handled, Ranking, Counting, Early
  <1>6. req' = [req EXCEPT ![r] = q]
    BY <1>1 DEF q
  <1> QED BY <1>3, <1>4, <1>5, <1>6, CachesType, Quiet DEF Arrive

\* Judging a key by its role.
LEMMA RankedStep ==
  ASSUME Inv, NEW r \in Requests, req[r].pc \in {"role", "fillRole"}, req[r].key # NoKey,
         Ranked(r, req[r].key),
         roleCache' \in [Procs -> SUBSET Keys], keyCache' \in [Procs -> SUBSET Keys],
         UNCHANGED <<key, tenant, linked, redis, memory, faults>>
  PROVE  Inv'
  <1>1. req[r] \in Request /\ RequestKnown(req[r], key, tenant)
    BY ReqFacts
  <1>2. CASE Enough(req[r].key, req[r].op)
    <2>1. Suffices(req[r], key)
      BY <1>1, <1>2, EnoughSuffices
    <2>2. ASSUME NEW q \in Request, q.pc = "info", Same(q, req[r])
          PROVE  RequestKnown(q, key, tenant)
      <3>1. req[r].passed = {}
        BY <1>1 DEF RequestKnown, Early
      <3> QED BY <1>1, <2>1, <2>2, <3>1
              DEF RequestKnown, KeyKnown, Same, Gone, Suffices, Handled, Ranking, Counting, Early
    <2>3. Moved(r, "info")
      BY <1>2 DEF Ranked
    <2> QED BY <2>2, <2>3, MovedQuiet DEF Pcs
  <1>3. CASE ~Enough(req[r].key, req[r].op)
    <2>1. Moved(r, "refused")
      BY <1>3 DEF Ranked
    <2> QED BY <1>1, <2>1, RefusedKnown, MovedQuiet DEF Pcs
  <1> QED BY <1>2, <1>3

\* Entries of a cache are added or dropped.
LEMMA CacheStep ==
  ASSUME NEW cache \in [Procs -> SUBSET Keys], NEW r \in Requests, NEW k \in Keys
  PROVE  /\ [cache EXCEPT ![At[r]] = @ \union {k}] \in [Procs -> SUBSET Keys]
         /\ [cache EXCEPT ![At[r]] = @ \ {k}] \in [Procs -> SUBSET Keys]
  BY DEF Procs

LEMMA CheckRoleStep ==
  ASSUME Inv, NEW r \in Requests, CheckRole(r)
  PROVE  Inv'
  <1>1. req[r] \in Request /\ RequestKnown(req[r], key, tenant) /\ req[r].pc = "role"
    BY ReqFacts DEF CheckRole
  <1>2. /\ roleCache' \in [Procs -> SUBSET Keys] /\ keyCache' \in [Procs -> SUBSET Keys]
        /\ UNCHANGED <<key, tenant, linked, redis, memory, faults>>
    BY CachesType DEF CheckRole
  <1>3. req[r].passed = {}
    BY <1>1 DEF RequestKnown, Early
  <1>4. CASE req[r].key = NoKey /\ Moved(r, "info")
    <2>1. ASSUME NEW q \in Request, q.pc = "info", Same(q, req[r])
          PROVE  RequestKnown(q, key, tenant)
      BY <1>1, <1>3, <1>4, <2>1 DEF RequestKnown, Same, Handled
    <2> QED BY <1>2, <1>4, <2>1, MovedQuiet DEF Pcs
  <1>5. CASE req[r].key \in roleCache[At[r]] /\ Ranked(r, req[r].key)
    <2>1. At[r] \in Procs
      BY DEF Procs
    <2>2. req[r].key # NoKey
      BY <1>5, <2>1, CachesType, ConstantsAssumption
    <2> QED BY <1>1, <1>2, <1>5, <2>2, RankedStep
  <1>6. CASE /\ req[r].key # NoKey
             /\ req' = [req EXCEPT ![r].pc = "fillRole", ![r].live = Live(req[r].key)]
    <2> DEFINE q == [req[r] EXCEPT !.pc = "fillRole", !.live = Live(req[r].key)]
    <2>1. Live(req[r].key) \in BOOLEAN
      BY DEF Live
    <2>2. q \in Request
      BY <1>1, <2>1 DEF Request
    <2>3. q.pc = "fillRole" /\ q.live = Live(req[r].key) /\ Same(q, req[r])
      BY <1>1 DEF Request, Same
    <2>4. req' = [req EXCEPT ![r] = q]
      BY <1>6 DEF Inv, TypeOK
    <2> HIDE DEF q
    <2>5. key[req[r].key].state # "none" /\ key[req[r].key] \in Row
      BY <1>1, <1>6 DEF RequestKnown, KeyKnown, Request, Inv, TypeOK
    <2>6. RequestKnown(q, key, tenant)
      BY <1>1, <1>3, <1>6, <2>3, <2>5
         DEF RequestKnown, KeyKnown, Same, Gone, Live, Row, Handled, Ranking, Counting, Early
    <2> QED BY <1>2, <2>2, <2>3, <2>4, <2>6, Quiet DEF Same
  <1> QED BY <1>4, <1>5, <1>6 DEF CheckRole

LEMMA FillRoleStep ==
  ASSUME Inv, NEW r \in Requests, FillRole(r)
  PROVE  Inv'
  <1>1. req[r] \in Request /\ RequestKnown(req[r], key, tenant) /\ req[r].pc = "fillRole"
    BY ReqFacts DEF FillRole
  <1>2. req[r].key \in Keys /\ req[r].key # NoKey /\ KeyKnown(req[r], key) /\ req[r].passed = {}
    BY <1>1 DEF RequestKnown, Request, Early
  <1>3. /\ roleCache' \in [Procs -> SUBSET Keys] /\ keyCache' \in [Procs -> SUBSET Keys]
        /\ UNCHANGED <<key, tenant, linked, redis, memory, faults>>
    BY <1>2, CachesType, CacheStep DEF FillRole
  <1>4. CASE req[r].live
    BY <1>1, <1>2, <1>3, <1>4, RankedStep DEF FillRole
  <1>5. CASE ~req[r].live
    <2>1. ASSUME NEW q \in Request, q.pc = "info", Same(q, req[r])
          PROVE  RequestKnown(q, key, tenant)
      BY <1>1, <1>2, <1>5, <2>1
         DEF RequestKnown, KeyKnown, Same, Gone, Handled, Ranking, Counting, Early
    <2>2. Moved(r, "info")
      BY <1>5 DEF FillRole
    <2> QED BY <1>3, <2>1, <2>2, MovedQuiet DEF Pcs
  <1> QED BY <1>4, <1>5

\* Counting the request for its key's tenant.
LEMMA CountedStep ==
  ASSUME Inv, NEW r \in Requests, req[r].pc \in {"info", "fillInfo"}, req[r].key # NoKey,
         Counted(r, req[r].key),
         roleCache' \in [Procs -> SUBSET Keys], keyCache' \in [Procs -> SUBSET Keys],
         UNCHANGED <<key, tenant, linked, redis, memory, faults>>
  PROVE  Inv'
  <1>1. req[r] \in Request /\ RequestKnown(req[r], key, tenant)
    BY ReqFacts
  <1>2. /\ req[r].key \in Keys /\ KeyKnown(req[r], key) /\ req[r].passed = {}
        /\ key[req[r].key] \in Row
    BY <1>1 DEF RequestKnown, Request, Early, Inv, TypeOK
  <1> DEFINE o == key[req[r].key].owner
             t == key[req[r].key].tier
             q == [req[r] EXCEPT !.pc = "minute", !.owner = o, !.tier = t]
  <1>3. o \in Owners /\ t \in Tiers
    BY <1>2 DEF Row
  <1> HIDE DEF o, t
  <1>5. /\ q \in Request /\ q.pc = "minute" /\ q.owner = o /\ q.tier = t
        /\ q.key = req[r].key /\ q.op = req[r].op /\ q.late = req[r].late
        /\ q.passed = req[r].passed
    BY <1>1, <1>3 DEF Request, Windows
  <1>6. req' = [req EXCEPT ![r] = q]
    BY DEF Counted, Inv, TypeOK, o, t
  <1> HIDE DEF q
  <1>7. RequestKnown(q, key, tenant)
    BY <1>1, <1>2, <1>5
       DEF o, t, RequestKnown, KeyKnown, Gone, Suffices, Matches, Handled, Ranking, Counting, Early
  <1> QED BY <1>2, <1>5, <1>6, <1>7, Quiet

\* At "minute" without knowing the key.
LEMMA UncountedStep ==
  ASSUME Inv, NEW r \in Requests, req[r].pc \in {"info", "fillInfo"},
         req[r].key = NoKey \/ Gone(req[r], key), Moved(r, "minute"),
         roleCache' \in [Procs -> SUBSET Keys], keyCache' \in [Procs -> SUBSET Keys],
         UNCHANGED <<key, tenant, linked, redis, memory, faults>>
  PROVE  Inv'
  <1>1. req[r] \in Request /\ RequestKnown(req[r], key, tenant)
    BY ReqFacts
  <1>2. ASSUME NEW q \in Request, q.pc = "minute", Same(q, req[r])
        PROVE  RequestKnown(q, key, tenant)
    BY <1>1, <1>2
       DEF RequestKnown, KeyKnown, Same, Gone, Handled, Ranking, Counting, Early
  <1> QED BY <1>2, MovedQuiet DEF Pcs, Windows

LEMMA KeyInfoStep ==
  ASSUME Inv, NEW r \in Requests, KeyInfo(r)
  PROVE  Inv'
  <1>1. req[r] \in Request /\ RequestKnown(req[r], key, tenant) /\ req[r].pc = "info"
    BY ReqFacts DEF KeyInfo
  <1>2. /\ roleCache' \in [Procs -> SUBSET Keys] /\ keyCache' \in [Procs -> SUBSET Keys]
        /\ UNCHANGED <<key, tenant, linked, redis, memory, faults>>
    BY CachesType DEF KeyInfo
  <1>3. CASE req[r].key = NoKey /\ Moved(r, "minute")
    BY <1>1, <1>2, <1>3, UncountedStep
  <1>4. CASE req[r].key \in keyCache[At[r]] /\ Counted(r, req[r].key)
    <2>1. At[r] \in Procs
      BY DEF Procs
    <2>2. req[r].key # NoKey
      BY <1>4, <2>1, CachesType, ConstantsAssumption
    <2> QED BY <1>1, <1>2, <1>4, <2>2, CountedStep
  <1>5. CASE /\ req[r].key # NoKey
             /\ req' = [req EXCEPT ![r].pc = "fillInfo", ![r].live = Live(req[r].key)]
    <2> DEFINE q == [req[r] EXCEPT !.pc = "fillInfo", !.live = Live(req[r].key)]
    <2>1. Live(req[r].key) \in BOOLEAN
      BY DEF Live
    <2>2. q \in Request
      BY <1>1, <2>1 DEF Request
    <2>3. q.pc = "fillInfo" /\ q.live = Live(req[r].key) /\ Same(q, req[r])
      BY <1>1 DEF Request, Same
    <2>4. req' = [req EXCEPT ![r] = q]
      BY <1>5 DEF Inv, TypeOK
    <2> HIDE DEF q
    <2>5. KeyKnown(req[r], key) /\ key[req[r].key] \in Row /\ req[r].passed = {}
      BY <1>1, <1>5 DEF RequestKnown, Early, Request, Inv, TypeOK
    <2>6. RequestKnown(q, key, tenant)
      BY <1>1, <1>5, <2>3, <2>5
         DEF RequestKnown, KeyKnown, Same, Gone, Suffices, Live, Row, Handled, Ranking, Counting, Early
    <2> QED BY <1>2, <2>2, <2>3, <2>4, <2>6, Quiet DEF Same
  <1> QED BY <1>3, <1>4, <1>5 DEF KeyInfo

LEMMA FillInfoStep ==
  ASSUME Inv, NEW r \in Requests, FillInfo(r)
  PROVE  Inv'
  <1>1. req[r] \in Request /\ RequestKnown(req[r], key, tenant) /\ req[r].pc = "fillInfo"
    BY ReqFacts DEF FillInfo
  <1>2. req[r].key \in Keys /\ req[r].key # NoKey /\ KeyKnown(req[r], key)
    BY <1>1 DEF RequestKnown, Request
  <1>3. /\ roleCache' \in [Procs -> SUBSET Keys] /\ keyCache' \in [Procs -> SUBSET Keys]
        /\ UNCHANGED <<key, tenant, linked, redis, memory, faults>>
    BY <1>2, CachesType, CacheStep DEF FillInfo
  <1>4. CASE req[r].live
    BY <1>1, <1>2, <1>3, <1>4, CountedStep DEF FillInfo
  <1>5. CASE ~req[r].live
    BY <1>1, <1>2, <1>3, <1>5, UncountedStep DEF FillInfo, KeyKnown
  <1> QED BY <1>4, <1>5

-----------------------------------------------------------------------------
(* The windows *)

LEMMA CounterType ==
  ASSUME Inv, NEW r \in Requests, req[r].pc \in Windows
  PROVE  /\ Counter(r) \in Counters
         /\ req[r].pc = "hour" => Counter(r) = <<"hour", req[r].owner>> /\ req[r].owner \in Owners
         /\ req[r].pc # "hour" => \A o : Counter(r) # <<"hour", o>>
  <1>1. req[r] \in Request /\ RequestKnown(req[r], key, tenant)
    BY ReqFacts
  <1>2. req[r].key \in Keys \union {NoKey} /\ req[r].owner \in Owners
    BY <1>1 DEF Request
  <1>3. CASE req[r].pc = "minute"
    BY <1>2, <1>3, CountersOf DEF Counter, Subject
  <1>4. CASE req[r].pc = "hour"
    BY <1>2, <1>4, CountersOf DEF Counter, Subject
  <1>5. CASE req[r].pc = "day"
    <2>1. req[r].key \in Keys
      BY <1>1, <1>2, <1>5 DEF RequestKnown, Handled
    <2>2. key[req[r].key].owner \in Owners
      BY <2>1 DEF Inv, TypeOK, Row
    <2> QED BY <1>5, <2>2, CountersOf DEF Counter, Subject
  <1> QED BY <1>3, <1>4, <1>5 DEF Windows

\* What a request is when its window has been settled.
PassedOn(p, store) ==
  [p EXCEPT !.adding = FALSE, !.live = FALSE, !.pc = After(@), !.passed = @ \union {<<p.pc, store>>}]
TurnedAway(p) == [p EXCEPT !.adding = FALSE, !.live = FALSE, !.pc = "refused"]

LEMMA PassedRequest ==
  ASSUME Inv, NEW r \in Requests, req[r].pc \in Windows, NEW store \in Stores,
         NEW q, q = PassedOn(req[r], store)
  PROVE  /\ q \in Request /\ RequestKnown(q, key, tenant)
         /\ q.owner = req[r].owner /\ q.tier = req[r].tier
         /\ q.passed = req[r].passed \union {<<req[r].pc, store>>}
  <1> DEFINE pc == After(req[r].pc)
             passed == req[r].passed \union {<<req[r].pc, store>>}
  <1>1. req[r] \in Request /\ RequestKnown(req[r], key, tenant)
    BY ReqFacts
  <1>2. /\ pc \in Pcs /\ passed \in SUBSET (Windows \X Stores)
        /\ pc \in {"hour", "size", "commit"}
        /\ pc = "commit" => req[r].pc = "day"
        /\ pc \in {"hour", "size"} => req[r].pc \in {"minute", "hour"}
    BY <1>1 DEF Pcs, Windows, Request, After
  <1>3. q = [req[r] EXCEPT !.adding = FALSE, !.live = FALSE, !.pc = pc, !.passed = passed]
    BY <1>1 DEF PassedOn, Request
  <1> HIDE DEF pc, passed
  <1>4. /\ q \in Request /\ q.pc = pc /\ q.passed = passed
        /\ q.key = req[r].key /\ q.op = req[r].op /\ q.late = req[r].late
        /\ q.owner = req[r].owner /\ q.tier = req[r].tier
    BY <1>1, <1>2, <1>3 DEF Request, Pcs
  <1>5. RequestKnown(q, key, tenant)
    BY <1>1, <1>2, <1>4
       DEF RequestKnown, KeyKnown, Gone, Suffices, Matches, Handled, Ranking, Counting, Early
  <1> QED BY <1>4, <1>5 DEF passed

LEMMA TurnedAwayRequest ==
  ASSUME Inv, NEW r \in Requests, NEW q, q = TurnedAway(req[r])
  PROVE  /\ q \in Request /\ RequestKnown(q, key, tenant)
         /\ q.owner = req[r].owner /\ q.tier = req[r].tier /\ q.passed = req[r].passed
  <1>1. req[r] \in Request /\ RequestKnown(req[r], key, tenant)
    BY ReqFacts
  <1>2. q \in Request /\ q.pc = "refused" /\ Same(q, req[r])
    BY <1>1 DEF Request, TurnedAway, Same
  <1> QED BY <1>1, <1>2, RefusedKnown DEF Same

\* A step of r at a window that lets nobody pass the hour.
LEMMA CountingStep ==
  ASSUME Inv, NEW r \in Requests, NEW q \in Request, req' = [req EXCEPT ![r] = q],
         RequestKnown(q, key, tenant),
         \A store \in Stores : <<"hour", store>> \in q.passed <=> <<"hour", store>> \in req[r].passed,
         q.owner = req[r].owner, q.tier = req[r].tier,
         redis' \in [Counters -> Nat], memory' \in [Procs -> [Counters -> Nat]],
         \A o \in Owners : redis[<<"hour", o>>] <= redis'[<<"hour", o>>],
         \A p \in Procs, o \in Owners : memory[p][<<"hour", o>>] <= memory'[p][<<"hour", o>>],
         linked' = linked, faults' \in Nat, faults <= faults',
         UNCHANGED <<key, tenant, roleCache, keyCache>>
  PROVE  Inv'
  <1>1. RequestKnown(q, key', tenant') /\ Forward /\ TenantNamesUnique'
    BY Stays DEF Inv, TenantNamesUnique
  <1>2. TypeOK /\ RequestsKnown /\ HourCounts /\ MemoryUnused
    BY DEF Inv
  <1>3. req' \in [Requests -> Request] /\ RequestsKnown'
    BY <1>1, <1>2, RequestsGoOn
  <1>4. TypeOK'
    BY <1>2, <1>3 DEF TypeOK
  <1>5. /\ \A o \in Owners : redis'[<<"hour", o>>] \in Nat
                             /\ redis[<<"hour", o>>] <= redis'[<<"hour", o>>]
        /\ \A p \in Procs, o \in Owners :
             /\ memory'[p][<<"hour", o>>] \in Nat
             /\ memory[p][<<"hour", o>>] <= memory'[p][<<"hour", o>>]
    BY CountersOf
  <1>6. HourCounts' /\ MemoryUnused'
    BY <1>2, <1>5, CountsStay
  <1> QED BY <1>1, <1>3, <1>4, <1>6 DEF Inv

\* r becomes q, which has passed the hour by a count in the store.
LetPass(r, q, store) ==
  /\ req' = [req EXCEPT ![r] = q]
  /\ q.passed = req[r].passed \union {<<"hour", store>>}
  /\ q.owner = req[r].owner /\ q.tier = req[r].tier

LEMMA PassesHour ==
  ASSUME Inv, NEW r \in Requests, NEW q, NEW store \in Stores, LetPass(r, q, store),
         NEW o, NEW n
  PROVE  /\ Passers(req', store, o, n) \subseteq Passers(req, store, o, n) \union {r}
         /\ o # req[r].owner \/ ~(HourLimit[req[r].tier] <= n) =>
              Passers(req', store, o, n) = Passers(req, store, o, n)
         /\ \A other \in Stores \ {store} : Passers(req', other, o, n) = Passers(req, other, o, n)
  <1>1. \A s \in Requests : req'[s] = IF s = r THEN q ELSE req[s]
    BY DEF LetPass, Inv, TypeOK
  <1>2. ASSUME NEW x \in Stores, NEW s \in Requests
        PROVE  <<"hour", x>> \in req'[s].passed <=>
                 <<"hour", x>> \in req[s].passed \/ (s = r /\ x = store)
    BY <1>1 DEF LetPass
  <1>3. \A s \in Requests : req'[s].owner = req[s].owner /\ req'[s].tier = req[s].tier
    BY <1>1 DEF LetPass
  <1>4. Passers(req', store, o, n) \subseteq Passers(req, store, o, n) \union {r}
    BY <1>2, <1>3 DEF Passers
  <1>5. o # req[r].owner \/ ~(HourLimit[req[r].tier] <= n) =>
          Passers(req', store, o, n) = Passers(req, store, o, n)
    BY <1>2, <1>3 DEF Passers
  <1>6. \A other \in Stores \ {store} : Passers(req', other, o, n) = Passers(req, other, o, n)
    BY <1>2, <1>3 DEF Passers
  <1> QED BY <1>4, <1>5, <1>6

\* r passes the hour by the count in Redis, which was below the limit.
LEMMA PassesByRedis ==
  ASSUME Inv, NEW r \in Requests, NEW q \in Request, LetPass(r, q, "redis"),
         redis' = [redis EXCEPT ![<<"hour", req[r].owner>>] = @ + 1],
         redis[<<"hour", req[r].owner>>] < HourLimit[req[r].tier],
         UNCHANGED <<linked, memory, faults>>
  PROVE  HourCounts' /\ MemoryUnused'
  <1> DEFINE c == redis[<<"hour", req[r].owner>>]
             limit == HourLimit[req[r].tier]
  <1>1. req[r].owner \in Owners /\ limit \in Nat
    BY ReqFacts, ConstantsAssumption DEF Request
  <1>2. \A o \in Owners : redis[<<"hour", o>>] \in Nat
                          /\ redis'[<<"hour", o>>] = IF o = req[r].owner THEN c + 1
                                                     ELSE redis[<<"hour", o>>]
    BY <1>1, CountersOf DEF Inv, TypeOK
  <1>3. ASSUME NEW o, NEW n
        PROVE  /\ Passers(req', "redis", o, n) \subseteq Passers(req, "redis", o, n) \union {r}
               /\ o # req[r].owner \/ ~(limit <= n) =>
                    Passers(req', "redis", o, n) = Passers(req, "redis", o, n)
               /\ Passers(req', "memory", o, n) = Passers(req, "memory", o, n)
    <2>1. "redis" \in Stores /\ "memory" \in Stores \ {"redis"}
      BY DEF Stores
    <2>2. /\ Passers(req', "redis", o, n) \subseteq Passers(req, "redis", o, n) \union {r}
          /\ o # req[r].owner \/ ~(HourLimit[req[r].tier] <= n) =>
               Passers(req', "redis", o, n) = Passers(req, "redis", o, n)
          /\ \A other \in Stores \ {"redis"} : Passers(req', other, o, n) = Passers(req, other, o, n)
      BY <2>1, PassesHour
    <2> QED BY <2>1, <2>2
  <1>4. HourCounts
    BY DEF Inv
  <1> HIDE DEF limit
  <1>5. ASSUME NEW o \in Owners, NEW n \in Nat
        PROVE  /\ Cardinality(Passers(req', "redis", o, n)) <= n
               /\ Cardinality(Passers(req', "redis", o, n)) <= redis'[<<"hour", o>>]
    <2> DEFINE P == Passers(req, "redis", o, n)
               Q == Passers(req', "redis", o, n)
    <2>1. IsFiniteSet(P) /\ Cardinality(P) \in Nat
      BY FewPassers
    <2>2. Cardinality(P) <= n /\ Cardinality(P) <= redis[<<"hour", o>>]
      BY <1>4 DEF HourCounts
    <2>3. Q \in SUBSET (P \union {r}) /\ (o # req[r].owner \/ ~(limit <= n) => Q = P)
      BY <1>3
    <2> HIDE DEF P, Q
    <2>4. CASE o # req[r].owner \/ ~(limit <= n)
      BY <1>1, <1>2, <2>1, <2>2, <2>3, <2>4 DEF Q
    <2>5. CASE o = req[r].owner /\ limit <= n
      <3>1. Cardinality(Q) \in Nat /\ Cardinality(Q) <= Cardinality(P) + 1
        BY <2>1, <2>3, OneMore
      <3>2. c < limit /\ c \in Nat /\ Cardinality(P) <= c /\ redis'[<<"hour", o>>] = c + 1
        BY <1>1, <1>2, <2>2, <2>5 DEF limit
      <3> HIDE DEF c
      <3>3. Cardinality(Q) <= n /\ Cardinality(Q) <= redis'[<<"hour", o>>]
        BY <1>1, <2>1, <2>5, <3>1, <3>2
      <3> QED BY <3>3 DEF Q
    <2> QED BY <2>4, <2>5
  <1>6. ASSUME NEW p, NEW o, NEW n
        PROVE  PassersAt(req', p, o, n) = PassersAt(req, p, o, n)
    BY <1>3 DEF PassersAt
  <1>7. HourCounts'
    BY <1>4, <1>5, <1>6 DEF HourCounts
  <1>8. MemoryUnused'
    <2>1. \A s \in Requests : <<"hour", "memory">> \in req'[s].passed =>
                                <<"hour", "memory">> \in req[s].passed
      BY DEF LetPass, Inv, TypeOK
    <2> QED BY <2>1 DEF Inv, MemoryUnused
  <1> QED BY <1>7, <1>8

\* r passes the hour by the count of its process, which was below the limit.
LEMMA PassesByMemory ==
  ASSUME Inv, NEW r \in Requests, NEW q \in Request, LetPass(r, q, "memory"),
         memory' = [memory EXCEPT ![At[r]][<<"hour", req[r].owner>>] = @ + 1],
         memory[At[r]][<<"hour", req[r].owner>>] < HourLimit[req[r].tier],
         redis' \in [Counters -> Nat],
         \A o \in Owners : redis[<<"hour", o>>] <= redis'[<<"hour", o>>],
         ~linked' \/ faults' # 0
  PROVE  HourCounts' /\ MemoryUnused'
  <1> DEFINE c == memory[At[r]][<<"hour", req[r].owner>>]
             limit == HourLimit[req[r].tier]
  <1>1. req[r].owner \in Owners /\ limit \in Nat /\ At[r] \in Procs
    BY ReqFacts, ConstantsAssumption DEF Request, Procs
  <1>2. \A p \in Procs, o \in Owners :
          /\ memory[p][<<"hour", o>>] \in Nat
          /\ memory'[p][<<"hour", o>>] = IF p = At[r] /\ o = req[r].owner THEN c + 1
                                         ELSE memory[p][<<"hour", o>>]
    BY <1>1, CountersOf DEF Inv, TypeOK
  <1>3. ASSUME NEW o, NEW n
        PROVE  /\ Passers(req', "memory", o, n) \subseteq Passers(req, "memory", o, n) \union {r}
               /\ o # req[r].owner \/ ~(limit <= n) =>
                    Passers(req', "memory", o, n) = Passers(req, "memory", o, n)
               /\ Passers(req', "redis", o, n) = Passers(req, "redis", o, n)
    <2>1. "memory" \in Stores /\ "redis" \in Stores \ {"memory"}
      BY DEF Stores
    <2>2. /\ Passers(req', "memory", o, n) \subseteq Passers(req, "memory", o, n) \union {r}
          /\ o # req[r].owner \/ ~(HourLimit[req[r].tier] <= n) =>
               Passers(req', "memory", o, n) = Passers(req, "memory", o, n)
          /\ \A other \in Stores \ {"memory"} : Passers(req', other, o, n) = Passers(req, other, o, n)
      BY <2>1, PassesHour
    <2> QED BY <2>1, <2>2
  <1>4. ASSUME NEW p, NEW o, NEW n
        PROVE  /\ PassersAt(req', p, o, n) \subseteq PassersAt(req, p, o, n) \union {r}
               /\ p # At[r] \/ o # req[r].owner \/ ~(limit <= n) =>
                    PassersAt(req', p, o, n) = PassersAt(req, p, o, n)
    <2>1. PassersAt(req', p, o, n) \subseteq PassersAt(req, p, o, n) \union {r}
      BY <1>3 DEF PassersAt
    <2>2. ASSUME p # At[r] \/ o # req[r].owner \/ ~(limit <= n)
          PROVE  PassersAt(req', p, o, n) = PassersAt(req, p, o, n)
      <3>1. CASE o # req[r].owner \/ ~(limit <= n)
        BY <1>3, <3>1 DEF PassersAt
      <3>2. CASE p # At[r]
        <4>1. Passers(req, "memory", o, n) \subseteq Passers(req', "memory", o, n)
          <5>1. \A s \in Requests :
                  /\ req'[s].owner = req[s].owner /\ req'[s].tier = req[s].tier
                  /\ req[s].passed \subseteq req'[s].passed
            BY DEF LetPass, Inv, TypeOK
          <5> QED BY <5>1 DEF Passers
        <4> QED BY <1>3, <3>2, <4>1 DEF PassersAt
      <3> QED BY <2>2, <3>1, <3>2
    <2> QED BY <2>1, <2>2
  <1>5. HourCounts
    BY DEF Inv
  <1> HIDE DEF limit
  <1>6. ASSUME NEW p \in Procs, NEW o \in Owners, NEW n \in Nat
        PROVE  /\ Cardinality(PassersAt(req', p, o, n)) <= n
               /\ Cardinality(PassersAt(req', p, o, n)) <= memory'[p][<<"hour", o>>]
    <2> DEFINE P == PassersAt(req, p, o, n)
               Q == PassersAt(req', p, o, n)
    <2>1. IsFiniteSet(P) /\ Cardinality(P) \in Nat
      BY FewPassers
    <2>2. Cardinality(P) <= n /\ Cardinality(P) <= memory[p][<<"hour", o>>]
      BY <1>5 DEF HourCounts
    <2>3. /\ Q \in SUBSET (P \union {r})
          /\ p # At[r] \/ o # req[r].owner \/ ~(limit <= n) => Q = P
      BY <1>4
    <2> HIDE DEF P, Q
    <2>4. CASE p # At[r] \/ o # req[r].owner \/ ~(limit <= n)
      BY <1>1, <1>2, <2>1, <2>2, <2>3, <2>4 DEF Q
    <2>5. CASE p = At[r] /\ o = req[r].owner /\ limit <= n
      <3>1. Cardinality(Q) \in Nat /\ Cardinality(Q) <= Cardinality(P) + 1
        BY <2>1, <2>3, OneMore
      <3>2. /\ c < limit /\ c \in Nat /\ Cardinality(P) <= c
            /\ memory'[p][<<"hour", o>>] = c + 1
        BY <1>1, <1>2, <2>2, <2>5 DEF limit
      <3> HIDE DEF c
      <3>3. Cardinality(Q) <= n /\ Cardinality(Q) <= memory'[p][<<"hour", o>>]
        BY <1>1, <2>1, <2>5, <3>1, <3>2
      <3> QED BY <3>3 DEF Q
    <2> QED BY <2>4, <2>5
  <1>7. ASSUME NEW o \in Owners, NEW n \in Nat
        PROVE  /\ Cardinality(Passers(req', "redis", o, n)) <= n
               /\ Cardinality(Passers(req', "redis", o, n)) <= redis'[<<"hour", o>>]
    <2>1. /\ Cardinality(Passers(req, "redis", o, n)) <= n
          /\ Cardinality(Passers(req, "redis", o, n)) <= redis[<<"hour", o>>]
      BY <1>5 DEF HourCounts
    <2>2. /\ redis[<<"hour", o>>] \in Nat /\ redis'[<<"hour", o>>] \in Nat
          /\ Cardinality(Passers(req, "redis", o, n)) \in Nat
      BY CountersOf, FewPassers DEF Inv, TypeOK
    <2>3. Passers(req', "redis", o, n) = Passers(req, "redis", o, n)
      BY <1>3
    <2>4. redis[<<"hour", o>>] <= redis'[<<"hour", o>>]
      OBVIOUS
    <2> QED BY <2>1, <2>2, <2>3, <2>4
  <1>8. HourCounts'
    BY <1>6, <1>7 DEF HourCounts
  <1>9. MemoryUnused'
    BY DEF MemoryUnused
  <1> QED BY <1>8, <1>9

\* What is left to show when r has passed the hour.
LEMMA HourStep ==
  ASSUME Inv, NEW r \in Requests, NEW q \in Request, req' = [req EXCEPT ![r] = q],
         RequestKnown(q, key, tenant), HourCounts', MemoryUnused',
         redis' \in [Counters -> Nat], memory' \in [Procs -> [Counters -> Nat]],
         linked' = linked, faults' \in Nat,
         UNCHANGED <<key, tenant, roleCache, keyCache>>
  PROVE  Inv'
  <1>1. RequestKnown(q, key', tenant') /\ Forward /\ TenantNamesUnique'
    BY Stays DEF Inv, TenantNamesUnique
  <1>2. TypeOK /\ RequestsKnown
    BY DEF Inv
  <1>3. req' \in [Requests -> Request] /\ RequestsKnown'
    BY <1>1, <1>2, RequestsGoOn
  <1>4. TypeOK'
    BY <1>2, <1>3 DEF TypeOK
  <1> QED BY <1>1, <1>3, <1>4 DEF Inv

LEMMA HourFull ==
  ASSUME Inv, NEW r \in Requests, req[r].pc = "hour", NEW n, ~Full(n, r), n \in Nat
  PROVE  n < HourLimit[req[r].tier]
  <1>1. HourLimit[req[r].tier] \in Nat
    BY ReqFacts, ConstantsAssumption DEF Request
  <1> QED BY <1>1 DEF Full, Limit

LEMMA AddStep ==
  ASSUME Inv, NEW r \in Requests, Add(r)
  PROVE  Inv'
  <1> DEFINE x == Counter(r)
  <1>1. /\ x \in Counters
        /\ req[r].pc = "hour" => x = <<"hour", req[r].owner>> /\ req[r].owner \in Owners
    BY CounterType DEF Add
  <1>2. redis' = [redis EXCEPT ![x] = @ + 1] /\ redis \in [Counters -> Nat] /\ redis[x] \in Nat
    BY <1>1 DEF Add, Inv, TypeOK
  <1>3. req[r].pc = "hour" /\ Judged(r) => redis[x] < HourLimit[req[r].tier]
    BY <1>2, HourFull DEF Judged
  <1>4. req \in [Requests -> Request] /\ Settled(r, Judged(r), "redis")
    BY DEF Add, Inv, TypeOK
  <1> HIDE DEF x
  <1>5. redis' \in [Counters -> Nat] /\ \A o \in Owners : redis[<<"hour", o>>] <= redis'[<<"hour", o>>]
    <2>1. ASSUME NEW y \in Counters
          PROVE  redis'[y] \in Nat /\ redis[y] <= redis'[y]
      <3>1. redis[y] \in Nat /\ redis'[y] = IF y = x THEN redis[x] + 1 ELSE redis[y]
        BY <1>1, <1>2
      <3> QED BY <1>2, <3>1
    <2>2. redis' = [y \in Counters |-> redis'[y]]
      BY <1>2
    <2> QED BY <2>1, <2>2, CountersOf
  <1>6. /\ memory' \in [Procs -> [Counters -> Nat]] /\ faults' \in Nat /\ faults <= faults'
        /\ UNCHANGED <<linked, memory, faults, key, tenant, roleCache, keyCache>>
        /\ \A p \in Procs, o \in Owners : memory[p][<<"hour", o>>] <= memory'[p][<<"hour", o>>]
    <2>1. UNCHANGED <<linked, memory, faults, key, tenant, roleCache, keyCache>>
      BY DEF Add
    <2>2. memory \in [Procs -> [Counters -> Nat]] /\ faults \in Nat
      BY DEF Inv, TypeOK
    <2>3. \A p \in Procs, o \in Owners : memory[p][<<"hour", o>>] \in Nat
      BY <2>2, CountersOf
    <2> QED BY <2>1, <2>2, <2>3
  <1>7. CASE Judged(r)
    <2> DEFINE q == PassedOn(req[r], "redis")
    <2>1. /\ q \in Request /\ RequestKnown(q, key, tenant)
          /\ q.owner = req[r].owner /\ q.tier = req[r].tier
          /\ q.passed = req[r].passed \union {<<req[r].pc, "redis">>}
      BY PassedRequest DEF Add, Stores
    <2>2. req' = [req EXCEPT ![r] = q]
      BY <1>4, <1>7 DEF Settled, PassedOn
    <2> HIDE DEF q
    <2>3. CASE req[r].pc = "hour"
      <3>1. LetPass(r, q, "redis")
        BY <2>1, <2>2, <2>3 DEF LetPass
      <3>2. HourCounts' /\ MemoryUnused'
        BY <1>1, <1>2, <1>3, <1>6, <1>7, <2>1, <2>3, <3>1, PassesByRedis
      <3> QED BY <1>5, <1>6, <2>1, <2>2, <3>2, HourStep
    <2>4. CASE req[r].pc # "hour"
      <3>1. \A store \in Stores :
              <<"hour", store>> \in q.passed <=> <<"hour", store>> \in req[r].passed
        BY <2>1, <2>4
      <3> QED BY <1>5, <1>6, <2>1, <2>2, <3>1, CountingStep
    <2> QED BY <2>3, <2>4
  <1>8. CASE ~Judged(r)
    <2> DEFINE q == TurnedAway(req[r])
    <2>1. /\ q \in Request /\ RequestKnown(q, key, tenant)
          /\ q.owner = req[r].owner /\ q.tier = req[r].tier /\ q.passed = req[r].passed
      BY TurnedAwayRequest
    <2>2. req' = [req EXCEPT ![r] = q]
      BY <1>4, <1>8, ReqFacts DEF Settled, TurnedAway, Request
    <2> HIDE DEF q
    <2> QED BY <1>5, <1>6, <2>1, <2>2, CountingStep
  <1> QED BY <1>7, <1>8

\* The process decides by its own count, and Redis has failed or has found a full minute.
LEMMA FallbackStep ==
  ASSUME Inv, NEW r \in Requests, req[r].pc \in Windows, Fallback(r),
         redis' \in [Counters -> Nat],
         \A o \in Owners : redis[<<"hour", o>>] <= redis'[<<"hour", o>>],
         linked' = linked, faults' \in Nat, faults <= faults',
         req[r].pc = "hour" => ~linked \/ faults' # 0,
         UNCHANGED <<key, tenant, roleCache, keyCache>>
  PROVE  Inv'
  <1> DEFINE x == Counter(r)
             n == memory[At[r]][x]
             ok == (req[r].pc = "day" /\ req[r].adding) \/ ~Full(n, r)
  <1>1. /\ x \in Counters /\ At[r] \in Procs
        /\ req[r].pc = "hour" => x = <<"hour", req[r].owner>> /\ req[r].owner \in Owners
    BY CounterType DEF Procs
  <1>2. memory \in [Procs -> [Counters -> Nat]] /\ n \in Nat
    BY <1>1 DEF Inv, TypeOK
  <1>3. memory' = memory \/ memory' = [memory EXCEPT ![At[r]][x] = n + 1]
    BY DEF Fallback
  <1>4. req[r].pc = "hour" => memory' = [memory EXCEPT ![At[r]][x] = n + 1]
    BY DEF Fallback
  <1>5. req[r].pc = "hour" /\ ok => n < HourLimit[req[r].tier]
    BY <1>2, HourFull
  <1>6. req \in [Requests -> Request]
    BY DEF Inv, TypeOK
  <1>7. /\ ok => req' = [req EXCEPT ![r] = PassedOn(req[r], "memory")]
        /\ ~ok => req' = [req EXCEPT ![r] = TurnedAway(req[r])]
    BY <1>6, ReqFacts DEF Fallback, Settled, PassedOn, TurnedAway, Request
  <1> HIDE DEF ok, x, n
  <1>8. memory' \in [Procs -> [Counters -> Nat]]
    BY <1>1, <1>2, <1>3
  <1>9. \A p \in Procs, o \in Owners : memory[p][<<"hour", o>>] <= memory'[p][<<"hour", o>>]
    <2> SUFFICES ASSUME NEW p \in Procs, NEW o \in Owners
                 PROVE  memory[p][<<"hour", o>>] <= memory'[p][<<"hour", o>>]
      OBVIOUS
    <2>1. memory[p][<<"hour", o>>] \in Nat /\ <<"hour", o>> \in Counters
      BY <1>2, CountersOf
    <2>2. CASE memory' = memory
      BY <2>1, <2>2
    <2>3. CASE memory' = [memory EXCEPT ![At[r]][x] = n + 1]
      <3>1. CASE p = At[r] /\ <<"hour", o>> = x
        <4>1. memory'[p][<<"hour", o>>] = n + 1 /\ memory[p][<<"hour", o>>] = n
          BY <1>1, <1>2, <2>3, <3>1 DEF n
        <4> QED BY <1>2, <4>1
      <3>2. CASE p # At[r]
        <4>1. memory'[p] = memory[p]
          BY <1>2, <2>3, <3>2
        <4> QED BY <2>1, <4>1
      <3>3. CASE p = At[r] /\ <<"hour", o>> # x
        <4>1. memory'[p][<<"hour", o>>] = memory[p][<<"hour", o>>]
          BY <1>1, <1>2, <2>1, <2>3, <3>3
        <4> QED BY <2>1, <4>1
      <3> QED BY <3>1, <3>2, <3>3
    <2> QED BY <1>3, <2>2, <2>3
  <1>10. CASE ok
    <2> DEFINE q == PassedOn(req[r], "memory")
    <2>1. /\ q \in Request /\ RequestKnown(q, key, tenant)
          /\ q.owner = req[r].owner /\ q.tier = req[r].tier
          /\ q.passed = req[r].passed \union {<<req[r].pc, "memory">>}
      BY PassedRequest DEF Stores
    <2>2. req' = [req EXCEPT ![r] = q]
      BY <1>7, <1>10
    <2> HIDE DEF q
    <2>3. CASE req[r].pc = "hour"
      <3>1. LetPass(r, q, "memory")
        BY <2>1, <2>2, <2>3 DEF LetPass
      <3>2. memory' = [memory EXCEPT ![At[r]][<<"hour", req[r].owner>>] = @ + 1]
        BY <1>1, <1>2, <1>4, <2>3 DEF n
      <3>3. memory[At[r]][<<"hour", req[r].owner>>] < HourLimit[req[r].tier]
        BY <1>1, <1>5, <1>10, <2>3 DEF n
      <3>4. ~linked' \/ faults' # 0
        BY <2>3
      <3>5. HourCounts' /\ MemoryUnused'
        BY <2>1, <3>1, <3>2, <3>3, <3>4, PassesByMemory
      <3> QED BY <1>8, <2>1, <2>2, <3>5, HourStep
    <2>4. CASE req[r].pc # "hour"
      <3>1. \A store \in Stores :
              <<"hour", store>> \in q.passed <=> <<"hour", store>> \in req[r].passed
        BY <2>1, <2>4
      <3> QED BY <1>8, <1>9, <2>1, <2>2, <3>1, CountingStep
    <2> QED BY <2>3, <2>4
  <1>11. CASE ~ok
    <2> DEFINE q == TurnedAway(req[r])
    <2>1. /\ q \in Request /\ RequestKnown(q, key, tenant)
          /\ q.owner = req[r].owner /\ q.tier = req[r].tier /\ q.passed = req[r].passed
      BY TurnedAwayRequest
    <2>2. req' = [req EXCEPT ![r] = q]
      BY <1>7, <1>11
    <2> HIDE DEF q
    <2> QED BY <1>8, <1>9, <2>1, <2>2, CountingStep
  <1> QED BY <1>10, <1>11

LEMMA CountersKept ==
  ASSUME Inv, UNCHANGED <<linked, redis, faults>>
  PROVE  /\ redis' \in [Counters -> Nat] /\ linked' = linked
         /\ \A o \in Owners : redis[<<"hour", o>>] <= redis'[<<"hour", o>>]
         /\ faults' \in Nat /\ faults <= faults'
  <1>1. redis \in [Counters -> Nat] /\ faults \in Nat
    BY DEF Inv, TypeOK
  <1>2. \A o \in Owners : redis[<<"hour", o>>] \in Nat
    BY <1>1, CountersOf
  <1> QED BY <1>1, <1>2

LEMMA AskStep ==
  ASSUME Inv, NEW r \in Requests, Ask(r)
  PROVE  Inv'
  <1>1. /\ req[r].pc \in Windows
        /\ UNCHANGED <<key, tenant, roleCache, keyCache, linked, redis, faults>>
    BY DEF Ask
  <1>2. req[r] \in Request /\ RequestKnown(req[r], key, tenant)
    BY ReqFacts
  <1>3. CASE req[r].pc = "minute" /\ Fallback(r)
    BY <1>1, <1>3, CountersKept, FallbackStep
  <1>4. CASE Moved(r, "refused") /\ UNCHANGED memory
    BY <1>1, <1>2, <1>4, RefusedKnown, CachesType, MovedQuiet DEF Pcs
  <1>5. CASE /\ req' = [req EXCEPT ![r].adding = TRUE, ![r].beside[req[r].pc] = Beside(r)]
             /\ UNCHANGED memory
    <2> DEFINE b == [req[r].beside EXCEPT ![req[r].pc] = Beside(r)]
               q == [req[r] EXCEPT !.adding = TRUE, !.beside = b]
    <2>1. Beside(r) \in Nat
      <3> DEFINE S == {s \in Requests \ {r} : req[s].adding /\ req[s].pc \in Windows
                                              /\ Counter(s) = Counter(r)}
      <3>1. IsFiniteSet(S)
        <4>1. S \in SUBSET Requests
          OBVIOUS
        <4> QED BY <4>1, FS_Subset, ConstantsAssumption
      <3> QED BY <3>1, FS_CardinalityType DEF Beside
    <2>2. b \in [Windows -> Nat]
      BY <1>2, <2>1 DEF Request
    <2>3. req' = [req EXCEPT ![r] = q]
      BY <1>2, <1>5 DEF Inv, TypeOK, Request
    <2> HIDE DEF b
    <2>4. /\ q \in Request /\ Same(q, req[r]) /\ q.pc = req[r].pc /\ q.live = req[r].live
          /\ q.target = req[r].target
      BY <1>2, <2>2 DEF Request, Same
    <2> HIDE DEF q
    <2>5. RequestKnown(q, key, tenant)
      BY <1>2, <2>4 DEF RequestKnown, KeyKnown, Same, Gone, Suffices, Matches
    <2> QED BY <1>1, <1>5, <2>3, <2>4, <2>5, CachesType, Quiet DEF Same
  <1> QED BY <1>3, <1>4, <1>5 DEF Ask

LEMMA NoRedisStep ==
  ASSUME Inv, NEW r \in Requests, NoRedis(r)
  PROVE  Inv'
  BY CountersKept, FallbackStep DEF NoRedis

LEMMA RedisFailsStep ==
  ASSUME Inv, NEW r \in Requests, RedisFails(r)
  PROVE  Inv'
  <1> DEFINE x == Counter(r)
  <1>1. x \in Counters /\ redis \in [Counters -> Nat] /\ faults \in Nat
    BY CounterType DEF RedisFails, Inv, TypeOK
  <1>2. redis' = redis \/ redis' = [redis EXCEPT ![x] = @ + 1]
    BY DEF RedisFails
  <1>3. faults' = faults + 1
    BY DEF RedisFails
  <1> HIDE DEF x
  <1>4. redis' \in [Counters -> Nat] /\ \A o \in Owners : redis[<<"hour", o>>] <= redis'[<<"hour", o>>]
    <2>1. ASSUME NEW y \in Counters
          PROVE  redis'[y] \in Nat /\ redis[y] <= redis'[y]
      <3>1. redis[y] \in Nat /\ redis[x] \in Nat
        BY <1>1
      <3>2. redis'[y] = redis[y] \/ (y = x /\ redis'[y] = redis[x] + 1)
        BY <1>1, <1>2
      <3> QED BY <3>1, <3>2
    <2>2. redis' = [y \in Counters |-> redis'[y]]
      BY <1>1, <1>2
    <2> QED BY <2>1, <2>2, CountersOf
  <1>5. faults' \in Nat /\ faults <= faults' /\ faults' # 0
    BY <1>1, <1>3
  <1> QED BY <1>4, <1>5, FallbackStep DEF RedisFails

-----------------------------------------------------------------------------
(* Authentication and the handlers *)

LEMMA CheckSizeStep ==
  ASSUME Inv, NEW r \in Requests, CheckSize(r)
  PROVE  Inv'
  <1>1. req[r] \in Request /\ RequestKnown(req[r], key, tenant) /\ req[r].pc = "size"
    BY ReqFacts DEF CheckSize
  <1>2. ASSUME NEW q \in Request, q.pc = "auth", Same(q, req[r])
        PROVE  RequestKnown(q, key, tenant)
    BY <1>1, <1>2
       DEF RequestKnown, KeyKnown, Same, Gone, Suffices, Matches, Handled, Ranking, Counting, Early
  <1>3. CASE Moved(r, "auth")
    BY <1>2, <1>3, CachesType, MovedQuiet DEF CheckSize, Pcs
  <1>4. CASE Moved(r, "refused")
    BY <1>1, <1>4, RefusedKnown, CachesType, MovedQuiet DEF CheckSize, Pcs
  <1> QED BY <1>3, <1>4 DEF CheckSize

LEMMA AuthenticateStep ==
  ASSUME Inv, NEW r \in Requests, Authenticate(r)
  PROVE  Inv'
  <1>1. req[r] \in Request /\ RequestKnown(req[r], key, tenant) /\ req[r].pc = "auth"
    BY ReqFacts DEF Authenticate
  <1>2. /\ UNCHANGED <<key, tenant, linked, redis, memory, faults>>
        /\ roleCache' \in [Procs -> SUBSET Keys] /\ keyCache' \in [Procs -> SUBSET Keys]
    BY CachesType DEF Authenticate
  <1>3. ASSUME Accepted(r), NEW pc \in {"work", "done", "day", "commit"}, Moved(r, pc),
               pc \in {"day", "commit"} => req[r].op = "create"
        PROVE  Inv'
    <2>1. req[r].key # NoKey /\ ~Gone(req[r], key)
      BY <1>3 DEF Accepted, Live, Gone
    <2>2. ASSUME NEW q \in Request, q.pc = pc, Same(q, req[r])
          PROVE  RequestKnown(q, key, tenant)
      BY <1>1, <1>3, <2>1, <2>2
         DEF RequestKnown, KeyKnown, Same, Gone, Suffices, Matches, Handled, Ranking, Counting, Early
    <2>3. pc \in Pcs
      BY <1>3 DEF Pcs, Windows
    <2> QED BY <1>2, <1>3, <2>2, <2>3, MovedQuiet
  <1>4. CASE Moved(r, "refused")
    BY <1>1, <1>2, <1>4, RefusedKnown, MovedQuiet DEF Pcs
  <1>5. \/ Moved(r, "refused")
        \/ Accepted(r) /\ \E pc \in {"work", "done", "day", "commit"} :
             Moved(r, pc) /\ (pc \in {"day", "commit"} => req[r].op = "create")
    BY DEF Authenticate
  <1> QED BY <1>3, <1>4, <1>5

LEMMA ChosenStep ==
  ASSUME Inv, NEW r \in Requests, req[r].pc = "work",
         NEW x \in Keys \union Tenants \union {NoKey}, NEW n \in NameOrNone,
         req' = [req EXCEPT ![r].pc = "commit", ![r].target = x, ![r].name = n],
         req[r].op \in {"revoke", "rotate"} => x \in Keys /\ key[x].state # "none",
         req[r].op \in {"rename", "close"} => x \in Tenants /\ tenant[x].state # "none",
         UNCHANGED <<key, tenant, roleCache, keyCache, linked, redis, memory, faults>>
  PROVE  Inv'
  <1> DEFINE q == [req[r] EXCEPT !.pc = "commit", !.target = x, !.name = n]
  <1>1. req[r] \in Request /\ RequestKnown(req[r], key, tenant)
    BY ReqFacts
  <1>2. q \in Request /\ q.pc = "commit" /\ q.target = x /\ Same(q, req[r])
    BY <1>1 DEF Request, Same
  <1>3. req' = [req EXCEPT ![r] = q]
    BY DEF Inv, TypeOK
  <1> HIDE DEF q
  <1>4. RequestKnown(q, key, tenant)
    BY <1>1, <1>2
       DEF RequestKnown, KeyKnown, Same, Gone, Suffices, Matches, Handled, Ranking, Counting, Early
  <1> QED BY <1>2, <1>3, <1>4, CachesType, Quiet DEF Same

LEMMA SelectKeyStep ==
  ASSUME Inv, NEW r \in Requests, SelectKey(r)
  PROVE  Inv'
  <1>1. PICK k \in Keys : Chosen(r, key[k].state = "live" /\ InReach(r, k), k, "none")
    BY DEF SelectKey
  <1>2. /\ req[r].pc = "work" /\ req[r].op \in {"revoke", "rotate"}
        /\ UNCHANGED <<key, tenant, roleCache, keyCache, linked, redis, memory, faults>>
    BY DEF SelectKey
  <1>3. CASE key[k].state = "live" /\ InReach(r, k)
    <2>1. req' = [req EXCEPT ![r].pc = "commit", ![r].target = k, ![r].name = "none"]
      BY <1>1, <1>3 DEF Chosen
    <2>2. "none" \in NameOrNone
      BY DEF NameOrNone
    <2> QED BY <1>2, <1>3, <2>1, <2>2, ChosenStep
  <1>4. CASE ~(key[k].state = "live" /\ InReach(r, k))
    <2>1. Moved(r, "refused")
      BY <1>1, <1>4 DEF Chosen
    <2> QED BY <1>2, <2>1, ReqFacts, RefusedKnown, CachesType, MovedQuiet DEF Pcs
  <1> QED BY <1>3, <1>4

LEMMA SelectTenantStep ==
  ASSUME Inv, NEW r \in Requests, SelectTenant(r)
  PROVE  Inv'
  <1>1. PICK t \in Tenants, n \in Names :
          Chosen(r, CASE req[r].op = "found" -> ~\E u \in Tenants : Taken(n, u)
                      [] req[r].op = "rename" -> tenant[t].state = "open" /\ ~Taken(n, t)
                      [] req[r].op = "close" -> tenant[t].state = "open",
                 t, n)
    BY DEF SelectTenant
  <1>2. /\ req[r].pc = "work" /\ req[r].op \in {"found", "rename", "close"}
        /\ UNCHANGED <<key, tenant, roleCache, keyCache, linked, redis, memory, faults>>
    BY DEF SelectTenant, TenantOps
  <1>3. CASE Moved(r, "refused")
    BY <1>2, <1>3, ReqFacts, RefusedKnown, CachesType, MovedQuiet DEF Pcs
  <1>4. CASE /\ req' = [req EXCEPT ![r].pc = "commit", ![r].target = t, ![r].name = n]
             /\ req[r].op = "found" \/ tenant[t].state = "open"
    <2>1. n \in NameOrNone
      BY DEF NameOrNone
    <2> QED BY <1>2, <1>4, <2>1, ChosenStep
  <1>5. \/ Moved(r, "refused")
        \/ /\ req' = [req EXCEPT ![r].pc = "commit", ![r].target = t, ![r].name = n]
           /\ req[r].op = "found" \/ tenant[t].state = "open"
    <2>1. CASE req[r].op = "found"
      BY <1>1, <2>1 DEF Chosen
    <2>2. CASE req[r].op = "rename"
      BY <1>1, <2>2 DEF Chosen
    <2>3. CASE req[r].op = "close"
      BY <1>1, <2>3 DEF Chosen
    <2> QED BY <1>2, <2>1, <2>2, <2>3
  <1> QED BY <1>3, <1>4, <1>5

\* A handler changes the tables and ends.
LEMMA HandlerEnds ==
  ASSUME Inv, NEW r \in Requests, req[r].pc \in {"work", "commit"},
         NEW pc \in {"done", "refused"}, Moved(r, pc), Forward, key' \in [Keys -> Row],
         tenant' \in [Tenants -> [state: {"none", "open", "deleted"}, name: NameOrNone]],
         TenantNamesUnique',
         UNCHANGED <<roleCache, keyCache, linked, redis, memory, faults>>
  PROVE  Inv'
  <1>1. req[r] \in Request /\ RequestKnown(req[r], key, tenant)
    BY ReqFacts
  <1>2. PICK q \in Request : req' = [req EXCEPT ![r] = q] /\ q.pc = pc /\ Same(q, req[r])
    BY <1>1, MovedRequest DEF Pcs
  <1>3. RequestKnown(q, key, tenant)
    BY <1>1, <1>2
       DEF RequestKnown, KeyKnown, Same, Gone, Suffices, Matches, Handled, Ranking, Counting, Early
  <1>4. RequestKnown(q, key', tenant')
    BY <1>3, KnowledgeLasts
  <1>5. roleCache' \in [Procs -> SUBSET Keys] /\ keyCache' \in [Procs -> SUBSET Keys]
    BY CachesType
  <1> QED BY <1>2, <1>4, <1>5, Advance DEF Same

LEMMA TablesType ==
  ASSUME Inv
  PROVE  /\ key \in [Keys -> Row] /\ TenantNamesUnique
         /\ tenant \in [Tenants -> [state: {"none", "open", "deleted"}, name: NameOrNone]]
  BY DEF Inv, TypeOK

LEMMA IssueKeyStep ==
  ASSUME Inv, NEW r \in Requests, IssueKey(r)
  PROVE  Inv'
  <1> DEFINE own == key[req[r].key]
  <1>1. /\ req[r].pc = "work" /\ req[r].op = "issue"
        /\ UNCHANGED <<tenant, roleCache, keyCache, linked, redis, memory, faults>>
    BY DEF IssueKey
  <1>2. TenantNamesUnique'
    BY <1>1, TablesType DEF TenantNamesUnique
  <1>3. PICK k \in Keys, role \in Asked, owner \in Owners :
          /\ key[k].state = "none"
          /\ IF owner # own.owner /\ own.role # "admin"
             THEN Moved(r, "refused") /\ UNCHANGED key
             ELSE Moved(r, "done") /\ key' = Issued(k, GrantedRole(own.role, role), owner, FreeTier)
    BY DEF IssueKey
  <1>4. CASE Moved(r, "refused") /\ UNCHANGED key
    BY <1>1, <1>2, <1>4, TablesType, Stays, HandlerEnds
  <1>5. CASE Moved(r, "done") /\ key' = Issued(k, GrantedRole(own.role, role), owner, FreeTier)
    <2> DEFINE granted == GrantedRole(own.role, role)
    <2>1. granted \in Roles
      BY ConstantsAssumption DEF GrantedRole, Roles
    <2> HIDE DEF granted
    <2>2. key' = [key EXCEPT ![k] = [state |-> "live", role |-> granted, owner |-> owner,
                                     tier |-> FreeTier]]
      BY <1>5 DEF Issued, granted
    <2>3. key' \in [Keys -> Row]
      BY <2>1, <2>2, TablesType, ConstantsAssumption DEF Row
    <2>4. Forward
      BY <1>1, <1>3, <2>2, TablesType DEF Forward
    <2> QED BY <1>1, <1>2, <1>5, <2>3, <2>4, TablesType, HandlerEnds
  <1> QED BY <1>3, <1>4, <1>5

LEMMA CommitKeyStep ==
  ASSUME Inv, NEW r \in Requests, CommitKey(r)
  PROVE  Inv'
  <1> DEFINE k == req[r].target
  <1>1. /\ req[r].pc = "commit" /\ req[r].op \in {"revoke", "rotate"} /\ Moved(r, "done")
        /\ UNCHANGED <<tenant, roleCache, keyCache, linked, redis, memory, faults>>
    BY DEF CommitKey
  <1>2. TenantNamesUnique'
    BY <1>1, TablesType DEF TenantNamesUnique
  <1>3. k \in Keys /\ key[k].state # "none" /\ key[k] \in Row
    BY <1>1, ReqFacts, TablesType DEF RequestKnown
  <1>4. \/ key' = [key EXCEPT ![k].state = "revoked"]
        \/ \E new \in Keys :
             /\ key[new].state = "none"
             /\ key' = [Issued(new, key[k].role, key[k].owner, key[k].tier)
                          EXCEPT ![k].state = "revoked"]
    BY DEF CommitKey
  <1> HIDE DEF k
  <1>5. CASE key' = [key EXCEPT ![k].state = "revoked"]
    <2>1. key' \in [Keys -> Row] /\ Forward
      BY <1>1, <1>3, <1>5, TablesType DEF Row, Forward
    <2> QED BY <1>1, <1>2, <2>1, TablesType, HandlerEnds
  <1>6. ASSUME NEW new \in Keys, key[new].state = "none",
               key' = [Issued(new, key[k].role, key[k].owner, key[k].tier)
                         EXCEPT ![k].state = "revoked"]
        PROVE  Inv'
    <2> DEFINE row == [state |-> "live", role |-> key[k].role, owner |-> key[k].owner,
                       tier |-> key[k].tier]
    <2>1. row \in Row
      BY <1>3 DEF Row
    <2>2. new # k /\ key \in [Keys -> Row]
      BY <1>3, <1>6, TablesType
    <2>3. key' = [[key EXCEPT ![new] = row] EXCEPT ![k].state = "revoked"]
      BY <1>6 DEF Issued
    <2> HIDE DEF row
    <2>4. key' \in [Keys -> Row]
      BY <1>3, <2>1, <2>2, <2>3 DEF Row
    <2>5. Forward
      <3>1. ASSUME NEW j \in Keys
            PROVE  j = new \/ (j = k /\ key'[j] = [key[j] EXCEPT !.state = "revoked"])
                   \/ key'[j] = key[j]
        BY <1>3, <2>2, <2>3
      <3>2. /\ key[new].state = "none"
            /\ LET row2 == [key[k] EXCEPT !.state = "revoked"] IN
               /\ row2.state = "revoked" /\ row2.role = key[k].role
               /\ row2.owner = key[k].owner /\ row2.tier = key[k].tier
        BY <1>3, <1>6 DEF Row
      <3> QED BY <1>1, <3>1, <3>2 DEF Forward
    <2> QED BY <1>1, <1>2, <2>4, <2>5, TablesType, HandlerEnds
  <1> QED BY <1>4, <1>5, <1>6

LEMMA CommitTenantStep ==
  ASSUME Inv, NEW r \in Requests, CommitTenant(r)
  PROVE  Inv'
  <1>1. /\ req[r].pc = "commit" /\ req[r].op \in {"found", "rename", "close"}
        /\ UNCHANGED <<key, roleCache, keyCache, linked, redis, memory, faults>>
    BY DEF CommitTenant, TenantOps
  <1>2. PICK t \in Tenants :
          /\ IF req[r].op = "found" THEN tenant[t].state = "none" ELSE t = req[r].target
          /\ IF req[r].op = "close" \/ Unique(req[r].name, t)
             THEN tenant' = Changed(r, t) /\ Moved(r, "done")
             ELSE Moved(r, "refused") /\ UNCHANGED tenant
    BY DEF CommitTenant
  <1>3. req[r].name \in NameOrNone /\ RequestKnown(req[r], key, tenant)
    BY ReqFacts DEF Request
  <1>4. CASE Moved(r, "refused") /\ UNCHANGED tenant
    <2>1. TenantNamesUnique'
      BY <1>4, TablesType DEF TenantNamesUnique
    <2> QED BY <1>1, <1>4, <2>1, TablesType, Stays, HandlerEnds
  <1>5. CASE /\ req[r].op = "close" \/ Unique(req[r].name, t)
             /\ tenant' = Changed(r, t) /\ Moved(r, "done")
    <2>1. req[r].op # "found" => tenant[t].state # "none"
      BY <1>1, <1>2, <1>3 DEF RequestKnown
    <2>2. /\ tenant' \in [Tenants -> [state: {"none", "open", "deleted"}, name: NameOrNone]]
          /\ \A u \in Tenants \ {t} : tenant'[u] = tenant[u]
          /\ tenant'[t].state # "none"
          /\ \A u \in Tenants \ {t} : tenant[u].state # "none" => tenant[u].name # tenant'[t].name
      <3>1. CASE req[r].op = "found"
        <4>1. tenant' = [tenant EXCEPT ![t] = [state |-> "open", name |-> req[r].name]]
          BY <1>5, <3>1 DEF Changed
        <4> QED BY <1>3, <1>5, <3>1, <4>1, TablesType DEF Unique
      <3>2. CASE req[r].op = "rename"
        <4>1. tenant' = [tenant EXCEPT ![t].name = req[r].name]
          BY <1>5, <3>2 DEF Changed
        <4> QED BY <1>3, <1>5, <2>1, <3>2, <4>1, TablesType DEF Unique
      <3>3. CASE req[r].op = "close"
        <4>1. tenant' = [tenant EXCEPT ![t].state = "deleted"]
          BY <1>5, <3>3 DEF Changed
        <4>2. \A u \in Tenants \ {t} : tenant[u].state # "none" => tenant[u].name # tenant[t].name
          BY <2>1, <3>3, TablesType DEF TenantNamesUnique
        <4> QED BY <4>1, <4>2, TablesType
      <3> QED BY <1>1, <3>1, <3>2, <3>3
    <2>3. TenantNamesUnique'
      <3> SUFFICES ASSUME NEW u \in Tenants, NEW v \in Tenants, u # v,
                          tenant'[u].state # "none", tenant'[v].state # "none"
                   PROVE  tenant'[u].name # tenant'[v].name
        BY DEF TenantNamesUnique
      <3>1. CASE u # t /\ v # t
        BY <2>2, <3>1, TablesType DEF TenantNamesUnique
      <3>2. CASE u = t \/ v = t
        BY <2>2, <3>2
      <3> QED BY <3>1, <3>2
    <2>4. Forward
      BY <1>1, <2>2 DEF Forward
    <2> QED BY <1>1, <1>5, <2>2, <2>3, <2>4, TablesType, HandlerEnds
  <1> QED BY <1>2, <1>4, <1>5

LEMMA CommitPacketStep ==
  ASSUME Inv, NEW r \in Requests, CommitPacket(r)
  PROVE  Inv'
  <1>1. /\ req[r].pc = "commit"
        /\ Moved(r, "done") \/ Moved(r, "refused")
        /\ UNCHANGED <<key, tenant, roleCache, keyCache, linked, redis, memory, faults>>
    BY DEF CommitPacket
  <1>2. TenantNamesUnique'
    BY <1>1, TablesType DEF TenantNamesUnique
  <1> QED BY <1>1, <1>2, TablesType, Stays, HandlerEnds DEF CommitPacket

-----------------------------------------------------------------------------

LEMMA InitInv ==
  ASSUME Init
  PROVE  Inv
  <1>1. \A r \in Requests : req[r] = Idle
    BY DEF Init
  <1>2. /\ Idle \in Request /\ Idle.pc = "idle" /\ Idle.key = NoKey /\ Idle.late = FALSE
        /\ Idle.passed = {}
    BY ConstantsAssumption
       DEF Idle, Fresh, Request, Ops, KeyOps, TenantOps, Windows, NameOrNone
  <1>3. TypeOK
    <2>1. \A x \in Counters : redis[x] = 0
      BY DEF Init
    <2>2. req \in [Requests -> Request] /\ redis \in [Counters -> Nat]
          /\ memory \in [Procs -> [Counters -> Nat]]
      BY <1>2 DEF Init
    <2> QED BY <2>2, ConstantsAssumption DEF Init, TypeOK, NameOrNone
  <1>4. RequestsKnown
    BY <1>1, <1>2 DEF RequestsKnown, RequestKnown, Handled, Early
  <1>5. TenantNamesUnique
    BY DEF Init, TenantNamesUnique
  <1>6. MemoryUnused
    BY <1>1, <1>2 DEF MemoryUnused
  <1>7. HourCounts
    <2> SUFFICES ASSUME NEW o \in Owners, NEW n \in Nat
                 PROVE  /\ Cardinality(Passers(req, "redis", o, n)) <= n
                        /\ Cardinality(Passers(req, "redis", o, n)) <= redis[<<"hour", o>>]
                        /\ \A p \in Procs :
                             /\ Cardinality(PassersAt(req, p, o, n)) <= n
                             /\ Cardinality(PassersAt(req, p, o, n)) <= memory[p][<<"hour", o>>]
      BY DEF HourCounts
    <2>1. Passers(req, "redis", o, n) = {} /\ Passers(req, "memory", o, n) = {}
      BY <1>1, <1>2 DEF Passers
    <2>2. \A p : PassersAt(req, p, o, n) = {}
      BY <2>1 DEF PassersAt
    <2>3. redis[<<"hour", o>>] \in Nat /\ \A p \in Procs : memory[p][<<"hour", o>>] \in Nat
      BY <1>3, CountersOf DEF TypeOK
    <2>4. Cardinality({}) = 0
      BY FS_EmptySet
    <2> QED BY <2>1, <2>2, <2>3, <2>4
  <1> QED BY <1>3, <1>4, <1>5, <1>6, <1>7 DEF Inv

LEMMA StutterInv ==
  ASSUME Inv, UNCHANGED vars
  PROVE  Inv'
  BY DEF vars, Inv, TypeOK, RequestsKnown, TenantNamesUnique, HourCounts, MemoryUnused

LEMMA StepInv ==
  ASSUME Inv, [Next]_vars
  PROVE  Inv'
  <1>1. ASSUME NEW r \in Requests, Arrive(r) \/ CheckRole(r) \/ FillRole(r)
        PROVE  Inv'
    BY <1>1, ArriveStep, CheckRoleStep, FillRoleStep
  <1>2. ASSUME NEW r \in Requests, KeyInfo(r) \/ FillInfo(r) \/ CheckSize(r) \/ Authenticate(r)
        PROVE  Inv'
    BY <1>2, KeyInfoStep, FillInfoStep, CheckSizeStep, AuthenticateStep
  <1>3. ASSUME NEW r \in Requests, Ask(r) \/ Add(r) \/ NoRedis(r) \/ RedisFails(r)
        PROVE  Inv'
    BY <1>3, AskStep, AddStep, NoRedisStep, RedisFailsStep
  <1>4. ASSUME NEW r \in Requests, SelectKey(r) \/ SelectTenant(r) \/ IssueKey(r)
        PROVE  Inv'
    BY <1>4, SelectKeyStep, SelectTenantStep, IssueKeyStep
  <1>5. ASSUME NEW r \in Requests, CommitKey(r) \/ CommitTenant(r) \/ CommitPacket(r)
        PROVE  Inv'
    BY <1>5, CommitKeyStep, CommitTenantStep, CommitPacketStep
  <1> QED BY <1>1, <1>2, <1>3, <1>4, <1>5, StutterInv DEF Next

LEMMA InvAlways == Spec => []Inv
  <1>1. Init => Inv
    BY InitInv
  <1>2. Inv /\ [Next]_vars => Inv'
    BY StepInv
  <1> QED BY <1>1, <1>2, PTL DEF Spec

\* Every variable has its type.
THEOREM TypeInvariant == Spec => []TypeOK
  <1>1. Inv => TypeOK
    BY DEF Inv
  <1> QED BY <1>1, InvAlways, PTL

\* No handler runs for a key whose role is too low, whatever the caches of the role check
\* hold and whenever the key was revoked.
THEOREM RolesEnforced == Spec => []RoleEnforced
  <1>1. ASSUME Inv PROVE RoleEnforced
    BY <1>1 DEF Inv, RequestsKnown, RequestKnown, KeyKnown, Suffices, RoleEnforced, Admitted,
                Handled
  <1> QED BY <1>1, InvAlways, PTL

\* A request that comes after the revocation of its key never reaches a handler, although
\* no revocation empties a cache.
THEOREM RevokedRefused == Spec => []RevokedIsRefused
  <1>1. ASSUME Inv PROVE RevokedIsRefused
    BY <1>1 DEF Inv, RequestsKnown, RequestKnown, KeyKnown, RevokedIsRefused, Admitted, Handled
  <1> QED BY <1>1, InvAlways, PTL

\* What a handler gets was counted for its key's tenant and tier, although the rate
\* limiter looks the key up on its own and has a cache of its own.
THEOREM CountedRight == Spec => []CountedForOwner
  <1>1. ASSUME Inv PROVE CountedForOwner
    BY <1>1 DEF Inv, RequestsKnown, RequestKnown, KeyKnown, Matches, CountedForOwner, Admitted,
                Handled
  <1> QED BY <1>1, InvAlways, PTL

\* The unique index keeps the names of tenants apart, whatever checks overlap.
THEOREM NamesUnique == Spec => []TenantNamesUnique
  <1>1. Inv => TenantNamesUnique
    BY DEF Inv
  <1> QED BY <1>1, InvAlways, PTL

\* The hour holds in Redis and in each process, because the count that decides is the one
\* the increment returns; a process's own count is used only once Redis has failed.
THEOREM HourHolds == Spec => []HourLimitHolds
  <1>1. ASSUME Inv PROVE HourLimitHolds
    <2> SUFFICES ASSUME NEW r \in Requests
                 PROVE  LET limit == HourLimit[req[r].tier] IN
                        /\ Cardinality(Peers("hour", {"redis"}, r)) <= limit
                        /\ \A p \in Procs :
                             Cardinality({s \in Peers("hour", {"memory"}, r) : At[s] = p}) <= limit
                        /\ linked /\ faults = 0 => Peers("hour", {"memory"}, r) = {}
      BY DEF HourLimitHolds
    <2> DEFINE o == req[r].owner
               n == HourLimit[req[r].tier]
    <2>1. o \in Owners /\ n \in Nat
      BY <1>1, ReqFacts, ConstantsAssumption DEF Request
    <2>2. \A store : Peers("hour", {store}, r) = Passers(req, store, o, n)
      BY DEF Peers, Passers, Subject, Limit
    <2>3. \A p : {s \in Peers("hour", {"memory"}, r) : At[s] = p} = PassersAt(req, p, o, n)
      BY <2>2 DEF PassersAt
    <2>4. linked /\ faults = 0 => Passers(req, "memory", o, n) = {}
      BY <1>1 DEF Inv, MemoryUnused, Passers
    <2>5. HourCounts
      BY <1>1 DEF Inv
    <2> HIDE DEF o, n
    <2>6. /\ Cardinality(Passers(req, "redis", o, n)) <= n
          /\ \A p \in Procs : Cardinality(PassersAt(req, p, o, n)) <= n
      BY <2>1, <2>5 DEF HourCounts
    <2> QED BY <2>2, <2>3, <2>4, <2>6 DEF n
  <1> QED BY <1>1, InvAlways, PTL

-----------------------------------------------------------------------------
(* The windows that Redis is asked about first and told afterwards *)

Twice == {"minute", "day"}
Subjects(w) == IF w = "minute" THEN Keys \union {NoKey} ELSE Owners

\* Whom the window w counts the request p for, given the table of keys.
CountedAs(w, p, k) == IF w = "minute" THEN p.key ELSE k[p.key].owner

\* The request p has passed w by Redis, or has found it open.
Holds(w, p) == <<w, "redis">> \in p.passed \/ (p.pc = w /\ p.adding)

\* The requests q that did so for x, those that passed by a store, and those between
\* the two calls.
Holders(w, x, q, k) == {s \in Requests : Holds(w, q[s]) /\ CountedAs(w, q[s], k) = x}
Took(w, store, x, q, k) ==
  {s \in Requests : <<w, store>> \in q[s].passed /\ CountedAs(w, q[s], k) = x}
Adders(w, x, q, k) ==
  {s \in Requests : q[s].pc = w /\ q[s].adding /\ CountedAs(w, q[s], k) = x}
TookAt(p, x, q, k) == {s \in Took("minute", "memory", x, q, k) : At[s] = p}

\* Of any that hold a place in w, one explains by those beside it how many they are.
Explained(w, S, q) ==
  \E s \in S : Cardinality(S) <= Limit(w, FreeTier) + q[s].beside[w]

\* A request counts at a window, and for the day with a key that was issued.
Proper(p, k) ==
  /\ p.adding => p.pc \in Windows
  /\ \A store \in Stores : <<"day", store>> \in p.passed => p.key \in Keys /\ k[p.key].state # "none"

AllProper == \A s \in Requests : Proper(req[s], key)

CountedInRedis ==
  \A w \in Twice : \A x \in Subjects(w) : Cardinality(Took(w, "redis", x, req, key)) <= redis[<<w, x>>]

Crowds ==
  \A w \in Twice : \A x \in Subjects(w) : \A S \in SUBSET Holders(w, x, req, key) :
    S # {} => Explained(w, S, req)

CountedInMemory ==
  \A p \in Procs, x \in Subjects("minute") :
    /\ Cardinality(TookAt(p, x, req, key)) <= MinuteLimit
    /\ Cardinality(TookAt(p, x, req, key)) <= memory[p][<<"minute", x>>]

DayInRedis ==
  linked /\ faults = 0 => \A s \in Requests : <<"day", "memory">> \notin req[s].passed

TwiceKnown == AllProper /\ CountedInRedis /\ Crowds /\ CountedInMemory /\ DayInRedis

LEMMA FewRequests ==
  ASSUME NEW S \in SUBSET Requests
  PROVE  /\ IsFiniteSet(S) /\ Cardinality(S) \in Nat
         /\ \A T \in SUBSET S : Cardinality(T) \in Nat /\ Cardinality(T) <= Cardinality(S)
  <1>1. IsFiniteSet(S) /\ Cardinality(S) \in Nat
    BY ConstantsAssumption, FS_Subset, FS_CardinalityType
  <1>2. ASSUME NEW T \in SUBSET S
        PROVE  Cardinality(T) \in Nat /\ Cardinality(T) <= Cardinality(S)
    <2>1. IsFiniteSet(T) /\ Cardinality(T) <= Cardinality(S)
      BY <1>1, FS_Subset
    <2> QED BY <2>1, FS_CardinalityType
  <1> QED BY <1>1, <1>2

\* A key that was issued keeps its tenant.
KeysStay ==
  \A k \in Keys : key[k].state # "none" => key'[k].state # "none" /\ key'[k].owner = key[k].owner

LEMMA KeysUnchanged ==
  ASSUME UNCHANGED key
  PROVE  KeysStay
  BY DEF KeysStay

LEMMA HandlersKeepKeys ==
  ASSUME Inv, NEW r \in Requests, IssueKey(r) \/ CommitKey(r)
  PROVE  KeysStay
  <1>1. key \in [Keys -> Row]
    BY TablesType
  <1>2. CASE IssueKey(r)
    <2>1. PICK k \in Keys, role \in Asked, owner \in Owners :
            /\ key[k].state = "none"
            /\ IF owner # key[req[r].key].owner /\ key[req[r].key].role # "admin"
               THEN Moved(r, "refused") /\ UNCHANGED key
               ELSE Moved(r, "done")
                    /\ key' = Issued(k, GrantedRole(key[req[r].key].role, role), owner, FreeTier)
      BY <1>2 DEF IssueKey
    <2>2. \A j \in Keys \ {k} : key'[j] = key[j]
      BY <1>1, <2>1 DEF Issued
    <2> QED BY <2>1, <2>2 DEF KeysStay
  <1>3. CASE CommitKey(r)
    <2>1. req[r].target \in Keys /\ key[req[r].target].state # "none"
      BY <1>3, ReqFacts DEF CommitKey, RequestKnown
    <2>2. PICK k : k = req[r].target
      OBVIOUS
    <2>3. CASE key' = [key EXCEPT ![k].state = "revoked"]
      BY <1>1, <2>1, <2>2, <2>3 DEF KeysStay, Row
    <2>4. ASSUME NEW new \in Keys, key[new].state = "none",
                 key' = [Issued(new, key[k].role, key[k].owner, key[k].tier)
                           EXCEPT ![k].state = "revoked"]
          PROVE  KeysStay
      <3>1. PICK row : row = [state |-> "live", role |-> key[k].role, owner |-> key[k].owner,
                              tier |-> key[k].tier]
        OBVIOUS
      <3>2. key' = [[key EXCEPT ![new] = row] EXCEPT ![k].state = "revoked"]
        BY <2>4, <3>1 DEF Issued
      <3>3. new # k /\ k \in Keys
        BY <2>1, <2>2, <2>4
      <3>4. ASSUME NEW j \in Keys
            PROVE  j = new \/ (j = k /\ key'[j] = [key[j] EXCEPT !.state = "revoked"])
                   \/ key'[j] = key[j]
        <4>1. PICK mid : mid = [key EXCEPT ![new] = row]
          OBVIOUS
        <4>2. DOMAIN mid = Keys /\ \A i \in Keys \ {new} : mid[i] = key[i]
          BY <1>1, <4>1
        <4>3. key' = [mid EXCEPT ![k] = [mid[k] EXCEPT !.state = "revoked"]]
          BY <3>2, <4>1
        <4>4. CASE j = k
          BY <3>3, <4>2, <4>3, <4>4
        <4>5. CASE j # k
          BY <4>1, <4>2, <4>3, <4>5
        <4> QED BY <4>4, <4>5
      <3>5. ASSUME NEW j \in Keys, key[j].state # "none"
            PROVE  key'[j].state # "none" /\ key'[j].owner = key[j].owner
        <4>1. CASE j = k /\ key'[j] = [key[j] EXCEPT !.state = "revoked"]
          <5>1. key[j] \in Row
            BY <1>1
          <5> QED BY <4>1, <5>1 DEF Row
        <4>2. CASE key'[j] = key[j]
          BY <3>5, <4>2
        <4>3. j # new
          BY <2>4, <3>5
        <4> QED BY <3>4, <4>1, <4>2, <4>3
      <3> QED BY <3>5 DEF KeysStay
    <2>5. \/ key' = [key EXCEPT ![k].state = "revoked"]
          \/ \E new \in Keys :
               /\ key[new].state = "none"
               /\ key' = [Issued(new, key[k].role, key[k].owner, key[k].tier)
                            EXCEPT ![k].state = "revoked"]
      BY <1>3, <2>2 DEF CommitKey
    <2> QED BY <2>3, <2>4, <2>5
  <1> QED BY <1>2, <1>3

\* Whom a request at the window, or past it, is counted for.
LEMMA SubjectKnown ==
  ASSUME Inv, NEW r \in Requests, NEW w \in Twice, req[r].pc = w
  PROVE  /\ Counter(r) = <<w, CountedAs(w, req[r], key)>> /\ CountedAs(w, req[r], key) \in Subjects(w)
         /\ w = "day" => req[r].key \in Keys /\ key[req[r].key].state # "none"
  <1>1. req[r] \in Request /\ RequestKnown(req[r], key, tenant)
    BY ReqFacts
  <1>2. req[r].key \in Keys \union {NoKey}
    BY <1>1 DEF Request
  <1>3. w = "day" => req[r].key \in Keys /\ key[req[r].key].state # "none"
    BY <1>1, <1>2 DEF RequestKnown, KeyKnown, Handled
  <1>4. w = "day" => key[req[r].key].owner \in Owners
    BY <1>3, TablesType DEF Row
  <1> QED BY <1>2, <1>3, <1>4 DEF Counter, Subject, CountedAs, Subjects, Twice

LEMMA SubjectStays ==
  ASSUME Inv, TwiceKnown, KeysStay, NEW s \in Requests, NEW w \in Twice,
         (\E store \in Stores : <<w, store>> \in req[s].passed) \/ req[s].pc = w,
         NEW q, q.key = req[s].key
  PROVE  CountedAs(w, q, key') = CountedAs(w, req[s], key)
  <1>1. CASE w = "minute"
    BY <1>1 DEF CountedAs
  <1>2. CASE w = "day"
    <2>1. req[s].key \in Keys /\ key[req[s].key].state # "none"
      <3>1. CASE req[s].pc = w
        BY <1>2, <3>1, SubjectKnown
      <3>2. CASE \E store \in Stores : <<w, store>> \in req[s].passed
        BY <1>2, <3>2 DEF TwiceKnown, AllProper, Proper
      <3> QED BY <3>1, <3>2
    <2> QED BY <1>2, <2>1 DEF KeysStay, CountedAs
  <1> QED BY <1>1, <1>2 DEF Twice

LEMMA OthersSame ==
  ASSUME Inv, NEW r \in Requests, NEW q, req' = [req EXCEPT ![r] = q]
  PROVE  req'[r] = q /\ \A s \in Requests \ {r} : req'[s] = req[s]
  BY DEF Inv, TypeOK

LEMMA ProperStays ==
  ASSUME Inv, TwiceKnown, KeysStay, NEW r \in Requests, NEW q, req' = [req EXCEPT ![r] = q],
         q.adding => q.pc \in Windows,
         \A store \in Stores : <<"day", store>> \in q.passed =>
           q.key = req[r].key /\ (<<"day", store>> \in req[r].passed \/ req[r].pc = "day")
  PROVE  AllProper'
  <1>1. req'[r] = q /\ \A s \in Requests \ {r} : req'[s] = req[s]
    BY OthersSame
  <1>2. \A s \in Requests : Proper(req[s], key)
    BY DEF TwiceKnown, AllProper
  <1>3. req[r].pc = "day" => req[r].key \in Keys /\ key[req[r].key].state # "none"
    BY SubjectKnown DEF Twice
  <1>4. Proper(q, key')
    BY <1>2, <1>3 DEF Proper, KeysStay
  <1>5. ASSUME NEW s \in Requests \ {r} PROVE Proper(req'[s], key')
    BY <1>1, <1>2 DEF Proper, KeysStay
  <1> QED BY <1>1, <1>4, <1>5 DEF AllProper

\* Nobody new has a place.
LEMMA HoldersStay ==
  ASSUME Inv, TwiceKnown, KeysStay, NEW r \in Requests, NEW q, req' = [req EXCEPT ![r] = q],
         NEW w \in Twice, Holds(w, q) => Holds(w, req[r]) /\ q.key = req[r].key,
         NEW x
  PROVE  Holders(w, x, req', key') \in SUBSET Holders(w, x, req, key)
  <1> SUFFICES ASSUME NEW s \in Requests, Holds(w, req'[s]), CountedAs(w, req'[s], key') = x
               PROVE  Holds(w, req[s]) /\ CountedAs(w, req[s], key) = x
    BY DEF Holders
  <1>1. Holds(w, req[s]) /\ req'[s].key = req[s].key
    BY OthersSame
  <1>2. (\E store \in Stores : <<w, store>> \in req[s].passed) \/ req[s].pc = w
    BY <1>1 DEF Holds, Stores
  <1>3. CountedAs(w, req'[s], key') = CountedAs(w, req[s], key)
    BY <1>1, <1>2, SubjectStays
  <1> QED BY <1>1, <1>3

LEMMA CrowdStays ==
  ASSUME Inv, TwiceKnown, KeysStay, NEW r \in Requests, NEW q, req' = [req EXCEPT ![r] = q],
         NEW w \in Twice,
         Holds(w, q) => Holds(w, req[r]) /\ q.key = req[r].key /\ q.beside[w] = req[r].beside[w],
         NEW x \in Subjects(w), NEW S \in SUBSET Holders(w, x, req', key'), S # {}
  PROVE  Explained(w, S, req')
  <1>1. Holders(w, x, req', key') \in SUBSET Holders(w, x, req, key)
    BY HoldersStay
  <1>2. Explained(w, S, req)
    BY <1>1 DEF TwiceKnown, Crowds
  <1>3. PICK s \in S : Cardinality(S) <= Limit(w, FreeTier) + req[s].beside[w]
    BY <1>2 DEF Explained
  <1>4. s \in Requests /\ Holds(w, req'[s])
    BY DEF Holders
  <1>5. req'[s].beside[w] = req[s].beside[w]
    BY <1>4, OthersSame
  <1> QED BY <1>3, <1>5 DEF Explained

LEMMA TookStays ==
  ASSUME Inv, TwiceKnown, KeysStay, NEW r \in Requests, NEW q, req' = [req EXCEPT ![r] = q],
         NEW w \in Twice, NEW store \in Stores,
         <<w, store>> \in q.passed => <<w, store>> \in req[r].passed /\ q.key = req[r].key,
         NEW x
  PROVE  /\ Took(w, store, x, req, key) \in SUBSET Requests
         /\ Took(w, store, x, req', key') \in SUBSET Took(w, store, x, req, key)
  <1>1. ASSUME NEW s \in Requests, <<w, store>> \in req'[s].passed, CountedAs(w, req'[s], key') = x
        PROVE  <<w, store>> \in req[s].passed /\ CountedAs(w, req[s], key) = x
    <2>1. <<w, store>> \in req[s].passed /\ req'[s].key = req[s].key
      BY <1>1, OthersSame
    <2>2. CountedAs(w, req'[s], key') = CountedAs(w, req[s], key)
      BY <2>1, SubjectStays
    <2> QED BY <1>1, <2>1, <2>2
  <1> QED BY <1>1 DEF Took

\* r passes, and nobody else.
LEMMA TookGrows ==
  ASSUME Inv, TwiceKnown, KeysStay, NEW r \in Requests, NEW q, req' = [req EXCEPT ![r] = q],
         NEW w \in Twice, NEW store \in Stores, CountedAs(w, q, key') = CountedAs(w, req[r], key),
         NEW x
  PROVE  /\ Took(w, store, x, req, key) \in SUBSET Requests
         /\ Took(w, store, x, req', key') \in SUBSET (Took(w, store, x, req, key) \union {r})
         /\ CountedAs(w, req[r], key) # x =>
              Took(w, store, x, req', key') \in SUBSET Took(w, store, x, req, key)
  <1>1. ASSUME NEW s \in Requests \ {r},
               <<w, store>> \in req'[s].passed, CountedAs(w, req'[s], key') = x
        PROVE  <<w, store>> \in req[s].passed /\ CountedAs(w, req[s], key) = x
    <2>1. <<w, store>> \in req[s].passed /\ req'[s].key = req[s].key
      BY <1>1, OthersSame
    <2>2. CountedAs(w, req'[s], key') = CountedAs(w, req[s], key)
      BY <2>1, SubjectStays
    <2> QED BY <1>1, <2>1, <2>2
  <1>2. CountedAs(w, req'[r], key') = CountedAs(w, req[r], key)
    BY OthersSame
  <1> QED BY <1>1, <1>2 DEF Took

\* The counts that a step leaves alone, or raises without need.
LEMMA RedisStays ==
  ASSUME Inv, TwiceKnown, KeysStay, NEW r \in Requests, NEW q, req' = [req EXCEPT ![r] = q],
         NEW w \in Twice,
         <<w, "redis">> \in q.passed => <<w, "redis">> \in req[r].passed /\ q.key = req[r].key,
         NEW x \in Subjects(w), redis'[<<w, x>>] \in Nat, redis[<<w, x>>] \in Nat,
         redis[<<w, x>>] <= redis'[<<w, x>>]
  PROVE  Cardinality(Took(w, "redis", x, req', key')) <= redis'[<<w, x>>]
  <1>1. PICK P, Q : P = Took(w, "redis", x, req, key) /\ Q = Took(w, "redis", x, req', key')
    OBVIOUS
  <1>2. P \in SUBSET Requests /\ Q \in SUBSET P
    BY <1>1, TookStays DEF Stores
  <1>3. Cardinality(P) \in Nat /\ Cardinality(Q) \in Nat /\ Cardinality(Q) <= Cardinality(P)
    BY <1>2, FewRequests
  <1>4. Cardinality(P) <= redis[<<w, x>>]
    BY <1>1 DEF TwiceKnown, CountedInRedis
  <1>5. Cardinality(Q) <= redis'[<<w, x>>]
    BY <1>3, <1>4
  <1> QED BY <1>1, <1>5

LEMMA MemoryStays ==
  ASSUME Inv, TwiceKnown, KeysStay, NEW r \in Requests, NEW q, req' = [req EXCEPT ![r] = q],
         <<"minute", "memory">> \in q.passed =>
           <<"minute", "memory">> \in req[r].passed /\ q.key = req[r].key,
         NEW p \in Procs, NEW x \in Subjects("minute"),
         memory'[p][<<"minute", x>>] \in Nat, memory[p][<<"minute", x>>] \in Nat,
         memory[p][<<"minute", x>>] <= memory'[p][<<"minute", x>>]
  PROVE  /\ Cardinality(TookAt(p, x, req', key')) <= MinuteLimit
         /\ Cardinality(TookAt(p, x, req', key')) <= memory'[p][<<"minute", x>>]
  <1>1. PICK P, Q : P = TookAt(p, x, req, key) /\ Q = TookAt(p, x, req', key')
    OBVIOUS
  <1>2. P \in SUBSET Requests /\ Q \in SUBSET P
    <2>1. /\ Took("minute", "memory", x, req, key) \in SUBSET Requests
          /\ Took("minute", "memory", x, req', key') \in SUBSET Took("minute", "memory", x, req, key)
      BY TookStays DEF Stores, Twice
    <2> QED BY <1>1, <2>1 DEF TookAt
  <1>3. Cardinality(P) \in Nat /\ Cardinality(Q) \in Nat /\ Cardinality(Q) <= Cardinality(P)
    BY <1>2, FewRequests
  <1>4. Cardinality(P) <= MinuteLimit /\ Cardinality(P) <= memory[p][<<"minute", x>>]
    BY <1>1 DEF TwiceKnown, CountedInMemory
  <1>5. Cardinality(Q) <= MinuteLimit /\ Cardinality(Q) <= memory'[p][<<"minute", x>>]
    BY <1>3, <1>4, ConstantsAssumption
  <1> QED BY <1>1, <1>5

\* The counters of what is asked first and told afterwards.
LEMMA TwiceCounters ==
  ASSUME NEW w \in Twice, NEW x \in Subjects(w)
  PROVE  <<w, x>> \in Counters
  BY CountersOf DEF Twice, Subjects

\* Nobody has a count of Redis, or of a process, who did not have it.
LEMMA CountsKept ==
  ASSUME Inv, TwiceKnown, KeysStay, NEW r \in Requests, NEW q, req' = [req EXCEPT ![r] = q],
         \A w \in Twice, store \in Stores :
           <<w, store>> \in q.passed => <<w, store>> \in req[r].passed /\ q.key = req[r].key,
         UNCHANGED <<linked, redis, memory, faults>>
  PROVE  CountedInRedis' /\ CountedInMemory' /\ DayInRedis'
  <1>1. redis \in [Counters -> Nat] /\ memory \in [Procs -> [Counters -> Nat]]
    BY DEF Inv, TypeOK
  <1>2. ASSUME NEW w \in Twice, NEW x \in Subjects(w)
        PROVE  Cardinality(Took(w, "redis", x, req', key')) <= redis'[<<w, x>>]
    <2>1. redis[<<w, x>>] \in Nat /\ redis'[<<w, x>>] = redis[<<w, x>>]
      BY <1>1, TwiceCounters
    <2>2. <<w, "redis">> \in q.passed => <<w, "redis">> \in req[r].passed /\ q.key = req[r].key
      BY DEF Stores
    <2>3. redis'[<<w, x>>] \in Nat /\ redis[<<w, x>>] <= redis'[<<w, x>>]
      BY <2>1
    <2> QED BY <2>1, <2>2, <2>3, RedisStays
  <1>3. ASSUME NEW p \in Procs, NEW x \in Subjects("minute")
        PROVE  /\ Cardinality(TookAt(p, x, req', key')) <= MinuteLimit
               /\ Cardinality(TookAt(p, x, req', key')) <= memory'[p][<<"minute", x>>]
    <2>1. memory[p][<<"minute", x>>] \in Nat /\ memory'[p][<<"minute", x>>] = memory[p][<<"minute", x>>]
      BY <1>1, TwiceCounters DEF Twice
    <2>2. <<"minute", "memory">> \in q.passed =>
            <<"minute", "memory">> \in req[r].passed /\ q.key = req[r].key
      BY DEF Stores, Twice
    <2>3. memory'[p][<<"minute", x>>] \in Nat
          /\ memory[p][<<"minute", x>>] <= memory'[p][<<"minute", x>>]
      BY <2>1
    <2> QED BY <2>1, <2>2, <2>3, MemoryStays
  <1>4. DayInRedis'
    <2>1. \A s \in Requests : <<"day", "memory">> \in req'[s].passed => <<"day", "memory">> \in req[s].passed
      BY OthersSame DEF Stores, Twice
    <2> QED BY <2>1 DEF TwiceKnown, DayInRedis
  <1> QED BY <1>2, <1>3, <1>4 DEF CountedInRedis, CountedInMemory

\* A step of r that is not at a window.
LEMMA CalmTwice ==
  ASSUME Inv, TwiceKnown, KeysStay, NEW r \in Requests, NEW q, req' = [req EXCEPT ![r] = q],
         ~q.adding,
         q.passed = {} \/ (q.passed = req[r].passed /\ q.key = req[r].key /\ q.beside = req[r].beside),
         UNCHANGED <<linked, redis, memory, faults>>
  PROVE  TwiceKnown'
  <1>1. AllProper'
    BY ProperStays
  <1>2. \A w \in Twice, store \in Stores :
          <<w, store>> \in q.passed => <<w, store>> \in req[r].passed /\ q.key = req[r].key
    OBVIOUS
  <1>3. CountedInRedis' /\ CountedInMemory' /\ DayInRedis'
    BY <1>2, CountsKept
  <1>4. ASSUME NEW w \in Twice, NEW x \in Subjects(w),
               NEW S \in SUBSET Holders(w, x, req', key'), S # {}
        PROVE  Explained(w, S, req')
    <2>1. Holds(w, q) => Holds(w, req[r]) /\ q.key = req[r].key /\ q.beside[w] = req[r].beside[w]
      BY DEF Holds
    <2> QED BY <1>4, <2>1, CrowdStays
  <1> QED BY <1>1, <1>3, <1>4 DEF TwiceKnown, Crowds

LEMMA MovedTwice ==
  ASSUME Inv, TwiceKnown, KeysStay, NEW r \in Requests, NEW pc \in Pcs, Moved(r, pc),
         req[r].pc \notin Windows \/ ~req[r].adding,
         UNCHANGED <<linked, redis, memory, faults>>
  PROVE  TwiceKnown'
  <1>1. req[r] \in Request /\ ~req[r].adding
    BY ReqFacts DEF TwiceKnown, AllProper, Proper
  <1>2. PICK q : q = IF pc \notin {"done", "refused"} THEN [req[r] EXCEPT !.pc = pc]
                     ELSE [req[r] EXCEPT !.pc = pc, !.live = FALSE, !.target = NoKey, !.name = "none"]
    OBVIOUS
  <1>3. /\ q.adding = req[r].adding /\ q.passed = req[r].passed /\ q.key = req[r].key
        /\ q.beside = req[r].beside
    BY <1>1, <1>2 DEF Request
  <1>4. req' = [req EXCEPT ![r] = q]
    BY <1>2 DEF Moved
  <1> QED BY <1>1, <1>3, <1>4, CalmTwice

\* A step of r before it comes to a window.
LEMMA EarlyTwice ==
  ASSUME Inv, TwiceKnown, NEW r \in Requests,
         Arrive(r) \/ CheckRole(r) \/ FillRole(r) \/ KeyInfo(r) \/ FillInfo(r)
  PROVE  TwiceKnown'
  <1>1. /\ req[r] \in Request /\ req[r].pc \in {"idle", "role", "fillRole", "info", "fillInfo"}
        /\ UNCHANGED <<key, linked, redis, memory, faults>>
    BY ReqFacts DEF Arrive, CheckRole, FillRole, KeyInfo, FillInfo
  <1>2. ~req[r].adding /\ KeysStay /\ req[r].pc \notin Windows
    BY <1>1, KeysUnchanged DEF TwiceKnown, AllProper, Proper, Windows
  <1>3. ASSUME NEW pc \in {"info", "minute", "refused"}, Moved(r, pc)
        PROVE  TwiceKnown'
    BY <1>1, <1>2, <1>3, MovedTwice DEF Pcs, Windows
  <1>4. ASSUME NEW q, req' = [req EXCEPT ![r] = q], ~q.adding,
               q.passed = {} \/ (q.passed = req[r].passed /\ q.key = req[r].key /\ q.beside = req[r].beside)
        PROVE  TwiceKnown'
    BY <1>1, <1>2, <1>4, CalmTwice
  <1>5. CASE Arrive(r)
    <2>1. PICK op, k : req' = [req EXCEPT ![r] = Fresh(op, k)]
      BY <1>5 DEF Arrive
    <2>2. Fresh(op, k).adding = FALSE /\ Fresh(op, k).passed = {}
      BY DEF Fresh
    <2> QED BY <1>4, <2>1, <2>2
  <1>6. ASSUME NEW pc, NEW live, req' = [req EXCEPT ![r].pc = pc, ![r].live = live]
        PROVE  TwiceKnown'
    <2>1. PICK q : q = [req[r] EXCEPT !.pc = pc, !.live = live]
      OBVIOUS
    <2>2. req' = [req EXCEPT ![r] = q]
      BY <1>6, <2>1 DEF Inv, TypeOK
    <2>3. /\ q.adding = req[r].adding /\ q.passed = req[r].passed /\ q.key = req[r].key
          /\ q.beside = req[r].beside
      BY <1>1, <2>1 DEF Request
    <2> QED BY <1>2, <1>4, <2>2, <2>3
  <1>7. ASSUME NEW k, Counted(r, k)
        PROVE  TwiceKnown'
    <2>1. PICK q : q = [req[r] EXCEPT !.pc = "minute", !.owner = key[k].owner, !.tier = key[k].tier]
      OBVIOUS
    <2>2. req' = [req EXCEPT ![r] = q]
      BY <1>7, <2>1 DEF Inv, TypeOK, Counted
    <2>3. /\ q.adding = req[r].adding /\ q.passed = req[r].passed /\ q.key = req[r].key
          /\ q.beside = req[r].beside
      BY <1>1, <2>1 DEF Request
    <2> QED BY <1>2, <1>4, <2>2, <2>3
  <1>8. ASSUME NEW k, Ranked(r, k) PROVE TwiceKnown'
    BY <1>3, <1>8 DEF Ranked
  <1>9. CASE CheckRole(r)
    BY <1>3, <1>6, <1>8, <1>9 DEF CheckRole
  <1>10. CASE FillRole(r)
    BY <1>3, <1>8, <1>10 DEF FillRole
  <1>11. CASE KeyInfo(r)
    BY <1>3, <1>6, <1>7, <1>11 DEF KeyInfo
  <1>12. CASE FillInfo(r)
    BY <1>3, <1>7, <1>12 DEF FillInfo
  <1> QED BY <1>5, <1>9, <1>10, <1>11, <1>12

\* A step of r after the windows, or between them.
LEMMA LaterTwice ==
  ASSUME Inv, TwiceKnown, NEW r \in Requests,
         \/ CheckSize(r) \/ Authenticate(r) \/ SelectKey(r) \/ SelectTenant(r)
         \/ IssueKey(r) \/ CommitKey(r) \/ CommitTenant(r) \/ CommitPacket(r)
  PROVE  TwiceKnown'
  <1>1. /\ req[r] \in Request /\ req[r].pc \in {"size", "auth", "work", "commit"}
        /\ UNCHANGED <<linked, redis, memory, faults>>
    BY ReqFacts DEF CheckSize, Authenticate, SelectKey, SelectTenant, IssueKey, CommitKey,
                    CommitTenant, CommitPacket
  <1>2. KeysStay
    <2>1. IssueKey(r) \/ CommitKey(r) \/ UNCHANGED key
      BY DEF CheckSize, Authenticate, SelectKey, SelectTenant, CommitTenant, CommitPacket
    <2> QED BY <2>1, HandlersKeepKeys, KeysUnchanged
  <1>3. ~req[r].adding /\ req[r].pc \notin Windows
    BY <1>1 DEF TwiceKnown, AllProper, Proper, Windows
  <1>4. ASSUME NEW pc \in {"auth", "work", "done", "day", "commit", "refused"}, Moved(r, pc)
        PROVE  TwiceKnown'
    BY <1>1, <1>2, <1>3, <1>4, MovedTwice DEF Pcs, Windows
  <1>5. ASSUME NEW ok, NEW x, NEW n, Chosen(r, ok, x, n) PROVE TwiceKnown'
    <2>1. CASE ~ok
      BY <1>4, <1>5, <2>1 DEF Chosen
    <2>2. CASE ok
      <3>1. PICK q : q = [req[r] EXCEPT !.pc = "commit", !.target = x, !.name = n]
        OBVIOUS
      <3>2. req' = [req EXCEPT ![r] = q]
        BY <1>5, <2>2, <3>1 DEF Inv, TypeOK, Chosen
      <3>3. /\ q.adding = req[r].adding /\ q.passed = req[r].passed /\ q.key = req[r].key
            /\ q.beside = req[r].beside
        BY <1>1, <3>1 DEF Request
      <3> QED BY <1>1, <1>2, <1>3, <3>2, <3>3, CalmTwice
    <2> QED BY <2>1, <2>2
  <1>6. CASE SelectKey(r)
    BY <1>5, <1>6 DEF SelectKey
  <1>7. CASE SelectTenant(r)
    BY <1>5, <1>7 DEF SelectTenant
  <1>8. CASE CheckSize(r) \/ Authenticate(r)
    BY <1>4, <1>8 DEF CheckSize, Authenticate
  <1>9. CASE IssueKey(r) \/ CommitKey(r) \/ CommitTenant(r) \/ CommitPacket(r)
    BY <1>4, <1>9 DEF IssueKey, CommitKey, CommitTenant, CommitPacket
  <1> QED BY <1>6, <1>7, <1>8, <1>9

\* What a request is when its window is settled.
LEMMA SettledRequest ==
  ASSUME Inv, NEW r \in Requests, req[r].pc \in Windows, NEW store \in Stores, NEW q,
         q \in {PassedOn(req[r], store), TurnedAway(req[r])}
  PROVE  /\ q.key = req[r].key /\ q.beside = req[r].beside /\ ~q.adding
         /\ q.passed = req[r].passed \union {<<req[r].pc, store>>} \/ q.passed = req[r].passed
         /\ q = TurnedAway(req[r]) => q.passed = req[r].passed
  <1>1. req[r] \in Request
    BY ReqFacts
  <1>2. CASE q = TurnedAway(req[r])
    BY <1>1, <1>2 DEF TurnedAway, Request
  <1>3. CASE q = PassedOn(req[r], store)
    <2>1. /\ q.key = req[r].key /\ q.beside = req[r].beside /\ ~q.adding
          /\ q.passed = req[r].passed \union {<<req[r].pc, store>>}
      BY <1>1, <1>3 DEF PassedOn, Request
    <2>2. CASE q = TurnedAway(req[r])
      BY <1>2, <2>2
    <2>3. CASE q # TurnedAway(req[r])
      BY <2>1, <2>3
    <2> QED BY <2>2, <2>3
  <1> QED BY <1>2, <1>3

\* Who settles by Redis had a place before.
LEMMA SettledTwice ==
  ASSUME Inv, TwiceKnown, NEW r \in Requests, req[r].pc \in Windows, NEW store \in Stores, NEW q,
         q \in {PassedOn(req[r], store), TurnedAway(req[r])}, req' = [req EXCEPT ![r] = q],
         store = "redis" => req[r].adding, UNCHANGED key
  PROVE  AllProper' /\ Crowds'
  <1>1. /\ q.key = req[r].key /\ q.beside = req[r].beside /\ ~q.adding
        /\ q.passed = req[r].passed \union {<<req[r].pc, store>>} \/ q.passed = req[r].passed
    BY SettledRequest
  <1>2. KeysStay
    BY KeysUnchanged
  <1>3. \A w, s : <<w, s>> \in q.passed => <<w, s>> \in req[r].passed \/ (req[r].pc = w /\ s = store)
    BY <1>1
  <1>4. AllProper'
    BY <1>1, <1>2, <1>3, ProperStays
  <1>5. ASSUME NEW w \in Twice, NEW x \in Subjects(w),
               NEW S \in SUBSET Holders(w, x, req', key'), S # {}
        PROVE  Explained(w, S, req')
    <2>1. Holds(w, q) => Holds(w, req[r]) /\ q.key = req[r].key /\ q.beside[w] = req[r].beside[w]
      BY <1>1, <1>3 DEF Holds
    <2> QED BY <1>2, <1>5, <2>1, CrowdStays
  <1> QED BY <1>4, <1>5 DEF Crowds

LEMMA AddTwice ==
  ASSUME Inv, TwiceKnown, NEW r \in Requests, Add(r)
  PROVE  TwiceKnown'
  <1>1. /\ req[r].pc \in Windows /\ req[r].adding /\ Counter(r) \in Counters
        /\ UNCHANGED <<key, linked, memory, faults>>
    BY CounterType DEF Add
  <1>2. PICK q : /\ q \in {PassedOn(req[r], "redis"), TurnedAway(req[r])} /\ req' = [req EXCEPT ![r] = q]
                 /\ req[r].pc # "hour" => q = PassedOn(req[r], "redis")
    <2>1. req \in [Requests -> Request] /\ req[r] \in Request
      BY ReqFacts DEF Inv, TypeOK
    <2>2. CASE Judged(r)
      BY <2>1, <2>2 DEF Add, Settled, PassedOn
    <2>3. CASE ~Judged(r)
      <3>1. req[r].pc = "hour"
        BY <2>3 DEF Judged
      <3>2. req' = [req EXCEPT ![r] = TurnedAway(req[r])]
        BY <2>1, <2>3 DEF Add, Settled, TurnedAway, Request
      <3> QED BY <3>1, <3>2
    <2> QED BY <2>2, <2>3
  <1>3. /\ q.key = req[r].key /\ q.beside = req[r].beside /\ ~q.adding
        /\ q.passed = req[r].passed \union {<<req[r].pc, "redis">>} \/ q.passed = req[r].passed
    BY <1>1, <1>2, SettledRequest DEF Stores
  <1>4. KeysStay
    BY <1>1, KeysUnchanged
  <1>5. AllProper' /\ Crowds'
    BY <1>1, <1>2, SettledTwice DEF Stores
  <1>6. \A w, s : <<w, s>> \in q.passed => <<w, s>> \in req[r].passed \/ (req[r].pc = w /\ s = "redis")
    BY <1>3
  <1>7. /\ redis \in [Counters -> Nat] /\ memory \in [Procs -> [Counters -> Nat]]
        /\ redis' = [redis EXCEPT ![Counter(r)] = @ + 1]
    BY DEF Inv, TypeOK, Add
  <1>8. CountedInRedis'
    <2> SUFFICES ASSUME NEW w \in Twice, NEW x \in Subjects(w)
                 PROVE  Cardinality(Took(w, "redis", x, req', key')) <= redis'[<<w, x>>]
      BY DEF CountedInRedis
    <2>1. <<w, x>> \in Counters
      BY TwiceCounters
    <2>2. redis[<<w, x>>] \in Nat /\ redis'[<<w, x>>] \in Nat /\ redis[<<w, x>>] <= redis'[<<w, x>>]
          /\ (Counter(r) = <<w, x>> => redis'[<<w, x>>] = redis[<<w, x>>] + 1)
      <3>1. CASE Counter(r) = <<w, x>>
        <4>1. redis'[<<w, x>>] = redis[<<w, x>>] + 1 /\ redis[<<w, x>>] \in Nat
          BY <1>7, <2>1, <3>1
        <4> QED BY <4>1
      <3>2. CASE Counter(r) # <<w, x>>
        <4>1. redis'[<<w, x>>] = redis[<<w, x>>] /\ redis[<<w, x>>] \in Nat
          BY <1>7, <2>1, <3>2
        <4> QED BY <3>2, <4>1
      <3> QED BY <3>1, <3>2
    <2>3. CASE req[r].pc # w
      <3>1. <<w, "redis">> \in q.passed => <<w, "redis">> \in req[r].passed /\ q.key = req[r].key
        BY <1>3, <1>6, <2>3
      <3> QED BY <1>2, <1>4, <2>2, <3>1, RedisStays
    <2>4. CASE req[r].pc = w
      <3>1. Counter(r) = <<w, CountedAs(w, req[r], key)>>
        BY <2>4, SubjectKnown
      <3>2. PICK P, Q : P = Took(w, "redis", x, req, key) /\ Q = Took(w, "redis", x, req', key')
        OBVIOUS
      <3>3. /\ P \in SUBSET Requests /\ Q \in SUBSET (P \union {r})
            /\ CountedAs(w, req[r], key) # x => Q \in SUBSET P
        <4>1. PICK store \in Stores : store = "redis"
          BY DEF Stores
        <4>2. req' = [req EXCEPT ![r] = q] /\ CountedAs(w, q, key') = CountedAs(w, req[r], key)
          BY <1>1, <1>2, <1>3 DEF CountedAs
        <4>3. /\ Took(w, store, x, req, key) \in SUBSET Requests
              /\ Took(w, store, x, req', key') \in SUBSET (Took(w, store, x, req, key) \union {r})
              /\ CountedAs(w, req[r], key) # x =>
                   Took(w, store, x, req', key') \in SUBSET Took(w, store, x, req, key)
          BY <1>4, <4>2, TookGrows
        <4> QED BY <3>2, <4>1, <4>3
      <3>4. Cardinality(P) <= redis[<<w, x>>] /\ IsFiniteSet(P) /\ Cardinality(P) \in Nat
        BY <3>2, <3>3, FewRequests DEF TwiceKnown, CountedInRedis
      <3>5. CASE CountedAs(w, req[r], key) = x
        <4>1. Cardinality(Q) \in Nat /\ Cardinality(Q) <= Cardinality(P) + 1
          BY <3>3, <3>4, OneMore
        <4>2. redis'[<<w, x>>] = redis[<<w, x>>] + 1
          BY <2>2, <3>1, <3>5
        <4>3. Cardinality(Q) <= redis'[<<w, x>>]
          BY <2>2, <3>4, <4>1, <4>2
        <4> QED BY <3>2, <4>3
      <3>6. CASE CountedAs(w, req[r], key) # x
        <4>1. Cardinality(Q) \in Nat /\ Cardinality(Q) <= Cardinality(P)
          BY <3>3, <3>6, FewRequests
        <4>2. Cardinality(Q) <= redis'[<<w, x>>]
          BY <2>2, <3>4, <4>1
        <4> QED BY <3>2, <4>2
      <3> QED BY <3>5, <3>6
    <2> QED BY <2>3, <2>4
  <1>9. CountedInMemory'
    <2> SUFFICES ASSUME NEW p \in Procs, NEW x \in Subjects("minute")
                 PROVE  /\ Cardinality(TookAt(p, x, req', key')) <= MinuteLimit
                        /\ Cardinality(TookAt(p, x, req', key')) <= memory'[p][<<"minute", x>>]
      BY DEF CountedInMemory
    <2>1. memory[p][<<"minute", x>>] \in Nat /\ memory'[p][<<"minute", x>>] = memory[p][<<"minute", x>>]
      BY <1>1, <1>7, TwiceCounters DEF Twice
    <2>2. <<"minute", "memory">> \in q.passed =>
            <<"minute", "memory">> \in req[r].passed /\ q.key = req[r].key
      BY <1>3, <1>6
    <2>3. memory'[p][<<"minute", x>>] \in Nat
          /\ memory[p][<<"minute", x>>] <= memory'[p][<<"minute", x>>]
      BY <2>1
    <2> QED BY <1>2, <1>4, <2>1, <2>2, <2>3, MemoryStays
  <1>10. DayInRedis'
    <2>1. \A s \in Requests : <<"day", "memory">> \in req'[s].passed => <<"day", "memory">> \in req[s].passed
      BY <1>2, <1>6, OthersSame
    <2> QED BY <1>1, <2>1 DEF TwiceKnown, DayInRedis
  <1> QED BY <1>5, <1>8, <1>9, <1>10 DEF TwiceKnown

\* The process decides by its own count.
LEMMA FallbackTwice ==
  ASSUME Inv, TwiceKnown, NEW r \in Requests, req[r].pc \in Windows, Fallback(r),
         redis' \in [Counters -> Nat], \A x \in Counters : redis[x] <= redis'[x],
         UNCHANGED <<key, linked>>, faults' # 0 \/ faults' = faults,
         req[r].pc = "day" => ~linked \/ faults' # 0
  PROVE  TwiceKnown'
  <1>1. PICK x, n, ok :
          /\ x = Counter(r) /\ n = memory[At[r]][x]
          /\ ok = ((req[r].pc = "day" /\ req[r].adding) \/ ~Full(n, r))
    OBVIOUS
  <1>2. x \in Counters /\ At[r] \in Procs
    BY <1>1, CounterType DEF Procs
  <1>3. /\ redis \in [Counters -> Nat] /\ memory \in [Procs -> [Counters -> Nat]]
        /\ req \in [Requests -> Request] /\ n \in Nat
    BY <1>1, <1>2 DEF Inv, TypeOK
  <1>4. memory' = memory \/ memory' = [memory EXCEPT ![At[r]][x] = n + 1]
    BY <1>1 DEF Fallback
  <1>5. PICK q : /\ q \in {PassedOn(req[r], "memory"), TurnedAway(req[r])} /\ req' = [req EXCEPT ![r] = q]
                 /\ q # TurnedAway(req[r]) /\ req[r].pc = "minute" =>
                      ~Full(n, r) /\ memory' = [memory EXCEPT ![At[r]][x] = n + 1]
    <2>1. CASE (req[r].pc = "day" /\ req[r].adding) \/ ~Full(n, r)
      <3>1. req' = [req EXCEPT ![r] = PassedOn(req[r], "memory")]
        BY <1>1, <1>3, <2>1 DEF Fallback, Settled, PassedOn
      <3>2. req[r].pc = "minute" => ~Full(n, r) /\ memory' = [memory EXCEPT ![At[r]][x] = n + 1]
        BY <1>1, <2>1 DEF Fallback
      <3> QED BY <3>1, <3>2
    <2>2. CASE ~((req[r].pc = "day" /\ req[r].adding) \/ ~Full(n, r))
      <3>1. req' = [req EXCEPT ![r] = TurnedAway(req[r])]
        BY <1>1, <1>3, <2>2, ReqFacts DEF Fallback, Settled, TurnedAway, Request
      <3> QED BY <3>1
    <2> QED BY <2>1, <2>2
  <1>6. /\ q.key = req[r].key /\ q.beside = req[r].beside /\ ~q.adding
        /\ q.passed = req[r].passed \union {<<req[r].pc, "memory">>} \/ q.passed = req[r].passed
        /\ q = TurnedAway(req[r]) => q.passed = req[r].passed
    BY <1>5, SettledRequest DEF Stores
  <1>7. KeysStay
    BY KeysUnchanged
  <1>8. AllProper' /\ Crowds'
    BY <1>5, SettledTwice DEF Stores
  <1>9. \A w, s : <<w, s>> \in q.passed => <<w, s>> \in req[r].passed \/ (req[r].pc = w /\ s = "memory")
    BY <1>6
  <1>10. CountedInRedis'
    <2> SUFFICES ASSUME NEW w \in Twice, NEW y \in Subjects(w)
                 PROVE  Cardinality(Took(w, "redis", y, req', key')) <= redis'[<<w, y>>]
      BY DEF CountedInRedis
    <2>1. redis[<<w, y>>] \in Nat /\ redis'[<<w, y>>] \in Nat /\ redis[<<w, y>>] <= redis'[<<w, y>>]
      BY <1>3, TwiceCounters
    <2>2. <<w, "redis">> \in q.passed => <<w, "redis">> \in req[r].passed /\ q.key = req[r].key
      BY <1>6, <1>9
    <2> QED BY <1>5, <1>7, <2>1, <2>2, RedisStays
  <1>11. CountedInMemory'
    <2> SUFFICES ASSUME NEW p \in Procs, NEW y \in Subjects("minute")
                 PROVE  /\ Cardinality(TookAt(p, y, req', key')) <= MinuteLimit
                        /\ Cardinality(TookAt(p, y, req', key')) <= memory'[p][<<"minute", y>>]
      BY DEF CountedInMemory
    <2>1. <<"minute", y>> \in Counters /\ memory[p][<<"minute", y>>] \in Nat
      BY <1>3, TwiceCounters DEF Twice
    <2>2. memory'[p][<<"minute", y>>] =
            IF memory' # memory /\ p = At[r] /\ x = <<"minute", y>> THEN n + 1
            ELSE memory[p][<<"minute", y>>]
      <3>1. CASE memory' = memory
        BY <3>1
      <3>2. CASE memory' # memory /\ memory' = [memory EXCEPT ![At[r]][x] = n + 1]
        <4>1. CASE p = At[r] /\ x = <<"minute", y>>
          BY <1>2, <1>3, <2>1, <3>2, <4>1
        <4>2. CASE p # At[r]
          BY <1>2, <1>3, <3>2, <4>2
        <4>3. CASE p = At[r] /\ x # <<"minute", y>>
          BY <1>2, <1>3, <2>1, <3>2, <4>3
        <4> QED BY <4>1, <4>2, <4>3
      <3> QED BY <1>4, <3>1, <3>2
    <2>3. p = At[r] /\ x = <<"minute", y>> => n = memory[p][<<"minute", y>>]
      BY <1>1
    <2>4. memory'[p][<<"minute", y>>] \in Nat
          /\ memory[p][<<"minute", y>>] <= memory'[p][<<"minute", y>>]
      BY <1>3, <2>1, <2>2, <2>3
    <2>5. CASE req[r].pc # "minute" \/ q = TurnedAway(req[r])
      <3>1. <<"minute", "memory">> \in q.passed =>
              <<"minute", "memory">> \in req[r].passed /\ q.key = req[r].key
        BY <1>6, <1>9, <2>5
      <3> QED BY <1>5, <1>7, <2>1, <2>4, <3>1, MemoryStays
    <2>6. CASE req[r].pc = "minute" /\ q # TurnedAway(req[r])
      <3>1. x = <<"minute", CountedAs("minute", req[r], key)>>
        BY <1>1, <2>6, SubjectKnown DEF Twice
      <3>2. memory' = [memory EXCEPT ![At[r]][x] = n + 1] /\ n < MinuteLimit
        <4>1. ~Full(n, r) /\ memory' = [memory EXCEPT ![At[r]][x] = n + 1]
          BY <1>5, <2>6
        <4> QED BY <1>3, <2>6, <4>1, ConstantsAssumption DEF Full, Limit
      <3>3. PICK P, Q : P = TookAt(p, y, req, key) /\ Q = TookAt(p, y, req', key')
        OBVIOUS
      <3>4. /\ P \in SUBSET Requests /\ Q \in SUBSET (P \union {r})
            /\ CountedAs("minute", req[r], key) # y \/ p # At[r] => Q \in SUBSET P
        <4>1. PICK A, B : /\ A = Took("minute", "memory", y, req, key)
                          /\ B = Took("minute", "memory", y, req', key')
          OBVIOUS
        <4>2. /\ A \in SUBSET Requests /\ B \in SUBSET (A \union {r})
              /\ CountedAs("minute", req[r], key) # y => B \in SUBSET A
          <5>1. CountedAs("minute", q, key') = CountedAs("minute", req[r], key)
            BY <1>6 DEF CountedAs
          <5> QED BY <1>5, <1>7, <4>1, <5>1, TookGrows DEF Stores, Twice
        <4>3. P = {s \in A : At[s] = p} /\ Q = {s \in B : At[s] = p}
          BY <3>3, <4>1 DEF TookAt
        <4> QED BY <4>2, <4>3
      <3>5. /\ Cardinality(P) <= MinuteLimit /\ Cardinality(P) <= memory[p][<<"minute", y>>]
            /\ IsFiniteSet(P) /\ Cardinality(P) \in Nat
        BY <3>3, <3>4, FewRequests DEF TwiceKnown, CountedInMemory
      <3>6. CASE CountedAs("minute", req[r], key) = y /\ p = At[r]
        <4>1. Cardinality(Q) \in Nat /\ Cardinality(Q) <= Cardinality(P) + 1
          BY <3>4, <3>5, OneMore
        <4>2. memory[p][<<"minute", y>>] = n /\ memory'[p][<<"minute", y>>] = n + 1
          <5>1. x = <<"minute", y>>
            BY <3>1, <3>6
          <5> QED BY <1>2, <1>3, <2>1, <2>3, <3>2, <3>6, <5>1
        <4>3. Cardinality(Q) <= MinuteLimit /\ Cardinality(Q) <= memory'[p][<<"minute", y>>]
          BY <1>3, <3>2, <3>5, <4>1, <4>2, ConstantsAssumption
        <4> QED BY <3>3, <4>3
      <3>7. CASE CountedAs("minute", req[r], key) # y \/ p # At[r]
        <4>1. Cardinality(Q) \in Nat /\ Cardinality(Q) <= Cardinality(P)
          BY <3>4, <3>7, FewRequests
        <4>2. Cardinality(Q) <= MinuteLimit /\ Cardinality(Q) <= memory'[p][<<"minute", y>>]
          BY <2>1, <2>4, <3>5, <4>1, ConstantsAssumption
        <4> QED BY <3>3, <4>2
      <3> QED BY <3>6, <3>7
    <2> QED BY <2>5, <2>6
  <1>12. DayInRedis'
    <2>1. CASE ~linked' \/ faults' # 0
      BY <2>1 DEF DayInRedis
    <2>2. CASE linked' /\ faults' = 0
      <3>1. \A s \in Requests : <<"day", "memory">> \in req'[s].passed => <<"day", "memory">> \in req[s].passed
        BY <1>5, <1>9, <2>2, OthersSame
      <3> QED BY <2>2, <3>1 DEF TwiceKnown, DayInRedis
    <2> QED BY <2>1, <2>2
  <1> QED BY <1>8, <1>10, <1>11, <1>12 DEF TwiceKnown

\* Of those who hold a place once r has found the window open, r knows the others: they
\* were counted, or beside it.
LEMMA AskedCrowd ==
  ASSUME Inv, TwiceKnown, NEW r \in Requests, NEW q, req' = [req EXCEPT ![r] = q], UNCHANGED key,
         NEW w \in Twice, req[r].pc = w, ~Full(redis[Counter(r)], r),
         q.key = req[r].key, q.beside[w] = Beside(r),
         NEW x \in Subjects(w), NEW S \in SUBSET Holders(w, x, req', key'), r \in S
  PROVE  Explained(w, S, req')
  <1>1. req'[r] = q /\ \A s \in Requests \ {r} : req'[s] = req[s]
    BY OthersSame
  <1>2. /\ Counter(r) = <<w, CountedAs(w, req[r], key)>> /\ Counter(r) \in Counters
        /\ CountedAs(w, req[r], key) = x
    <2>1. CountedAs(w, req'[r], key') = x
      BY DEF Holders
    <2>2. CountedAs(w, req'[r], key') = CountedAs(w, req[r], key)
      BY <1>1 DEF CountedAs
    <2> QED BY <2>1, <2>2, SubjectKnown, CounterType DEF Twice, Windows
  <1>3. PICK A, B, c, b : /\ A = Took(w, "redis", x, req, key) /\ B = Adders(w, x, req, key) \ {r}
                          /\ c = redis[Counter(r)] /\ b = Beside(r)
    OBVIOUS
  <1>4. /\ A \in SUBSET Requests /\ B \in SUBSET Requests /\ c \in Nat
        /\ IsFiniteSet(A) /\ Cardinality(A) \in Nat /\ IsFiniteSet(B) /\ Cardinality(B) \in Nat
    <2>1. A \in SUBSET Requests /\ B \in SUBSET Requests
      BY <1>3 DEF Took, Adders
    <2>2. c \in Nat
      BY <1>2, <1>3 DEF Inv, TypeOK
    <2> QED BY <2>1, <2>2, FewRequests
  <1>5. Cardinality(A) <= c
    BY <1>2, <1>3 DEF TwiceKnown, CountedInRedis
  <1>6. Cardinality(B) = b
    <2>1. ASSUME NEW s \in Requests \ {r}
          PROVE  (req[s].adding /\ req[s].pc \in Windows /\ Counter(s) = Counter(r))
                 <=> (req[s].pc = w /\ req[s].adding /\ CountedAs(w, req[s], key) = x)
      <3>1. Counter(r) = <<w, x>>
        BY <1>2
      <3>2. Counter(s) = <<req[s].pc, Subject(req[s].pc, s)>>
        BY DEF Counter
      <3>3. Counter(s) = Counter(r) => req[s].pc = w
        BY <3>1, <3>2
      <3>4. req[s].pc = w => Counter(s) = <<w, CountedAs(w, req[s], key)>>
        BY SubjectKnown
      <3>5. w \in Windows
        BY DEF Twice, Windows
      <3> QED BY <3>1, <3>3, <3>4, <3>5
    <2>2. B = {s \in Requests \ {r} : req[s].adding /\ req[s].pc \in Windows /\ Counter(s) = Counter(r)}
      BY <1>3, <2>1 DEF Adders
    <2> QED BY <1>3, <2>2 DEF Beside
  <1>7. S \ {r} \in SUBSET (A \union B)
    <2>1. ASSUME NEW s \in S, s # r PROVE s \in A \union B
      <3>1. s \in Requests /\ Holds(w, req[s]) /\ CountedAs(w, req[s], key) = x
        BY <1>1, <2>1 DEF Holders
      <3> QED BY <1>3, <2>1, <3>1 DEF Holds, Took, Adders
    <2> QED BY <2>1
  <1>8. Cardinality(S) \in Nat /\ Cardinality(S) <= c + b + 1
    <2>1. PICK T : T = S \ {r}
      OBVIOUS
    <2>2. PICK C : C = A \union B
      OBVIOUS
    <2>3. /\ IsFiniteSet(A \intersect B) /\ Cardinality(A \intersect B) \in Nat
          /\ C \in SUBSET Requests /\ T \in SUBSET C
      <3>1. A \intersect B \in SUBSET Requests
        BY <1>4
      <3> QED BY <1>4, <1>7, <2>1, <2>2, <3>1, FewRequests
    <2>4. Cardinality(C) = Cardinality(A) + Cardinality(B) - Cardinality(A \intersect B)
      BY <1>4, <2>2, FS_Union
    <2>5. /\ Cardinality(C) \in Nat /\ Cardinality(T) \in Nat /\ Cardinality(T) <= Cardinality(C)
          /\ IsFiniteSet(T)
      <3>1. T \in SUBSET Requests
        BY <2>3
      <3> QED BY <2>3, <3>1, FewRequests
    <2>6. Cardinality(S) \in Nat /\ Cardinality(S) <= Cardinality(T) + 1
      <3>1. S \in SUBSET (T \union {r})
        BY <2>1
      <3> QED BY <2>5, <3>1, OneMore
    <2> QED BY <1>4, <1>5, <1>6, <2>3, <2>4, <2>5, <2>6
  <1>9. c < Limit(w, FreeTier) /\ Limit(w, FreeTier) \in Nat
    <2>1. Limit(w, req[r].tier) = Limit(w, FreeTier) /\ Limit(w, FreeTier) \in Nat
      BY ConstantsAssumption DEF Limit, Twice
    <2> QED BY <1>3, <1>4, <2>1 DEF Full
  <1>10. b \in Nat
    BY <1>4, <1>6
  <1>11. Cardinality(S) <= Limit(w, FreeTier) + b
    BY <1>4, <1>8, <1>9, <1>10
  <1>12. req'[r].beside[w] = b
    BY <1>1, <1>3
  <1> QED BY <1>11, <1>12 DEF Explained

LEMMA AskTwice ==
  ASSUME Inv, TwiceKnown, NEW r \in Requests, Ask(r)
  PROVE  TwiceKnown'
  <1>1. /\ req[r].pc \in Windows /\ ~req[r].adding /\ req[r] \in Request
        /\ UNCHANGED <<key, linked, redis, faults>>
    BY ReqFacts DEF Ask
  <1>2. KeysStay /\ redis \in [Counters -> Nat] /\ \A x \in Counters : redis[x] \in Nat
    BY <1>1, KeysUnchanged DEF Inv, TypeOK
  <1>3. CASE req[r].pc = "minute" /\ Fallback(r)
    <2>1. redis' \in [Counters -> Nat] /\ \A x \in Counters : redis[x] <= redis'[x]
      BY <1>1, <1>2
    <2> QED BY <1>1, <1>3, <2>1, FallbackTwice
  <1>4. CASE Moved(r, "refused") /\ UNCHANGED memory
    BY <1>1, <1>2, <1>4, MovedTwice DEF Pcs
  <1>5. CASE /\ req' = [req EXCEPT ![r].adding = TRUE, ![r].beside[req[r].pc] = Beside(r)]
             /\ UNCHANGED memory /\ (req[r].pc # "hour" => ~Full(redis[Counter(r)], r))
    <2>1. PICK q : q = [req[r] EXCEPT !.adding = TRUE, !.beside = [@ EXCEPT ![req[r].pc] = Beside(r)]]
      OBVIOUS
    <2>2. req' = [req EXCEPT ![r] = q]
      BY <1>5, <2>1 DEF Inv, TypeOK
    <2>3. /\ q.pc = req[r].pc /\ q.key = req[r].key /\ q.passed = req[r].passed
          /\ q.beside = [req[r].beside EXCEPT ![req[r].pc] = Beside(r)]
      BY <1>1, <2>1 DEF Request
    <2>4. /\ q.beside[req[r].pc] = Beside(r)
          /\ \A w \in Twice \ {req[r].pc} : q.beside[w] = req[r].beside[w]
      BY <1>1, <2>3 DEF Request, Twice, Windows
    <2>5. AllProper'
      BY <1>1, <1>2, <2>2, <2>3, ProperStays
    <2>6. CountedInRedis' /\ CountedInMemory' /\ DayInRedis'
      <3>1. \A w \in Twice, store \in Stores :
              <<w, store>> \in q.passed => <<w, store>> \in req[r].passed /\ q.key = req[r].key
        BY <2>3
      <3> QED BY <1>1, <1>2, <1>5, <2>2, <3>1, CountsKept
    <2>7. ASSUME NEW w \in Twice, NEW x \in Subjects(w),
                 NEW S \in SUBSET Holders(w, x, req', key'), S # {}
          PROVE  Explained(w, S, req')
      <3>1. CASE req[r].pc # w
        <4>1. Holds(w, q) => Holds(w, req[r]) /\ q.key = req[r].key /\ q.beside[w] = req[r].beside[w]
          BY <2>3, <2>4, <3>1 DEF Holds
        <4> QED BY <1>2, <2>2, <2>7, <4>1, CrowdStays
      <3>2. CASE req[r].pc = w /\ r \in S
        <4>1. ~Full(redis[Counter(r)], r)
          BY <1>5, <3>2 DEF Twice
        <4>2. q.beside[w] = Beside(r)
          BY <2>4, <3>2
        <4> QED BY <1>1, <2>2, <2>3, <2>7, <3>2, <4>1, <4>2, AskedCrowd
      <3>3. CASE r \notin S
        <4>1. S \in SUBSET Holders(w, x, req, key)
          <5>1. ASSUME NEW s \in S PROVE s \in Holders(w, x, req, key)
            <6>1. s \in Requests \ {r} /\ Holds(w, req'[s]) /\ CountedAs(w, req'[s], key') = x
              BY <3>3 DEF Holders
            <6>2. req'[s] = req[s]
              BY <2>2, <6>1, OthersSame
            <6>3. CountedAs(w, req[s], key) = x
              BY <1>1, <6>1, <6>2
            <6> QED BY <6>1, <6>2, <6>3 DEF Holders
          <5> QED BY <5>1
        <4>2. Explained(w, S, req)
          BY <2>7, <4>1 DEF TwiceKnown, Crowds
        <4>3. PICK s \in S : Cardinality(S) <= Limit(w, FreeTier) + req[s].beside[w]
          BY <4>2 DEF Explained
        <4>4. req'[s] = req[s]
          <5>1. s \in Requests \ {r}
            BY <3>3, <4>1 DEF Holders
          <5> QED BY <2>2, <5>1, OthersSame
        <4> QED BY <4>3, <4>4 DEF Explained
      <3> QED BY <3>1, <3>2, <3>3
    <2> QED BY <2>5, <2>6, <2>7 DEF TwiceKnown, Crowds
  <1> QED BY <1>3, <1>4, <1>5 DEF Ask

LEMMA FailsTwice ==
  ASSUME Inv, TwiceKnown, NEW r \in Requests, NoRedis(r) \/ RedisFails(r)
  PROVE  TwiceKnown'
  <1>1. req[r].pc \in Windows /\ Fallback(r) /\ UNCHANGED <<key, linked>>
    BY DEF NoRedis, RedisFails
  <1>2. redis \in [Counters -> Nat] /\ faults \in Nat /\ Counter(r) \in Counters
    BY <1>1, CounterType DEF Inv, TypeOK
  <1>3. CASE NoRedis(r)
    <2>1. redis' \in [Counters -> Nat] /\ \A x \in Counters : redis[x] <= redis'[x]
      <3>1. redis' = redis /\ \A x \in Counters : redis[x] \in Nat
        BY <1>2, <1>3 DEF NoRedis
      <3> QED BY <1>2, <3>1
    <2>2. faults' = faults /\ ~linked
      BY <1>3 DEF NoRedis
    <2> QED BY <1>1, <2>1, <2>2, FallbackTwice
  <1>4. CASE RedisFails(r)
    <2>1. PICK c : c = Counter(r)
      OBVIOUS
    <2>2. redis' = redis \/ redis' = [redis EXCEPT ![c] = @ + 1]
      BY <1>4, <2>1 DEF RedisFails
    <2>3. redis' \in [Counters -> Nat] /\ \A x \in Counters : redis[x] <= redis'[x]
      <3>1. ASSUME NEW x \in Counters
            PROVE  redis'[x] \in Nat /\ redis[x] <= redis'[x]
        <4>1. redis[x] \in Nat /\ redis[c] \in Nat
          BY <1>2, <2>1
        <4>2. redis'[x] = redis[x] \/ (x = c /\ redis'[x] = redis[c] + 1)
          BY <1>2, <2>1, <2>2
        <4> QED BY <4>1, <4>2
      <3>2. redis' = [x \in Counters |-> redis'[x]]
        BY <1>2, <2>2
      <3> QED BY <3>1, <3>2
    <2>4. faults' # 0
      BY <1>2, <1>4 DEF RedisFails
    <2> QED BY <1>1, <2>3, <2>4, FallbackTwice
  <1> QED BY <1>3, <1>4

LEMMA StepTwice ==
  ASSUME Inv, TwiceKnown, [Next]_vars
  PROVE  TwiceKnown'
  <1>1. ASSUME NEW r \in Requests,
               Arrive(r) \/ CheckRole(r) \/ FillRole(r) \/ KeyInfo(r) \/ FillInfo(r)
        PROVE  TwiceKnown'
    BY <1>1, EarlyTwice
  <1>2. ASSUME NEW r \in Requests, Ask(r) \/ Add(r) \/ NoRedis(r) \/ RedisFails(r)
        PROVE  TwiceKnown'
    BY <1>2, AskTwice, AddTwice, FailsTwice
  <1>3. ASSUME NEW r \in Requests,
               \/ CheckSize(r) \/ Authenticate(r) \/ SelectKey(r) \/ SelectTenant(r)
               \/ IssueKey(r) \/ CommitKey(r) \/ CommitTenant(r) \/ CommitPacket(r)
        PROVE  TwiceKnown'
    BY <1>3, LaterTwice
  <1>4. CASE UNCHANGED vars
    BY <1>4 DEF vars, TwiceKnown, AllProper, CountedInRedis, Crowds, CountedInMemory, DayInRedis
  <1> QED BY <1>1, <1>2, <1>3, <1>4 DEF Next

LEMMA InitTwice ==
  ASSUME Init
  PROVE  TwiceKnown
  <1>1. \A s \in Requests : ~req[s].adding /\ req[s].passed = {}
    BY DEF Init, Idle, Fresh
  <1>2. Inv
    BY InitInv
  <1>3. /\ \A w, x : Took(w, "redis", x, req, key) = {} /\ Holders(w, x, req, key) = {}
        /\ \A p, x : TookAt(p, x, req, key) = {}
    BY <1>1 DEF Took, Holders, Holds, TookAt
  <1>4. Cardinality({}) = 0
    BY FS_EmptySet
  <1>5. /\ \A w \in Twice : \A x \in Subjects(w) : redis[<<w, x>>] \in Nat
        /\ \A p \in Procs, x \in Subjects("minute") : memory[p][<<"minute", x>>] \in Nat
    BY <1>2, TwiceCounters DEF Inv, TypeOK, Twice
  <1>6. CountedInRedis
    <2> SUFFICES ASSUME NEW w \in Twice, NEW x \in Subjects(w)
                 PROVE  Cardinality(Took(w, "redis", x, req, key)) <= redis[<<w, x>>]
      BY DEF CountedInRedis
    <2>1. Cardinality(Took(w, "redis", x, req, key)) = 0
      BY <1>3, <1>4
    <2>2. redis[<<w, x>>] \in Nat
      BY <1>5
    <2> QED BY <2>1, <2>2
  <1>7. CountedInMemory
    <2> SUFFICES ASSUME NEW p \in Procs, NEW x \in Subjects("minute")
                 PROVE  /\ Cardinality(TookAt(p, x, req, key)) <= MinuteLimit
                        /\ Cardinality(TookAt(p, x, req, key)) <= memory[p][<<"minute", x>>]
      BY DEF CountedInMemory
    <2>1. Cardinality(TookAt(p, x, req, key)) = 0
      BY <1>3, <1>4
    <2>2. memory[p][<<"minute", x>>] \in Nat
      BY <1>5
    <2> QED BY <2>1, <2>2, ConstantsAssumption
  <1>8. AllProper /\ Crowds /\ DayInRedis
    BY <1>1, <1>3 DEF AllProper, Proper, Crowds, DayInRedis
  <1> QED BY <1>6, <1>7, <1>8 DEF TwiceKnown

LEMMA CrowdsBound ==
  ASSUME Inv, TwiceKnown
  PROVE  OvershootBounded
  <1> SUFFICES ASSUME linked /\ faults = 0, NEW w \in Twice, NEW r \in Requests
               PROVE  /\ <<w, "redis">> \in req[r].passed =>
                           LET like == Peers(w, {"redis"}, r) IN
                           \E s \in like :
                             Cardinality(like) <= Limit(w, req[r].tier) + req[s].beside[w]
                      /\ \A p \in Procs :
                           Cardinality({s \in Peers(w, {"memory"}, r) : At[s] = p}) <=
                             IF w = "day" THEN 0 ELSE MinuteLimit
    BY DEF OvershootBounded, Twice
  <1>1. PICK x : x = CountedAs(w, req[r], key)
    OBVIOUS
  <1>2. \A s \in Requests : Subject(w, s) = CountedAs(w, req[s], key)
    BY DEF Subject, CountedAs, Twice
  <1>3. \A s \in Requests : Limit(w, req[s].tier) = Limit(w, FreeTier) /\ Limit(w, FreeTier) \in Nat
    BY ConstantsAssumption DEF Limit, Twice
  <1>4. ASSUME NEW store \in Stores
        PROVE  Peers(w, {store}, r) = Took(w, store, x, req, key)
    BY <1>1, <1>2, <1>3 DEF Peers, Took
  <1>5. ASSUME <<w, "redis">> \in req[r].passed
        PROVE  \E s \in Peers(w, {"redis"}, r) :
                 Cardinality(Peers(w, {"redis"}, r)) <= Limit(w, req[r].tier) + req[s].beside[w]
    <2>1. PICK S : S = Took(w, "redis", x, req, key)
      OBVIOUS
    <2>2. r \in S /\ S \in SUBSET Holders(w, x, req, key)
      BY <1>1, <1>5, <2>1 DEF Took, Holders, Holds
    <2>3. x \in Subjects(w)
      <3>1. req[r].key \in Keys \union {NoKey}
        BY ReqFacts DEF Request
      <3>2. w = "day" => req[r].key \in Keys
        BY <1>5 DEF TwiceKnown, AllProper, Proper, Stores
      <3>3. w = "day" => key[req[r].key].owner \in Owners
        BY <3>2, TablesType DEF Row
      <3> QED BY <1>1, <3>1, <3>3 DEF CountedAs, Subjects, Twice
    <2>4. Explained(w, S, req)
      BY <2>2, <2>3 DEF TwiceKnown, Crowds
    <2>5. Peers(w, {"redis"}, r) = S
      BY <1>4, <2>1 DEF Stores
    <2> QED BY <1>3, <2>4, <2>5 DEF Explained
  <1>6. ASSUME NEW p \in Procs
        PROVE  Cardinality({s \in Peers(w, {"memory"}, r) : At[s] = p}) <=
                 IF w = "day" THEN 0 ELSE MinuteLimit
    <2>1. Peers(w, {"memory"}, r) = Took(w, "memory", x, req, key)
      BY <1>4 DEF Stores
    <2>2. CASE w = "day"
      <3>1. Took(w, "memory", x, req, key) = {}
        BY <2>2 DEF TwiceKnown, DayInRedis, Took
      <3>2. {s \in Peers(w, {"memory"}, r) : At[s] = p} = {}
        BY <2>1, <3>1
      <3>3. Cardinality({}) = 0
        BY FS_EmptySet
      <3> QED BY <2>2, <3>2, <3>3
    <2>3. CASE w = "minute"
      <3>1. x \in Subjects("minute")
        <4>1. req[r].key \in Keys \union {NoKey}
          BY ReqFacts DEF Request
        <4> QED BY <1>1, <2>3, <4>1 DEF CountedAs, Subjects
      <3>2. {s \in Peers(w, {"memory"}, r) : At[s] = p} = TookAt(p, x, req, key)
        BY <2>1, <2>3 DEF TookAt
      <3>3. Cardinality(TookAt(p, x, req, key)) <= MinuteLimit
        BY <3>1 DEF TwiceKnown, CountedInMemory
      <3> QED BY <2>3, <3>2, <3>3
    <2> QED BY <2>2, <2>3 DEF Twice
  <1> QED BY <1>5, <1>6

\* While Redis answers, a minute and a day let no more pass by its count than the limit and
\* as many as one of them had beside it between the question and the count; and when the
\* minute is full there, each process lets no more pass by its own count than the limit.
THEOREM OvershootLimited == Spec => []OvershootBounded
  <1>1. Inv /\ TwiceKnown => OvershootBounded
    BY CrowdsBound
  <1>2. Inv /\ TwiceKnown /\ [Next]_vars => TwiceKnown'
    BY StepTwice
  <1> QED BY <1>1, <1>2, InitTwice, InvAlways, PTL DEF Spec
=============================================================================
