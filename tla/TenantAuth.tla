----------------------------- MODULE TenantAuth -----------------------------
(***************************************************************************)
(* How the API admits a request: the tenant registry, a cache of the       *)
(* central database's tenants (app/db/registry.py), the signing keys of    *)
(* Microsoft and their copy in Redis (app/core/security.py), and the       *)
(* dependency that uses both (_get_token_data of app/api/deps.py).         *)
(*                                                                         *)
(* The API is one process with an event loop: handlers interleave at their *)
(* awaits.  A call to the database, to Redis or to Microsoft takes effect  *)
(* where it is answered, and the handler resumes in a later step; Redis    *)
(* GET, after which nothing awaits, resumes in the same one.               *)
(***************************************************************************)
EXTENDS Naturals, FiniteSets

CONSTANTS
    Tenant,
    Kid,         \* identifiers of signing keys
    Request,     \* requests that are handled at a time
    TTL,         \* JWKS_TTL_SECONDS, in ticks
    MaxLate,     \* ticks that pass while keys wait to be stored; a bound
    MaxChanges,  \* changes of tenants and keys, and restarts
    None      \* nothing is cached

Status == {"provisioning", "active", "suspended", "deprovisioned"}

ASSUME AuthConstants ==
    /\ TTL \in Nat \ {0}
    /\ MaxLate \in Nat
    /\ MaxChanges \in Nat
    /\ None \notin Status \union {"absent"} \union Tenant \union Kid

VARIABLES
    row,        \* row[t]: status of t's row in the central database, or "absent"
    cache,      \* cache[t]: status of the registry's CachedTenant, or None
    published,  \* the keys that Microsoft publishes
    age,        \* age[k]: ticks since k was last published
    redis,      \* va:jwks_cache: a set of at most one [keys, ttl, late], late being
                \* how old the keys were when they were stored
    pc,         \* pc[r]: where r waits, or "idle"
    token,      \* token[r]: the tenant and key that r's token names, and
                \* whether its signature, expiry, claims and version are good
    read,       \* read[r]: the status that r's query found, or None
    fetched,    \* fetched[r]: the keys that r has fetched
    late,       \* late[r]: ticks since r fetched the keys that it stores
    outcome,    \* outcome[r]: how r ended, "none" before
    held,       \* held[r]: what has been the case at some time since r began
    wasActive,  \* the tenants whose row was active since the process started
    changes     \* number of changes so far

ms == <<published, age>>
central == <<row, wasActive>>
vars == <<row, cache, published, age, redis, pc, token, read, fetched, late, outcome,
          held, wasActive, changes>>

Token == [tid : Tenant, kid : Kid, good : BOOLEAN]
Outcome == {"none", "rejected", "unregistered", "forbidden", "unknown key",
            "unavailable", "served", "lost tenant"}
Fact == {"absent", "unpublished"}

\* Ages are counted up to one that no copy of the keys can have.
Oldest == TTL + MaxLate + 1

TypeOK ==
    /\ row \in [Tenant -> Status \union {"absent"}]
    /\ \A t \in Tenant : cache[t] \in Status \union {None}
    /\ published \in SUBSET Kid
    /\ age \in [Kid -> 0..Oldest]
    /\ redis = {} \/ \E keys \in SUBSET Kid, ttl \in 1..TTL, l \in 0..MaxLate :
                        redis = {[keys |-> keys, ttl |-> ttl, late |-> l]}
    /\ pc \in [Request -> {"idle", "query", "refresh", "get", "fetch", "store",
                           "fetch again", "store again"}]
    /\ \A r \in Request : pc[r] # "idle" => token[r] \in Token
    /\ \A r \in Request : pc[r] = "refresh" => read[r] \in Status \union {"absent"}
    /\ fetched \in [Request -> SUBSET Kid]
    /\ late \in [Request -> 0..MaxLate]
    /\ outcome \in [Request -> Outcome]
    /\ held \in [Request -> SUBSET Fact]
    /\ wasActive \in SUBSET Tenant
    /\ changes \in 0..MaxChanges

-----------------------------------------------------------------------------

NoToken == [tid |-> None, kid |-> None, good |-> FALSE]

\* Which facts are the case now of a token's tenant and key.
Facts(t, k) ==
    ({row[t]} \intersect {"absent"})
      \union (IF k \notin published THEN {"unpublished"} ELSE {})

Init ==
    /\ row \in [Tenant -> Status \union {"absent"}]
    /\ cache = [t \in Tenant |-> None]
    /\ published \in SUBSET Kid
    /\ age = [k \in Kid |-> IF k \in published THEN 0 ELSE Oldest]
    /\ redis = {}
    /\ pc = [r \in Request |-> "idle"]
    /\ token = [r \in Request |-> NoToken]
    /\ read = [r \in Request |-> None]
    /\ fetched = [r \in Request |-> {}]
    /\ late = [r \in Request |-> 0]
    /\ outcome = [r \in Request |-> "none"]
    /\ held = [r \in Request |-> {}]
    /\ wasActive = {t \in Tenant : row[t] = "active"}
    /\ changes = 0

\* r goes on to wait at a step, with the status or the keys it just got.
Await(r, step, status, keys) ==
    /\ pc' = [pc EXCEPT ![r] = step]
    /\ read' = [read EXCEPT ![r] = status]
    /\ fetched' = [fetched EXCEPT ![r] = keys]
    /\ late' = [late EXCEPT ![r] = 0]
    /\ outcome' = [outcome EXCEPT ![r] = "none"]

End(r, how) ==
    /\ pc' = [pc EXCEPT ![r] = "idle"]
    /\ read' = [read EXCEPT ![r] = None]
    /\ fetched' = [fetched EXCEPT ![r] = {}]
    /\ late' = [late EXCEPT ![r] = 0]
    /\ outcome' = [outcome EXCEPT ![r] = how]

\* Mutant: a tenant that is being provisioned passes.
CheckTenantLoosely(r, status) ==
    \/ status \in {"suspended", "deprovisioned"} /\ End(r, "forbidden")
    \/ status \in {"active", "provisioning"} /\ Await(r, "get", None, {})

\* verify step 3: what the status of the tenant means for the request.
CheckTenant(r, status) ==
    \/ status \in {"suspended", "deprovisioned", "provisioning"} /\ End(r, "forbidden")
    \/ status = "active" /\ Await(r, "get", None, {})

\* The header is missing, or the token cannot be read, or names no tenant or key.
RejectUnread(r) ==
    /\ pc[r] = "idle"
    /\ End(r, "rejected")
    /\ token' = [token EXCEPT ![r] = NoToken]
    /\ held' = [held EXCEPT ![r] = {}]
    /\ UNCHANGED <<central, ms, cache, redis, changes>>

\* tenant_lookup: the registry, and on a miss the database.
Begin(r) ==
    /\ pc[r] = "idle"
    /\ \E k \in Token :
         /\ token' = [token EXCEPT ![r] = k]
         /\ held' = [held EXCEPT ![r] = Facts(k.tid, k.kid)]
         /\ IF cache[k.tid] = None THEN Await(r, "query", None, {})
                                      ELSE CheckTenant(r, cache[k.tid])
    /\ UNCHANGED <<central, ms, cache, redis, changes>>

Going(r) == UNCHANGED <<central, ms, token, held, changes>>

\* refresh_one: the SELECT is answered.
Query(r) ==
    /\ pc[r] = "query"
    /\ Await(r, "refresh", row[token[r].tid], {})
    /\ Going(r)
    /\ UNCHANGED <<cache, redis>>

\* Mutant: that a tenant is missing is cached too.
RefreshNegative(r) ==
    LET t == token[r].tid IN
    /\ pc[r] = "refresh"
    /\ cache' = [cache EXCEPT ![t] = read[r]]
    /\ \/ read[r] = "absent" /\ End(r, "unregistered")
       \/ read[r] # "absent" /\ CheckTenant(r, read[r])
    /\ Going(r)
    /\ UNCHANGED redis

\* refresh_one goes on: the row, however old by now, replaces the entry, and a
\* missing one removes it.
Refresh(r) ==
    LET t == token[r].tid IN
    /\ pc[r] = "refresh"
    /\ \/ /\ read[r] = "absent"
          /\ cache' = [cache EXCEPT ![t] = None]
          /\ End(r, "unregistered")
       \/ /\ read[r] # "absent"
          /\ cache' = [cache EXCEPT ![t] = read[r]]
          /\ CheckTenant(r, read[r])
    /\ Going(r)
    /\ UNCHANGED redis

\* verify steps 5 and 6, and the registry read again by _get_token_data.
Decode(r) ==
    \/ ~token[r].good /\ End(r, "rejected")
    \/ token[r].good /\ cache[token[r].tid] = None /\ End(r, "lost tenant")
    \/ token[r].good /\ cache[token[r].tid] # None /\ End(r, "served")

\* Mutant: reading the keys renews their time to live.
GetKeysRenewing(r) ==
    /\ pc[r] = "get"
    /\ \/ /\ Await(r, "fetch", None, {})
          /\ UNCHANGED redis
       \/ \E copy \in redis :
            /\ redis' = {[copy EXCEPT !.ttl = TTL]}
            /\ IF token[r].kid \in copy.keys THEN Decode(r)
                                             ELSE Await(r, "fetch again", None, {})
    /\ Going(r)
    /\ UNCHANGED cache

\* Mutant: the copy in Redis is the last word on the keys.
GetKeysOnce(r) ==
    /\ pc[r] = "get"
    /\ \/ Await(r, "fetch", None, {})
       \/ \E copy \in redis :
            IF token[r].kid \in copy.keys THEN Decode(r) ELSE End(r, "unknown key")
    /\ Going(r)
    /\ UNCHANGED <<cache, redis>>

\* get_key: the copy in Redis, or none when it has expired or GET fails; a key
\* that is not in it is looked for in a fresh one.
GetKeys(r) ==
    /\ pc[r] = "get"
    /\ \/ Await(r, "fetch", None, {})
       \/ \E copy \in redis :
            IF token[r].kid \in copy.keys THEN Decode(r)
                                          ELSE Await(r, "fetch again", None, {})
    /\ Going(r)
    /\ UNCHANGED <<cache, redis>>

\* Microsoft answers the fetch.
FetchKeys(r) ==
    /\ \/ pc[r] = "fetch" /\ Await(r, "store", None, published)
       \/ pc[r] = "fetch again" /\ Await(r, "store again", None, published)
    /\ Going(r)
    /\ UNCHANGED <<cache, redis>>

\* Where a request waits to store what it fetched.
Storing == {"store", "store again"}

\* The fetched keys are stored, unless SETEX fails, and searched.
StoreKeys(r) ==
    /\ pc[r] \in Storing
    /\ redis' \in {redis, {[keys |-> fetched[r], ttl |-> TTL, late |-> late[r]]}}
    /\ \/ token[r].kid \in fetched[r] /\ Decode(r)
       \/ /\ token[r].kid \notin fetched[r]
          /\ \/ pc[r] = "store" /\ Await(r, "fetch again", None, {})
             \/ pc[r] = "store again" /\ End(r, "unknown key")
    /\ Going(r)
    /\ UNCHANGED cache

\* The database or Microsoft cannot be reached, or answers with an error.
CallFails(r) ==
    /\ pc[r] \in {"query", "fetch", "fetch again"}
    /\ End(r, "unavailable")
    /\ Going(r)
    /\ UNCHANGED <<cache, redis>>

-----------------------------------------------------------------------------
(* The world around the API.                                                *)

Change == changes < MaxChanges /\ changes' = changes + 1

\* What has become the case is noted for the requests that wait.
Note(fact(_)) ==
    held' = [r \in Request |->
        IF pc[r] # "idle" THEN held[r] \union fact(r) ELSE held[r]]

\* Operators of the platform register, change and delete tenants.
EditTenant(t) ==
    /\ Change
    /\ \E status \in (Status \union {"absent"}) \ {row[t]} :
         /\ row' = [row EXCEPT ![t] = status]
         /\ wasActive' = wasActive \union (IF status = "active" THEN {t} ELSE {})
         /\ LET now(r) == IF token[r].tid = t THEN {status} \intersect {"absent"} ELSE {}
            IN  Note(now)
    /\ UNCHANGED <<ms, cache, redis, pc, token, read, fetched, late, outcome>>

\* Microsoft publishes a key or withdraws one.
Publish(k) ==
    /\ Change
    /\ k \notin published
    /\ published' = published \union {k}
    /\ age' = [age EXCEPT ![k] = 0]
    /\ UNCHANGED <<central, cache, redis, pc, token, read, fetched, late, outcome, held>>

Withdraw(k) ==
    /\ Change
    /\ k \in published
    /\ published' = published \ {k}
    /\ LET gone(r) == IF token[r].kid = k THEN {"unpublished"} ELSE {} IN Note(gone)
    /\ UNCHANGED <<central, age, cache, redis, pc, token, read, fetched, late, outcome>>

\* Time passes, also while fetched keys wait to be stored: the Redis client has
\* no timeout.
Tick ==
    /\ \A r \in Request : pc[r] \in Storing => late[r] < MaxLate
    /\ late' = [r \in Request |-> IF pc[r] \in Storing THEN late[r] + 1 ELSE late[r]]
    /\ age' = [k \in Kid |-> IF k \in published \/ age[k] = Oldest THEN age[k] ELSE age[k] + 1]
    /\ redis' = {[copy EXCEPT !.ttl = @ - 1] : copy \in {c \in redis : c.ttl > 1}}
    /\ UNCHANGED <<central, cache, published, pc, token, read, fetched, outcome, held, changes>>

\* Redis loses the copy: it is restarted, or out of memory.
RedisLoses ==
    /\ redis' = {}
    /\ UNCHANGED <<central, ms, cache, pc, token, read, fetched, late, outcome, held, changes>>

\* The API restarts: the registry is empty, Redis keeps its copy.
Restart ==
    /\ Change
    /\ cache' = [t \in Tenant |-> None]
    /\ pc' = [r \in Request |-> "idle"]
    /\ read' = [r \in Request |-> None]
    /\ fetched' = [r \in Request |-> {}]
    /\ late' = [r \in Request |-> 0]
    /\ token' = [r \in Request |-> NoToken]
    /\ outcome' = [r \in Request |-> "none"]
    /\ held' = [r \in Request |-> {}]
    /\ wasActive' = {t \in Tenant : row[t] = "active"}
    /\ UNCHANGED <<row, ms, redis>>

Next ==
    \/ \E r \in Request :
         \/ RejectUnread(r)
         \/ Begin(r)
         \/ Query(r)
         \/ Refresh(r)
         \/ GetKeys(r)
         \/ FetchKeys(r)
         \/ StoreKeys(r)
         \/ CallFails(r)
    \/ \E t \in Tenant : EditTenant(t)
    \/ \E k \in Kid : Publish(k) \/ Withdraw(k)
    \/ Tick
    \/ RedisLoses
    \/ Restart

Spec == Init /\ [][Next]_vars

-----------------------------------------------------------------------------
(* Properties.                                                              *)

(* A request is refused for its key or its tenant only if the key was not   *)
(* published, or the tenant not registered, at some time while the request  *)
(* was being handled: no copy of the keys, however old or however late it   *)
(* was written, and no entry of the registry refuses what is known by now.  *)
RefusalsAreCurrent ==
    \A r \in Request :
        /\ outcome[r] = "unknown key" => "unpublished" \in held[r]
        /\ outcome[r] = "unregistered" => "absent" \in held[r]

(* A copy of the keys that has time left holds none that was withdrawn for  *)
(* longer than the copy has been kept and was late: a withdrawn key is      *)
(* accepted for at most JWKS_TTL_SECONDS after a store, and what was late   *)
(* about the store, whoever wrote the copy last.                            *)
WithdrawnKeysExpire ==
    \A copy \in redis : \A k \in copy.keys : age[k] + copy.ttl <= TTL + copy.late

(* A request is served only for a tenant that has been active since the     *)
(* process started, though the row that it is served with can be another    *)
(* than the one whose status was checked.                                   *)
ServedWasActive ==
    \A r \in Request : outcome[r] = "served" => token[r].tid \in wasActive

(* CONTEXT.md:300: suspended or deprovisioned means 403.  A request that     *)
(* begins while its tenant is either does not get past the tenant check.    *)
SuspendedIsRefused ==
    [][\A r \in Request : pc[r] = "idle" /\ pc'[r] = "get" =>
         row[token'[r].tid] \notin {"suspended", "deprovisioned"}]_vars

=============================================================================
