----------------------------- MODULE TenantPool -----------------------------
(***************************************************************************)
(* The connection pool of one tenant in every process that has one         *)
(* (DatabaseManager in app/db/manager.py) while the tenant's password is   *)
(* rotated.  Tenants share the manager's lock, and the secret.             *)
(*                                                                         *)
(* The API is one process: its requests run get_session concurrently, with *)
(* _get_or_create_factory in threads.  A slot of the Celery worker is a    *)
(* process of its own and runs one session after the other.                *)
(*                                                                         *)
(* A request's first statement, which makes the pool connect, is the user  *)
(* lookup of _upsert_user; it turns every exception into an HTTPException, *)
(* so that get_session does not see an OperationalError.  In a task, whose *)
(* try block is around the session, get_session sees it.                   *)
(*                                                                         *)
(* A pool is the version of the password it was made with.                 *)
(***************************************************************************)
EXTENDS Naturals

CONSTANTS
    Request,      \* requests the API handles at a time
    Slot,         \* slots (processes) of the Celery worker
    Api,          \* the API process
    NoPool,       \* nothing is cached
    NoSession,    \* nobody holds the lock
    MaxRotations  \* bound: rotations of the password

Session == Request \union Slot
Process == {Api} \union Slot

Version == 0..MaxRotations

ASSUME TenantPoolConstants ==
    /\ Request \intersect Slot = {}
    /\ Api \notin Slot
    /\ NoSession \notin Session
    /\ NoPool \notin Version
    /\ MaxRotations \in Nat

Home(s) == IF s \in Request THEN Api ELSE s

VARIABLES
    password,  \* what Postgres accepts from new connections
    vault,     \* the secret in Key Vault
    cache,     \* cache[p]: the entry of _pool_cache
    made,      \* made[p]: pools made since p started or evicted one
    warm,      \* warm[p]: the cached pool has connections Postgres accepted
    lock,      \* lock[p]: the session that holds _lock
    pc,        \* pc[s]: the next step of session s
    entry,     \* entry[s]: the pool s got, or the secret it makes one with
    outcome    \* outcome[s]: how the last session of s ended

vars == <<password, vault, cache, made, warm, lock, pc, entry, outcome>>

Steps == {"idle", "check", "read", "lock", "fetch", "install", "connect", "evict"}

\* A session holds the lock of its process, and no other, while it makes a pool.
OwnerMakesPool ==
    \A p \in Process, s \in Session :
        lock[p] = s <=> Home(s) = p /\ pc[s] \in {"fetch", "install"}

TypeOK ==
    /\ password \in Version
    /\ vault \in Version
    /\ cache \in [Process -> Version \union {NoPool}]
    /\ made \in [Process -> Nat]
    /\ warm \in [Process -> BOOLEAN]
    /\ lock \in [Process -> Session \union {NoSession}]
    /\ OwnerMakesPool
    /\ pc \in [Session -> Steps]
    /\ entry \in [Session -> Version \union {NoPool}]
    /\ outcome \in [Session -> {"none", "ok", "rejected", "error"}]

Init ==
    /\ password = 0
    /\ vault = 0
    /\ cache = [p \in Process |-> NoPool]
    /\ made = [p \in Process |-> 0]
    /\ warm = [p \in Process |-> FALSE]
    /\ lock = [p \in Process |-> NoSession]
    /\ pc = [s \in Session |-> "idle"]
    /\ entry = [s \in Session |-> NoPool]
    /\ outcome = [s \in Session |-> "none"]

-----------------------------------------------------------------------------
(* Steps of a session.                                                     *)

Goto(s, step) == pc' = [pc EXCEPT ![s] = step]

End(s, how) ==
    /\ Goto(s, "idle")
    /\ outcome' = [outcome EXCEPT ![s] = how]

Take(s, pool) ==
    /\ entry' = [entry EXCEPT ![s] = pool]
    /\ Goto(s, "connect")

\* A request arrives, or the slot's next session begins.
Begin(s) ==
    /\ pc[s] = "idle"
    /\ Goto(s, "check")
    /\ entry' = [entry EXCEPT ![s] = NoPool]
    /\ UNCHANGED <<password, vault, cache, made, warm, lock, outcome>>

\* if tid in self._pool_cache, without the lock.
FastCheck(s) ==
    /\ pc[s] = "check"
    /\ Goto(s, IF cache[Home(s)] # NoPool THEN "read" ELSE "lock")
    /\ UNCHANGED <<password, vault, cache, made, warm, lock, entry, outcome>>

\* return self._pool_cache[tid]: a KeyError if the entry is gone by now.
FastRead(s) ==
    /\ pc[s] = "read"
    /\ \/ /\ cache[Home(s)] # NoPool
          /\ Take(s, cache[Home(s)])
          /\ UNCHANGED outcome
       \/ /\ cache[Home(s)] = NoPool
          /\ End(s, "error")
          /\ UNCHANGED entry
    /\ UNCHANGED <<password, vault, cache, made, warm, lock>>

\* Mutant: the check is not repeated under the lock.
TakeLockUnchecked(s) ==
    /\ pc[s] = "lock"
    /\ lock[Home(s)] = NoSession
    /\ lock' = [lock EXCEPT ![Home(s)] = s]
    /\ Goto(s, "fetch")
    /\ UNCHANGED <<password, vault, cache, made, warm, entry, outcome>>

\* with self._lock: the check again; an entry made meanwhile is returned and
\* the lock released.
TakeLock(s) ==
    /\ pc[s] = "lock"
    /\ lock[Home(s)] = NoSession
    /\ \/ /\ cache[Home(s)] # NoPool
          /\ Take(s, cache[Home(s)])
          /\ UNCHANGED lock
       \/ /\ cache[Home(s)] = NoPool
          /\ lock' = [lock EXCEPT ![Home(s)] = s]
          /\ Goto(s, "fetch")
          /\ UNCHANGED entry
    /\ UNCHANGED <<password, vault, cache, made, warm, outcome>>

\* Mutant: acquire without a with block; KeyVaultError leaves the lock taken.
FetchSecretKeepingLock(s) ==
    /\ pc[s] = "fetch"
    /\ \/ /\ entry' = [entry EXCEPT ![s] = vault]
          /\ Goto(s, "install")
          /\ UNCHANGED outcome
       \/ /\ End(s, "error")
          /\ UNCHANGED entry
    /\ UNCHANGED <<password, vault, cache, made, warm, lock>>

\* get_db_secret, under the lock; KeyVaultError releases it.
FetchSecret(s) ==
    /\ pc[s] = "fetch"
    /\ \/ /\ entry' = [entry EXCEPT ![s] = vault]
          /\ Goto(s, "install")
          /\ UNCHANGED <<lock, outcome>>
       \/ /\ lock' = [lock EXCEPT ![Home(s)] = NoSession]
          /\ End(s, "error")
          /\ UNCHANGED entry
    /\ UNCHANGED <<password, vault, cache, made, warm>>

\* The engine is made, connects to nothing yet, and is cached.
InstallPool(s) ==
    /\ pc[s] = "install"
    /\ cache' = [cache EXCEPT ![Home(s)] = entry[s]]
    /\ made' = [made EXCEPT ![Home(s)] = @ + 1]
    /\ warm' = [warm EXCEPT ![Home(s)] = FALSE]
    /\ lock' = [lock EXCEPT ![Home(s)] = NoSession]
    /\ Goto(s, "connect")
    /\ UNCHANGED <<password, vault, entry, outcome>>

\* Mutant: a task catches the error inside the session, as requests do.
CatchesAll(s) == TRUE

\* Mutant: _upsert_user lets an OperationalError pass to get_session.
CatchesNothing(s) == FALSE

\* The exception of the first statement reaches get_session as another one.
Catches(s) == s \in Request

\* The first statement.  A connection accepted before the rotation still
\* works; a new one with an old password is rejected with 28P01.  The rest of
\* the session, and every other failure, changes nothing here.
Connect(s) ==
    /\ pc[s] = "connect"
    /\ \/ /\ entry[s] = password \/ warm[Home(s)]
          /\ warm' = [warm EXCEPT ![Home(s)] = TRUE]
          /\ End(s, "ok")
       \/ /\ entry[s] # password
          /\ IF Catches(s) THEN End(s, "rejected")
                           ELSE Goto(s, "evict") /\ UNCHANGED outcome
          /\ UNCHANGED warm
       \/ /\ End(s, "error")
          /\ UNCHANGED warm
    /\ UNCHANGED <<password, vault, cache, made, lock, entry>>

\* except OperationalError: pop whatever is cached now, and raise.
Evict(s) ==
    /\ pc[s] = "evict"
    /\ lock[Home(s)] = NoSession
    /\ cache' = [cache EXCEPT ![Home(s)] = NoPool]
    /\ made' = [made EXCEPT ![Home(s)] = 0]
    /\ warm' = [warm EXCEPT ![Home(s)] = FALSE]
    /\ End(s, "rejected")
    /\ UNCHANGED <<password, vault, lock, entry>>

SessionStep(s) ==
    \/ Begin(s)
    \/ FastCheck(s)
    \/ FastRead(s)
    \/ TakeLock(s)
    \/ FetchSecret(s)
    \/ InstallPool(s)
    \/ Connect(s)
    \/ Evict(s)

-----------------------------------------------------------------------------
(* The rest of the world.                                                  *)

\* A rotation changes the vault and the database, in either order.
RotateVault ==
    /\ vault <= password
    /\ vault < MaxRotations
    /\ vault' = vault + 1
    /\ UNCHANGED <<password, cache, made, warm, lock, pc, entry, outcome>>

RotatePassword ==
    /\ password <= vault
    /\ password < MaxRotations
    /\ password' = password + 1
    /\ UNCHANGED <<vault, cache, made, warm, lock, pc, entry, outcome>>

\* The pool closes its connections: pool_recycle, overflow, a lost network.
CloseConnections(p) ==
    /\ warm[p]
    /\ warm' = [warm EXCEPT ![p] = FALSE]
    /\ UNCHANGED <<password, vault, cache, made, lock, pc, entry, outcome>>

Restart(p) ==
    /\ cache' = [cache EXCEPT ![p] = NoPool]
    /\ made' = [made EXCEPT ![p] = 0]
    /\ warm' = [warm EXCEPT ![p] = FALSE]
    /\ lock' = [lock EXCEPT ![p] = NoSession]
    /\ pc' = [s \in Session |-> IF Home(s) = p THEN "idle" ELSE pc[s]]
    /\ outcome' = [s \in Session |-> IF Home(s) = p THEN "none" ELSE outcome[s]]
    /\ UNCHANGED <<password, vault, entry>>

Next ==
    \/ \E s \in Session : SessionStep(s)
    \/ RotateVault
    \/ RotatePassword
    \/ \E p \in Process : CloseConnections(p) \/ Restart(p)

Spec == Init /\ [][Next]_vars

\* Sessions that have begun go on, and tasks keep coming; rotations, closed
\* connections and restarts just happen.
FairSpec == Spec /\ \A s \in Session : WF_vars(SessionStep(s))

-----------------------------------------------------------------------------
(* Properties.                                                              *)

(* Double-checked locking: however many sessions miss the cache at once,    *)
(* a process makes one pool of a tenant, and a second one only after it     *)
(* evicted the first.                                                       *)
OnePool == \A p \in Process : made[p] <= 1

(* The fast path tests for the key and reads it in two steps without the    *)
(* lock; it never misses.  It would if requests evicted, see CatchesNothing. *)
FastPathSafe == \A s \in Session : pc[s] = "read" => cache[Home(s)] # NoPool

(* Once vault and database agree for good, a worker slot stops being        *)
(* rejected: the old pool is evicted and the next one has the new secret.   *)
SlotsRecover ==
    \A w \in Slot : <>[](vault = password) => <>[](outcome[w] # "rejected")

=============================================================================
