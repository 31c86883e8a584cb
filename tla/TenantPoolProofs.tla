-------------------------- MODULE TenantPoolProofs --------------------------
(***************************************************************************)
(* Theorems about TenantPool, for every number of requests, worker slots   *)
(* and rotations.                                                          *)
(*                                                                         *)
(* OnePool is not inductive: the pool about to be installed must be the    *)
(* first, which the lock and the second check give (MakerHasLock).         *)
(* FastPathSafe holds because what empties the cache is no request         *)
(* (OnlySlotsEvict), and a slot shares its process with nobody.            *)
(***************************************************************************)
EXTENDS TenantPool, TLAPS

MakerHasLock ==
    \A s \in Session :
        pc[s] \in {"fetch", "install"} =>
            lock[Home(s)] = s /\ cache[Home(s)] = NoPool

MadeIsCached == \A p \in Process : cache[p] = NoPool => made[p] = 0

PoolInHand == \A s \in Session : pc[s] = "install" => entry[s] \in Version

OnlySlotsEvict == \A s \in Session : pc[s] = "evict" => s \in Slot

IInv ==
    /\ TypeOK
    /\ MakerHasLock
    /\ MadeIsCached
    /\ PoolInHand
    /\ OnlySlotsEvict
    /\ OnePool
    /\ FastPathSafe

-----------------------------------------------------------------------------

(* A session's home is a process, and a slot's is its own. *)
LEMMA Homes ==
    /\ \A s \in Session : Home(s) \in Process
    /\ \A s \in Slot, t \in Session : Home(t) = Home(s) => t = s
  BY TenantPoolConstants DEF Home, Session, Process

(* The steps of a session that leave its process's pool alone. *)
Looks(s) == Begin(s) \/ FastCheck(s) \/ FastRead(s) \/ Connect(s)

(* These steps move one session, and touch neither lock nor cache. *)
LEMMA LooksKeepIInv ==
    ASSUME IInv, NEW s \in Session, Looks(s)
    PROVE  IInv'
<1>1. /\ UNCHANGED <<password, vault, cache, made, lock>>
      /\ \A t \in Session \ {s} : pc'[t] = pc[t] /\ entry'[t] = entry[t]
  BY DEF IInv, TypeOK, Looks, Begin, FastCheck, FastRead, Connect, Goto, End, Take
<1>2. /\ pc'[s] \notin {"fetch", "install"}
      /\ pc'[s] = "read" => cache[Home(s)] # NoPool
      /\ pc'[s] = "evict" => s \in Slot
  BY DEF IInv, TypeOK, Looks, Begin, FastCheck, FastRead, Connect, Goto, End, Take,
       Catches, Session
<1>3. TypeOK'
  <2>1. pc[s] \notin {"fetch", "install"}
    BY DEF Looks, Begin, FastCheck, FastRead, Connect
  <2>2. OwnerMakesPool'
    BY <1>1, <1>2, <2>1 DEF IInv, TypeOK, OwnerMakesPool
  <2>3. QED
    BY <2>2, Homes
       DEF IInv, TypeOK, Looks, Begin, FastCheck, FastRead, Connect, Goto, End, Take, Steps
<1>4. QED
  BY <1>1, <1>2, <1>3 DEF IInv, MakerHasLock, MadeIsCached, PoolInHand, OnlySlotsEvict,
       OnePool, FastPathSafe

LEMMA IInvStep == IInv /\ [Next]_vars => IInv'
<1> SUFFICES ASSUME IInv, [Next]_vars
             PROVE  IInv'
  OBVIOUS
<1>1. ASSUME NEW s \in Session, Looks(s)
      PROVE  IInv'
  BY <1>1, LooksKeepIInv
<1>2. ASSUME NEW s \in Session, TakeLock(s)
      PROVE  IInv'
  <2>1. TypeOK'
    <3>1. OwnerMakesPool'
      BY <1>2, Homes, TenantPoolConstants
         DEF IInv, TypeOK, OwnerMakesPool, TakeLock, Take, Goto
    <3>2. QED
      BY <1>2, <3>1, Homes DEF IInv, TypeOK, TakeLock, Take, Goto, Steps
  <2>2. MakerHasLock'
    <3>1. lock[Home(s)] = NoSession /\ Home(s) \in Process
      BY <1>2, Homes DEF TakeLock
    <3>2. \A t \in Session \ {s} :
            pc[t] \in {"fetch", "install"} => Home(t) # Home(s)
      BY <3>1, TenantPoolConstants DEF IInv, MakerHasLock
    <3>3. QED
      BY <1>2, <3>1, <3>2, Homes DEF IInv, TypeOK, TakeLock, Take, Goto, MakerHasLock
  <2>3. PoolInHand' /\ OnlySlotsEvict' /\ FastPathSafe'
    BY <1>2 DEF IInv, TypeOK, TakeLock, Take, Goto, PoolInHand, OnlySlotsEvict, FastPathSafe
  <2>4. QED
    BY <1>2, <2>1, <2>2, <2>3 DEF IInv, TakeLock, MadeIsCached, OnePool
<1>3. ASSUME NEW s \in Session, FetchSecret(s)
      PROVE  IInv'
  <2>1. TypeOK'
    <3>1. OwnerMakesPool'
      BY <1>3, Homes, TenantPoolConstants
         DEF IInv, TypeOK, OwnerMakesPool, FetchSecret, Goto, End
    <3>2. QED
      BY <1>3, <3>1, Homes DEF IInv, TypeOK, FetchSecret, Goto, End, Steps
  <2>2. MakerHasLock'
    BY <1>3, Homes DEF IInv, TypeOK, FetchSecret, Goto, End, MakerHasLock
  <2>3. PoolInHand' /\ OnlySlotsEvict' /\ FastPathSafe'
    BY <1>3 DEF IInv, TypeOK, FetchSecret, Goto, End, PoolInHand, OnlySlotsEvict, FastPathSafe
  <2>4. QED
    BY <1>3, <2>1, <2>2, <2>3 DEF IInv, FetchSecret, MadeIsCached, OnePool
<1>4. ASSUME NEW s \in Session, InstallPool(s)
      PROVE  IInv'
  <2>1. /\ lock[Home(s)] = s /\ cache[Home(s)] = NoPool
        /\ made[Home(s)] = 0 /\ entry[s] \in Version /\ Home(s) \in Process
    BY <1>4, Homes DEF IInv, InstallPool, MakerHasLock, MadeIsCached, PoolInHand
  <2>2. TypeOK'
    <3>1. OwnerMakesPool'
      BY <1>4, <2>1, TenantPoolConstants
         DEF IInv, TypeOK, OwnerMakesPool, InstallPool, Goto
    <3>2. QED
      BY <1>4, <2>1, <3>1, TenantPoolConstants DEF IInv, TypeOK, InstallPool, Goto, Steps
  <2>3. MakerHasLock'
    BY <1>4, <2>1, Homes DEF IInv, TypeOK, InstallPool, Goto, MakerHasLock
  <2>4. MadeIsCached' /\ OnePool'
    BY <1>4, <2>1, TenantPoolConstants DEF IInv, TypeOK, InstallPool, MadeIsCached, OnePool
  <2>5. PoolInHand' /\ OnlySlotsEvict'
    BY <1>4 DEF IInv, TypeOK, InstallPool, Goto, PoolInHand, OnlySlotsEvict
  <2>6. FastPathSafe'
    BY <1>4, <2>1, Homes, TenantPoolConstants DEF IInv, TypeOK, InstallPool, Goto, FastPathSafe
  <2>7. QED
    BY <2>2, <2>3, <2>4, <2>5, <2>6 DEF IInv
<1>5. ASSUME NEW s \in Session, Evict(s)
      PROVE  IInv'
  <2>1. /\ s \in Slot /\ Home(s) \in Process
        /\ \A t \in Session \ {s} : Home(t) # Home(s)
    BY <1>5, Homes DEF IInv, Evict, OnlySlotsEvict
  <2>2. TypeOK'
    <3>1. OwnerMakesPool'
      BY <1>5, <2>1 DEF IInv, TypeOK, OwnerMakesPool, Evict, End, Goto
    <3>2. QED
      BY <1>5, <2>1, <3>1 DEF IInv, TypeOK, Evict, End, Goto, Steps
  <2>3. MakerHasLock' /\ FastPathSafe'
    BY <1>5, <2>1, Homes DEF IInv, TypeOK, Evict, End, Goto, MakerHasLock, FastPathSafe
  <2>4. MadeIsCached' /\ OnePool'
    BY <1>5, <2>1 DEF IInv, TypeOK, Evict, MadeIsCached, OnePool
  <2>5. PoolInHand' /\ OnlySlotsEvict'
    BY <1>5 DEF IInv, TypeOK, Evict, End, Goto, PoolInHand, OnlySlotsEvict
  <2>6. QED
    BY <2>2, <2>3, <2>4, <2>5 DEF IInv
<1>6. CASE RotateVault \/ RotatePassword
  <2>1. UNCHANGED <<cache, made, warm, lock, pc, entry, outcome>>
    BY <1>6 DEF RotateVault, RotatePassword
  <2>2. TypeOK'
    BY <1>6, <2>1, TenantPoolConstants
       DEF IInv, TypeOK, OwnerMakesPool, Version, RotateVault, RotatePassword
  <2>3. QED
    BY <2>1, <2>2 DEF IInv, MakerHasLock, MadeIsCached, PoolInHand, OnlySlotsEvict,
         OnePool, FastPathSafe
<1>7. ASSUME NEW p \in Process, CloseConnections(p)
      PROVE  IInv'
  BY <1>7 DEF CloseConnections, IInv, TypeOK, OwnerMakesPool, MakerHasLock, MadeIsCached, PoolInHand,
       OnlySlotsEvict, OnePool, FastPathSafe
<1>8. ASSUME NEW p \in Process, Restart(p)
      PROVE  IInv'
  <2>1. TypeOK'
    <3>1. OwnerMakesPool'
      BY <1>8, TenantPoolConstants DEF IInv, TypeOK, OwnerMakesPool, Restart
    <3>2. QED
      BY <1>8, <3>1 DEF IInv, TypeOK, Restart, Steps
  <2>2. \A s \in Session :
          \/ pc'[s] = "idle"
          \/ /\ Home(s) # p /\ Home(s) \in Process
             /\ pc'[s] = pc[s]
             /\ lock'[Home(s)] = lock[Home(s)]
             /\ cache'[Home(s)] = cache[Home(s)]
    BY <1>8, Homes DEF IInv, TypeOK, Restart
  <2>3. MakerHasLock' /\ FastPathSafe'
    BY <2>2 DEF IInv, MakerHasLock, FastPathSafe
  <2>4. PoolInHand' /\ OnlySlotsEvict'
    BY <1>8, <2>2 DEF IInv, Restart, PoolInHand, OnlySlotsEvict
  <2>5. MadeIsCached' /\ OnePool'
    BY <1>8 DEF IInv, TypeOK, Restart, MadeIsCached, OnePool
  <2>6. QED
    BY <2>1, <2>3, <2>4, <2>5 DEF IInv
<1>9. CASE UNCHANGED vars
  BY <1>9 DEF vars, IInv, TypeOK, OwnerMakesPool, MakerHasLock, MadeIsCached, PoolInHand, OnlySlotsEvict,
       OnePool, FastPathSafe
<1>10. QED
  BY <1>1, <1>2, <1>3, <1>4, <1>5, <1>6, <1>7, <1>8, <1>9 DEF Next, SessionStep, Looks

(* The inductive invariant holds: types, the discipline of the lock, and    *)
(* the two properties below.                                                *)
THEOREM PoolInvariant == Spec => []IInv
<1>1. Init => IInv
  BY TenantPoolConstants
     DEF Init, IInv, TypeOK, OwnerMakesPool, Steps, Version, MakerHasLock, MadeIsCached, PoolInHand,
         OnlySlotsEvict, OnePool, FastPathSafe
<1>2. QED
  BY <1>1, IInvStep, PTL DEF Spec

(* The variables keep their types. *)
THEOREM TypeCorrect == Spec => []TypeOK
<1>1. IInv => TypeOK
  BY DEF IInv
<1>2. QED
  BY <1>1, PoolInvariant, PTL

(* Double-checked locking makes one pool per process and eviction, for any  *)
(* number of concurrent requests.                                           *)
THEOREM MakesOnePool == Spec => []OnePool
<1>1. IInv => OnePool
  BY DEF IInv
<1>2. QED
  BY <1>1, PoolInvariant, PTL

(* The fast path reads without the lock and never misses.                   *)
THEOREM FastPathNeverMisses == Spec => []FastPathSafe
<1>1. IInv => FastPathSafe
  BY DEF IInv
<1>2. QED
  BY <1>1, PoolInvariant, PTL

=============================================================================
