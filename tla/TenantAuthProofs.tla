--------------------------- MODULE TenantAuthProofs ---------------------------
(***************************************************************************)
(* Theorems about TenantAuth, for every number of tenants, keys, requests  *)
(* and changes, and every time to live.                                    *)
(*                                                                         *)
(* The properties speak of how a request ends; the invariant says what it  *)
(* has been through by then: keys in hand are withdrawn for no longer than *)
(* they have been waiting (FetchedAreFresh), a request past the tenant     *)
(* check has a tenant that was active (PassedWasActive), and what it       *)
(* missed was missing while it ran (MissesHeld, from HeldNow).             *)
(***************************************************************************)
EXTENDS TenantAuth, TLAPS

Passed == {"get", "fetch", "fetch again"} \union Storing

\* TypeOK in three parts, with the domains it leaves open.
Base ==
    /\ row \in [Tenant -> Status \union {"absent"}]
    /\ \A t \in Tenant : cache[t] \in Status \union {None}
    /\ DOMAIN cache = Tenant
    /\ published \in SUBSET Kid
    /\ age \in [Kid -> 0..Oldest]
    /\ pc \in [Request -> {"idle", "query", "refresh", "get", "fetch", "store",
                           "fetch again", "store again"}]
    /\ fetched \in [Request -> SUBSET Kid]
    /\ late \in [Request -> 0..MaxLate]
    /\ outcome \in [Request -> Outcome]
    /\ held \in [Request -> SUBSET Fact]
    /\ wasActive \in SUBSET Tenant
    /\ changes \in 0..MaxChanges

Tokens ==
    /\ DOMAIN token = Request
    /\ DOMAIN read = Request
    /\ \A r \in Request : pc[r] # "idle" => token[r] \in Token
    /\ \A r \in Request : pc[r] = "refresh" => read[r] \in Status \union {"absent"}

Copy ==
    redis = {} \/ \E keys \in SUBSET Kid, ttl \in 1..TTL, l \in 0..MaxLate :
                     redis = {[keys |-> keys, ttl |-> ttl, late |-> l]}

PublishedAreFresh == \A k \in published : age[k] = 0

FetchedAreFresh ==
    \A r \in Request : pc[r] \in Storing => \A k \in fetched[r] : age[k] <= late[r]

ActiveIsNoted ==
    \A t \in Tenant : row[t] = "active" \/ cache[t] = "active" => t \in wasActive

PassedWasActive ==
    \A r \in Request :
        /\ pc[r] \in Passed => token[r].tid \in wasActive
        /\ pc[r] = "refresh" /\ read[r] = "active" => token[r].tid \in wasActive

HeldNow ==
    \A r \in Request : pc[r] # "idle" =>
        /\ row[token[r].tid] = "absent" => "absent" \in held[r]
        /\ token[r].kid \notin published => "unpublished" \in held[r]

MissesHeld ==
    \A r \in Request :
        /\ pc[r] = "refresh" /\ read[r] = "absent" => "absent" \in held[r]
        /\ pc[r] \in Storing /\ token[r].kid \notin fetched[r] => "unpublished" \in held[r]

IInv ==
    /\ Base
    /\ Tokens
    /\ Copy
    /\ PublishedAreFresh
    /\ FetchedAreFresh
    /\ WithdrawnKeysExpire
    /\ ActiveIsNoted
    /\ PassedWasActive
    /\ ServedWasActive
    /\ HeldNow
    /\ MissesHeld
    /\ RefusalsAreCurrent

-----------------------------------------------------------------------------

(* Redis holds nothing, or one copy of known keys with time left. *)
LEMMA CopyType ==
    ASSUME Copy, NEW copy \in redis
    PROVE  /\ copy.keys \subseteq Kid
           /\ copy.ttl \in 1..TTL
           /\ copy.late \in 0..MaxLate
           /\ copy = [keys |-> copy.keys, ttl |-> copy.ttl, late |-> copy.late]
           /\ redis = {copy}
<1>1. PICK keys \in SUBSET Kid, ttl \in 1..TTL, l \in 0..MaxLate :
        redis = {[keys |-> keys, ttl |-> ttl, late |-> l]}
  BY DEF Copy
<1>2. copy = [keys |-> keys, ttl |-> ttl, late |-> l]
  BY <1>1
<1>3. QED
  BY <1>1, <1>2

LEMMA IInvInit == Init => IInv
<1> SUFFICES ASSUME Init PROVE IInv
  OBVIOUS
<1>1. Base
  BY AuthConstants DEF Init, Base, Outcome, Oldest
<1>2. Tokens /\ Copy
  BY DEF Init, Tokens, Copy
<1>3. QED
  BY <1>1, <1>2, AuthConstants DEF Init, IInv, PublishedAreFresh, FetchedAreFresh, Storing,
       WithdrawnKeysExpire, ActiveIsNoted, PassedWasActive, Passed, ServedWasActive, HeldNow,
       MissesHeld, RefusalsAreCurrent, Status

Steps == {"idle", "query", "refresh", "get", "fetch", "store", "fetch again", "store again"}

\* A step moves r to a step, with what it has in hand, and no other request.
At(r, step, status, keys, how) ==
    /\ pc'[r] = step /\ read'[r] = status /\ fetched'[r] = keys /\ late'[r] = 0
    /\ outcome'[r] = how
    /\ \A q \in Request \ {r} : /\ pc'[q] = pc[q] /\ read'[q] = read[q]
                                /\ fetched'[q] = fetched[q] /\ late'[q] = late[q]
                                /\ outcome'[q] = outcome[q]
    /\ pc' \in [Request -> Steps]
    /\ DOMAIN read' = Request
    /\ fetched' \in [Request -> SUBSET Kid]
    /\ late' \in [Request -> 0..MaxLate]
    /\ outcome' \in [Request -> Outcome]

LEMMA Bounds ==
    /\ TTL \in Nat /\ MaxLate \in Nat /\ Oldest \in Nat
    /\ 0 \in 0..MaxLate /\ TTL \in 1..TTL
  BY AuthConstants DEF Oldest

LEMMA AwaitMoves ==
    ASSUME IInv, NEW r \in Request, NEW step \in Steps, NEW status, NEW keys \in SUBSET Kid,
           Await(r, step, status, keys)
    PROVE  At(r, step, status, keys, "none")
<1>1. "none" \in Outcome
  BY DEF Outcome
<1>2. QED
  BY <1>1, Bounds DEF IInv, Base, Tokens, Await, At, Steps

LEMMA EndMoves ==
    ASSUME IInv, NEW r \in Request, NEW how \in Outcome, End(r, how)
    PROVE  At(r, "idle", None, {}, how)
  BY Bounds DEF IInv, Base, Tokens, End, At, Steps

\* Nothing changes but what At names, the registry and the copy.
Frame == UNCHANGED <<row, published, age, token, held, wasActive, changes>>

\* The registry and the copy after a step of a request.
CachesOK ==
    /\ DOMAIN cache' = Tenant
    /\ \A t \in Tenant : /\ cache'[t] \in Status \union {None}
                         /\ cache'[t] = "active" => t \in wasActive
    /\ Copy'
    /\ WithdrawnKeysExpire'

LEMMA SameCaches == IInv /\ UNCHANGED <<cache, redis, age>> => CachesOK
  BY DEF IInv, Base, Copy, WithdrawnKeysExpire, ActiveIsNoted, CachesOK

\* What a request may be at after a step, given its token and what it noticed.
Good(r, step, status, keys, how) ==
    /\ step \in Storing => \A k \in keys : age[k] = 0
    /\ step \in Passed => token'[r].tid \in wasActive
    /\ step = "refresh" => /\ status \in Status \union {"absent"}
                           /\ status = "active" => token'[r].tid \in wasActive
                           /\ status = "absent" => "absent" \in held'[r]
    /\ step \in Storing /\ token'[r].kid \notin keys => "unpublished" \in held'[r]
    /\ how = "served" => token'[r].tid \in wasActive
    /\ how = "unknown key" => "unpublished" \in held'[r]
    /\ how = "unregistered" => "absent" \in held'[r]

\* The token and the notes of r may be new; they are those of now.
Presented(r) ==
    /\ UNCHANGED <<row, published, age, wasActive, changes>>
    /\ DOMAIN token' = Request
    /\ held' \in [Request -> SUBSET Fact]
    /\ \A q \in Request \ {r} : token'[q] = token[q] /\ held'[q] = held[q]
    /\ pc'[r] # "idle" =>
         /\ token'[r] \in Token
         /\ row[token'[r].tid] = "absent" => "absent" \in held'[r]
         /\ token'[r].kid \notin published => "unpublished" \in held'[r]

LEMMA FrameIsPresented ==
    ASSUME IInv, NEW r \in Request, Frame, pc[r] # "idle"
    PROVE  Presented(r)
  BY DEF IInv, Base, Tokens, HeldNow, Frame, Presented

LEMMA GoodKeepsIInv ==
    ASSUME IInv, NEW r \in Request, NEW step, NEW status, NEW keys, NEW how,
           At(r, step, status, keys, how), Good(r, step, status, keys, how),
           Presented(r), CachesOK
    PROVE  IInv'
<1>1. Base'
  BY DEF IInv, Base, At, Presented, CachesOK, Steps
<1>2. Tokens'
  BY DEF IInv, Tokens, At, Good, Presented
<1>3. Copy' /\ WithdrawnKeysExpire' /\ ActiveIsNoted' /\ PublishedAreFresh'
  BY DEF IInv, Presented, CachesOK, ActiveIsNoted, PublishedAreFresh
<1>4. FetchedAreFresh'
  <2> SUFFICES ASSUME NEW q \in Request, pc'[q] \in Storing, NEW k \in fetched'[q]
               PROVE  age'[k] <= late'[q]
    BY DEF FetchedAreFresh
  <2>1. age' = age
    BY DEF Presented
  <2>2. CASE q = r
    <3>1. age[k] = 0 /\ late'[q] = 0
      BY <2>2 DEF At, Good
    <3>2. QED
      BY <2>1, <3>1
  <2>3. CASE q # r
    <3>1. pc[q] \in Storing /\ k \in fetched[q] /\ late'[q] = late[q]
      BY <2>3 DEF At
    <3>2. QED
      BY <2>1, <3>1 DEF IInv, FetchedAreFresh
  <2>4. QED
    BY <2>2, <2>3
<1>5. PassedWasActive' /\ ServedWasActive'
  BY DEF IInv, At, Good, Presented, PassedWasActive, ServedWasActive
<1>6. HeldNow'
  BY DEF IInv, At, Presented, HeldNow
<1>7. MissesHeld' /\ RefusalsAreCurrent'
  BY DEF IInv, At, Good, Presented, MissesHeld, RefusalsAreCurrent
<1>8. QED
  BY <1>1, <1>2, <1>3, <1>4, <1>5, <1>6, <1>7 DEF IInv

\* A request that goes on, with the registry and the copy in order.
LEMMA GoesOn ==
    ASSUME IInv, NEW r \in Request, pc[r] # "idle", Going(r), CachesOK,
           NEW step, NEW status, NEW keys, NEW how,
           At(r, step, status, keys, how), Good(r, step, status, keys, how)
    PROVE  IInv'
<1>1. Frame
  BY DEF Going, central, ms, Frame
<1>2. QED
  BY <1>1, FrameIsPresented, GoodKeepsIInv

(* The tenant check lets pass what the registry or the row says is active.  *)
LEMMA CheckMoves ==
    ASSUME IInv, NEW r \in Request, NEW status, CheckTenant(r, status),
           status = "active" => token'[r].tid \in wasActive
    PROVE  \E step, keys, how : At(r, step, None, keys, how) /\ Good(r, step, None, keys, how)
<1>1. CASE End(r, "forbidden")
  <2>1. At(r, "idle", None, {}, "forbidden")
    BY <1>1, EndMoves DEF Outcome
  <2>2. Good(r, "idle", None, {}, "forbidden")
    BY DEF Good, Storing, Passed
  <2>3. QED
    BY <2>1, <2>2
<1>2. CASE status = "active" /\ Await(r, "get", None, {})
  <2>1. At(r, "get", None, {}, "none")
    BY <1>2, AwaitMoves DEF Steps
  <2>2. Good(r, "get", None, {}, "none")
    BY <1>2 DEF Good, Storing, Passed
  <2>3. QED
    BY <2>1, <2>2
<1>3. QED
  BY <1>1, <1>2 DEF CheckTenant

(* Decoding ends the request; it is served if it has got so far.            *)
LEMMA DecodeMoves ==
    ASSUME IInv, NEW r \in Request, Decode(r), token'[r].tid \in wasActive
    PROVE  \E how : At(r, "idle", None, {}, how) /\ Good(r, "idle", None, {}, how)
<1>1. PICK how \in {"rejected", "lost tenant", "served"} : End(r, how)
  BY DEF Decode
<1>2. At(r, "idle", None, {}, how)
  BY <1>1, EndMoves DEF Outcome
<1>3. Good(r, "idle", None, {}, how)
  BY DEF Good, Storing, Passed
<1>4. QED
  BY <1>2, <1>3

(* Steps of a request.                                                      *)
LEMMA RequestKeepsIInv ==
    ASSUME IInv, NEW r \in Request,
           \/ RejectUnread(r) \/ Begin(r) \/ Query(r) \/ Refresh(r)
           \/ GetKeys(r) \/ FetchKeys(r) \/ StoreKeys(r) \/ CallFails(r)
    PROVE  IInv'
<1>1. CASE RejectUnread(r)
  <2>1. At(r, "idle", None, {}, "rejected")
    BY <1>1, EndMoves DEF RejectUnread, Outcome
  <2>2. Presented(r)
    BY <1>1, <2>1 DEF RejectUnread, IInv, Base, Tokens, Presented, At, central, ms
  <2>3. CachesOK
    BY <1>1, SameCaches DEF RejectUnread, ms
  <2>4. Good(r, "idle", None, {}, "rejected")
    BY DEF Good, Storing, Passed
  <2>5. QED
    BY <2>1, <2>2, <2>3, <2>4, GoodKeepsIInv
<1>2. CASE Begin(r)
  <2>1. PICK k \in Token :
          /\ token' = [token EXCEPT ![r] = k]
          /\ held' = [held EXCEPT ![r] = Facts(k.tid, k.kid)]
          /\ IF cache[k.tid] = None THEN Await(r, "query", None, {})
                                    ELSE CheckTenant(r, cache[k.tid])
    BY <1>2 DEF Begin
  <2>2. /\ Facts(k.tid, k.kid) \subseteq Fact
        /\ row[k.tid] = "absent" => "absent" \in Facts(k.tid, k.kid)
        /\ k.kid \notin published => "unpublished" \in Facts(k.tid, k.kid)
        /\ k.tid \in Tenant
    BY DEF Facts, Fact, Token
  <2>3. token'[r] = k /\ held'[r] = Facts(k.tid, k.kid)
    BY <2>1 DEF IInv, Base, Tokens
  <2>4. Presented(r)
    BY <1>2, <2>1, <2>2, <2>3 DEF Begin, IInv, Base, Tokens, Presented, central, ms
  <2>5. CachesOK
    BY <1>2, SameCaches DEF Begin, ms
  <2>6. CASE Await(r, "query", None, {})
    <3>1. At(r, "query", None, {}, "none")
      BY <2>6, AwaitMoves DEF Steps
    <3>2. Good(r, "query", None, {}, "none")
      BY DEF Good, Storing, Passed
    <3>3. QED
      BY <2>4, <2>5, <3>1, <3>2, GoodKeepsIInv
  <2>7. CASE CheckTenant(r, cache[k.tid])
    <3>1. cache[k.tid] = "active" => token'[r].tid \in wasActive
      BY <2>2, <2>3 DEF IInv, ActiveIsNoted
    <3>2. PICK step, keys, how : At(r, step, None, keys, how) /\ Good(r, step, None, keys, how)
      BY <2>7, <3>1, CheckMoves
    <3>3. QED
      BY <2>4, <2>5, <3>2, GoodKeepsIInv
  <2>8. QED
    BY <2>1, <2>6, <2>7
<1>3. CASE Query(r)
  <2>1. token[r].tid \in Tenant /\ token' = token /\ held' = held
    BY <1>3 DEF IInv, Tokens, Token, Query, Going
  <2>2. At(r, "refresh", row[token[r].tid], {}, "none")
    BY <1>3, AwaitMoves DEF Query, Steps
  <2>3. Good(r, "refresh", row[token[r].tid], {}, "none")
    BY <1>3, <2>1 DEF Query, Good, Storing, Passed, IInv, Base, HeldNow, ActiveIsNoted
  <2>4. CachesOK
    BY <1>3, SameCaches DEF Query, Going, ms
  <2>5. QED
    BY <1>3, <2>2, <2>3, <2>4, GoesOn DEF Query
<1>4. CASE Refresh(r)
  <2>1. /\ token[r].tid \in Tenant /\ token' = token /\ held' = held
        /\ read[r] \in Status \union {"absent"}
        /\ read[r] = "absent" => "absent" \in held[r]
        /\ read[r] = "active" => token[r].tid \in wasActive
    BY <1>4 DEF IInv, Tokens, Token, Refresh, Going, MissesHeld, PassedWasActive
  <2>2. pc[r] # "idle" /\ Going(r) /\ redis' = redis /\ age' = age
    BY <1>4 DEF Refresh, Going, ms
  <2>3. CASE read[r] = "absent"
    <3>1. cache' = [cache EXCEPT ![token[r].tid] = None] /\ End(r, "unregistered")
      BY <1>4, <2>3 DEF Refresh
    <3>2. CachesOK
      BY <2>2, <3>1, AuthConstants DEF CachesOK, IInv, Base, Copy, WithdrawnKeysExpire,
           ActiveIsNoted, Status
    <3>3. At(r, "idle", None, {}, "unregistered")
      BY <3>1, EndMoves DEF Outcome
    <3>4. Good(r, "idle", None, {}, "unregistered")
      BY <2>1, <2>3 DEF Good, Storing, Passed
    <3>5. QED
      BY <2>2, <3>2, <3>3, <3>4, GoesOn
  <2>4. CASE read[r] # "absent"
    <3>1. cache' = [cache EXCEPT ![token[r].tid] = read[r]] /\ CheckTenant(r, read[r])
      BY <1>4, <2>4 DEF Refresh
    <3>2. CachesOK
      BY <2>1, <2>2, <2>4, <3>1 DEF CachesOK, IInv, Base, Copy, WithdrawnKeysExpire, ActiveIsNoted
    <3>3. PICK step, keys, how : At(r, step, None, keys, how) /\ Good(r, step, None, keys, how)
      BY <2>1, <3>1, CheckMoves
    <3>4. QED
      BY <2>2, <3>2, <3>3, GoesOn
  <2>5. QED
    BY <2>3, <2>4
<1>5. CASE GetKeys(r)
  <2>1. /\ token[r].tid \in wasActive /\ token' = token
        /\ pc[r] # "idle" /\ Going(r)
    BY <1>5 DEF IInv, GetKeys, Going, PassedWasActive, Passed
  <2>2. CachesOK
    BY <1>5, SameCaches DEF GetKeys, Going, ms
  <2>3. ASSUME NEW step \in {"fetch", "fetch again"}, Await(r, step, None, {})
        PROVE  IInv'
    <3>1. At(r, step, None, {}, "none")
      BY <2>3, AwaitMoves DEF Steps
    <3>2. Good(r, step, None, {}, "none")
      BY <2>1, <2>3 DEF Good, Storing, Passed
    <3>3. QED
      BY <2>1, <2>2, <3>1, <3>2, GoesOn
  <2>4. CASE Decode(r)
    <3>1. PICK how : At(r, "idle", None, {}, how) /\ Good(r, "idle", None, {}, how)
      BY <2>1, <2>4, DecodeMoves
    <3>2. QED
      BY <2>1, <2>2, <3>1, GoesOn
  <2>5. QED
    BY <1>5, <2>3, <2>4 DEF GetKeys
<1>6. CASE FetchKeys(r)
  <2>1. /\ token[r].tid \in wasActive /\ token' = token /\ held' = held
        /\ pc[r] # "idle" /\ Going(r)
        /\ token[r].kid \notin published => "unpublished" \in held[r]
        /\ published \in SUBSET Kid
        /\ \A k \in published : age[k] = 0
    BY <1>6 DEF IInv, Base, FetchKeys, Going, PassedWasActive, Passed, HeldNow, PublishedAreFresh
  <2>2. CachesOK
    BY <1>6, SameCaches DEF FetchKeys, Going, ms
  <2>3. PICK step \in Storing : Await(r, step, None, published)
    BY <1>6 DEF FetchKeys, Storing
  <2>4. At(r, step, None, published, "none")
    BY <2>1, <2>3, AwaitMoves DEF Steps, Storing
  <2>5. Good(r, step, None, published, "none")
    BY <2>1, <2>3 DEF Good, Storing, Passed
  <2>6. QED
    BY <2>1, <2>2, <2>4, <2>5, GoesOn
<1>7. CASE StoreKeys(r)
  <2>1. /\ token[r].tid \in wasActive /\ token' = token /\ held' = held
        /\ pc[r] # "idle" /\ Going(r)
        /\ token[r].kid \notin fetched[r] => "unpublished" \in held[r]
        /\ fetched[r] \in SUBSET Kid
        /\ late[r] \in 0..MaxLate
        /\ \A k \in fetched[r] : age[k] <= late[r]
    BY <1>7 DEF IInv, Base, StoreKeys, Going, PassedWasActive, Passed, Storing, MissesHeld,
         FetchedAreFresh
  <2>2. CachesOK
    <3>1. cache' = cache /\ age' = age
      BY <1>7 DEF StoreKeys, Going, ms
    <3>2. CASE redis' = redis
      BY <3>1, <3>2, SameCaches
    <3>3. CASE redis' = {[keys |-> fetched[r], ttl |-> TTL, late |-> late[r]]}
      <4>1. Copy'
        BY <2>1, <3>3, Bounds DEF Copy
      <4>2. WithdrawnKeysExpire'
        <5> SUFFICES ASSUME NEW k \in fetched[r]
                     PROVE  age[k] + TTL <= TTL + late[r]
          BY <3>1, <3>3 DEF WithdrawnKeysExpire
        <5>1. k \in Kid /\ age[k] <= late[r]
          BY <2>1
        <5>2. age[k] \in Nat /\ late[r] \in Nat
          <6>1. age \in [Kid -> 0..Oldest]
            BY DEF IInv, Base
          <6>2. QED
            BY <2>1, <5>1, <6>1, Bounds
        <5>3. QED
          BY <5>1, <5>2, Bounds
      <4>3. QED
        BY <3>1, <4>1, <4>2 DEF CachesOK, IInv, Base, ActiveIsNoted
    <3>4. QED
      BY <1>7, <3>2, <3>3 DEF StoreKeys
  <2>3. CASE Decode(r)
    <3>1. PICK how : At(r, "idle", None, {}, how) /\ Good(r, "idle", None, {}, how)
      BY <2>1, <2>3, DecodeMoves
    <3>2. QED
      BY <2>1, <2>2, <3>1, GoesOn
  <2>4. CASE Await(r, "fetch again", None, {})
    <3>1. At(r, "fetch again", None, {}, "none")
      BY <2>4, AwaitMoves DEF Steps
    <3>2. Good(r, "fetch again", None, {}, "none")
      BY <2>1 DEF Good, Storing, Passed
    <3>3. QED
      BY <2>1, <2>2, <3>1, <3>2, GoesOn
  <2>5. CASE token[r].kid \notin fetched[r] /\ End(r, "unknown key")
    <3>1. At(r, "idle", None, {}, "unknown key")
      BY <2>5, EndMoves DEF Outcome
    <3>2. Good(r, "idle", None, {}, "unknown key")
      BY <2>1, <2>5 DEF Good, Storing, Passed
    <3>3. QED
      BY <2>1, <2>2, <3>1, <3>2, GoesOn
  <2>6. QED
    BY <1>7, <2>3, <2>4, <2>5 DEF StoreKeys
<1>8. CASE CallFails(r)
  <2>1. At(r, "idle", None, {}, "unavailable")
    BY <1>8, EndMoves DEF CallFails, Outcome
  <2>2. Good(r, "idle", None, {}, "unavailable")
    BY DEF Good, Storing, Passed
  <2>3. CachesOK
    BY <1>8, SameCaches DEF CallFails, Going, ms
  <2>4. QED
    BY <1>8, <2>1, <2>2, <2>3, GoesOn DEF CallFails
<1>9. QED
  BY <1>1, <1>2, <1>3, <1>4, <1>5, <1>6, <1>7, <1>8

LEMMA ChangeCounts ==
    ASSUME Base, Change
    PROVE  changes' \in 0..MaxChanges
<1>1. MaxChanges \in Nat /\ changes \in 0..MaxChanges
  BY AuthConstants DEF Base
<1>2. QED
  BY <1>1 DEF Change

(* A tenant is registered, changed or deleted: it is noted as active, and   *)
(* as missing by the requests that wait and name it.                        *)
LEMMA EditKeepsIInv ==
    ASSUME IInv, NEW t \in Tenant, EditTenant(t)
    PROVE  IInv'
<1>1. PICK status \in (Status \union {"absent"}) \ {row[t]} :
        /\ row' = [row EXCEPT ![t] = status]
        /\ wasActive' = wasActive \union (IF status = "active" THEN {t} ELSE {})
        /\ held' = [r \in Request |->
             IF pc[r] # "idle"
             THEN held[r] \union (IF token[r].tid = t THEN {status} \intersect {"absent"} ELSE {})
             ELSE held[r]]
  BY DEF EditTenant, Note
<1>2. UNCHANGED <<published, age, cache, redis, pc, token, read, fetched, late, outcome>>
  BY DEF EditTenant, ms
<1>3. Base'
  <2>1. changes' \in 0..MaxChanges
    BY ChangeCounts DEF IInv, EditTenant
  <2>2. row' \in [Tenant -> Status \union {"absent"}]
    BY <1>1 DEF IInv, Base
  <2>3. held' \in [Request -> SUBSET Fact]
    BY <1>1 DEF IInv, Base, Fact
  <2>4. wasActive' \in SUBSET Tenant
    BY <1>1 DEF IInv, Base
  <2>5. QED
    BY <1>2, <2>1, <2>2, <2>3, <2>4 DEF IInv, Base
<1>4. Tokens' /\ Copy'
  BY <1>2 DEF IInv, Tokens, Copy
<1>5. ActiveIsNoted' /\ PassedWasActive' /\ ServedWasActive'
  BY <1>1, <1>2 DEF IInv, Base, ActiveIsNoted, PassedWasActive, ServedWasActive
<1>6. \A r \in Request : held[r] \subseteq held'[r]
  BY <1>1
<1>7. HeldNow'
  BY <1>1, <1>2 DEF IInv, Base, Tokens, HeldNow, Token
<1>8. MissesHeld' /\ RefusalsAreCurrent'
  BY <1>2, <1>6 DEF IInv, MissesHeld, RefusalsAreCurrent
<1>9. PublishedAreFresh' /\ FetchedAreFresh' /\ WithdrawnKeysExpire'
  BY <1>2 DEF IInv, PublishedAreFresh, FetchedAreFresh, WithdrawnKeysExpire
<1>10. QED
  BY <1>3, <1>4, <1>5, <1>7, <1>8, <1>9 DEF IInv

(* A key is published: it is fresh, in a copy that holds it already too.    *)
LEMMA PublishKeepsIInv ==
    ASSUME IInv, NEW k \in Kid, Publish(k)
    PROVE  IInv'
<1>1. /\ UNCHANGED <<row, wasActive, cache, redis, pc, token, read, fetched, late, outcome,
                     held>>
      /\ published' = published \union {k}
      /\ age' = [age EXCEPT ![k] = 0]
  BY DEF Publish, central
<1>2. TTL \in Nat /\ Oldest \in Nat /\ MaxLate \in Nat
  BY Bounds
<1>3. age \in [Kid -> 0..Oldest] /\ late \in [Request -> 0..MaxLate]
  BY DEF IInv, Base
<1>4. age' \in [Kid -> 0..Oldest] /\ \A j \in Kid : age'[j] = 0 \/ age'[j] = age[j]
  BY <1>1, <1>2, <1>3
<1>5. Base'
  <2>1. changes' \in 0..MaxChanges
    BY ChangeCounts DEF IInv, Publish
  <2>2. published' \in SUBSET Kid
    BY <1>1 DEF IInv, Base
  <2>3. QED
    BY <1>1, <1>4, <2>1, <2>2 DEF IInv, Base
<1>6. Tokens' /\ Copy'
  BY <1>1 DEF IInv, Tokens, Copy
<1>7. PublishedAreFresh'
  BY <1>1, <1>3 DEF IInv, Base, PublishedAreFresh
<1>8. FetchedAreFresh'
  <2> SUFFICES ASSUME NEW r \in Request, pc[r] \in Storing, NEW j \in fetched[r]
               PROVE  age'[j] <= late[r]
    BY <1>1 DEF FetchedAreFresh
  <2>1. j \in Kid /\ age[j] <= late[r]
    BY DEF IInv, Base, FetchedAreFresh
  <2>2. late[r] \in Nat
    BY <1>2, <1>3
  <2>3. QED
    BY <1>4, <2>1, <2>2
<1>9. WithdrawnKeysExpire'
  <2> SUFFICES ASSUME NEW copy \in redis, NEW j \in copy.keys
               PROVE  age'[j] + copy.ttl <= TTL + copy.late
    BY <1>1 DEF WithdrawnKeysExpire
  <2>1. copy.keys \subseteq Kid /\ copy.ttl \in 1..TTL /\ copy.late \in 0..MaxLate
    BY CopyType DEF IInv
  <2>2. age[j] + copy.ttl <= TTL + copy.late
    BY DEF IInv, WithdrawnKeysExpire
  <2>3. CASE age'[j] = 0
    BY <1>2, <2>1, <2>3
  <2>4. CASE age'[j] = age[j]
    BY <2>2, <2>4
  <2>5. QED
    BY <1>4, <2>1, <2>3, <2>4
<1>10. ActiveIsNoted' /\ PassedWasActive' /\ ServedWasActive'
  BY <1>1 DEF IInv, ActiveIsNoted, PassedWasActive, ServedWasActive
<1>11. HeldNow' /\ MissesHeld' /\ RefusalsAreCurrent'
  BY <1>1 DEF IInv, HeldNow, MissesHeld, RefusalsAreCurrent
<1>12. QED
  BY <1>5, <1>6, <1>7, <1>8, <1>9, <1>10, <1>11 DEF IInv

(* A key is withdrawn: the requests that wait and name it note it.          *)
LEMMA WithdrawKeepsIInv ==
    ASSUME IInv, NEW k \in Kid, Withdraw(k)
    PROVE  IInv'
<1>1. /\ UNCHANGED <<row, wasActive, age, cache, redis, pc, token, read, fetched, late, outcome>>
      /\ published' = published \ {k}
      /\ held' = [r \in Request |->
           IF pc[r] # "idle"
           THEN held[r] \union (IF token[r].kid = k THEN {"unpublished"} ELSE {})
           ELSE held[r]]
  BY DEF Withdraw, Note, central
<1>2. Base'
  <2>1. changes' \in 0..MaxChanges
    BY ChangeCounts DEF IInv, Withdraw
  <2>2. held' \in [Request -> SUBSET Fact] /\ published' \in SUBSET Kid
    BY <1>1 DEF IInv, Base, Fact
  <2>3. QED
    BY <1>1, <2>1, <2>2 DEF IInv, Base
<1>3. Tokens' /\ Copy'
  BY <1>1 DEF IInv, Tokens, Copy
<1>4. \A r \in Request : held[r] \subseteq held'[r]
  BY <1>1
<1>5. HeldNow'
  BY <1>1 DEF IInv, HeldNow
<1>6. MissesHeld' /\ RefusalsAreCurrent'
  BY <1>1, <1>4 DEF IInv, MissesHeld, RefusalsAreCurrent
<1>7. PublishedAreFresh' /\ FetchedAreFresh' /\ WithdrawnKeysExpire'
  BY <1>1 DEF IInv, PublishedAreFresh, FetchedAreFresh, WithdrawnKeysExpire
<1>8. ActiveIsNoted' /\ PassedWasActive' /\ ServedWasActive'
  BY <1>1 DEF IInv, ActiveIsNoted, PassedWasActive, ServedWasActive
<1>9. QED
  BY <1>2, <1>3, <1>5, <1>6, <1>7, <1>8 DEF IInv

LEMMA RedisLosesKeepsIInv ==
    ASSUME IInv, RedisLoses
    PROVE  IInv'
<1>1. /\ UNCHANGED <<row, wasActive, published, age, cache, pc, token, read, fetched, late,
                     outcome, held, changes>>
      /\ redis' = {}
  BY DEF RedisLoses, central, ms
<1>2. Base'
  BY <1>1 DEF IInv, Base
<1>3. Tokens' /\ Copy' /\ WithdrawnKeysExpire'
  BY <1>1 DEF IInv, Tokens, Copy, WithdrawnKeysExpire
<1>4. PublishedAreFresh' /\ FetchedAreFresh' /\ ActiveIsNoted' /\ PassedWasActive'
  BY <1>1 DEF IInv, PublishedAreFresh, FetchedAreFresh, ActiveIsNoted, PassedWasActive
<1>5. ServedWasActive' /\ HeldNow' /\ MissesHeld' /\ RefusalsAreCurrent'
  BY <1>1 DEF IInv, ServedWasActive, HeldNow, MissesHeld, RefusalsAreCurrent
<1>6. QED
  BY <1>2, <1>3, <1>4, <1>5 DEF IInv

(* After a restart no request waits and the registry is empty.              *)
LEMMA RestartKeepsIInv ==
    ASSUME IInv, Restart
    PROVE  IInv'
<1>1. /\ UNCHANGED <<row, published, age, redis>>
      /\ cache' = [t \in Tenant |-> None]
      /\ pc' = [r \in Request |-> "idle"]
      /\ read' = [r \in Request |-> None]
      /\ fetched' = [r \in Request |-> {}]
      /\ late' = [r \in Request |-> 0]
      /\ token' = [r \in Request |-> NoToken]
      /\ outcome' = [r \in Request |-> "none"]
      /\ held' = [r \in Request |-> {}]
      /\ wasActive' = {t \in Tenant : row[t] = "active"}
  BY DEF Restart, ms
<1>2. Base'
  <2>1. changes' \in 0..MaxChanges
    BY ChangeCounts DEF IInv, Restart
  <2>2. outcome' \in [Request -> Outcome] /\ held' \in [Request -> SUBSET Fact]
    BY <1>1 DEF Outcome
  <2>3. /\ fetched' \in [Request -> SUBSET Kid] /\ wasActive' \in SUBSET Tenant
        /\ late' \in [Request -> 0..MaxLate]
    BY <1>1, AuthConstants
  <2>4. QED
    BY <1>1, <2>1, <2>2, <2>3 DEF IInv, Base
<1>3. Tokens' /\ Copy' /\ WithdrawnKeysExpire'
  BY <1>1 DEF IInv, Tokens, Copy, WithdrawnKeysExpire
<1>4. None # "active"
  BY AuthConstants DEF Status
<1>5. PublishedAreFresh' /\ FetchedAreFresh' /\ ActiveIsNoted' /\ PassedWasActive'
  BY <1>1, <1>4 DEF IInv, PublishedAreFresh, FetchedAreFresh, Storing, ActiveIsNoted,
     PassedWasActive, Passed
<1>6. ServedWasActive' /\ HeldNow' /\ MissesHeld' /\ RefusalsAreCurrent'
  BY <1>1 DEF ServedWasActive, HeldNow, MissesHeld, Storing, RefusalsAreCurrent
<1>7. QED
  BY <1>2, <1>3, <1>5, <1>6 DEF IInv

(* A key in the copy is younger than the limit, so a tick adds to its age   *)
(* what it takes from the copy's time.                                      *)
LEMMA TickKeepsIInv ==
    ASSUME IInv, Tick
    PROVE  IInv'
<1>1. /\ TTL \in Nat /\ MaxLate \in Nat /\ Oldest \in Nat
      /\ age \in [Kid -> 0..Oldest] /\ late \in [Request -> 0..MaxLate]
  BY Bounds DEF IInv, Base
<1>2. /\ age' = [k \in Kid |->
           IF k \in published \/ age[k] = Oldest THEN age[k] ELSE age[k] + 1]
      /\ redis' = {[copy EXCEPT !.ttl = @ - 1] : copy \in {c \in redis : c.ttl > 1}}
      /\ UNCHANGED <<row, wasActive, cache, published, pc, token, read, fetched, outcome, held,
                     changes>>
      /\ \A r \in Request : pc[r] \in Storing => late[r] < MaxLate
      /\ late' = [r \in Request |-> IF pc[r] \in Storing THEN late[r] + 1 ELSE late[r]]
  BY DEF Tick, central
<1>3. \A k \in Kid : /\ age'[k] \in 0..Oldest
                     /\ age'[k] <= age[k] + 1
                     /\ k \in published => age'[k] = age[k]
  <2> SUFFICES ASSUME NEW k \in Kid
               PROVE  /\ age'[k] \in 0..Oldest
                      /\ age'[k] <= age[k] + 1
                      /\ k \in published => age'[k] = age[k]
    OBVIOUS
  <2>1. age[k] \in 0..Oldest
    BY <1>1
  <2>2. age'[k] = IF k \in published \/ age[k] = Oldest THEN age[k] ELSE age[k] + 1
    BY <1>2
  <2>3. QED
    BY <1>1, <2>1, <2>2
<1>4. \A later \in redis' : \E copy \in redis :
        /\ later = [keys |-> copy.keys, ttl |-> copy.ttl - 1, late |-> copy.late]
        /\ copy.ttl \in 2..TTL
  <2> SUFFICES ASSUME NEW later \in redis'
               PROVE  \E copy \in redis :
                        /\ later = [keys |-> copy.keys, ttl |-> copy.ttl - 1, late |-> copy.late]
                        /\ copy.ttl \in 2..TTL
    OBVIOUS
  <2>1. PICK copy \in redis : copy.ttl > 1 /\ later = [copy EXCEPT !.ttl = @ - 1]
    BY <1>2
  <2>2. /\ copy.ttl \in 1..TTL
        /\ copy = [keys |-> copy.keys, ttl |-> copy.ttl, late |-> copy.late]
    BY CopyType DEF IInv
  <2>3. later = [keys |-> copy.keys, ttl |-> copy.ttl - 1, late |-> copy.late]
    BY <2>1, <2>2
  <2>4. copy.ttl \in 2..TTL
    BY <1>1, <2>1, <2>2
  <2>5. QED
    BY <2>3, <2>4
<1>5. Copy'
  <2>1. CASE redis' = {}
    BY <2>1 DEF Copy
  <2>2. CASE redis' # {}
    <3>1. PICK later : later \in redis'
      BY <2>2
    <3>2. PICK copy \in redis :
            /\ later = [keys |-> copy.keys, ttl |-> copy.ttl - 1, late |-> copy.late]
            /\ copy.ttl \in 2..TTL
      BY <1>4, <3>1
    <3>3. redis = {copy} /\ copy.keys \in SUBSET Kid /\ copy.late \in 0..MaxLate
      BY CopyType DEF IInv
    <3>4. redis' = {[keys |-> copy.keys, ttl |-> copy.ttl - 1, late |-> copy.late]}
      BY <1>4, <3>1, <3>2, <3>3
    <3>5. copy.ttl - 1 \in 1..TTL
      BY <1>1, <3>2
    <3>6. QED
      BY <3>3, <3>4, <3>5 DEF Copy
  <2>3. QED
    BY <2>1, <2>2
<1>6. Base'
  <2>1. age' \in [Kid -> 0..Oldest]
    BY <1>2, <1>3
  <2>2. late' \in [Request -> 0..MaxLate]
    BY <1>1, <1>2
  <2>3. QED
    BY <1>2, <2>1, <2>2 DEF IInv, Base
<1>7. Tokens'
  BY <1>2 DEF IInv, Tokens
<1>8. WithdrawnKeysExpire'
  <2> SUFFICES ASSUME NEW later \in redis', NEW k \in later.keys
               PROVE  age'[k] + later.ttl <= TTL + later.late
    BY DEF WithdrawnKeysExpire
  <2>1. PICK copy \in redis :
          /\ later = [keys |-> copy.keys, ttl |-> copy.ttl - 1, late |-> copy.late]
          /\ copy.ttl \in 2..TTL
    BY <1>4
  <2>2. k \in Kid /\ age[k] + copy.ttl <= TTL + copy.late /\ copy.late \in 0..MaxLate
    BY <2>1, CopyType DEF IInv, WithdrawnKeysExpire
  <2>3. age[k] \in Nat /\ age'[k] \in Nat /\ age'[k] <= age[k] + 1 /\ copy.ttl \in Nat
    BY <1>1, <1>3, <2>1, <2>2
  <2>4. later.ttl = copy.ttl - 1 /\ later.late = copy.late
    BY <2>1
  <2>5. QED
    BY <1>1, <2>2, <2>3, <2>4
<1>9. PublishedAreFresh' /\ FetchedAreFresh'
  <2>1. PublishedAreFresh'
    BY <1>2, <1>3 DEF IInv, Base, PublishedAreFresh
  <2>2. ASSUME NEW r \in Request, pc[r] \in Storing, NEW k \in fetched[r]
        PROVE  age'[k] <= late'[r]
    <3>1. k \in Kid /\ age[k] <= late[r]
      BY <2>2 DEF IInv, Base, FetchedAreFresh
    <3>2. late'[r] = late[r] + 1
      BY <1>2, <2>2
    <3>3. age'[k] <= age[k] + 1 /\ age[k] \in Nat /\ age'[k] \in Nat /\ late[r] \in Nat
      BY <1>1, <1>3, <3>1
    <3>4. QED
      BY <3>1, <3>2, <3>3
  <2>3. QED
    BY <1>2, <2>1, <2>2 DEF FetchedAreFresh
<1>10. ActiveIsNoted' /\ PassedWasActive' /\ ServedWasActive'
  BY <1>2 DEF IInv, ActiveIsNoted, PassedWasActive, ServedWasActive
<1>11. HeldNow' /\ MissesHeld' /\ RefusalsAreCurrent'
  BY <1>2 DEF IInv, HeldNow, MissesHeld, RefusalsAreCurrent
<1>12. QED
  BY <1>5, <1>6, <1>7, <1>8, <1>9, <1>10, <1>11 DEF IInv

LEMMA IInvStep == IInv /\ [Next]_vars => IInv'
<1> SUFFICES ASSUME IInv, [Next]_vars
             PROVE  IInv'
  OBVIOUS
<1>1. CASE Next
  BY <1>1, RequestKeepsIInv, EditKeepsIInv, PublishKeepsIInv, WithdrawKeepsIInv, TickKeepsIInv,
     RedisLosesKeepsIInv, RestartKeepsIInv DEF Next
<1>2. CASE UNCHANGED vars
  BY <1>2 DEF vars, IInv, Base, Tokens, Copy, PublishedAreFresh, FetchedAreFresh,
     WithdrawnKeysExpire, ActiveIsNoted, PassedWasActive, ServedWasActive, HeldNow,
     MissesHeld, RefusalsAreCurrent
<1>3. QED
  BY <1>1, <1>2

-----------------------------------------------------------------------------

(* The invariant holds in every reachable state.                            *)
THEOREM AuthInvariant == Spec => []IInv
  BY IInvInit, IInvStep, PTL DEF Spec

(* Rows, caches, keys, tokens and outcomes keep their types.                *)
THEOREM TypeCorrect == Spec => []TypeOK
<1>1. IInv => TypeOK
  BY DEF IInv, Base, Tokens, Copy, TypeOK
<1>2. QED
  BY <1>1, AuthInvariant, PTL

(* A key or a tenant is refused as unknown only if it was unknown while the *)
(* request ran (JWKSCache.get_key, TenantRegistry.refresh_one).             *)
THEOREM NoStaleRefusal == Spec => []RefusalsAreCurrent
<1>1. IInv => RefusalsAreCurrent
  BY DEF IInv
<1>2. QED
  BY <1>1, AuthInvariant, PTL

(* Whoever wrote the copy in Redis last, and however late after its keys     *)
(* were fetched, a key withdrawn before is gone JWKS_TTL_SECONDS later.     *)
THEOREM KeysExpire == Spec => []WithdrawnKeysExpire
<1>1. IInv => WithdrawnKeysExpire
  BY DEF IInv
<1>2. QED
  BY <1>1, AuthInvariant, PTL

(* Who is served has a tenant that was active since the process started.    *)
THEOREM OnlyActiveServed == Spec => []ServedWasActive
<1>1. IInv => ServedWasActive
  BY DEF IInv
<1>2. QED
  BY <1>1, AuthInvariant, PTL

=============================================================================
