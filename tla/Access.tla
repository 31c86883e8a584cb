------------------------------- MODULE Access -------------------------------
(***************************************************************************)
(* Users, their roles, and the roster of one meeting of a tenant: requests *)
(* that provision their user at the first login (app/api/deps.py), admins  *)
(* who change roles and grant or revoke access (app/api/routes/admin.py),  *)
(* and ingestions that enrol participants.                                 *)
(*                                                                         *)
(* A request runs in one transaction of the tenant's database.  Its reads  *)
(* see what is committed at the time; what it changes is flushed and       *)
(* committed at its end, in one step here, except the INSERT of a new user *)
(* which is flushed at once and makes another INSERT of that user wait.    *)
(* An exception, the HTTPException of a refusal included, rolls back.      *)
(* The tokens of all requests are valid; see TenantAuth.                   *)
(***************************************************************************)
EXTENDS Naturals, FiniteSets

CONSTANTS
    User,            \* people of the tenant
    Founder,         \* those who are compliance officers to begin with
    Request,         \* requests, and ingestions, running at a time
    MaxSuperAdmins,  \* _MAX_SUPER_ADMINS (3 in the code)
    Nobody,          \* a request inserts no user
    Ops,             \* what the requests are for
    UserPermission,  \* what feature_permissions says of a user and chat, and
    RolePermission   \* of a role: "allow", "deny" or "none"

SystemRole == {"user", "admin", "compliance_officer"}
MeetingRole == {"organizer", "attendee", "granted"}

\* The PATCH body: "keep" for a field that is not in it.
Patches == [kind : {"patch"}, actor : User, target : User,
            active : {"keep", "on", "off"}, role : SystemRole \union {"keep", "unknown"}]
Grants == [kind : {"grant", "revoke"}, actor : User, target : User]
Chats == [kind : {"chat"}, actor : User]
\* Ingestions on a request and by the worker; only people of the meeting.
Enrolments == [kind : {"ingest", "task"}, target : User, as : {"organizer", "attendee"}]
Op == Patches \union Grants \union Chats \union Enrolments

ASSUME AccessConstants ==
    /\ IsFiniteSet(User)
    /\ Founder \subseteq User
    /\ IsFiniteSet(Request) /\ Request # {}
    /\ MaxSuperAdmins \in Nat \ {0}
    /\ Cardinality(Founder) <= MaxSuperAdmins
    /\ Nobody \notin User
    /\ Ops \subseteq Op
    /\ UserPermission \in [User -> {"allow", "deny", "none"}]
    /\ RolePermission \in [SystemRole -> {"allow", "deny", "none"}]

VARIABLES
    role,     \* role[u]: system_role of u's committed row, or "absent"
    active,   \* active[u]: is_active, "on" or "off"
    roster,   \* roster[u]: u's committed role in the meeting, or "none"
    pc,       \* pc[r]: the next step of request r
    op,       \* op[r]: what r is for
    seen,     \* seen[r]: the system_role of r's user as its login read it
    inserts,  \* inserts[r]: the user r has inserted and not committed
    loaded,   \* loaded[r]: the row r is about, as it read it
    writes    \* writes[r]: the columns r changes when it commits

rows == <<role, active, roster>>
vars == <<rows, pc, op, seen, inserts, loaded, writes>>

Row == [role : SystemRole \union MeetingRole \union {"absent", "none"}, active : {"on", "off"}]
Write == [role : SystemRole \union {"keep", "unknown"}, active : {"keep", "on", "off"}]
NoWrite == [role |-> "keep", active |-> "keep"]
NoRow == [role |-> "none", active |-> "off"]

TypeOK ==
    /\ role \in [User -> SystemRole \union {"absent"}]
    /\ active \in [User -> {"on", "off"}]
    /\ roster \in [User -> MeetingRole \union {"none"}]
    /\ pc \in [Request -> {"idle", "lookup", "insert", "gate", "load", "count", "commit"}]
    /\ \A r \in Request : pc[r] # "idle" => op[r] \in Ops
    /\ seen \in [Request -> SystemRole]
    /\ inserts \in [Request -> User \union {Nobody}]
    /\ loaded \in [Request -> Row]
    /\ writes \in [Request -> Write]

\* The officers, and the requests that passed the count to make one.
Officers == {u \in User : role[u] = "compliance_officer"}
Promoting == {r \in Request : pc[r] = "commit" /\ writes[r].role = "compliance_officer"}

-----------------------------------------------------------------------------

NoOp == [kind |-> "none"]

Init ==
    /\ role \in [User -> SystemRole \union {"absent"}]
    /\ Officers = Founder
    /\ active = [u \in User |-> "on"]
    /\ roster = [u \in User |-> "none"]
    /\ pc = [r \in Request |-> "idle"]
    /\ op = [r \in Request |-> NoOp]
    /\ seen = [r \in Request |-> "user"]
    /\ inserts = [r \in Request |-> Nobody]
    /\ loaded = [r \in Request |-> NoRow]
    /\ writes = [r \in Request |-> NoWrite]

Goto(r, step) == pc' = [pc EXCEPT ![r] = step]

\* The request is over, and its session closed.
Close(r) ==
    /\ Goto(r, "idle")
    /\ op' = [op EXCEPT ![r] = NoOp]
    /\ seen' = [seen EXCEPT ![r] = "user"]
    /\ inserts' = [inserts EXCEPT ![r] = Nobody]
    /\ loaded' = [loaded EXCEPT ![r] = NoRow]
    /\ writes' = [writes EXCEPT ![r] = NoWrite]

\* It is refused, or fails: everything it did is rolled back.
Refuse(r) == Close(r) /\ UNCHANGED rows

Begin(r) ==
    /\ pc[r] = "idle"
    /\ \E o \in Ops :
         /\ op' = [op EXCEPT ![r] = o]
         /\ Goto(r, IF o \in Enrolments THEN "load" ELSE "lookup")
    /\ UNCHANGED <<rows, seen, inserts, loaded, writes>>

-----------------------------------------------------------------------------
(* Login and gates.                                                         *)

\* _upsert_user: the SELECT, and the check of is_active.
Lookup(r) ==
    LET u == op[r].actor IN
    /\ pc[r] = "lookup"
    /\ \/ /\ role[u] = "absent"
          /\ Goto(r, "insert")
          /\ UNCHANGED <<rows, op, seen, inserts, loaded, writes>>
       \/ /\ role[u] # "absent"
          /\ active[u] = "on"
          /\ seen' = [seen EXCEPT ![r] = role[u]]
          /\ Goto(r, "gate")
          /\ UNCHANGED <<rows, op, inserts, loaded, writes>>
       \/ /\ role[u] # "absent"
          /\ active[u] = "off"
          /\ Refuse(r)

\* Mutant: the flush does not meet the other login's row.
InsertUserBlindly(r) ==
    LET u == op[r].actor IN
    /\ pc[r] = "insert"
    /\ inserts' = [inserts EXCEPT ![r] = u]
    /\ Goto(r, "gate")
    /\ UNCHANGED <<rows, op, seen, loaded, writes>>

\* The INSERT of a first login: it waits for another one, and fails with 503
\* if that committed.
InsertUser(r) ==
    LET u == op[r].actor IN
    /\ pc[r] = "insert"
    /\ u \notin {inserts[q] : q \in Request}
    /\ \/ /\ role[u] = "absent"
          /\ inserts' = [inserts EXCEPT ![r] = u]
          /\ Goto(r, "gate")
          /\ UNCHANGED <<rows, op, seen, loaded, writes>>
       \/ /\ role[u] # "absent"
          /\ Refuse(r)

\* require_feature: the user's permission, else the role's, else denied.
Permitted(u, r) ==
    \/ UserPermission[u] = "allow"
    \/ UserPermission[u] = "none" /\ RolePermission[r] = "allow"

\* require_super_admin for the admin routes, require_feature for the chat,
\* which then writes nothing of this module but its new user.
Gate(r) ==
    /\ pc[r] = "gate"
    /\ LET passes == IF op[r].kind = "chat" THEN Permitted(op[r].actor, seen[r])
                                            ELSE seen[r] = "compliance_officer"
       IN  \/ /\ passes
              /\ Goto(r, IF op[r].kind = "chat" THEN "commit" ELSE "load")
              /\ UNCHANGED <<rows, op, seen, inserts, loaded, writes>>
           \/ /\ ~passes
              /\ Refuse(r)

-----------------------------------------------------------------------------
(* Handlers.                                                                *)

Ready(r, row, write, step) ==
    /\ loaded' = [loaded EXCEPT ![r] = row]
    /\ writes' = [writes EXCEPT ![r] = write]
    /\ Goto(r, step)
    /\ UNCHANGED <<rows, op, seen, inserts>>

\* The target of a PATCH as its SELECT returns it.  The actor's row has been
\* read by the login, and the session returns the object it has.
UserRow(r) ==
    LET o == op[r] IN
    IF o.target = o.actor THEN [role |-> seen[r], active |-> "on"]
                          ELSE [role |-> role[o.target], active |-> active[o.target]]

\* Mutant: the demotion is carried out.
PatchDemoting(r) ==
    LET o == op[r]
        row == UserRow(r)
        write == [role |-> IF o.role = row.role THEN "keep" ELSE o.role,
                  active |-> IF o.active = row.active THEN "keep" ELSE o.active]
    IN
    /\ pc[r] = "load"
    /\ o.kind = "patch"
    /\ \/ row.role = "absent" /\ Refuse(r)
       \/ /\ row.role # "absent"
          /\ Ready(r, row, write, IF write.role = "compliance_officer" THEN "count"
                                                                       ELSE "commit")

\* patch_user up to the count: 404, or the columns that will change.  A
\* demotion is accepted and not carried out.
Patch(r) ==
    LET o == op[r]
        row == UserRow(r)
        write == [role |-> IF o.role = row.role \/ row.role = "compliance_officer"
                           THEN "keep" ELSE o.role,
                  active |-> IF o.active = row.active THEN "keep" ELSE o.active]
    IN
    /\ pc[r] = "load"
    /\ o.kind = "patch"
    /\ \/ row.role = "absent" /\ Refuse(r)
       \/ /\ row.role # "absent"
          /\ Ready(r, row, write, IF write.role = "compliance_officer" THEN "count"
                                                                       ELSE "commit")

\* Mutant: the cap is off by one.
CountLoosely(r) ==
    /\ pc[r] = "count"
    /\ \/ /\ Cardinality(Officers) > MaxSuperAdmins
          /\ Refuse(r)
       \/ /\ Cardinality(Officers) <= MaxSuperAdmins
          /\ Goto(r, "commit")
          /\ UNCHANGED <<rows, op, seen, inserts, loaded, writes>>

\* The promotion counts the committed officers.
Count(r) ==
    /\ pc[r] = "count"
    /\ \/ /\ Cardinality(Officers) >= MaxSuperAdmins
          /\ Refuse(r)
       \/ /\ Cardinality(Officers) < MaxSuperAdmins
          /\ Goto(r, "commit")
          /\ UNCHANGED <<rows, op, seen, inserts, loaded, writes>>

MeetingRow(u) == [role |-> roster[u], active |-> "on"]

\* grant_meeting_access: 400 for a participant.
GrantAccess(r) ==
    LET u == op[r].target IN
    /\ pc[r] = "load"
    /\ op[r].kind = "grant"
    /\ \/ roster[u] # "none" /\ Refuse(r)
       \/ roster[u] = "none" /\ Ready(r, MeetingRow(u), NoWrite, "commit")

\* Mutant: the role is not part of the condition.
RevokeAnyAccess(r) ==
    LET u == op[r].target IN
    /\ pc[r] = "load"
    /\ op[r].kind = "revoke"
    /\ \/ roster[u] = "none" /\ Refuse(r)
       \/ roster[u] # "none" /\ Ready(r, MeetingRow(u), NoWrite, "commit")

\* revoke_meeting_access: 404 unless the role is granted.
RevokeAccess(r) ==
    LET u == op[r].target IN
    /\ pc[r] = "load"
    /\ op[r].kind = "revoke"
    /\ \/ roster[u] # "granted" /\ Refuse(r)
       \/ roster[u] = "granted" /\ Ready(r, MeetingRow(u), NoWrite, "commit")

\* _upsert_participant of the ingestions: the SELECT.
ReadParticipant(r) ==
    LET u == op[r].target IN
    /\ pc[r] = "load"
    /\ op[r].kind \in {"ingest", "task"}
    /\ Ready(r, MeetingRow(u), NoWrite, "commit")

-----------------------------------------------------------------------------
(* Commit.                                                                  *)

\* The new user of the request becomes visible.
Provisioned(r, u) == inserts[r] = u

\* Mutant: the role is not checked.
CommitUsersUnchecked(r) ==
    /\ pc[r] = "commit"
    /\ op[r].kind \in {"patch", "chat"}
    /\ LET wrote(u) == op[r].kind = "patch" /\ op[r].target = u IN
       /\ role' = [u \in User |->
            IF wrote(u) /\ writes[r].role # "keep" THEN writes[r].role
            ELSE IF Provisioned(r, u) THEN "user" ELSE role[u]]
       /\ active' = [u \in User |->
            IF wrote(u) /\ writes[r].active # "keep" THEN writes[r].active
            ELSE IF Provisioned(r, u) THEN "on" ELSE active[u]]
    /\ Close(r)
    /\ UNCHANGED roster

\* What the request changed of the users becomes visible.
CommitUsers(r) ==
    /\ pc[r] = "commit"
    /\ op[r].kind \in {"patch", "chat"}
    /\ writes[r].role # "unknown"
    /\ LET wrote(u) == op[r].kind = "patch" /\ op[r].target = u IN
       /\ role' = [u \in User |->
            IF wrote(u) /\ writes[r].role # "keep" THEN writes[r].role
            ELSE IF Provisioned(r, u) THEN "user" ELSE role[u]]
       /\ active' = [u \in User |->
            IF wrote(u) /\ writes[r].active # "keep" THEN writes[r].active
            ELSE IF Provisioned(r, u) THEN "on" ELSE active[u]]
    /\ Close(r)
    /\ UNCHANGED roster

SetRoster(r, meetingRole) ==
    /\ roster' = [roster EXCEPT ![op[r].target] = meetingRole]
    /\ Close(r)
    /\ UNCHANGED <<role, active>>

\* INSERT of a row that was not there when it was looked for.
CommitInsert(r) ==
    /\ pc[r] = "commit"
    /\ op[r].kind \in {"grant", "ingest", "task"}
    /\ loaded[r].role = "none"
    /\ roster[op[r].target] = "none"
    /\ SetRoster(r, IF op[r].kind = "grant" THEN "granted" ELSE op[r].as)

\* DELETE by primary key, whatever the role has become.
CommitDelete(r) ==
    /\ pc[r] = "commit"
    /\ op[r].kind = "revoke"
    /\ SetRoster(r, "none")

\* Mutant: the UPDATE brings a deleted row back.
CommitUpsert(r) ==
    /\ pc[r] = "commit"
    /\ op[r].kind = "ingest"
    /\ loaded[r].role # "none"
    /\ SetRoster(r, op[r].as)

\* An ingestion on a request gives the row the participant's role; nothing is
\* written if that is the role it has read.
CommitUpdate(r) ==
    /\ pc[r] = "commit"
    /\ op[r].kind = "ingest"
    /\ loaded[r].role # "none"
    /\ \/ /\ loaded[r].role # op[r].as
          /\ roster[op[r].target] # "none"
          /\ SetRoster(r, op[r].as)
       \/ /\ loaded[r].role = op[r].as
          /\ Refuse(r)

\* The worker leaves an existing row alone.
CommitNothing(r) ==
    /\ pc[r] = "commit"
    /\ op[r].kind = "task"
    /\ loaded[r].role # "none"
    /\ Refuse(r)

\* A statement or the COMMIT fails: a lost connection, a row that is there
\* already or no longer, a role the CHECK constraint rejects.
Fail(r) ==
    /\ pc[r] # "idle"
    /\ Refuse(r)

Next ==
    \E r \in Request :
        \/ Begin(r)
        \/ Lookup(r)
        \/ InsertUser(r)
        \/ Gate(r)
        \/ Patch(r)
        \/ Count(r)
        \/ GrantAccess(r)
        \/ RevokeAccess(r)
        \/ ReadParticipant(r)
        \/ CommitUsers(r)
        \/ CommitInsert(r)
        \/ CommitDelete(r)
        \/ CommitUpdate(r)
        \/ CommitNothing(r)
        \/ Fail(r)

Spec == Init /\ [][Next]_vars

-----------------------------------------------------------------------------
(* Properties.                                                              *)

(* "Promotion - enforce max 3", and the refusal's "Maximum of 3 super admins *)
(* allowed per tenant" (patch_user).  It does not hold: the count and the   *)
(* COMMIT are two steps, and promotions that overlap pass the count         *)
(* together.                                                                *)
CapHolds == Cardinality(Officers) <= MaxSuperAdmins

(* What is left of the cap: the excess does not build up.  Officers and     *)
(* promotions about to be committed never exceed it by more than the other  *)
(* requests in flight, however long the tenant is administered.             *)
CapWithinOverlap ==
    Cardinality(Officers) + Cardinality(Promoting) <= MaxSuperAdmins + Cardinality(Request) - 1

(* An officer loses the role only to a request that read the row before it  *)
(* said officer: nobody demotes one knowingly.                              *)
NoDemotion ==
    [][\A u \in Officers : u \notin Officers' =>
         \E r \in Request : /\ pc[r] = "commit"
                            /\ op[r].kind = "patch" /\ op[r].target = u
                            /\ loaded[r].role # "compliance_officer"]_vars

(* Revoking takes away granted access only: who takes part in the meeting   *)
(* stays on the roster, unless an ingestion enrolled them between the read  *)
(* and the COMMIT of the revocation.                                        *)
ParticipantsStay ==
    [][\A u \in User : roster[u] # "none" /\ roster'[u] = "none" =>
         \E r \in Request : /\ pc[r] = "commit"
                            /\ op[r].kind = "revoke" /\ op[r].target = u
                            /\ loaded[r].role = "granted"]_vars

(* A revoked row comes back only through a request that found it missing,   *)
(* never through one that had read it before it was revoked.                *)
RevokedStaysRevoked ==
    [][\A u \in User : roster[u] = "none" /\ roster'[u] # "none" =>
         \E r \in Request : /\ pc[r] = "commit"
                            /\ op[r].kind # "chat" /\ op[r].target = u
                            /\ loaded[r].role = "none"]_vars

(* However many first logins of a user overlap, one of them inserts the     *)
(* row, and what an admin made of the user since is not reset by another.   *)
OneProvisioning ==
    \A r \in Request : inserts[r] # Nobody =>
        /\ role[inserts[r]] = "absent"
        /\ \A q \in Request \ {r} : inserts[q] # inserts[r]

=============================================================================
