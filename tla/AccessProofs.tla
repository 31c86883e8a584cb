---------------------------- MODULE AccessProofs ----------------------------
(***************************************************************************)
(* Theorems about Access, for every number of people and requests, every   *)
(* cap and every set of operations.                                        *)
(*                                                                         *)
(* The properties speak of what a commit does to the rows; the invariant   *)
(* says what a request knows when it commits: whom it may change is        *)
(* registered, an officer it has read keeps the role, and what it revokes  *)
(* was granted when it looked.                                             *)
(***************************************************************************)
EXTENDS Access, TLAPS, FiniteSetTheorems

Types == TypeOK /\ DOMAIN op = Request

\* What a request has made sure of.
Sure(r) ==
    /\ pc[r] = "idle" => seen[r] = "user"
    /\ pc[r] \in {"lookup", "insert", "gate"} => op[r].actor \in User
    /\ pc[r] \notin {"count", "commit"} => writes[r].role = "keep"
    /\ seen[r] # "user" => op[r].actor \in User /\ role[op[r].actor] # "absent"
    /\ pc[r] \in {"load", "count", "commit"} /\ op[r].kind = "patch" =>
         seen[r] = "compliance_officer"
    /\ pc[r] \in {"count", "commit"} /\ op[r].kind = "patch" =>
         /\ role[op[r].target] # "absent"
         /\ loaded[r].role = "compliance_officer" => writes[r].role = "keep"
    /\ pc[r] \in {"count", "commit"} /\ op[r].kind = "revoke" => loaded[r].role = "granted"

IInv ==
    /\ Types
    /\ \A r \in Request : Sure(r)
    /\ OneProvisioning

-----------------------------------------------------------------------------

(* The kind of an operation tells which fields it has.                      *)
LEMMA OpTypes ==
    ASSUME NEW o \in Ops
    PROVE  /\ o.kind \in {"patch", "grant", "revoke", "chat", "ingest", "task"}
           /\ o.kind \in {"patch", "grant", "revoke", "chat"} => o.actor \in User
           /\ o.kind # "chat" => o.target \in User
           /\ o.kind = "patch" => /\ o.active \in {"keep", "on", "off"}
                                  /\ o.role \in SystemRole \union {"keep", "unknown"}
           /\ o.kind \in {"ingest", "task"} <=> o \in Enrolments
           /\ o \in Enrolments => o.as \in {"organizer", "attendee"}
<1>1. o \in Patches \/ o \in Grants \/ o \in Chats \/ o \in Enrolments
  BY AccessConstants DEF Op
<1>2. CASE o \in Patches
  BY <1>2 DEF Patches, Enrolments
<1>3. CASE o \in Grants
  BY <1>3 DEF Grants, Enrolments
<1>4. CASE o \in Chats
  BY <1>4 DEF Chats, Enrolments
<1>5. CASE o \in Enrolments
  BY <1>5 DEF Enrolments
<1>6. QED
  BY <1>1, <1>2, <1>3, <1>4, <1>5

\* Only r moves.
Alone(r) ==
    \A q \in Request \ {r} :
        /\ pc'[q] = pc[q] /\ op'[q] = op[q] /\ seen'[q] = seen[q]
        /\ inserts'[q] = inserts[q] /\ loaded'[q] = loaded[q] /\ writes'[q] = writes[q]

\* Nobody's row disappears.
Kept == \A u \in User : role[u] # "absent" => role'[u] # "absent"

(* A step of r leaves what the others made sure of.                         *)
LEMMA OthersAreSure ==
    ASSUME IInv, NEW r \in Request, Alone(r), Kept, Sure(r)'
    PROVE  \A q \in Request : Sure(q)'
<1> SUFFICES ASSUME NEW q \in Request, q # r
             PROVE  Sure(q)'
  OBVIOUS
<1>1. /\ pc'[q] = pc[q] /\ op'[q] = op[q] /\ seen'[q] = seen[q]
      /\ loaded'[q] = loaded[q] /\ writes'[q] = writes[q]
  BY DEF Alone
<1>2. Sure(q)
  BY DEF IInv
<1>3. pc[q] # "idle" /\ op[q].kind = "patch" => op[q].target \in User
  BY OpTypes DEF IInv, Types, TypeOK
<1>4. QED
  BY <1>1, <1>2, <1>3 DEF Sure, Kept

(* With the rows as they are, and no new INSERT, one inserts.               *)
LEMMA StillOne ==
    ASSUME IInv, NEW r \in Request, Alone(r), role' = role,
           inserts'[r] \in {inserts[r], Nobody}
    PROVE  OneProvisioning'
  BY DEF IInv, Alone, OneProvisioning

(* What every end of a request leaves behind.                               *)
LEMMA Closing ==
    ASSUME IInv, NEW r \in Request, Close(r)
    PROVE  /\ Alone(r)
           /\ Sure(r)'
           /\ DOMAIN op' = Request
           /\ pc' \in [Request -> {"idle", "lookup", "insert", "gate", "load", "count", "commit"}]
           /\ pc'[r] = "idle"
           /\ \A q \in Request : pc'[q] # "idle" => op'[q] \in Ops
           /\ seen' \in [Request -> SystemRole]
           /\ inserts' \in [Request -> User \union {Nobody}] /\ inserts'[r] = Nobody
           /\ loaded' \in [Request -> Row]
           /\ writes' \in [Request -> Write] /\ writes'[r] = NoWrite
<1>1. NoRow \in Row /\ NoWrite \in Write /\ "user" \in SystemRole
  BY DEF NoRow, Row, NoWrite, Write, SystemRole
<1>2. /\ pc' = [pc EXCEPT ![r] = "idle"]
      /\ op' = [op EXCEPT ![r] = NoOp]
      /\ seen' = [seen EXCEPT ![r] = "user"]
      /\ inserts' = [inserts EXCEPT ![r] = Nobody]
      /\ loaded' = [loaded EXCEPT ![r] = NoRow]
      /\ writes' = [writes EXCEPT ![r] = NoWrite]
  BY DEF Close, Goto
<1>3. Types
  BY DEF IInv
<1>4. /\ pc'[r] = "idle" /\ seen'[r] = "user" /\ inserts'[r] = Nobody
      /\ writes'[r] = NoWrite
  BY <1>2, <1>3 DEF Types, TypeOK
<1>5. Alone(r)
  BY <1>2, <1>3 DEF Types, TypeOK, Alone
<1>6. Sure(r)'
  BY <1>4 DEF Sure, NoWrite
<1>7. DOMAIN op' = Request /\ \A q \in Request : pc'[q] # "idle" => op'[q] \in Ops
  BY <1>2, <1>3, <1>4 DEF Types, TypeOK
<1>8. QED
  BY <1>1, <1>2, <1>3, <1>4, <1>5, <1>6, <1>7 DEF Types, TypeOK

LEMMA RefuseKeepsIInv ==
    ASSUME IInv, NEW r \in Request, Refuse(r)
    PROVE  IInv'
<1>1. Close(r) /\ role' = role /\ active' = active /\ roster' = roster
  BY DEF Refuse, rows
<1>2. Types'
  BY <1>1, Closing DEF IInv, Types, TypeOK
<1>3. \A q \in Request : Sure(q)'
  BY <1>1, Closing, OthersAreSure DEF Kept
<1>4. OneProvisioning'
  BY <1>1, Closing, StillOne
<1>5. QED
  BY <1>2, <1>3, <1>4 DEF IInv

(* A request that goes on, having read or inserted.                         *)
LEMMA MovesKeepIInv ==
    ASSUME IInv, NEW r \in Request, Alone(r), UNCHANGED rows, Types', Sure(r)', OneProvisioning'
    PROVE  IInv'
  BY OthersAreSure DEF rows, Kept, IInv

LEMMA BeginKeepsIInv ==
    ASSUME IInv, NEW r \in Request, Begin(r)
    PROVE  IInv'
<1>1. PICK o \in Ops : /\ op' = [op EXCEPT ![r] = o]
                       /\ Goto(r, IF o \in Enrolments THEN "load" ELSE "lookup")
  BY DEF Begin
<1>2. UNCHANGED <<role, active, roster, seen, inserts, loaded, writes>> /\ pc[r] = "idle"
  BY DEF Begin, rows
<1>3. /\ Types
      /\ o \in Enrolments => o.kind # "patch"
      /\ o \notin Enrolments => o.actor \in User
  BY OpTypes DEF IInv
<1>4. /\ pc' = [pc EXCEPT ![r] = IF o \in Enrolments THEN "load" ELSE "lookup"]
      /\ pc \in [Request -> {"idle", "lookup", "insert", "gate", "load", "count", "commit"}]
      /\ DOMAIN op = Request
  BY <1>1, <1>3 DEF Goto, Types, TypeOK
<1>5. /\ pc'[r] = (IF o \in Enrolments THEN "load" ELSE "lookup")
      /\ op'[r] = o
      /\ \A q \in Request \ {r} : pc'[q] = pc[q] /\ op'[q] = op[q]
      /\ pc' \in [Request -> {"idle", "lookup", "insert", "gate", "load", "count", "commit"}]
      /\ DOMAIN op' = Request
  BY <1>1, <1>4
<1>6. Types'
  BY <1>2, <1>3, <1>5 DEF Types, TypeOK
<1>7. Alone(r)
  BY <1>2, <1>5 DEF Alone
<1>8. Sure(r) /\ seen[r] = "user"
  BY <1>2 DEF IInv, Sure
<1>9. Sure(r)'
  BY <1>2, <1>3, <1>5, <1>8 DEF Sure
<1>10. OneProvisioning'
  BY <1>2, <1>7, StillOne
<1>11. QED
  BY <1>2, <1>6, <1>7, <1>9, <1>10, MovesKeepIInv DEF rows

\* r goes to a step, and nothing else changes.
LEMMA GotoMoves ==
    ASSUME IInv, NEW r \in Request, NEW step \in {"insert", "gate", "load", "count", "commit"},
           Goto(r, step)
    PROVE  /\ pc' \in [Request -> {"idle", "lookup", "insert", "gate", "load", "count", "commit"}]
           /\ pc'[r] = step
           /\ \A q \in Request \ {r} : pc'[q] = pc[q]
  BY DEF IInv, Types, TypeOK, Goto

LEMMA LookupKeepsIInv ==
    ASSUME IInv, NEW r \in Request, Lookup(r)
    PROVE  IInv'
<1> DEFINE u == op[r].actor
<1>1. CASE Refuse(r)
  BY <1>1, RefuseKeepsIInv
<1>2. Types /\ Sure(r) /\ pc[r] = "lookup" /\ op[r] \in Ops
  BY DEF IInv, Lookup, Types, TypeOK
<1>3. CASE /\ Goto(r, "insert")
           /\ UNCHANGED <<role, active, roster, op, seen, inserts, loaded, writes>>
  <2>1. /\ pc' \in [Request -> {"idle", "lookup", "insert", "gate", "load", "count", "commit"}]
        /\ pc'[r] = "insert"
        /\ \A q \in Request \ {r} : pc'[q] = pc[q]
    BY <1>3, GotoMoves
  <2>2. Types'
    BY <1>2, <1>3, <2>1 DEF Types, TypeOK
  <2>3. Alone(r)
    BY <1>3, <2>1 DEF Alone
  <2>4. Sure(r)'
    BY <1>2, <1>3, <2>1 DEF Sure
  <2>5. OneProvisioning'
    BY <1>3, <2>3, StillOne
  <2>6. QED
    BY <1>3, <2>2, <2>3, <2>4, <2>5, MovesKeepIInv DEF rows
<1>4. CASE /\ role[u] # "absent" /\ active[u] = "on"
           /\ seen' = [seen EXCEPT ![r] = role[u]]
           /\ Goto(r, "gate")
           /\ UNCHANGED <<role, active, roster, op, inserts, loaded, writes>>
  <2>1. /\ pc' \in [Request -> {"idle", "lookup", "insert", "gate", "load", "count", "commit"}]
        /\ pc'[r] = "gate"
        /\ \A q \in Request \ {r} : pc'[q] = pc[q]
    BY <1>4, GotoMoves
  <2>2. u \in User /\ role[u] \in SystemRole
    BY <1>2, <1>4 DEF Types, TypeOK, Sure
  <2>3. /\ seen' \in [Request -> SystemRole]
        /\ seen'[r] = role[u]
        /\ \A q \in Request \ {r} : seen'[q] = seen[q]
    BY <1>2, <1>4, <2>2 DEF Types, TypeOK
  <2>4. Types'
    BY <1>2, <1>4, <2>1, <2>3 DEF Types, TypeOK
  <2>5. Alone(r)
    BY <1>4, <2>1, <2>3 DEF Alone
  <2>6. Sure(r)'
    BY <1>2, <1>4, <2>1, <2>2, <2>3 DEF Sure
  <2>7. OneProvisioning'
    BY <1>4, <2>5, StillOne
  <2>8. QED
    BY <1>4, <2>4, <2>5, <2>6, <2>7, MovesKeepIInv DEF rows
<1>5. QED
  BY <1>1, <1>3, <1>4 DEF Lookup, rows

LEMMA InsertKeepsIInv ==
    ASSUME IInv, NEW r \in Request, InsertUser(r)
    PROVE  IInv'
<1> DEFINE u == op[r].actor
<1>1. CASE Refuse(r)
  BY <1>1, RefuseKeepsIInv
<1>2. Types /\ Sure(r) /\ pc[r] = "insert" /\ op[r] \in Ops
  BY DEF IInv, InsertUser, Types, TypeOK
<1>3. CASE /\ role[u] = "absent"
           /\ inserts' = [inserts EXCEPT ![r] = u]
           /\ Goto(r, "gate")
           /\ UNCHANGED <<role, active, roster, op, seen, loaded, writes>>
  <2>1. /\ pc' \in [Request -> {"idle", "lookup", "insert", "gate", "load", "count", "commit"}]
        /\ pc'[r] = "gate"
        /\ \A q \in Request \ {r} : pc'[q] = pc[q]
    BY <1>3, GotoMoves
  <2>2. u \in User
    BY <1>2 DEF Sure
  <2>3. /\ inserts' \in [Request -> User \union {Nobody}]
        /\ inserts'[r] = u
        /\ \A q \in Request \ {r} : inserts'[q] = inserts[q]
    BY <1>2, <1>3, <2>2 DEF Types, TypeOK
  <2>4. Types'
    BY <1>2, <1>3, <2>1, <2>3 DEF Types, TypeOK
  <2>5. Alone(r)
    BY <1>3, <2>1, <2>3 DEF Alone
  <2>6. Sure(r)'
    BY <1>2, <1>3, <2>1 DEF Sure
  <2>7. \A q \in Request : inserts[q] # u
    BY DEF InsertUser
  <2>8. OneProvisioning'
    BY <1>3, <2>3, <2>7 DEF IInv, OneProvisioning
  <2>9. QED
    BY <1>3, <2>4, <2>5, <2>6, <2>8, MovesKeepIInv DEF rows
<1>4. QED
  BY <1>1, <1>3 DEF InsertUser, rows

LEMMA GateKeepsIInv ==
    ASSUME IInv, NEW r \in Request, Gate(r)
    PROVE  IInv'
<1>1. CASE Refuse(r)
  BY <1>1, RefuseKeepsIInv
<1>2. Types /\ Sure(r) /\ pc[r] = "gate" /\ op[r] \in Ops
  BY DEF IInv, Gate, Types, TypeOK
<1>3. ASSUME NEW step \in {"commit", "load"},
             IF op[r].kind = "chat" THEN step = "commit"
                                    ELSE step = "load" /\ seen[r] = "compliance_officer",
             Goto(r, step),
             UNCHANGED <<role, active, roster, op, seen, inserts, loaded, writes>>
      PROVE  IInv'
  <2>1. /\ pc' \in [Request -> {"idle", "lookup", "insert", "gate", "load", "count", "commit"}]
        /\ pc'[r] = step
        /\ \A q \in Request \ {r} : pc'[q] = pc[q]
    BY <1>3, GotoMoves
  <2>2. Types'
    BY <1>2, <1>3, <2>1 DEF Types, TypeOK
  <2>3. Alone(r)
    BY <1>3, <2>1 DEF Alone
  <2>4. Sure(r)'
    BY <1>2, <1>3, <2>1 DEF Sure
  <2>5. OneProvisioning'
    BY <1>3, <2>3, StillOne
  <2>6. QED
    BY <1>3, <2>2, <2>3, <2>4, <2>5, MovesKeepIInv DEF rows
<1>4. QED
  BY <1>1, <1>3 DEF Gate, rows

(* A handler has read the row it is about, and goes on to count or commit.  *)
LEMMA ReadyKeepsIInv ==
    ASSUME IInv, NEW r \in Request, NEW row \in Row, NEW write \in Write,
           NEW step \in {"count", "commit"}, pc[r] = "load", Ready(r, row, write, step),
           op[r].kind = "patch" => /\ role[op[r].target] # "absent"
                                   /\ row.role = "compliance_officer" => write.role = "keep",
           op[r].kind = "revoke" => row.role = "granted"
    PROVE  IInv'
<1>1. /\ loaded' = [loaded EXCEPT ![r] = row]
      /\ writes' = [writes EXCEPT ![r] = write]
      /\ Goto(r, step)
      /\ UNCHANGED <<role, active, roster, op, seen, inserts>>
  BY DEF Ready, rows
<1>2. /\ pc' \in [Request -> {"idle", "lookup", "insert", "gate", "load", "count", "commit"}]
      /\ pc'[r] = step
      /\ \A q \in Request \ {r} : pc'[q] = pc[q]
  BY <1>1, GotoMoves
<1>3. Types /\ Sure(r) /\ op[r] \in Ops
  BY DEF IInv, Types, TypeOK
<1>4. /\ loaded' \in [Request -> Row] /\ writes' \in [Request -> Write]
      /\ loaded'[r] = row /\ writes'[r] = write
      /\ \A q \in Request \ {r} : loaded'[q] = loaded[q] /\ writes'[q] = writes[q]
  BY <1>1, <1>3 DEF Types, TypeOK
<1>5. Types'
  BY <1>1, <1>2, <1>3, <1>4 DEF Types, TypeOK
<1>6. Alone(r)
  BY <1>1, <1>2, <1>4 DEF Alone
<1>7. Sure(r)'
  BY <1>1, <1>2, <1>3, <1>4 DEF Sure
<1>8. OneProvisioning'
  BY <1>1, <1>6, StillOne
<1>9. QED
  BY <1>1, <1>5, <1>6, <1>7, <1>8, MovesKeepIInv DEF rows

(* A row of the roster is a row.                                            *)
LEMMA MeetingRowType ==
    ASSUME IInv, NEW u \in User
    PROVE  MeetingRow(u) \in Row /\ MeetingRow(u).role = roster[u] /\ NoWrite \in Write
  BY DEF IInv, Types, TypeOK, MeetingRow, Row, NoWrite, Write

LEMMA PatchKeepsIInv ==
    ASSUME IInv, NEW r \in Request, Patch(r)
    PROVE  IInv'
<1> DEFINE o == op[r]
           row == UserRow(r)
           write == [role |-> IF o.role = row.role \/ row.role = "compliance_officer"
                              THEN "keep" ELSE o.role,
                     active |-> IF o.active = row.active THEN "keep" ELSE o.active]
           step == IF write.role = "compliance_officer" THEN "count" ELSE "commit"
<1>1. CASE Refuse(r)
  BY <1>1, RefuseKeepsIInv
<1>2. Types /\ Sure(r) /\ pc[r] = "load" /\ o.kind = "patch" /\ o \in Ops
  BY DEF IInv, Patch, Types, TypeOK
<1>3. CASE row.role # "absent" /\ Ready(r, row, write, step)
  <2>1. /\ o.actor \in User /\ o.target \in User
        /\ o.active \in {"keep", "on", "off"}
        /\ o.role \in SystemRole \union {"keep", "unknown"}
    BY <1>2, OpTypes
  <2>2. write \in Write /\ step \in {"count", "commit"}
    BY <2>1 DEF Write
  <2>3. row \in Row
    BY <1>2, <2>1 DEF UserRow, Row, Types, TypeOK
  <2>4. role[o.target] # "absent"
    <3>1. seen[r] = "compliance_officer" /\ role[o.actor] # "absent"
      BY <1>2 DEF Sure
    <3>2. QED
      BY <1>3, <3>1 DEF UserRow
  <2>5. row.role = "compliance_officer" => write.role = "keep"
    OBVIOUS
  <2> HIDE DEF row, write, step
  <2>6. QED
    BY <1>2, <1>3, <2>2, <2>3, <2>4, <2>5, ReadyKeepsIInv
<1>4. QED
  BY <1>1, <1>3 DEF Patch

LEMMA CountKeepsIInv ==
    ASSUME IInv, NEW r \in Request, Count(r)
    PROVE  IInv'
<1>1. CASE Refuse(r)
  BY <1>1, RefuseKeepsIInv
<1>2. Types /\ Sure(r) /\ pc[r] = "count" /\ op[r] \in Ops
  BY DEF IInv, Count, Types, TypeOK
<1>3. CASE /\ Goto(r, "commit")
           /\ UNCHANGED <<role, active, roster, op, seen, inserts, loaded, writes>>
  <2>1. /\ pc' \in [Request -> {"idle", "lookup", "insert", "gate", "load", "count", "commit"}]
        /\ pc'[r] = "commit"
        /\ \A q \in Request \ {r} : pc'[q] = pc[q]
    BY <1>3, GotoMoves
  <2>2. Types'
    BY <1>2, <1>3, <2>1 DEF Types, TypeOK
  <2>3. Alone(r)
    BY <1>3, <2>1 DEF Alone
  <2>4. Sure(r)'
    BY <1>2, <1>3, <2>1 DEF Sure
  <2>5. OneProvisioning'
    BY <1>3, <2>3, StillOne
  <2>6. QED
    BY <1>3, <2>2, <2>3, <2>4, <2>5, MovesKeepIInv DEF rows
<1>4. QED
  BY <1>1, <1>3 DEF Count, rows

(* Granting, revoking and enrolling read the row of the roster.             *)
LEMMA RosterReadsKeepIInv ==
    ASSUME IInv, NEW r \in Request, GrantAccess(r) \/ RevokeAccess(r) \/ ReadParticipant(r)
    PROVE  IInv'
<1> DEFINE u == op[r].target
<1>1. CASE Refuse(r)
  BY <1>1, RefuseKeepsIInv
<1>2. pc[r] = "load" /\ op[r].kind \in {"grant", "revoke", "ingest", "task"} /\ op[r] \in Ops
  BY DEF GrantAccess, RevokeAccess, ReadParticipant, IInv, Types, TypeOK
<1>3. CASE /\ Ready(r, MeetingRow(u), NoWrite, "commit")
           /\ op[r].kind = "revoke" => roster[u] = "granted"
  <2>1. u \in User
    BY <1>2, OpTypes
  <2>2. /\ MeetingRow(u) \in Row /\ NoWrite \in Write
        /\ op[r].kind = "revoke" => MeetingRow(u).role = "granted"
    BY <1>3, <2>1, MeetingRowType
  <2> HIDE DEF u
  <2>3. QED
    BY <1>2, <1>3, <2>2, ReadyKeepsIInv
<1>4. QED
  BY <1>1, <1>3 DEF GrantAccess, RevokeAccess, ReadParticipant

-----------------------------------------------------------------------------
(* Commits.                                                                 *)

(* A commit of users makes nobody's row disappear, and the roles it writes  *)
(* are roles.                                                               *)
LEMMA CommittedUsers ==
    ASSUME IInv, NEW r \in Request, CommitUsers(r)
    PROVE  /\ role' \in [User -> SystemRole \union {"absent"}]
           /\ active' \in [User -> {"on", "off"}]
           /\ Kept
           /\ \A u \in User : \/ role'[u] = role[u]
                              \/ inserts[r] = u /\ role'[u] = "user"
                              \/ /\ op[r].kind = "patch" /\ op[r].target = u
                                 /\ role'[u] = writes[r].role /\ writes[r].role # "keep"
<1>1. /\ role' = [u \in User |->
            IF op[r].kind = "patch" /\ op[r].target = u /\ writes[r].role # "keep"
              THEN writes[r].role
            ELSE IF Provisioned(r, u) THEN "user" ELSE role[u]]
      /\ active' = [u \in User |->
            IF op[r].kind = "patch" /\ op[r].target = u /\ writes[r].active # "keep"
              THEN writes[r].active
            ELSE IF Provisioned(r, u) THEN "on" ELSE active[u]]
      /\ writes[r].role # "unknown"
  BY DEF CommitUsers
<1>2. /\ writes[r].role \in SystemRole \union {"keep", "unknown"}
      /\ writes[r].active \in {"keep", "on", "off"}
  BY DEF IInv, Types, TypeOK, Write
<1>3. role \in [User -> SystemRole \union {"absent"}] /\ active \in [User -> {"on", "off"}]
  BY DEF IInv, Types, TypeOK
<1>4. role' \in [User -> SystemRole \union {"absent"}]
  BY <1>1, <1>2, <1>3 DEF SystemRole
<1>5. active' \in [User -> {"on", "off"}]
  BY <1>1, <1>2, <1>3
<1>6. \A u \in User : \/ role'[u] = role[u]
                      \/ inserts[r] = u /\ role'[u] = "user"
                      \/ /\ op[r].kind = "patch" /\ op[r].target = u
                         /\ role'[u] = writes[r].role /\ writes[r].role # "keep"
  <2> SUFFICES ASSUME NEW u \in User
               PROVE  \/ role'[u] = role[u]
                      \/ inserts[r] = u /\ role'[u] = "user"
                      \/ /\ op[r].kind = "patch" /\ op[r].target = u
                         /\ role'[u] = writes[r].role /\ writes[r].role # "keep"
    OBVIOUS
  <2>1. role'[u] = IF op[r].kind = "patch" /\ op[r].target = u /\ writes[r].role # "keep"
                   THEN writes[r].role ELSE IF inserts[r] = u THEN "user" ELSE role[u]
    BY <1>1 DEF Provisioned
  <2>2. QED
    BY <2>1
<1>7. Kept
  BY <1>2, <1>6 DEF Kept, SystemRole
<1>8. QED
  BY <1>4, <1>5, <1>6, <1>7

LEMMA CommitUsersKeepsIInv ==
    ASSUME IInv, NEW r \in Request, CommitUsers(r)
    PROVE  IInv'
<1>1. Close(r) /\ roster' = roster /\ pc[r] = "commit"
  BY DEF CommitUsers
<1>2. Types'
  BY <1>1, Closing, CommittedUsers DEF IInv, Types, TypeOK
<1>3. \A q \in Request : Sure(q)'
  BY <1>1, Closing, CommittedUsers, OthersAreSure
<1>4. OneProvisioning'
  <2> SUFFICES ASSUME NEW q \in Request, inserts'[q] # Nobody
               PROVE  /\ role'[inserts'[q]] = "absent"
                      /\ \A p \in Request \ {q} : inserts'[p] # inserts'[q]
    BY DEF OneProvisioning
  <2>1. Alone(r) /\ inserts'[r] = Nobody
    BY <1>1, Closing
  <2>2. q # r /\ inserts'[q] = inserts[q]
    BY <2>1 DEF Alone
  <2>3. /\ role[inserts[q]] = "absent"
        /\ \A p \in Request \ {q} : inserts[p] # inserts[q]
    BY <2>2 DEF IInv, OneProvisioning
  <2>4. inserts[q] \in User
    BY <2>2 DEF IInv, Types, TypeOK
  <2>5. op[r].kind = "patch" => role[op[r].target] # "absent"
    BY <1>1 DEF IInv, Sure
  <2>6. role'[inserts[q]] = "absent"
    BY <2>2, <2>3, <2>4, <2>5, CommittedUsers
  <2>7. QED
    BY <2>1, <2>2, <2>3, <2>6 DEF Alone
<1>5. QED
  BY <1>2, <1>3, <1>4 DEF IInv

LEMMA SetRosterKeepsIInv ==
    ASSUME IInv, NEW r \in Request, NEW meetingRole \in MeetingRole \union {"none"},
           SetRoster(r, meetingRole)
    PROVE  IInv'
<1>1. Close(r) /\ role' = role /\ active' = active
      /\ roster' = [roster EXCEPT ![op[r].target] = meetingRole]
  BY DEF SetRoster
<1>2. roster' \in [User -> MeetingRole \union {"none"}]
  BY <1>1 DEF IInv, Types, TypeOK
<1>3. Types'
  BY <1>1, <1>2, Closing DEF IInv, Types, TypeOK
<1>4. \A q \in Request : Sure(q)'
  BY <1>1, Closing, OthersAreSure DEF Kept
<1>5. OneProvisioning'
  BY <1>1, Closing, StillOne
<1>6. QED
  BY <1>3, <1>4, <1>5 DEF IInv

LEMMA RosterCommitsKeepIInv ==
    ASSUME IInv, NEW r \in Request,
           CommitInsert(r) \/ CommitDelete(r) \/ CommitUpdate(r) \/ CommitNothing(r)
    PROVE  IInv'
<1>1. op[r] \in Ops
  BY DEF CommitInsert, CommitDelete, CommitUpdate, CommitNothing, IInv, Types, TypeOK
<1>2. op[r].kind \in {"ingest", "task"} => op[r].as \in {"organizer", "attendee"}
  BY <1>1, OpTypes
<1>3. CASE CommitInsert(r)
  BY <1>2, <1>3, SetRosterKeepsIInv DEF CommitInsert, MeetingRole
<1>4. CASE CommitDelete(r)
  BY <1>4, SetRosterKeepsIInv DEF CommitDelete
<1>5. CASE CommitUpdate(r)
  BY <1>2, <1>5, SetRosterKeepsIInv, RefuseKeepsIInv DEF CommitUpdate, MeetingRole
<1>6. CASE CommitNothing(r)
  BY <1>6, RefuseKeepsIInv DEF CommitNothing
<1>7. QED
  BY <1>3, <1>4, <1>5, <1>6

LEMMA IInvInit == Init => IInv
<1> SUFFICES ASSUME Init PROVE IInv
  OBVIOUS
<1>1. NoRow \in Row /\ NoWrite \in Write /\ "user" \in SystemRole
  BY DEF NoRow, Row, NoWrite, Write, SystemRole
<1>2. Types
  BY <1>1 DEF Init, Types, TypeOK
<1>3. \A r \in Request : Sure(r)
  BY DEF Init, Sure, NoWrite
<1>4. OneProvisioning
  BY DEF Init, OneProvisioning
<1>5. QED
  BY <1>2, <1>3, <1>4 DEF IInv

LEMMA IInvStep == IInv /\ [Next]_vars => IInv'
<1> SUFFICES ASSUME IInv, [Next]_vars
             PROVE  IInv'
  OBVIOUS
<1>1. ASSUME NEW r \in Request, Fail(r)
      PROVE  IInv'
  BY <1>1, RefuseKeepsIInv DEF Fail
<1>2. CASE Next
  BY <1>1, <1>2, BeginKeepsIInv, LookupKeepsIInv, InsertKeepsIInv, GateKeepsIInv, PatchKeepsIInv,
     CountKeepsIInv, RosterReadsKeepIInv, CommitUsersKeepsIInv, RosterCommitsKeepIInv DEF Next
<1>3. CASE UNCHANGED vars
  BY <1>3 DEF vars, rows, IInv, Types, TypeOK, Sure, OneProvisioning
<1>4. QED
  BY <1>2, <1>3

-----------------------------------------------------------------------------

(* The invariant holds in every reachable state.                            *)
THEOREM AccessInvariant == Spec => []IInv
  BY IInvInit, IInvStep, PTL DEF Spec

(* Rows, requests and what they hold keep their types.                      *)
THEOREM TypeCorrect == Spec => []TypeOK
<1>1. IInv => TypeOK
  BY DEF IInv, Types
<1>2. QED
  BY <1>1, AccessInvariant, PTL

(* Overlapping first logins of a user insert one row (_upsert_user).        *)
THEOREM LoginsProvisionOnce == Spec => []OneProvisioning
<1>1. IInv => OneProvisioning
  BY DEF IInv
<1>2. QED
  BY <1>1, AccessInvariant, PTL

\* The steps that change rows.
LEMMA WhoChanges ==
    ASSUME [Next]_vars
    PROVE  \/ UNCHANGED rows
           \/ \E r \in Request : CommitUsers(r)
           \/ \E r \in Request : CommitInsert(r) \/ CommitDelete(r) \/ CommitUpdate(r)
<1>1. ASSUME NEW r \in Request,
             \/ Begin(r) \/ Lookup(r) \/ InsertUser(r) \/ Gate(r) \/ Patch(r) \/ Count(r)
             \/ GrantAccess(r) \/ RevokeAccess(r) \/ ReadParticipant(r)
             \/ CommitNothing(r) \/ Fail(r)
      PROVE  UNCHANGED rows
  BY <1>1 DEF Begin, Lookup, InsertUser, Gate, Patch, Count, GrantAccess, RevokeAccess,
     ReadParticipant, CommitNothing, Fail, Refuse, Ready
<1>2. CASE UNCHANGED vars
  BY <1>2 DEF vars
<1>3. QED
  BY <1>1, <1>2 DEF Next

(* An officer loses the role only to a PATCH that read the row before it    *)
(* said officer (patch_user).                                               *)
THEOREM OfficersStay == Spec => NoDemotion
<1> DEFINE Demotes(u) == \E r \in Request : /\ pc[r] = "commit"
                                            /\ op[r].kind = "patch" /\ op[r].target = u
                                            /\ loaded[r].role # "compliance_officer"
<1>1. IInv /\ [Next]_vars =>
        [\A u \in Officers : u \notin Officers' =>
           \E r \in Request : /\ pc[r] = "commit"
                              /\ op[r].kind = "patch" /\ op[r].target = u
                              /\ loaded[r].role # "compliance_officer"]_vars
  <2> SUFFICES ASSUME IInv, [Next]_vars, NEW u \in Officers, u \notin Officers'
               PROVE  Demotes(u)
    OBVIOUS
  <2>1. u \in User /\ role[u] = "compliance_officer" /\ role'[u] # "compliance_officer"
    BY DEF Officers
  <2>2. PICK r \in Request : CommitUsers(r)
    <3>1. role' # role
      BY <2>1
    <3>2. ASSUME NEW q \in Request, CommitInsert(q) \/ CommitDelete(q) \/ CommitUpdate(q)
          PROVE  role' = role
      BY <3>2 DEF CommitInsert, CommitDelete, CommitUpdate, SetRoster, Refuse, rows
    <3>3. QED
      BY <3>1, <3>2, WhoChanges DEF rows
  <2>3. inserts[r] = u => role[u] = "absent"
    BY <2>1, AccessConstants DEF IInv, OneProvisioning
  <2>4. /\ op[r].kind = "patch" /\ op[r].target = u /\ writes[r].role # "keep"
    BY <2>1, <2>2, <2>3, CommittedUsers
  <2>5. pc[r] = "commit"
    BY <2>2 DEF CommitUsers
  <2>6. loaded[r].role # "compliance_officer"
    BY <2>4, <2>5 DEF IInv, Sure
  <2>7. QED
    BY <2>4, <2>5, <2>6
<1>2. QED
  BY <1>1, AccessInvariant, PTL DEF Spec, NoDemotion

(* Who takes part in the meeting is removed only by a revocation that saw   *)
(* granted access (revoke_meeting_access).                                  *)
THEOREM RosterStays == Spec => ParticipantsStay
<1> DEFINE Revokes(u) == \E r \in Request : /\ pc[r] = "commit"
                                            /\ op[r].kind = "revoke" /\ op[r].target = u
                                            /\ loaded[r].role = "granted"
<1>1. IInv /\ [Next]_vars =>
        [\A u \in User : roster[u] # "none" /\ roster'[u] = "none" =>
           \E r \in Request : /\ pc[r] = "commit"
                              /\ op[r].kind = "revoke" /\ op[r].target = u
                              /\ loaded[r].role = "granted"]_vars
  <2> SUFFICES ASSUME IInv, [Next]_vars, NEW u \in User, roster[u] # "none", roster'[u] = "none"
               PROVE  Revokes(u)
    OBVIOUS
  <2>1. PICK r \in Request : CommitInsert(r) \/ CommitDelete(r) \/ CommitUpdate(r)
    BY WhoChanges DEF rows, CommitUsers
  <2>2. op[r] \in Ops /\ pc[r] = "commit"
    BY <2>1 DEF CommitInsert, CommitDelete, CommitUpdate, IInv, Types, TypeOK
  <2>3. /\ op[r].kind \in {"ingest", "task"} => op[r].as \in {"organizer", "attendee"}
        /\ roster \in [User -> MeetingRole \union {"none"}]
    BY <2>2, OpTypes DEF IInv, Types, TypeOK
  <2>4. CASE CommitInsert(r)
    BY <2>3, <2>4 DEF CommitInsert, SetRoster
  <2>5. CASE CommitUpdate(r)
    BY <2>3, <2>5 DEF CommitUpdate, SetRoster, Refuse, rows
  <2>6. CASE CommitDelete(r)
    <3>1. op[r].kind = "revoke" /\ op[r].target = u
      BY <2>3, <2>6 DEF CommitDelete, SetRoster
    <3>2. loaded[r].role = "granted"
      BY <2>2, <3>1 DEF IInv, Sure
    <3>3. QED
      BY <2>2, <3>1, <3>2
  <2>7. QED
    BY <2>1, <2>4, <2>5, <2>6
<1>2. QED
  BY <1>1, AccessInvariant, PTL DEF Spec, ParticipantsStay

(* A row comes back only by a request that found it missing.                *)
THEOREM RevocationsHold == Spec => RevokedStaysRevoked
<1> DEFINE Finds(u) == \E r \in Request : /\ pc[r] = "commit"
                                          /\ op[r].kind # "chat" /\ op[r].target = u
                                          /\ loaded[r].role = "none"
<1>1. IInv /\ [Next]_vars =>
        [\A u \in User : roster[u] = "none" /\ roster'[u] # "none" =>
           \E r \in Request : /\ pc[r] = "commit"
                              /\ op[r].kind # "chat" /\ op[r].target = u
                              /\ loaded[r].role = "none"]_vars
  <2> SUFFICES ASSUME IInv, [Next]_vars, NEW u \in User, roster[u] = "none", roster'[u] # "none"
               PROVE  Finds(u)
    OBVIOUS
  <2>1. PICK r \in Request : CommitInsert(r) \/ CommitDelete(r) \/ CommitUpdate(r)
    BY WhoChanges DEF rows, CommitUsers
  <2>2. roster \in [User -> MeetingRole \union {"none"}]
    BY DEF IInv, Types, TypeOK
  <2>3. CASE CommitDelete(r)
    BY <2>2, <2>3 DEF CommitDelete, SetRoster
  <2>4. CASE CommitUpdate(r)
    BY <2>2, <2>4 DEF CommitUpdate, SetRoster, Refuse, rows
  <2>5. CASE CommitInsert(r)
    BY <2>2, <2>5 DEF CommitInsert, SetRoster
  <2>6. QED
    BY <2>1, <2>3, <2>4, <2>5
<1>2. QED
  BY <1>1, AccessInvariant, PTL DEF Spec, RevokedStaysRevoked

-----------------------------------------------------------------------------
(* The cap on officers.                                                     *)

\* Sizes of the sets that the cap is about.
LEMMA Sizes ==
    /\ IsFiniteSet(Officers) /\ Cardinality(Officers) \in Nat
    /\ IsFiniteSet(Promoting) /\ Cardinality(Promoting) \in Nat
    /\ Cardinality(Promoting) <= Cardinality(Request)
    /\ Cardinality(Request) \in Nat \ {0} /\ MaxSuperAdmins \in Nat
<1>1. IsFiniteSet(User) /\ IsFiniteSet(Request) /\ Request # {} /\ MaxSuperAdmins \in Nat
  BY AccessConstants
<1>2. Officers \in SUBSET User /\ Promoting \in SUBSET Request
  BY DEF Officers, Promoting
<1>3. IsFiniteSet(Officers) /\ IsFiniteSet(Promoting)
      /\ Cardinality(Promoting) <= Cardinality(Request)
  BY <1>1, <1>2, FS_Subset
<1>4. Cardinality(Request) \in Nat /\ Cardinality(Request) # 0
  BY <1>1, FS_CardinalityType, FS_EmptySet
<1>5. Cardinality(Officers) \in Nat /\ Cardinality(Promoting) \in Nat
  BY <1>3, FS_CardinalityType
<1>6. QED
  BY <1>1, <1>3, <1>4, <1>5

(* Only the count lets a promotion through.                                 *)
LEMMA OthersDoNotPromote ==
    ASSUME IInv, NEW r \in Request,
           \/ Begin(r) \/ Lookup(r) \/ InsertUser(r) \/ Gate(r) \/ Patch(r)
           \/ GrantAccess(r) \/ RevokeAccess(r) \/ ReadParticipant(r) \/ CommitUsers(r)
           \/ CommitInsert(r) \/ CommitDelete(r) \/ CommitUpdate(r) \/ CommitNothing(r) \/ Fail(r)
    PROVE  Promoting' \subseteq Promoting \ {r}
<1> DEFINE Steps == {"idle", "lookup", "insert", "gate", "load", "count", "commit"}
<1>1. pc \in [Request -> Steps] /\ writes \in [Request -> Write] /\ Sure(r)
  BY DEF IInv, Types, TypeOK
<1>2. CASE Close(r)
  <2>1. Alone(r) /\ pc'[r] = "idle"
    BY <1>2, Closing
  <2>2. QED
    BY <2>1 DEF Promoting, Alone
<1>3. ASSUME NEW step \in Steps, Goto(r, step), writes' = writes, pc[r] \notin {"count", "commit"}
      PROVE  Promoting' \subseteq Promoting \ {r}
  <2>1. pc' = [pc EXCEPT ![r] = step]
    BY <1>3 DEF Goto
  <2>2. writes'[r].role = "keep" /\ \A q \in Request \ {r} : pc'[q] = pc[q]
    BY <1>1, <1>3, <2>1 DEF Sure
  <2>3. QED
    BY <1>3, <2>2 DEF Promoting
<1>4. ASSUME NEW row, NEW write, NEW step \in Steps, Ready(r, row, write, step),
             step = "commit" => write.role # "compliance_officer"
      PROVE  Promoting' \subseteq Promoting \ {r}
  <2>1. pc' = [pc EXCEPT ![r] = step] /\ writes' = [writes EXCEPT ![r] = write]
    BY <1>4 DEF Ready, Goto
  <2>2. /\ pc'[r] = step /\ writes'[r] = write
        /\ \A q \in Request \ {r} : pc'[q] = pc[q] /\ writes'[q] = writes[q]
    BY <1>1, <2>1
  <2>3. QED
    BY <1>4, <2>2 DEF Promoting
<1>5. CASE Begin(r)
  <2>1. PICK o \in Ops : Goto(r, IF o \in Enrolments THEN "load" ELSE "lookup")
    BY <1>5 DEF Begin
  <2>2. QED
    BY <1>3, <1>5, <2>1 DEF Begin
<1>6. CASE Lookup(r) \/ InsertUser(r)
  BY <1>2, <1>3, <1>6 DEF Lookup, InsertUser, Refuse
<1>7. CASE Gate(r)
  BY <1>2, <1>3, <1>7 DEF Gate, Refuse
<1>8. CASE Patch(r)
  BY <1>2, <1>4, <1>8 DEF Patch, Refuse
<1>9. CASE GrantAccess(r) \/ RevokeAccess(r) \/ ReadParticipant(r)
  BY <1>2, <1>4, <1>9 DEF GrantAccess, RevokeAccess, ReadParticipant, Refuse, NoWrite
<1>10. CASE CommitUsers(r) \/ CommitInsert(r) \/ CommitDelete(r) \/ CommitUpdate(r)
            \/ CommitNothing(r) \/ Fail(r)
  BY <1>2, <1>10 DEF CommitUsers, CommitInsert, CommitDelete, CommitUpdate, CommitNothing, Fail,
     SetRoster, Refuse
<1>11. QED
  BY <1>5, <1>6, <1>7, <1>8, <1>9, <1>10

(* Fewer or as many officers and promotions are within the cap.             *)
LEMMA FewerAreWithin ==
    ASSUME CapWithinOverlap, Officers' \subseteq Officers, Promoting' \subseteq Promoting
    PROVE  CapWithinOverlap'
<1>1. Cardinality(Officers') <= Cardinality(Officers) /\ Cardinality(Officers') \in Nat
  BY Sizes, FS_Subset, FS_CardinalityType
<1>2. Cardinality(Promoting') <= Cardinality(Promoting) /\ Cardinality(Promoting') \in Nat
  BY Sizes, FS_Subset, FS_CardinalityType
<1>3. QED
  BY <1>1, <1>2, Sizes DEF CapWithinOverlap

(* A promotion that passes the count found a place free, and at most all    *)
(* requests promote.                                                        *)
LEMMA CountIsWithin ==
    ASSUME IInv, CapWithinOverlap, NEW r \in Request, Count(r)
    PROVE  CapWithinOverlap'
<1>1. CASE Refuse(r)
  <2>1. Alone(r) /\ pc'[r] = "idle" /\ Officers' = Officers
    BY <1>1, Closing DEF Refuse, rows, Officers
  <2>2. Promoting' \subseteq Promoting
    BY <2>1 DEF Promoting, Alone
  <2>3. QED
    BY <2>1, <2>2, FewerAreWithin
<1>2. CASE Cardinality(Officers) < MaxSuperAdmins /\ UNCHANGED rows
  <2>1. Officers' = Officers
    BY <1>2 DEF rows, Officers
  <2>2. Promoting' \in SUBSET Request /\ IsFiniteSet(Request)
    BY AccessConstants DEF Promoting
  <2>3. Cardinality(Promoting') <= Cardinality(Request) /\ Cardinality(Promoting') \in Nat
    BY <2>2, FS_Subset, FS_CardinalityType
  <2>4. Cardinality(Officers') = Cardinality(Officers)
    BY <2>1
  <2>5. QED
    BY <1>2, <2>3, <2>4, Sizes DEF CapWithinOverlap
<1>3. QED
  BY <1>1, <1>2 DEF Count

(* A commit that promotes turns one promotion into at most one officer.     *)
LEMMA CommitIsWithin ==
    ASSUME IInv, CapWithinOverlap, NEW r \in Request, CommitUsers(r)
    PROVE  CapWithinOverlap'
<1>1. Promoting' \subseteq Promoting \ {r}
  BY OthersDoNotPromote
<1>2. pc[r] = "commit"
  BY DEF CommitUsers
<1>3. CASE r \notin Promoting
  <2>1. writes[r].role # "compliance_officer"
    BY <1>2, <1>3 DEF Promoting
  <2>2. Officers' \subseteq Officers
    BY <2>1, CommittedUsers DEF Officers
  <2>3. QED
    BY <1>1, <2>2, FewerAreWithin
<1>4. CASE r \in Promoting
  <2>1. Officers' \subseteq Officers \union {op[r].target}
    BY CommittedUsers DEF Officers
  <2>2. /\ IsFiniteSet(Officers \union {op[r].target})
        /\ Cardinality(Officers \union {op[r].target}) \in
             {Cardinality(Officers), Cardinality(Officers) + 1}
    BY Sizes, FS_AddElement
  <2>3. /\ Cardinality(Officers') <= Cardinality(Officers \union {op[r].target})
        /\ Cardinality(Officers') \in Nat
    BY <2>1, <2>2, FS_Subset, FS_CardinalityType
  <2>4. /\ IsFiniteSet(Promoting \ {r})
        /\ Cardinality(Promoting \ {r}) = Cardinality(Promoting) - 1
    BY <1>4, Sizes, FS_RemoveElement
  <2>5. /\ Cardinality(Promoting') <= Cardinality(Promoting \ {r})
        /\ Cardinality(Promoting') \in Nat
    BY <1>1, <2>4, FS_Subset, FS_CardinalityType
  <2>6. /\ Cardinality(Officers') <= Cardinality(Officers) + 1
        /\ Cardinality(Promoting') <= Cardinality(Promoting) - 1
    BY <2>2, <2>3, <2>4, <2>5, Sizes
  <2>7. QED
    BY <2>3, <2>5, <2>6, Sizes DEF CapWithinOverlap
<1>5. QED
  BY <1>3, <1>4

(* The cap on officers is exceeded by at most the other requests in flight  *)
(* (patch_user counts and then writes).                                     *)
THEOREM ExcessIsBounded == Spec => []CapWithinOverlap
<1>1. Init => CapWithinOverlap
  <2> SUFFICES ASSUME Init PROVE CapWithinOverlap
    OBVIOUS
  <2>1. Officers = Founder /\ Promoting = {}
    BY DEF Init, Promoting
  <2>2. Cardinality(Founder) <= MaxSuperAdmins /\ Cardinality({}) = 0
    BY AccessConstants, FS_EmptySet
  <2>3. QED
    BY <2>1, <2>2, Sizes DEF CapWithinOverlap
<1>2. IInv /\ CapWithinOverlap /\ [Next]_vars => CapWithinOverlap'
  <2> SUFFICES ASSUME IInv, CapWithinOverlap, [Next]_vars
               PROVE  CapWithinOverlap'
    OBVIOUS
  <2>1. ASSUME NEW r \in Request,
               \/ Begin(r) \/ Lookup(r) \/ InsertUser(r) \/ Gate(r) \/ Patch(r)
               \/ GrantAccess(r) \/ RevokeAccess(r) \/ ReadParticipant(r)
               \/ CommitInsert(r) \/ CommitDelete(r) \/ CommitUpdate(r)
               \/ CommitNothing(r) \/ Fail(r)
        PROVE  CapWithinOverlap'
    <3>1. role' = role
      BY <2>1 DEF Begin, Lookup, InsertUser, Gate, Patch, GrantAccess, RevokeAccess,
         ReadParticipant, CommitInsert, CommitDelete, CommitUpdate, CommitNothing, Fail,
         SetRoster, Refuse, Ready, rows
    <3>2. Officers' \subseteq Officers
      BY <3>1 DEF Officers
    <3>3. Promoting' \subseteq Promoting
      BY <2>1, OthersDoNotPromote
    <3>4. QED
      BY <3>2, <3>3, FewerAreWithin
  <2>2. CASE Next
    BY <2>1, <2>2, CountIsWithin, CommitIsWithin DEF Next
  <2>3. CASE UNCHANGED vars
    BY <2>3, FewerAreWithin DEF vars, rows, Officers, Promoting
  <2>4. QED
    BY <2>2, <2>3
<1>3. QED
  BY <1>1, <1>2, AccessInvariant, PTL DEF Spec

=============================================================================
