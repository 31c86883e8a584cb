------------------------------ MODULE MCAccess ------------------------------
(* Small instances of Access for TLC. *)
EXTENDS Access, TLC

CONSTANTS ann, bob, eve

\* Bob is allowed by name, roles decide for the others.
MCUserPermission == [u \in User |-> IF u = bob THEN "allow" ELSE "none"]
MCRolePermission == [r \in SystemRole |-> IF r = "user" THEN "allow" ELSE "none"]

\* Ann administers everybody, Bob tries to administer her once promoted; access
\* to the meeting is Eve's.
MCOps ==
    {o \in Patches :
        \/ o.actor = ann /\ o.active = "keep" /\ o.role # "keep"
        \/ o.actor = ann /\ o.target = eve /\ o.active # "keep" /\ o.role = "keep"
        \/ o.actor = bob /\ o.target = ann /\ o.active = "off" /\ o.role = "admin"}
    \union {o \in Grants : o.actor = ann /\ o.target = eve}
    \union {o \in Chats : o.actor = eve}
    \union {o \in Enrolments : o.target = eve /\ (o.kind = "task" => o.as = "attendee")}

\* Ann promotes Bob and Eve.
MCPromotions == {o \in Patches : o.actor = ann /\ o.active = "keep"
                                 /\ o.role = "compliance_officer"}

Alike == Permutations(Request)

=============================================================================
