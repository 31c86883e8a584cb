----------------------------- MODULE MCRecovery -----------------------------
(***************************************************************************)
(* What the processes recover from: a worker slot from the rotation of a   *)
(* password, Graph's events from a restart of the API.  Pools and the      *)
(* dispatcher share no state, so one of the two moves in a behaviour, and  *)
(* the fairness of the other asks for nothing.                             *)
(***************************************************************************)
EXTENDS TenantPool, Sequences, FiniteSets

CONSTANTS Event, Handler, Window, MaxBatch, MaxCrashes

VARIABLES
    part,  \* the component that moves
    note, posted, todo, broken, seen, age, since, burst, why, crashes

Events == INSTANCE WebhookDispatch

eventVars == <<note, posted, todo, broken, seen, age, since, burst, why, crashes>>

RecoveryInit ==
    /\ part \in {"pool", "events"}
    /\ Init
    /\ Events!Init

RecoveryNext ==
    \/ part = "pool" /\ Next /\ UNCHANGED <<part, eventVars>>
    \/ part = "events" /\ Events!Next /\ UNCHANGED <<part, vars>>

\* FairSpec of the component that moves.
RecoverySpec ==
    /\ RecoveryInit
    /\ [][RecoveryNext]_<<part, vars, eventVars>>
    /\ \A s \in Session : WF_vars(part = "pool" /\ SessionStep(s))
    /\ \A h \in Handler : WF_eventVars(part = "events" /\ Events!Handle(h))
    /\ \A e \in Event :
           SF_eventVars(part = "events" /\ note[e] = "owed" /\ Events!Deliver(e))

(* EveryEventIsHandled of WebhookDispatch: every event Graph owes is        *)
(* dispatched or skipped for a reason (app/services/graph/webhook.py).      *)
EveryEventIsHandled == Events!EveryEventIsHandled

=============================================================================
