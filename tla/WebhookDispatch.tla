--------------------------- MODULE WebhookDispatch ---------------------------
(***************************************************************************)
(* Graph notifications and the API process that turns them into tasks      *)
(* (app/api/routes/webhook.py, app/services/graph/webhook.py).             *)
(*                                                                         *)
(* Graph posts a batch of notifications, each from several IPs, and posts  *)
(* again what was not answered.  The event loop runs one handler per POST; *)
(* handlers interleave where they await the tenant lookup.  The dedup map  *)
(* and the rest of a handler's item are read and written without an await. *)
(* Every dispatched message becomes a Task of module Ingestion.            *)
(*                                                                         *)
(* Time is counted in ticks, and ages stop growing once the dedup window   *)
(* is over.  Malformed items are left out: they are skipped and name no    *)
(* event.  The 200 that answers a batch reaches Graph or the process died. *)
(***************************************************************************)
EXTENDS Naturals, Sequences, FiniteSets

CONSTANTS
    Event,      \* call records, each with its dedup key tenant:callChainId
    Handler,    \* concurrent POSTs the process can be handling
    Window,     \* ticks of the dedup window (30 s in the code)
    MaxBatch,   \* bound: items of one POST
    MaxCrashes  \* bound: restarts of the process

ASSUME WebhookConstants ==
    /\ Window \in Nat
    /\ MaxBatch \in Nat \ {0}
    /\ MaxCrashes \in Nat

VARIABLES
    note,     \* note[e]: Graph has no event yet, owes its delivery, or was answered
    posted,   \* posted[h]: the events of the POST that h handles
    todo,     \* todo[h]: the items h has not handled, in order
    broken,   \* broken[h]: the central session of h has failed a statement
    seen,     \* keys of _seen
    age,      \* age[e]: ticks since the entry of e was made (Window + 1: more)
    since,    \* since[e]: ticks since this process sent a task of e (same cap)
    burst,    \* burst[e]: tasks of e sent, the last one and those before it that
              \* this process sent at most a window apart (0: none was ever sent)
    why,      \* why[e]: items of e were skipped for its own tenant, lookup or
              \* dispatch, or because another item had broken the session
    crashes   \* restarts so far

vars == <<note, posted, todo, broken, seen, age, since, burst, why, crashes>>

Ages == 0..Window + 1
Reasons == {"own", "session"}
Batch == UNION {[1..n -> Event] : n \in 1..MaxBatch}

\* A handler that handles no POST has no item left and no session.
TypeOK ==
    /\ note \in [Event -> {"none", "owed", "answered"}]
    /\ posted \in [Handler -> SUBSET Event]
    /\ todo \in [Handler -> Seq(Event)]
    /\ broken \in [Handler -> BOOLEAN]
    /\ \A h \in Handler : posted[h] = {} => todo[h] = <<>> /\ ~broken[h]
    /\ seen \subseteq Event
    /\ age \in [Event -> Ages]
    /\ since \in [Event -> Ages]
    /\ burst \in [Event -> Nat]
    /\ why \in [Event -> SUBSET Reasons]
    /\ crashes \in 0..MaxCrashes

Init ==
    /\ note = [e \in Event |-> "none"]
    /\ posted = [h \in Handler |-> {}]
    /\ todo = [h \in Handler |-> <<>>]
    /\ broken = [h \in Handler |-> FALSE]
    /\ seen = {}
    /\ age = [e \in Event |-> Window + 1]
    /\ since = [e \in Event |-> Window + 1]
    /\ burst = [e \in Event |-> 0]
    /\ why = [e \in Event |-> {}]
    /\ crashes = 0

-----------------------------------------------------------------------------
(* Graph.                                                                  *)

EventHappens(e) ==
    /\ note[e] = "none"
    /\ note' = [note EXCEPT ![e] = "owed"]
    /\ UNCHANGED <<posted, todo, broken, seen, age, since, burst, why, crashes>>

\* A POST: a first delivery, a copy from another IP, or a redelivery.  One
\* item at least is not answered yet; a copy may overtake the answer.
Post(h, items) ==
    /\ posted[h] = {}
    /\ \A i \in DOMAIN items : note[items[i]] # "none"
    /\ \E i \in DOMAIN items : note[items[i]] = "owed"
    /\ posted' = [posted EXCEPT ![h] = {items[i] : i \in DOMAIN items}]
    /\ todo' = [todo EXCEPT ![h] = items]
    /\ UNCHANGED <<note, broken, seen, age, since, burst, why, crashes>>

-----------------------------------------------------------------------------
(* handle_notification, one item at a time.                                *)

\* Mutant: the entry already expires when the window ends.
FreshExclusive(e) == age[e] < Window

\* _prune_seen keeps an entry unless ts < now - window.
Fresh(e) == age[e] <= Window

\* Mutant: one bad item ends the batch.
DoneWithBatch(h) == todo' = [todo EXCEPT ![h] = <<>>]

DoneWithItem(h) == todo' = [todo EXCEPT ![h] = Tail(@)]

Skip(h, e, reason) ==
    /\ why' = [why EXCEPT ![e] = @ \union {reason}]
    /\ DoneWithItem(h)

\* Mutant: a lookup on a broken session never returns.
RejectItemHanging(h) ==
    /\ todo[h] # <<>>
    /\ ~broken[h]
    /\ Skip(h, Head(todo[h]), "own")
    /\ \E fatal \in BOOLEAN : broken' = [broken EXCEPT ![h] = fatal]
    /\ UNCHANGED <<note, posted, seen, age, since, burst, crashes>>

\* The tenant lookup does not give an active tenant: it finds another status
\* or no tenant, or it fails.  A failed statement aborts the session that all
\* items of the batch share (unless it got no connection at all), and the
\* statements of later items fail as well.
RejectItem(h) ==
    /\ todo[h] # <<>>
    /\ LET e == Head(todo[h]) IN
       \/ /\ ~broken[h]
          /\ Skip(h, e, "own")
          /\ \E fatal \in BOOLEAN : broken' = [broken EXCEPT ![h] = fatal]
       \/ /\ broken[h]
          /\ Skip(h, e, "session")
          /\ UNCHANGED broken
    /\ UNCHANGED <<note, posted, seen, age, since, burst, crashes>>

\* The tenant is active: prune, look the key up, and record it before the task
\* is sent.  When the broker refuses the message the entry stays.
DispatchItem(h) ==
    /\ todo[h] # <<>>
    /\ ~broken[h]
    /\ LET e == Head(todo[h])
           kept == {f \in seen : Fresh(f)}
       IN
       \/ /\ e \in kept
          /\ seen' = kept
          /\ DoneWithItem(h)
          /\ UNCHANGED <<age, since, burst, why>>
       \/ /\ e \notin kept
          /\ seen' = kept \union {e}
          /\ age' = [age EXCEPT ![e] = 0]
          /\ \/ /\ burst' = [burst EXCEPT ![e] = IF since[e] <= Window THEN @ + 1 ELSE 1]
                /\ since' = [since EXCEPT ![e] = 0]
                /\ DoneWithItem(h)
                /\ UNCHANGED why
             \/ /\ Skip(h, e, "own")
                /\ UNCHANGED <<burst, since>>
    /\ UNCHANGED <<note, posted, broken, crashes>>

\* Mutant: POSTs share one central session, and nothing rolls it back.
AnswerKeepingSession(h) ==
    /\ posted[h] # {}
    /\ todo[h] = <<>>
    /\ note' = [e \in Event |-> IF e \in posted[h] THEN "answered" ELSE note[e]]
    /\ posted' = [posted EXCEPT ![h] = {}]
    /\ UNCHANGED <<todo, broken, seen, age, since, burst, why, crashes>>

\* The route answers 200 whatever became of the items, and the session of this
\* POST, in whatever state, goes with it.
Answer(h) ==
    /\ posted[h] # {}
    /\ todo[h] = <<>>
    /\ note' = [e \in Event |-> IF e \in posted[h] THEN "answered" ELSE note[e]]
    /\ posted' = [posted EXCEPT ![h] = {}]
    /\ broken' = [broken EXCEPT ![h] = FALSE]
    /\ UNCHANGED <<todo, seen, age, since, burst, why, crashes>>

-----------------------------------------------------------------------------

Older(a) == IF a > Window THEN a ELSE a + 1

Tick ==
    /\ age' = [e \in Event |-> Older(age[e])]
    /\ since' = [e \in Event |-> Older(since[e])]
    /\ UNCHANGED <<note, posted, todo, broken, seen, burst, why, crashes>>

\* The process restarts: the POSTs in hand are not answered, _seen is empty.
Restart ==
    /\ crashes < MaxCrashes
    /\ crashes' = crashes + 1
    /\ posted' = [h \in Handler |-> {}]
    /\ todo' = [h \in Handler |-> <<>>]
    /\ broken' = [h \in Handler |-> FALSE]
    /\ seen' = {}
    /\ since' = [e \in Event |-> Window + 1]
    /\ UNCHANGED <<note, age, burst, why>>

Handle(h) == RejectItem(h) \/ DispatchItem(h) \/ Answer(h)

Next ==
    \/ \E e \in Event : EventHappens(e)
    \/ \E h \in Handler, items \in Batch : Post(h, items)
    \/ \E h \in Handler : Handle(h)
    \/ Tick
    \/ Restart

Spec == Init /\ [][Next]_vars

\* A POST that carries what Graph still owes.
Deliver(e) ==
    \E h \in Handler, items \in Batch :
        (\E i \in DOMAIN items : items[i] = e) /\ Post(h, items)

\* uvicorn runs a handler it has started to its answer.  Graph redelivers what
\* it owes; a handler may be busy with other POSTs at times, hence SF.
FairSpec ==
    /\ Spec
    /\ \A h \in Handler : WF_vars(Handle(h))
    /\ \A e \in Event : SF_vars(note[e] = "owed" /\ Deliver(e))

-----------------------------------------------------------------------------
(* Properties.                                                              *)

(* Graph never hears 200 for an event that nobody dispatched, unless an     *)
(* item of it was skipped for a reason the log names: batches, copies, the  *)
(* dedup map and restarts lose nothing.                                     *)
AnsweredIsAccounted ==
    \A e \in Event : note[e] = "answered" => burst[e] # 0 \/ why[e] # {}

(* While the process lives, two tasks of one event are more than a dedup    *)
(* window apart, whatever copies arrive in whichever batches.               *)
OncePerWindow == \A e \in Event : burst[e] <= 1

(* Every event Graph owes is dispatched or skipped for a reason.            *)
EveryEventIsHandled ==
    \A e \in Event : note[e] = "owed" ~> (burst[e] # 0 \/ why[e] # {})

=============================================================================
