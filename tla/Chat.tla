-------------------------------- MODULE Chat --------------------------------
(***************************************************************************)
(* One chat session of a user: the turns that POST /chat runs through      *)
(* handle_chat (app/services/chat/orchestrator.py) on the session's state  *)
(* in memory (session.py), while admins and ingestion change the user's    *)
(* roles in meetings.                                                      *)
(*                                                                         *)
(* A turn is a coroutine: it gives way where it awaits a statement or the  *)
(* LLM, and two turns of one session can overlap (two tabs, an impatient   *)
(* user).  Each action is what a turn does from one await that matters to  *)
(* the next.  Meetings' titles, dates, chunks and insights do not change   *)
(* here, so the awaits between the narrowing and the answer are one step.  *)
(* Of the words of a recorded turn the model keeps the meetings they can   *)
(* draw on, as later turns hand them to the LLM.  Left out is what nothing *)
(* reads: the access filter of the saved scope, the last referenced        *)
(* meeting, and of the last intent all but whether it is CLARIFY.          *)
(***************************************************************************)
EXTENDS ChatScope, Sequences

CONSTANTS
    Turn,         \* turns that can be in flight at a time
    Answers,      \* the decisions the router can come to
    Kinds,        \* the access filters requests can have
    Selections,   \* the selections requests can have
    Roles,        \* the roles the user can have when the session begins
    TurnWindow,   \* SESSION_TURN_WINDOW
    HistoryTurns, \* 2 * HISTORY_TURN_PAIRS
    MaxTurns,     \* bound: turns begun
    MaxChanges    \* bound: changes of the user's roles

ASSUME ChatConstants ==
    /\ Answers \subseteq Decision
    /\ Kinds \subseteq AccessFilter
    /\ Selections \subseteq SUBSET Meeting
    /\ Roles \subseteq [Meeting -> Role]
    /\ TurnWindow \in Nat \ {0}
    /\ HistoryTurns \in Nat \ {0}
    /\ MaxTurns \in Nat
    /\ MaxChanges \in Nat

VARIABLES
    access,    \* access[m]: the user's role in m, in meeting_participants
    session,   \* the SessionState of the session
    pc,        \* pc[t]: where t waits
    filter,    \* filter[t]: the access filter of t's request, while t counts
    scope,     \* scope[t]: the authorised meetings t read
    capped,    \* capped[t]: t found that the cap bites
    selected,  \* selected[t]: the selection of t
    history,   \* history[t]: the meetings the turns before t draw on
    decision,  \* decision[t]: what t was routed to
    healthy,   \* healthy[t]: no statement of t's transaction has failed
    response,  \* response[t]: what t answers
    begun,     \* turns begun
    changes,   \* changes of roles
    asked,     \* auxiliary: disambiguation questions asked
    replays,   \* auxiliary: replays[t]: the question t replays, 0 for none
    alone,     \* auxiliary: alone[t]: no other turn was in flight beside t
    before,    \* auxiliary: before[t]: the last intent was CLARIFY when t began
    held       \* auxiliary: held[t]: the user had a role in it since t began

local == <<pc, filter, scope, capped, selected, history, decision, healthy, response>>
ghosts == <<begun, changes, asked, replays, alone, before, held>>
vars == <<access, session, local, ghosts>>

\* The questions that wait for the user to pick a speaker: at most one.
Question == [decision : Decision, asked : Nat]
NoPending == {}
Session == [scope : SUBSET Meeting, turns : Seq(SUBSET Meeting), clarified : BOOLEAN,
            pending : SUBSET Question]
\* found: the meetings the answer refers to; recalled: those of the earlier
\* turns the LLM had before it when it wrote the answer.
Response == [route : Route \union {"DISAMBIGUATION"}, found : SUBSET Meeting,
             recalled : SUBSET Meeting, banner : {"none", "offer", "disclosure"}]

TypeOK ==
    /\ access \in [Meeting -> Role]
    /\ session \in Session
    /\ Len(session.turns) <= TurnWindow
    /\ \A p, q \in session.pending : p = q
    /\ pc \in [Turn -> {"idle", "count", "select", "classify", "reply", "answer", "sent"}]
    /\ filter \in [Turn -> AccessFilter]
    /\ scope \in [Turn -> SUBSET Meeting]
    /\ capped \in [Turn -> BOOLEAN]
    /\ selected \in [Turn -> SUBSET Meeting]
    /\ history \in [Turn -> SUBSET Meeting]
    /\ decision \in [Turn -> Decision]
    /\ healthy \in [Turn -> BOOLEAN]
    /\ response \in [Turn -> Response]
    /\ begun \in Nat
    /\ changes \in Nat
    /\ asked \in Nat
    /\ replays \in [Turn -> Nat]
    /\ alone \in [Turn -> BOOLEAN]
    /\ before \in [Turn -> BOOLEAN]
    /\ held \in [Turn -> SUBSET Meeting]

-----------------------------------------------------------------------------
(* The session store.                                                       *)

NewSession == [scope |-> {}, turns |-> <<>>, clarified |-> FALSE, pending |-> NoPending]

\* Mutant: the rolling window is not applied.
RecordForever(s, drawn) == [s EXCEPT !.turns = Append(@, drawn)]

\* record_turn: the oldest turn leaves when the window overflows.
Record(s, drawn) ==
    [s EXCEPT !.turns = Append(IF Len(@) < TurnWindow THEN @ ELSE Tail(@), drawn)]

\* The answer is recorded, and its route as the last intent.
Recorded(s, reply) ==
    [Record(s, reply.found \union reply.recalled)
        EXCEPT !.clarified = (reply.route = "CLARIFY")]

\* What the last turns draw on, all of them: the limits on characters, and
\* CLARIFY's smaller window, can only leave out more.
History(s) ==
    UNION {s.turns[i] : i \in {j \in DOMAIN s.turns : Len(s.turns) < j + HistoryTurns}}

\* A template that refers to no meeting.
Plain(route) == [route |-> route, found |-> {}, recalled |-> {}, banner |-> "none"]

InFlight == {t \in Turn : pc[t] # "idle"}

Init ==
    /\ access \in Roles
    /\ session = NewSession
    /\ pc = [t \in Turn |-> "idle"]
    /\ filter = [t \in Turn |-> "all"]
    /\ scope = [t \in Turn |-> {}]
    /\ capped = [t \in Turn |-> FALSE]
    /\ selected = [t \in Turn |-> {}]
    /\ history = [t \in Turn |-> {}]
    /\ decision = [t \in Turn |-> Fallback]
    /\ healthy = [t \in Turn |-> TRUE]
    /\ response = [t \in Turn |-> Plain("SEARCH")]
    /\ begun = 0
    /\ changes = 0
    /\ asked = 0
    /\ replays = [t \in Turn |-> 0]
    /\ alone = [t \in Turn |-> FALSE]
    /\ before = [t \in Turn |-> FALSE]
    /\ held = [t \in Turn |-> {}]

-----------------------------------------------------------------------------
(* A turn.                                                                  *)

Goto(t, step) == pc' = [pc EXCEPT ![t] = step]

\* t is over: its variables go away.
Forget(t) ==
    /\ Goto(t, "idle")
    /\ filter' = [filter EXCEPT ![t] = "all"]
    /\ scope' = [scope EXCEPT ![t] = {}]
    /\ capped' = [capped EXCEPT ![t] = FALSE]
    /\ selected' = [selected EXCEPT ![t] = {}]
    /\ history' = [history EXCEPT ![t] = {}]
    /\ decision' = [decision EXCEPT ![t] = Fallback]
    /\ healthy' = [healthy EXCEPT ![t] = TRUE]
    /\ response' = [response EXCEPT ![t] = Plain("SEARCH")]
    /\ replays' = [replays EXCEPT ![t] = 0]
    /\ alone' = [alone EXCEPT ![t] = FALSE]
    /\ before' = [before EXCEPT ![t] = FALSE]
    /\ held' = [held EXCEPT ![t] = {}]
    /\ UNCHANGED <<begun, changes, asked>>

\* handle_chat up to the count: get_or_create, get_authorized_meeting_ids.
Authorise(t) ==
    /\ pc[t] = "idle"
    /\ begun < MaxTurns
    /\ \E kind \in Kinds :
         LET read == Authorised(access, kind) IN
         /\ filter' = [filter EXCEPT ![t] = IF AtCap(read) THEN kind ELSE @]
         /\ scope' = [scope EXCEPT ![t] = read]
         /\ Goto(t, IF AtCap(read) THEN "count" ELSE "select")
         /\ held' = [held EXCEPT ![t] = Held(access, "all")]
    /\ begun' = begun + 1
    /\ alone' = [u \in Turn |-> IF u = t THEN InFlight = {}
                                ELSE alone[u] /\ pc[u] = "idle"]
    /\ before' = [before EXCEPT ![t] = session.clarified]
    /\ UNCHANGED <<access, session, capped, selected, history, decision, healthy, response,
                   changes, asked, replays>>

\* count_authorized_meetings, a later statement than the one that is capped.
CountScope(t) ==
    /\ pc[t] = "count"
    /\ capped' = [capped EXCEPT ![t] = Capped(access, filter[t], scope[t])]
    /\ filter' = [filter EXCEPT ![t] = "all"]
    /\ Goto(t, "select")
    /\ UNCHANGED <<access, session, scope, selected, history, decision, healthy,
                   response, ghosts>>

Send(t, reply) ==
    /\ response' = [response EXCEPT ![t] = reply]
    /\ Goto(t, "sent")

\* Steps 5 to 6 of handle_chat on session state s, once t has decision d.
Dispatch(t, d, s) ==
    /\ decision' = [decision EXCEPT ![t] = d]
    /\ \/ /\ d.route = "GENERAL_REFUSE"
          /\ session' = Recorded(s, Plain(d.route))
          /\ Send(t, Plain(d.route))
          /\ UNCHANGED asked
       \/ /\ d.route \in {"GENERAL_GK", "CLARIFY"}
          /\ session' = s
          /\ Goto(t, "reply")
          /\ UNCHANGED <<response, asked>>
       \/ /\ d.route \notin Early
          /\ d.ambiguous
          /\ session' = [Recorded(s, Plain("DISAMBIGUATION")) EXCEPT
                           !.pending = {[decision |-> d, asked |-> asked + 1]}]
          /\ Send(t, Plain("DISAMBIGUATION"))
          /\ asked' = asked + 1
       \/ /\ d.route \notin Early
          /\ ~d.ambiguous
          /\ session' = s
          /\ Goto(t, "answer")
          /\ UNCHANGED <<response, asked>>

\* The user's turn enters the session.
\* Mutant of Entered: the waiting question stays.
Opened(s, chosen) == Record([s EXCEPT !.scope = chosen], {})

\* ... and a waiting question leaves it.
Entered(s, chosen) == [Opened(s, chosen) EXCEPT !.pending = NoPending]

\* From the reads to the router without an await: the selection is made and
\* saved, the user's turn recorded and the history read, a pending question
\* resolved or dropped.
Select(t) ==
    /\ pc[t] = "select"
    /\ \E wanted \in Selections :
         LET chosen == Selected(wanted, session.scope, scope[t])
             s == Entered(session, chosen)
         IN  /\ selected' = [selected EXCEPT ![t] = chosen]
             /\ history' = [history EXCEPT ![t] = History(s)]
             /\ \/ \E q \in session.pending :
                      /\ replays' = [replays EXCEPT ![t] = q.asked]
                      /\ Dispatch(t, [q.decision EXCEPT !.ambiguous = FALSE], s)
                \/ /\ session' = s
                   /\ Goto(t, "classify")
                   /\ UNCHANGED <<decision, response, asked, replays>>
    /\ UNCHANGED <<access, filter, scope, capped, healthy, begun, changes, alone, before, held>>

\* Mutant: the guard is gone.
NoGuard(d, clarified) == d

\* The CLARIFY-loop guard.
Guarded(d, clarified) ==
    IF d.route = "CLARIFY" /\ clarified
    THEN [d EXCEPT !.route = "STRUCTURED_LLM"] ELSE d

\* classify_query returns.  A failed speaker lookup is swallowed: there are no
\* candidates, and the transaction stays aborted.
Classify(t) ==
    /\ pc[t] = "classify"
    /\ \E d \in Answers \union {Fallback} :
         \/ /\ Dispatch(t, Guarded(d, session.clarified), session)
            /\ UNCHANGED healthy
         \/ /\ Dispatch(t, Guarded([d EXCEPT !.ambiguous = FALSE], session.clarified), session)
            /\ healthy' = [healthy EXCEPT ![t] = FALSE]
    /\ UNCHANGED <<access, filter, scope, capped, selected, history, begun, changes, replays,
                   alone, before, held>>

\* t answers, and the session records the answer.
Tell(t, reply) ==
    /\ Send(t, reply)
    /\ session' = Recorded(session, reply)
    /\ UNCHANGED <<access, filter, scope, capped, selected, history, decision, healthy, ghosts>>

\* GENERAL_GK and CLARIFY: the LLM's words, with the history before it.  A
\* template stands in when it fails, and draws on less.
Reply(t) ==
    /\ pc[t] = "reply"
    /\ Tell(t, [Plain(decision[t].route) EXCEPT !.recalled = history[t]])

\* META, HYBRID and COMPARE on nothing answer without a statement; the others
\* do when nothing is authorised.
NeedsDb(t) ==
    LET d == decision[t]
        to == Effective(d, selected[t], scope[t])
    IN  \/ Narrows(d)
        \/ d.route \in {"META", "HYBRID"} /\ to # {}
        \/ d.route = "COMPARE" /\ Cardinality(to) \in 2..MaxCompared
        \/ d.route \in Structured \union {"SEARCH"} /\ Widened(to, scope[t]) # {}

\* Nothing was found and the cap bites: the user is told of the cap.
TellOfCap(t) ==
    /\ pc[t] = "answer"
    /\ healthy[t]
    /\ BeyondCap(decision[t], selected[t], scope[t], capped[t])
    /\ Tell(t, Plain(decision[t].route))

\* Steps 7 to 11: narrow, dispatch to the handler, persist.
Answer(t) ==
    LET d == decision[t] IN
    /\ pc[t] = "answer"
    /\ healthy[t] \/ ~NeedsDb(t)
    /\ ~BeyondCap(d, selected[t], scope[t], capped[t])
    /\ \E out \in Outcomes(d.route, Effective(d, selected[t], scope[t]), scope[t]) :
         Tell(t, [route |-> out.route, found |-> out.found,
                  recalled |-> IF Composed(out) THEN history[t] ELSE {},
                  banner |-> Banner(d, selected[t], scope[t])])

\* The response goes out and the request's transaction ends.
Respond(t) ==
    /\ pc[t] = "sent"
    /\ Forget(t)
    /\ UNCHANGED <<access, session>>

\* A statement or the embedding of the question fails: 500.  The session keeps
\* what the turn did to it.
Fail(t) ==
    /\ \/ pc[t] \in {"count", "select"}
       \/ pc[t] = "answer" /\ NeedsDb(t)
    /\ Forget(t)
    /\ UNCHANGED <<access, session>>

-----------------------------------------------------------------------------
(* The world around.                                                        *)

Becomes(m, role) ==
    /\ changes < MaxChanges
    /\ changes' = changes + 1
    /\ access' = [access EXCEPT ![m] = role]
    /\ held' = [t \in Turn |-> IF pc[t] # "idle" /\ role # "none"
                               THEN held[t] \union {m} ELSE held[t]]
    /\ UNCHANGED <<session, local, begun, asked, replays, alone, before>>

\* An admin grants access to a meeting the user is no participant of,
Grant(m) == access[m] = "none" /\ Becomes(m, "granted")

\* or revokes what was granted.
Revoke(m) == access[m] = "granted" /\ Becomes(m, "none")

\* An ingestion enrols the user; by hand also over a granted role.
Enrol(m) == access[m] # "attended" /\ Becomes(m, "attended")

Next ==
    \/ \E t \in Turn : \/ Authorise(t)
                       \/ CountScope(t)
                       \/ Select(t)
                       \/ Classify(t)
                       \/ Reply(t)
                       \/ TellOfCap(t)
                       \/ Answer(t)
                       \/ Respond(t)
                       \/ Fail(t)
    \/ \E m \in Meeting : Grant(m) \/ Revoke(m) \/ Enrol(m)

Spec == Init /\ [][Next]_vars

-----------------------------------------------------------------------------
(* Properties.                                                              *)

Sent(t) == pc[t] = "sent"

(* "A user can only access a meeting if they have a row in this table.  No  *)
(* exceptions." (CONTEXT.md on meeting_participants): an answer refers only *)
(* to meetings in which the user had a role while the turn ran, and the LLM *)
(* had no others before it.  Neither holds.  Without an authorised meeting  *)
(* the metadata searches have no condition on the id, and the turn expands  *)
(* to whatever they find; and the history is not checked against the roles  *)
(* again, so that the contents of a meeting outlive the access to it.       *)
AnswersWithinAccess ==
    \A t \in Turn : Sent(t) =>
        response[t].found \union response[t].recalled \subseteq held[t]

(* The exception of AnswersWithinAccess, in full: t has no authorised        *)
(* meeting, names titles or dates, refers only to meetings that match what   *)
(* it names, and says that it went beyond the selection.                     *)
Unscoped(t) ==
    /\ scope[t] = {}
    /\ \A named \in {decision[t].titles, decision[t].dates} :
         named # NoFilter => response[t].found \subseteq UNION named
    /\ response[t].banner = "disclosure"

(* Whatever scope an earlier turn saved, whatever question is replayed and  *)
(* whatever is granted or revoked meanwhile, an answer leaves the user's    *)
(* meetings in no other way: one authorised meeting, and it never does.     *)
StraysOnlyUnscoped ==
    \A t \in Turn : Sent(t) => response[t].found \subseteq held[t] \/ Unscoped(t)

(* A disambiguation question is replayed by one turn at most, and by none   *)
(* while it still waits: overlapping turns do not both take it.             *)
PendingIsTakenOnce ==
    \A t \in Turn : replays[t] # 0 =>
        /\ \A u \in Turn \ {t} : replays[u] # replays[t]
        /\ \A q \in session.pending : q.asked # replays[t]

(* A turn that ran alone never answers a clarification with another one.    *)
NoClarifyLoop ==
    \A t \in Turn : Sent(t) /\ alone[t] /\ response[t].route = "CLARIFY"
                        => ~before[t]

(* An answer that refers to a meeting outside the selection says so, unless *)
(* the question and the selection left no meeting to look at and the search *)
(* was widened to everything authorised.                                    *)
ExpansionIsDisclosed ==
    \A t \in Turn : Sent(t) /\ ~(response[t].found \subseteq selected[t]) =>
        \/ response[t].banner = "disclosure"
        \/ /\ response[t].route = "SEARCH"
           /\ Effective(decision[t], selected[t], scope[t]) = {}
           /\ response[t].found \subseteq scope[t]

=============================================================================
