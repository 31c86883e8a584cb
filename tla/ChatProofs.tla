----------------------------- MODULE ChatProofs -----------------------------
(***************************************************************************)
(* Theorems about ChatScope and Chat, for all meetings, all decisions of   *)
(* the router, every number of turns in flight and every cap and window.   *)
(*                                                                         *)
(* The first lemmas are about the operators of ChatScope: where a scope, a *)
(* selection and an answer come from.  The invariant of Chat says what a   *)
(* turn holds at each await (Kept), what a turn that runs alone knows of   *)
(* the session (Solo), and what the waiting question is (Waiting).         *)
(***************************************************************************)
EXTENDS Chat, TLAPS

-----------------------------------------------------------------------------
(* The scope of a turn.                                                     *)

(* What a user is authorised to see are meetings they have a role in.       *)
LEMMA AuthorisedIsHeld ==
    ASSUME NEW roles, NEW kind \in AccessFilter
    PROVE  /\ Authorised(roles, kind) \subseteq Held(roles, "all")
           /\ Held(roles, "all") \subseteq Meeting
  BY DEF Authorised, Newest, Held, AccessFilter

(* A selection, the caller's or the saved one, is cut down to the scope.    *)
LEMMA SelectedIsAuthorised ==
    ASSUME NEW wanted, NEW saved, NEW authorised
    PROVE  Selected(wanted, saved, authorised) \subseteq authorised
  BY DEF Selected

(* With a scope, the titles and dates of the question find only meetings of *)
(* it; without one, meetings of the tenant.                                 *)
LEMMA CandidatesWithin ==
    ASSUME NEW d \in Decision, Narrows(d), NEW authorised
    PROVE  /\ authorised # {} => Candidates(d, authorised) \subseteq authorised
           /\ Candidates(d, authorised) \subseteq Meeting
<1>1. /\ UNION d.titles \subseteq Meeting /\ UNION d.dates \subseteq Meeting
  BY DEF Decision, Filter, NoFilter
<1>2. \A named : /\ authorised # {} => Allowed(named, authorised) \subseteq authorised
                 /\ Allowed(named, authorised) \subseteq UNION named
  BY DEF Allowed
<1>3. \/ Candidates(d, authorised) = Allowed(d.dates, authorised)
      \/ Candidates(d, authorised) = Allowed(d.titles, authorised)
      \/ Candidates(d, authorised) =
           Allowed(d.titles, authorised) \intersect Allowed(d.dates, authorised)
  BY DEF Candidates
<1>4. QED
  BY <1>1, <1>2, <1>3

(* The effective scope of a turn is within its authorised scope, and within *)
(* the selection unless the turn expands it.                                *)
LEMMA EffectiveWithin ==
    ASSUME NEW d \in Decision, NEW chosen, NEW authorised, chosen \subseteq authorised,
           authorised \subseteq Meeting
    PROVE  /\ authorised # {} => Effective(d, chosen, authorised) \subseteq authorised
           /\ Effective(d, chosen, authorised) \subseteq Meeting
           /\ \/ Effective(d, chosen, authorised) \subseteq chosen
              \/ Banner(d, chosen, authorised) = "disclosure"
<1>1. Matched(d, chosen, authorised) \subseteq chosen
  BY DEF Matched
<1>2. Extra(d, chosen, authorised) = {} \/
        (Narrows(d) /\ Extra(d, chosen, authorised) \subseteq Candidates(d, authorised))
  BY DEF Extra
<1>3. QED
  BY <1>1, <1>2, CandidatesWithin DEF Effective, AutoExpands, Banner

(* Without a selection and a scope, a turn finds only what matches every    *)
(* title and date it names, and expands to it.                              *)
LEMMA EffectiveUnscoped ==
    ASSUME NEW d \in Decision
    PROVE  /\ \A named \in {d.titles, d.dates} :
                named # NoFilter => Effective(d, {}, {}) \subseteq UNION named
           /\ Effective(d, {}, {}) # {} => Banner(d, {}, {}) = "disclosure"
<1>1. Matched(d, {}, {}) = {}
  BY DEF Matched
<1>2. Effective(d, {}, {}) = Extra(d, {}, {})
  BY <1>1 DEF Effective, AutoExpands
<1>3. ASSUME NEW named \in {d.titles, d.dates}, named # NoFilter
      PROVE  Extra(d, {}, {}) \subseteq UNION named
  <2>1. Candidates(d, {}) \subseteq UNION named
    BY <1>3 DEF Candidates, Allowed
  <2>2. QED
    BY <2>1 DEF Extra
<1>4. Extra(d, {}, {}) # {} => Banner(d, {}, {}) = "disclosure"
  BY <1>1 DEF Banner, AutoExpands
<1>5. QED
  BY <1>2, <1>3, <1>4

(* A handler refers only to meetings of its scope; only a search of an      *)
(* empty scope refers to others, all of them authorised.                    *)
LEMMA OutcomesWithin ==
    ASSUME NEW route \in Route, NEW effective, NEW authorised,
           NEW out \in Outcomes(route, effective, authorised)
    PROVE  /\ out.route \in {route, "SEARCH"}
           /\ \/ out.found \subseteq effective
              \/ effective = {} /\ out.route = "SEARCH" /\ out.found \subseteq authorised
<1> DEFINE searched == {[route |-> "SEARCH", found |-> found] :
                          found \in SearchFinds(Widened(effective, authorised))}
           of(finds) == {[route |-> route, found |-> found] : found \in finds}
<1>1. ASSUME out \in searched
      PROVE  /\ out.route = "SEARCH"
             /\ \/ out.found \subseteq effective
                \/ effective = {} /\ out.found \subseteq authorised
  BY <1>1 DEF SearchFinds, Widened
<1>2. ASSUME NEW finds, \A found \in finds : found \subseteq effective, out \in of(finds)
      PROVE  out.route = route /\ out.found \subseteq effective
  BY <1>2
<1>3. CASE route = "SEARCH"
  BY <1>1, <1>3 DEF Outcomes
<1>4. CASE route = "META"
  BY <1>2, <1>4 DEF Outcomes
<1>5. CASE route = "HYBRID"
  <2>1. \A found \in HybridFinds(effective) : found \subseteq effective
    BY DEF HybridFinds, SearchFinds
  <2>2. out \in of(HybridFinds(effective))
    BY <1>5 DEF Outcomes
  <2>3. QED
    BY <1>2, <2>1, <2>2
<1>6. CASE route = "COMPARE"
  <2>1. \A found \in CompareFinds(effective) : found \subseteq effective
    BY DEF CompareFinds
  <2>2. out \in of(CompareFinds(effective))
    BY <1>6 DEF Outcomes
  <2>3. QED
    BY <1>2, <2>1, <2>2
<1>7. CASE route \notin {"SEARCH", "META", "HYBRID", "COMPARE"}
  <2>1. \A found \in StructuredFinds(route, effective) \ {{}} : found \subseteq effective
    BY DEF StructuredFinds
  <2>2. out \in of(StructuredFinds(route, effective) \ {{}}) \/ out \in searched
    BY <1>7 DEF Outcomes
  <2>3. QED
    BY <1>1, <1>2, <2>1, <2>2
<1>8. QED
  BY <1>3, <1>4, <1>5, <1>6, <1>7

-----------------------------------------------------------------------------
(* The invariant.                                                           *)

Outside(d) == d.route \notin Early

\* What a turn holds where it waits.
Kept(t) ==
    /\ scope[t] \subseteq held[t]
    /\ pc[t] \in {"classify", "reply", "answer", "sent"} => selected[t] \subseteq scope[t]
    /\ pc[t] = "answer" => Outside(decision[t])
    /\ Sent(t) =>
         /\ response[t].found \subseteq scope[t] \/ Unscoped(t)
         /\ \/ response[t].found \subseteq selected[t]
            \/ response[t].banner = "disclosure"
            \/ /\ response[t].route = "SEARCH"
               /\ Effective(decision[t], selected[t], scope[t]) = {}
               /\ response[t].found \subseteq scope[t]
    /\ replays[t] <= asked

\* What a turn knows of the session that no other turn has touched since.
Solo(t) ==
    alone[t] /\ pc[t] # "idle" =>
        /\ \A u \in Turn \ {t} : pc[u] = "idle"
        /\ pc[t] \in {"count", "select", "classify"} /\ before[t] => session.clarified
        /\ pc[t] = "reply" /\ decision[t].route = "CLARIFY" => ~before[t]
        /\ Sent(t) /\ response[t].route = "CLARIFY" => ~before[t]

\* The question that waits is a recent one, about meetings.
Waiting == \A q \in session.pending : q.asked <= asked /\ Outside(q.decision)

\* The rolling window holds.
Windowed(s) == Len(s.turns) <= TurnWindow

IInv ==
    /\ TypeOK
    /\ \A t \in Turn : Kept(t) /\ Solo(t)
    /\ Waiting
    /\ PendingIsTakenOnce

-----------------------------------------------------------------------------
(* Types of decisions and sessions.                                         *)

LEMMA DecisionType ==
    ASSUME NEW d \in Decision
    PROVE  /\ d.route \in Route /\ d.titles \in Filter /\ d.dates \in Filter
           /\ d.ambiguous \in BOOLEAN
           /\ [d EXCEPT !.ambiguous = FALSE] \in Decision
           /\ [d EXCEPT !.ambiguous = FALSE].route = d.route
           /\ ~[d EXCEPT !.ambiguous = FALSE].ambiguous
  BY DEF Decision

LEMMA FallbackType == Fallback \in Decision
  BY DEF Fallback, Decision, Route, Filter, NoFilter

(* The guard turns a second clarification into an answer.                   *)
LEMMA GuardedType ==
    ASSUME NEW d \in Decision, NEW clarified
    PROVE  /\ Guarded(d, clarified) \in Decision
           /\ Guarded(d, clarified).route = "CLARIFY" => ~clarified
  BY DEF Guarded, Decision, Route, Early, Structured

(* Recording a turn changes the window and the last intent only.            *)
LEMMA RecordType ==
    ASSUME NEW s \in Session, Windowed(s), NEW drawn \in SUBSET Meeting
    PROVE  /\ Record(s, drawn) \in Session
           /\ Windowed(Record(s, drawn))
           /\ Record(s, drawn).pending = s.pending
           /\ Record(s, drawn).clarified = s.clarified
<1>1. TurnWindow \in Nat \ {0} /\ s.turns \in Seq(SUBSET Meeting) /\ Len(s.turns) <= TurnWindow
  BY ChatConstants DEF Session, Windowed
<1> DEFINE kept == IF Len(s.turns) < TurnWindow THEN s.turns ELSE Tail(s.turns)
<1>2. kept \in Seq(SUBSET Meeting) /\ Len(kept) < TurnWindow
  BY <1>1
<1> HIDE DEF kept
<1>3. Append(kept, drawn) \in Seq(SUBSET Meeting) /\ Len(Append(kept, drawn)) <= TurnWindow
  BY <1>1, <1>2
<1>4. Record(s, drawn) = [s EXCEPT !.turns = Append(kept, drawn)]
  BY DEF Record, kept, Session
<1> DEFINE after == Append(kept, drawn)
<1>5. after \in Seq(SUBSET Meeting) /\ Len(after) <= TurnWindow
  BY <1>3
<1> HIDE DEF after
<1>6. Record(s, drawn) = [s EXCEPT !.turns = after]
  BY <1>4 DEF after
<1>7. QED
  BY <1>5, <1>6 DEF Session, Windowed

LEMMA RecordedType ==
    ASSUME NEW s \in Session, Windowed(s), NEW reply \in Response
    PROVE  /\ Recorded(s, reply) \in Session
           /\ Windowed(Recorded(s, reply))
           /\ Recorded(s, reply).pending = s.pending
<1>1. reply.found \union reply.recalled \in SUBSET Meeting
  BY DEF Response
<1> DEFINE r == Record(s, reply.found \union reply.recalled)
<1>2. r \in Session /\ Windowed(r) /\ r.pending = s.pending
  BY <1>1, RecordType
<1>3. Recorded(s, reply) = [r EXCEPT !.clarified = (reply.route = "CLARIFY")]
  BY DEF Recorded
<1> HIDE DEF r
<1>4. QED
  BY <1>2, <1>3 DEF Session, Windowed

(* What the last turns draw on are meetings.                                *)
LEMMA HistoryType ==
    ASSUME NEW s \in Session
    PROVE  History(s) \in SUBSET Meeting
<1>1. \A i \in DOMAIN s.turns : s.turns[i] \in SUBSET Meeting
  BY DEF Session
<1>2. QED
  BY <1>1 DEF History

(* Entering the session keeps its last intent and drops what waits.         *)
LEMMA EnteredType ==
    ASSUME NEW s \in Session, Windowed(s), NEW chosen \in SUBSET Meeting
    PROVE  /\ Entered(s, chosen) \in Session
           /\ Windowed(Entered(s, chosen))
           /\ Entered(s, chosen).pending = {}
           /\ Entered(s, chosen).clarified = s.clarified
<1> DEFINE c == [s EXCEPT !.scope = chosen]
<1>1. c \in Session /\ Windowed(c) /\ c.clarified = s.clarified
  BY DEF Session, Windowed
<1> DEFINE o == Record(c, {})
<1> HIDE DEF c
<1>2. o \in Session /\ Windowed(o) /\ o.clarified = s.clarified
  BY <1>1, RecordType
<1>3. Entered(s, chosen) = [o EXCEPT !.pending = {}]
  BY DEF Entered, Opened, NoPending, o, c
<1> HIDE DEF o
<1>4. QED
  BY <1>2, <1>3 DEF Session, Windowed

LEMMA PlainType ==
    ASSUME NEW route \in Route \union {"DISAMBIGUATION"}
    PROVE  /\ Plain(route) \in Response
           /\ Plain(route).route = route /\ Plain(route).found = {}
           /\ \A drawn \in SUBSET Meeting :
                LET reply == [Plain(route) EXCEPT !.recalled = drawn]
                IN  reply \in Response /\ reply.route = route /\ reply.found = {}
  BY DEF Plain, Response

-----------------------------------------------------------------------------
(* Steps of turns.                                                          *)

\* Only t moves; another turn is alone no longer if t was in flight beside it.
Others(t) ==
    /\ \A u \in Turn \ {t} :
         /\ pc'[u] = pc[u] /\ scope'[u] = scope[u] /\ selected'[u] = selected[u]
         /\ decision'[u] = decision[u] /\ response'[u] = response[u]
         /\ replays'[u] = replays[u] /\ held'[u] = held[u]
         /\ pc[u] # "idle" => ~alone'[u]
    /\ asked <= asked' /\ asked' \in Nat

(* Beside a turn that moves no turn is alone.                               *)
LEMMA NobodyElseIsAlone ==
    ASSUME IInv, NEW t \in Turn, pc[t] # "idle", NEW u \in Turn \ {t}, pc[u] # "idle"
    PROVE  ~alone[u]
  BY DEF IInv, Solo

LEMMA TurnKeepsIInv ==
    ASSUME IInv, NEW t \in Turn, Others(t), TypeOK', Kept(t)', Solo(t)', Waiting',
           PendingIsTakenOnce'
    PROVE  IInv'
<1> SUFFICES ASSUME NEW u \in Turn \ {t}
             PROVE  Kept(u)' /\ Solo(u)'
  BY DEF IInv
<1>1. /\ pc'[u] = pc[u] /\ scope'[u] = scope[u] /\ selected'[u] = selected[u]
      /\ decision'[u] = decision[u] /\ response'[u] = response[u]
      /\ replays'[u] = replays[u] /\ held'[u] = held[u]
      /\ pc[u] # "idle" => ~alone'[u]
  BY DEF Others
<1>2. Kept(u) /\ replays[u] \in Nat /\ asked \in Nat /\ asked <= asked' /\ asked' \in Nat
  BY DEF IInv, TypeOK, Others
<1>3. Kept(u)'
  <2>1. replays'[u] <= asked'
    BY <1>1, <1>2 DEF Kept
  <2>2. QED
    BY <1>1, <1>2, <2>1 DEF Kept, Sent, Unscoped
<1>4. Solo(u)'
  BY <1>1 DEF Solo
<1>5. QED
  BY <1>3, <1>4

(* No new question, and no new replay: still one turn at most took each.    *)
LEMMA StillOnce ==
    ASSUME IInv, NEW t \in Turn, Others(t), session'.pending \subseteq session.pending,
           asked' = asked, replays'[t] \in {replays[t], 0}
    PROVE  Waiting' /\ PendingIsTakenOnce'
<1>1. Waiting'
  BY DEF IInv, Waiting
<1>2. PendingIsTakenOnce'
  BY DEF IInv, PendingIsTakenOnce, Others
<1>3. QED
  BY <1>1, <1>2

(* A turn ends.                                                             *)
LEMMA ForgetKeepsIInv ==
    ASSUME IInv, NEW t \in Turn, pc[t] # "idle", Forget(t), UNCHANGED <<access, session>>
    PROVE  IInv'
<1>1. /\ pc' = [pc EXCEPT ![t] = "idle"]
      /\ filter' = [filter EXCEPT ![t] = "all"]
      /\ scope' = [scope EXCEPT ![t] = {}]
      /\ capped' = [capped EXCEPT ![t] = FALSE]
      /\ selected' = [selected EXCEPT ![t] = {}]
      /\ history' = [history EXCEPT ![t] = {}]
      /\ decision' = [decision EXCEPT ![t] = Fallback]
      /\ healthy' = [healthy EXCEPT ![t] = TRUE]
      /\ response' = [response EXCEPT ![t] = Plain("SEARCH")]
      /\ replays' = [replays EXCEPT ![t] = 0]
      /\ alone' = [alone EXCEPT ![t] = FALSE]
      /\ before' = [before EXCEPT ![t] = FALSE]
      /\ held' = [held EXCEPT ![t] = {}]
      /\ UNCHANGED <<begun, changes, asked, access, session>>
  BY DEF Forget, Goto
<1>2. TypeOK
  BY DEF IInv
<1>3. Plain("SEARCH") \in Response /\ "all" \in AccessFilter
  BY PlainType DEF Route, AccessFilter
<1>4. /\ pc' \in [Turn -> {"idle", "count", "select", "classify", "reply", "answer", "sent"}]
      /\ filter' \in [Turn -> AccessFilter] /\ scope' \in [Turn -> SUBSET Meeting]
      /\ capped' \in [Turn -> BOOLEAN] /\ selected' \in [Turn -> SUBSET Meeting]
      /\ history' \in [Turn -> SUBSET Meeting]
  BY <1>1, <1>2, <1>3 DEF TypeOK
<1>5. /\ decision' \in [Turn -> Decision] /\ healthy' \in [Turn -> BOOLEAN]
      /\ response' \in [Turn -> Response] /\ replays' \in [Turn -> Nat]
  BY <1>1, <1>2, <1>3, FallbackType DEF TypeOK
<1>6. /\ alone' \in [Turn -> BOOLEAN] /\ before' \in [Turn -> BOOLEAN]
      /\ held' \in [Turn -> SUBSET Meeting]
  BY <1>1, <1>2 DEF TypeOK
<1>7. TypeOK'
  BY <1>1, <1>2, <1>4, <1>5, <1>6 DEF TypeOK
<1>8. \A u \in Turn \ {t} :
        /\ pc'[u] = pc[u] /\ scope'[u] = scope[u] /\ selected'[u] = selected[u]
        /\ decision'[u] = decision[u] /\ response'[u] = response[u]
        /\ replays'[u] = replays[u] /\ held'[u] = held[u] /\ alone'[u] = alone[u]
  BY <1>1, <1>2 DEF TypeOK
<1>9. Others(t)
  BY <1>1, <1>2, <1>8, NobodyElseIsAlone DEF Others, TypeOK
<1>10. pc'[t] = "idle" /\ scope'[t] = {} /\ replays'[t] = 0
  BY <1>1, <1>2 DEF TypeOK
<1>11. asked' \in Nat
  BY <1>1, <1>2 DEF TypeOK
<1>12. Kept(t)' /\ Solo(t)'
  BY <1>10, <1>11 DEF Kept, Solo, Sent
<1>13. Waiting' /\ PendingIsTakenOnce'
  BY <1>1, <1>9, <1>10, StillOnce
<1>14. QED
  BY <1>7, <1>9, <1>12, <1>13, TurnKeepsIInv

(* A turn begins: what it is authorised to see, it has a role in.           *)
LEMMA AuthoriseKeepsIInv ==
    ASSUME IInv, NEW t \in Turn, Authorise(t)
    PROVE  IInv'
<1>1. PICK kind \in Kinds :
        LET read == Authorised(access, kind) IN
        /\ filter' = [filter EXCEPT ![t] = IF AtCap(read) THEN kind ELSE @]
        /\ scope' = [scope EXCEPT ![t] = read]
        /\ Goto(t, IF AtCap(read) THEN "count" ELSE "select")
        /\ held' = [held EXCEPT ![t] = Held(access, "all")]
  BY DEF Authorise
<1> DEFINE read == Authorised(access, kind)
           step == IF AtCap(read) THEN "count" ELSE "select"
<1>2. /\ begun' = begun + 1
      /\ alone' = [u \in Turn |-> IF u = t THEN InFlight = {} ELSE alone[u] /\ pc[u] = "idle"]
      /\ before' = [before EXCEPT ![t] = session.clarified]
      /\ UNCHANGED <<access, session, capped, selected, history, decision, healthy, response,
                     changes, asked, replays>>
      /\ pc[t] = "idle"
  BY DEF Authorise
<1>3. TypeOK /\ kind \in AccessFilter
  BY ChatConstants DEF IInv
<1>4. read \subseteq Held(access, "all") /\ Held(access, "all") \subseteq Meeting
  BY <1>3, AuthorisedIsHeld
<1>5. step \in {"count", "select"} /\ pc' = [pc EXCEPT ![t] = step]
  BY <1>1 DEF Goto
<1> HIDE DEF read, step
<1>6. /\ scope' = [scope EXCEPT ![t] = read] /\ held' = [held EXCEPT ![t] = Held(access, "all")]
      /\ filter' \in [Turn -> AccessFilter]
  BY <1>1, <1>3 DEF TypeOK, read
<1>7. session.clarified \in BOOLEAN
  BY <1>3 DEF TypeOK, Session
<1>8. /\ pc' \in [Turn -> {"idle", "count", "select", "classify", "reply", "answer", "sent"}]
      /\ scope' \in [Turn -> SUBSET Meeting] /\ held' \in [Turn -> SUBSET Meeting]
      /\ pc'[t] = step /\ scope'[t] = read /\ held'[t] = Held(access, "all")
  BY <1>3, <1>4, <1>5, <1>6 DEF TypeOK
<1>9. /\ alone' \in [Turn -> BOOLEAN] /\ before' \in [Turn -> BOOLEAN] /\ begun' \in Nat
      /\ before'[t] = session.clarified
  <2>1. \A u \in Turn : (IF u = t THEN InFlight = {} ELSE alone[u] /\ pc[u] = "idle") \in BOOLEAN
    OBVIOUS
  <2>2. alone' \in [Turn -> BOOLEAN]
    BY <1>2, <2>1
  <2>3. before \in [Turn -> BOOLEAN] /\ begun \in Nat
    BY <1>3 DEF TypeOK
  <2>4. before' \in [Turn -> BOOLEAN] /\ before'[t] = session.clarified
    BY <1>2, <1>7, <2>3
  <2>5. begun' \in Nat
    BY <1>2, <2>3
  <2>6. QED
    BY <2>2, <2>4, <2>5
<1>10. TypeOK'
  BY <1>2, <1>3, <1>6, <1>8, <1>9 DEF TypeOK
<1>11. \A u \in Turn \ {t} :
         /\ pc'[u] = pc[u] /\ scope'[u] = scope[u] /\ held'[u] = held[u]
         /\ pc[u] # "idle" => ~alone'[u]
  BY <1>2, <1>3, <1>5, <1>6 DEF TypeOK
<1>12. asked \in Nat /\ replays[t] <= asked
  BY <1>3 DEF IInv, TypeOK, Kept
<1>13. Others(t)
  BY <1>2, <1>11, <1>12 DEF Others
<1>14. Kept(t)'
  BY <1>2, <1>4, <1>5, <1>8, <1>12 DEF Kept, Sent
<1>15. Solo(t)'
  <2> SUFFICES ASSUME alone'[t]
               PROVE  /\ \A u \in Turn \ {t} : pc'[u] = "idle"
                      /\ before'[t] => session'.clarified
    BY <1>5, <1>8 DEF Solo, Sent
  <2>1. InFlight = {}
    BY <1>2
  <2>2. \A u \in Turn \ {t} : pc[u] = "idle"
    BY <2>1 DEF InFlight
  <2>3. QED
    BY <1>2, <1>9, <1>11, <2>2
<1>16. Waiting' /\ PendingIsTakenOnce'
  BY <1>2, <1>13, StillOnce
<1>17. QED
  BY <1>10, <1>13, <1>14, <1>15, <1>16, TurnKeepsIInv

LEMMA CountKeepsIInv ==
    ASSUME IInv, NEW t \in Turn, CountScope(t)
    PROVE  IInv'
<1>1. /\ pc[t] = "count" /\ pc' = [pc EXCEPT ![t] = "select"]
      /\ capped' = [capped EXCEPT ![t] = Capped(access, filter[t], scope[t])]
      /\ filter' = [filter EXCEPT ![t] = "all"]
      /\ UNCHANGED <<access, session, scope, selected, history, decision, healthy, response,
                     begun, changes, asked, replays, alone, before, held>>
  BY DEF CountScope, Goto, ghosts
<1>2. TypeOK /\ Kept(t) /\ Solo(t) /\ asked \in Nat
  BY DEF IInv, TypeOK
<1>3. Capped(access, filter[t], scope[t]) \in BOOLEAN
  BY DEF Capped
<1>4. /\ pc' \in [Turn -> {"idle", "count", "select", "classify", "reply", "answer", "sent"}]
      /\ capped' \in [Turn -> BOOLEAN] /\ filter' \in [Turn -> AccessFilter]
      /\ pc'[t] = "select" /\ \A u \in Turn \ {t} : pc'[u] = pc[u]
  BY <1>1, <1>2, <1>3 DEF TypeOK, AccessFilter
<1>5. TypeOK'
  BY <1>1, <1>2, <1>4 DEF TypeOK
<1>6. Others(t)
  BY <1>1, <1>2, <1>4, NobodyElseIsAlone DEF Others
<1>7. Kept(t)' /\ Solo(t)'
  BY <1>1, <1>2, <1>4 DEF Kept, Solo, Sent
<1>8. Waiting' /\ PendingIsTakenOnce'
  BY <1>1, <1>6, StillOnce
<1>9. QED
  BY <1>5, <1>6, <1>7, <1>8, TurnKeepsIInv

\* t has got its answer, and the session records it.
LEMMA SendKeepsIInv ==
    ASSUME IInv, NEW t \in Turn, pc[t] \in {"reply", "answer"},
           NEW answer \in Response, Tell(t, answer),
           \/ answer.found \subseteq scope[t]
           \/ /\ scope[t] = {}
              /\ \A named \in {decision[t].titles, decision[t].dates} :
                   named # NoFilter => answer.found \subseteq UNION named
              /\ answer.banner = "disclosure",
           \/ answer.found \subseteq selected[t]
           \/ answer.banner = "disclosure"
           \/ /\ answer.route = "SEARCH"
              /\ Effective(decision[t], selected[t], scope[t]) = {}
              /\ answer.found \subseteq scope[t],
           answer.route = "CLARIFY" => pc[t] = "reply" /\ decision[t].route = "CLARIFY"
    PROVE  IInv'
<1>1. /\ pc' = [pc EXCEPT ![t] = "sent"]
      /\ response' = [response EXCEPT ![t] = answer]
      /\ session' = Recorded(session, answer)
      /\ UNCHANGED <<access, filter, scope, capped, selected, history, decision, healthy,
                     begun, changes, asked, replays, alone, before, held>>
  BY DEF Tell, Send, Goto, ghosts
<1>2. /\ TypeOK /\ Kept(t) /\ Solo(t) /\ session \in Session /\ Windowed(session)
      /\ asked \in Nat
  BY DEF IInv, TypeOK, Windowed
<1>3. session' \in Session /\ Windowed(session') /\ session'.pending = session.pending
  BY <1>1, <1>2, RecordedType
<1>4. /\ pc' \in [Turn -> {"idle", "count", "select", "classify", "reply", "answer", "sent"}]
      /\ response' \in [Turn -> Response]
      /\ pc'[t] = "sent" /\ response'[t] = answer
      /\ \A u \in Turn \ {t} : pc'[u] = pc[u] /\ response'[u] = response[u]
  BY <1>1, <1>2 DEF TypeOK
<1>5. TypeOK'
  BY <1>1, <1>2, <1>3, <1>4 DEF TypeOK, Windowed
<1>6. Others(t)
  BY <1>1, <1>2, <1>4, NobodyElseIsAlone DEF Others
<1>7. Kept(t)'
  BY <1>1, <1>2, <1>4 DEF Kept, Sent, Unscoped
<1>8. Solo(t)'
  BY <1>1, <1>2, <1>4 DEF Solo, Sent
<1>9. Waiting' /\ PendingIsTakenOnce'
  BY <1>1, <1>3, <1>6, StillOnce
<1>10. QED
  BY <1>5, <1>6, <1>7, <1>8, <1>9, TurnKeepsIInv

LEMMA ReplyKeepsIInv ==
    ASSUME IInv, NEW t \in Turn, Reply(t)
    PROVE  IInv'
<1>1. decision[t].route \in Route /\ history[t] \in SUBSET Meeting
  BY DecisionType DEF IInv, TypeOK
<1> DEFINE reply == [Plain(decision[t].route) EXCEPT !.recalled = history[t]]
<1>2. reply \in Response /\ reply.route = decision[t].route /\ reply.found = {}
  BY <1>1, PlainType
<1>3. pc[t] = "reply" /\ Tell(t, reply)
  BY DEF Reply
<1> HIDE DEF reply
<1>4. QED
  BY <1>2, <1>3, SendKeepsIInv

LEMMA TellOfCapKeepsIInv ==
    ASSUME IInv, NEW t \in Turn, TellOfCap(t)
    PROVE  IInv'
<1>1. decision[t].route \in Route /\ decision[t].route # "CLARIFY"
  BY DecisionType DEF IInv, TypeOK, Kept, TellOfCap, Outside, Early
<1>2. /\ Plain(decision[t].route) \in Response
      /\ Plain(decision[t].route).route = decision[t].route
      /\ Plain(decision[t].route).found = {}
  BY <1>1, PlainType
<1>3. QED
  BY <1>1, <1>2, SendKeepsIInv DEF TellOfCap

LEMMA AnswerKeepsIInv ==
    ASSUME IInv, NEW t \in Turn, Answer(t)
    PROVE  IInv'
<1> DEFINE d == decision[t]
           to == Effective(d, selected[t], scope[t])
           banner == Banner(d, selected[t], scope[t])
           recalled(out) == IF Composed(out) THEN history[t] ELSE {}
<1>1. PICK out \in Outcomes(d.route, to, scope[t]) :
        Tell(t, [route |-> out.route, found |-> out.found, recalled |-> recalled(out),
                 banner |-> banner])
  BY DEF Answer
<1>2. pc[t] = "answer"
  BY DEF Answer
<1>3. /\ d \in Decision /\ scope[t] \subseteq Meeting /\ selected[t] \subseteq scope[t]
      /\ history[t] \subseteq Meeting
      /\ Outside(d) /\ d.route \in Route
  BY <1>2, DecisionType DEF IInv, TypeOK, Kept
<1>4. /\ scope[t] # {} => to \subseteq scope[t]
      /\ to \subseteq Meeting
      /\ to \subseteq selected[t] \/ banner = "disclosure"
  BY <1>3, EffectiveWithin
<1>5. banner \in {"none", "offer", "disclosure"}
  BY DEF Banner
<1> HIDE DEF d, to, banner
<1>6. /\ out.route \in {d.route, "SEARCH"}
      /\ \/ out.found \subseteq to
         \/ to = {} /\ out.route = "SEARCH" /\ out.found \subseteq scope[t]
  BY <1>3, OutcomesWithin
<1> DEFINE answer == [route |-> out.route, found |-> out.found, recalled |-> recalled(out),
                      banner |-> banner]
<1>7. answer \in Response
  BY <1>3, <1>4, <1>5, <1>6 DEF Response, Route
<1>8. answer.route = out.route /\ answer.found = out.found /\ answer.banner = banner
  OBVIOUS
<1>9. out.route # "CLARIFY"
  BY <1>3, <1>6 DEF Outside, Early
<1> HIDE DEF answer
<1>10. Tell(t, answer)
  BY <1>1 DEF answer
<1>11. \/ answer.found \subseteq scope[t]
       \/ /\ scope[t] = {}
          /\ \A named \in {decision[t].titles, decision[t].dates} :
               named # NoFilter => answer.found \subseteq UNION named
          /\ answer.banner = "disclosure"
  <2>1. CASE scope[t] # {}
    BY <1>4, <1>6, <1>8, <2>1
  <2>2. CASE scope[t] = {}
    <3>1. selected[t] = {}
      BY <1>3, <2>2
    <3>2. /\ \A named \in {d.titles, d.dates} : named # NoFilter => to \subseteq UNION named
          /\ to # {} => banner = "disclosure"
      BY <1>3, <2>2, <3>1, EffectiveUnscoped DEF to, banner
    <3>3. QED
      BY <1>6, <1>8, <2>2, <3>2 DEF d
  <2>3. QED
    BY <2>1, <2>2
<1>12. \/ answer.found \subseteq selected[t]
       \/ answer.banner = "disclosure"
       \/ /\ answer.route = "SEARCH"
          /\ Effective(decision[t], selected[t], scope[t]) = {}
          /\ answer.found \subseteq scope[t]
  BY <1>4, <1>6, <1>8 DEF to, d
<1>13. QED
  BY <1>2, <1>7, <1>8, <1>9, <1>10, <1>11, <1>12, SendKeepsIInv

(* What Dispatch makes of t and of the session.                             *)
LEMMA DispatchMoves ==
    ASSUME IInv, NEW t \in Turn, NEW d \in Decision, NEW s \in Session, Windowed(s),
           Dispatch(t, d, s)
    PROVE  \E step \in {"sent", "reply", "answer"}, answer \in Response :
             /\ pc' = [pc EXCEPT ![t] = step]
             /\ response' = [response EXCEPT ![t] = answer]
             /\ decision' = [decision EXCEPT ![t] = d]
             /\ step = "sent" => answer.found = {} /\ answer.route # "CLARIFY"
             /\ step = "answer" => Outside(d)
             /\ session' \in Session /\ Windowed(session')
             /\ \/ session'.pending = s.pending /\ asked' = asked
                \/ /\ d.ambiguous /\ Outside(d)
                   /\ session'.pending = {[decision |-> d, asked |-> asked + 1]}
                   /\ asked' = asked + 1
<1>1. decision' = [decision EXCEPT ![t] = d] /\ d.route \in Route
  BY DecisionType DEF Dispatch
<1>2. response[t] \in Response /\ response = [response EXCEPT ![t] = response[t]] /\ asked \in Nat
  BY DEF IInv, TypeOK
<1>3. CASE /\ d.route = "GENERAL_REFUSE"
           /\ session' = Recorded(s, Plain(d.route))
           /\ Send(t, Plain(d.route))
           /\ UNCHANGED asked
  <2>1. Plain(d.route) \in Response /\ Plain(d.route).found = {} /\ Plain(d.route).route = d.route
    BY <1>1, PlainType
  <2>2. session' \in Session /\ Windowed(session') /\ session'.pending = s.pending
    BY <1>3, <2>1, RecordedType
  <2>3. QED
    BY <1>1, <1>3, <2>1, <2>2 DEF Send, Goto
<1>4. CASE /\ d.route \in {"GENERAL_GK", "CLARIFY"}
           /\ session' = s
           /\ Goto(t, "reply")
           /\ UNCHANGED <<response, asked>>
  BY <1>1, <1>2, <1>4 DEF Goto
<1>5. CASE /\ d.route \notin Early
           /\ d.ambiguous
           /\ session' = [Recorded(s, Plain("DISAMBIGUATION")) EXCEPT
                            !.pending = {[decision |-> d, asked |-> asked + 1]}]
           /\ Send(t, Plain("DISAMBIGUATION"))
           /\ asked' = asked + 1
  <2>1. [decision |-> d, asked |-> asked + 1] \in Question
    BY <1>2 DEF Question
  <2>2. /\ Plain("DISAMBIGUATION") \in Response
        /\ Plain("DISAMBIGUATION").found = {} /\ Plain("DISAMBIGUATION").route = "DISAMBIGUATION"
    BY PlainType
  <2>3. /\ Recorded(s, Plain("DISAMBIGUATION")) \in Session
        /\ Windowed(Recorded(s, Plain("DISAMBIGUATION")))
    BY <2>2, RecordedType
  <2>4. /\ session' \in Session /\ Windowed(session')
        /\ session'.pending = {[decision |-> d, asked |-> asked + 1]}
    BY <1>5, <2>1, <2>3 DEF Session, Windowed
  <2>5. QED
    BY <1>1, <1>5, <2>2, <2>4 DEF Send, Goto, Outside
<1>6. CASE /\ d.route \notin Early
           /\ ~d.ambiguous
           /\ session' = s
           /\ Goto(t, "answer")
           /\ UNCHANGED <<response, asked>>
  BY <1>1, <1>2, <1>6 DEF Goto, Outside
<1>7. QED
  BY <1>3, <1>4, <1>5, <1>6 DEF Dispatch

(* t is routed: by the router, or as the question was that waited.          *)
LEMMA DispatchKeepsIInv ==
    ASSUME IInv, NEW t \in Turn, pc[t] \in {"select", "classify"},
           NEW d \in Decision, NEW s \in Session, Windowed(s), Dispatch(t, d, s),
           UNCHANGED <<access, filter, scope, capped, begun, changes, alone, before, held>>,
           healthy' \in [Turn -> BOOLEAN], selected' \in [Turn -> SUBSET Meeting],
           history' \in [Turn -> SUBSET Meeting],
           selected'[t] \subseteq scope[t],
           \A u \in Turn \ {t} : selected'[u] = selected[u] /\ replays'[u] = replays[u],
           replays' \in [Turn -> Nat],
           d.route = "CLARIFY" /\ alone[t] => ~before[t],
           s.pending \subseteq session.pending,
           \/ replays'[t] = replays[t]
           \/ /\ ~d.ambiguous /\ s.pending = {}
              /\ \E q \in session.pending : replays'[t] = q.asked
    PROVE  IInv'
<1>1. PICK step \in {"sent", "reply", "answer"}, answer \in Response :
        /\ pc' = [pc EXCEPT ![t] = step]
        /\ response' = [response EXCEPT ![t] = answer]
        /\ decision' = [decision EXCEPT ![t] = d]
        /\ step = "sent" => answer.found = {} /\ answer.route # "CLARIFY"
        /\ step = "answer" => Outside(d)
        /\ session' \in Session /\ Windowed(session')
        /\ \/ session'.pending = s.pending /\ asked' = asked
           \/ /\ d.ambiguous /\ Outside(d)
              /\ session'.pending = {[decision |-> d, asked |-> asked + 1]}
              /\ asked' = asked + 1
  BY DispatchMoves
<1>2. TypeOK /\ Kept(t) /\ Solo(t) /\ asked \in Nat /\ replays[t] <= asked
  BY DEF IInv, TypeOK, Kept
<1>3. /\ pc' \in [Turn -> {"idle", "count", "select", "classify", "reply", "answer", "sent"}]
      /\ response' \in [Turn -> Response] /\ decision' \in [Turn -> Decision]
      /\ pc'[t] = step /\ response'[t] = answer /\ decision'[t] = d
      /\ \A u \in Turn \ {t} :
           pc'[u] = pc[u] /\ response'[u] = response[u] /\ decision'[u] = decision[u]
  BY <1>1, <1>2 DEF TypeOK
<1>4. asked' \in Nat /\ asked <= asked'
  BY <1>1, <1>2
<1>5. \A p, q \in session'.pending : p = q
  BY <1>1, <1>2 DEF TypeOK
<1>6. TypeOK'
  BY <1>1, <1>2, <1>3, <1>4, <1>5 DEF TypeOK, Windowed
<1>7. Others(t)
  BY <1>2, <1>3, <1>4, NobodyElseIsAlone DEF Others
<1>8. Waiting
  BY DEF IInv
<1>9. replays'[t] \in Nat /\ replays'[t] <= asked
  BY <1>2, <1>8 DEF Waiting
<1>10. replays'[t] <= asked'
  BY <1>2, <1>4, <1>9
<1>11. Kept(t)'
  BY <1>1, <1>2, <1>3, <1>10 DEF Kept, Sent
<1>12. Solo(t)'
  BY <1>1, <1>2, <1>3 DEF Solo, Sent
<1>13. Waiting' /\ PendingIsTakenOnce'
  <2>1. CASE replays'[t] = replays[t] /\ session'.pending = s.pending /\ asked' = asked
    BY <1>7, <2>1, StillOnce
  <2>2. CASE /\ replays'[t] = replays[t] /\ d.ambiguous /\ Outside(d)
             /\ session'.pending = {[decision |-> d, asked |-> asked + 1]}
             /\ asked' = asked + 1
    <3>1. Waiting'
      BY <1>4, <2>2 DEF Waiting, Outside
    <3>2. \A u \in Turn : replays'[u] = replays[u] /\ replays[u] \in Nat /\ replays[u] <= asked
      BY <1>2, <2>2 DEF IInv, TypeOK, Kept
    <3>3. \A u \in Turn : replays[u] # asked + 1
      BY <1>2, <3>2
    <3>4. PendingIsTakenOnce'
      BY <2>2, <3>2, <3>3 DEF IInv, PendingIsTakenOnce
    <3>5. QED
      BY <3>1, <3>4
  <2>3. CASE /\ ~d.ambiguous /\ s.pending = {}
             /\ \E q \in session.pending : replays'[t] = q.asked
    <3>1. session'.pending = {} /\ asked' = asked
      BY <1>1, <2>3
    <3>2. \A u \in Turn \ {t} : replays[u] # 0 => replays[u] # replays'[t]
      BY <2>3 DEF IInv, PendingIsTakenOnce
    <3>3. PendingIsTakenOnce'
      BY <3>1, <3>2 DEF IInv, PendingIsTakenOnce
    <3>4. Waiting'
      BY <3>1 DEF Waiting
    <3>5. QED
      BY <3>3, <3>4
  <2>4. QED
    BY <1>1, <2>1, <2>2, <2>3
<1>14. QED
  BY <1>6, <1>7, <1>11, <1>12, <1>13, TurnKeepsIInv

LEMMA SelectKeepsIInv ==
    ASSUME IInv, NEW t \in Turn, Select(t)
    PROVE  IInv'
<1> DEFINE chosen(wanted) == Selected(wanted, session.scope, scope[t])
<1>1. PICK wanted \in Selections :
        /\ selected' = [selected EXCEPT ![t] = chosen(wanted)]
        /\ history' = [history EXCEPT ![t] = History(Entered(session, chosen(wanted)))]
        /\ \/ \E q \in session.pending :
                /\ replays' = [replays EXCEPT ![t] = q.asked]
                /\ Dispatch(t, [q.decision EXCEPT !.ambiguous = FALSE],
                            Entered(session, chosen(wanted)))
           \/ /\ session' = Entered(session, chosen(wanted))
              /\ Goto(t, "classify")
              /\ UNCHANGED <<decision, response, asked, replays>>
  BY DEF Select
<1>2. /\ pc[t] = "select"
      /\ UNCHANGED <<access, filter, scope, capped, healthy, begun, changes, alone, before, held>>
  BY DEF Select
<1>3. /\ TypeOK /\ Kept(t) /\ Solo(t) /\ session \in Session /\ Windowed(session)
      /\ asked \in Nat
  BY DEF IInv, TypeOK, Windowed
<1>4. chosen(wanted) \subseteq scope[t] /\ scope[t] \in SUBSET Meeting
  BY <1>3, SelectedIsAuthorised DEF TypeOK
<1> DEFINE s == Entered(session, chosen(wanted))
<1>5. s \in Session /\ Windowed(s) /\ s.pending = {} /\ s.clarified = session.clarified
  BY <1>3, <1>4, EnteredType
<1>6. /\ selected' \in [Turn -> SUBSET Meeting] /\ selected'[t] = chosen(wanted)
      /\ \A u \in Turn \ {t} : selected'[u] = selected[u]
  BY <1>1, <1>3, <1>4 DEF TypeOK
<1>10. history' \in [Turn -> SUBSET Meeting]
  <2>1. History(s) \in SUBSET Meeting
    BY <1>5, HistoryType
  <2>2. history' = [history EXCEPT ![t] = History(s)] /\ history \in [Turn -> SUBSET Meeting]
    BY <1>1, <1>3 DEF TypeOK
  <2>3. QED
    BY <2>1, <2>2
<1> HIDE DEF chosen
<1>7. ASSUME NEW q \in session.pending,
             replays' = [replays EXCEPT ![t] = q.asked],
             Dispatch(t, [q.decision EXCEPT !.ambiguous = FALSE], s)
      PROVE  IInv'
  <2> DEFINE d == [q.decision EXCEPT !.ambiguous = FALSE]
  <2>1. q.decision \in Decision /\ q.asked \in Nat
    BY <1>3 DEF Session, Question
  <2>2. d \in Decision /\ d.route = q.decision.route /\ ~d.ambiguous
    BY <2>1, DecisionType
  <2>3. d.route # "CLARIFY"
    BY <2>2 DEF IInv, Waiting, Outside, Early
  <2>4. /\ replays' \in [Turn -> Nat] /\ replays'[t] = q.asked
        /\ \A u \in Turn \ {t} : replays'[u] = replays[u]
    BY <1>3, <1>7, <2>1 DEF TypeOK
  <2>5. healthy' \in [Turn -> BOOLEAN]
    BY <1>2, <1>3 DEF TypeOK
  <2> HIDE DEF d, s
  <2>6. Dispatch(t, d, s)
    BY <1>7 DEF d
  <2>7. QED
    BY <1>2, <1>4, <1>5, <1>6, <1>10, <2>2, <2>3, <2>4, <2>5, <2>6, DispatchKeepsIInv
<1>8. CASE /\ session' = s
           /\ Goto(t, "classify")
           /\ UNCHANGED <<decision, response, asked, replays>>
  <2>1. pc' = [pc EXCEPT ![t] = "classify"]
    BY <1>8 DEF Goto
  <2> HIDE DEF s
  <2>2. /\ pc' \in [Turn -> {"idle", "count", "select", "classify", "reply", "answer", "sent"}]
        /\ pc'[t] = "classify" /\ \A u \in Turn \ {t} : pc'[u] = pc[u]
    BY <1>3, <2>1 DEF TypeOK
  <2>3. TypeOK'
    BY <1>2, <1>3, <1>5, <1>6, <1>8, <1>10, <2>2 DEF TypeOK, Windowed
  <2>4. Others(t)
    BY <1>2, <1>3, <1>6, <1>8, <2>2, NobodyElseIsAlone DEF Others
  <2>5. Kept(t)'
    BY <1>2, <1>3, <1>4, <1>6, <1>8, <2>2 DEF Kept, Sent
  <2>6. Solo(t)'
    BY <1>2, <1>3, <1>5, <1>8, <2>2 DEF Solo, Sent
  <2>7. Waiting' /\ PendingIsTakenOnce'
    BY <1>5, <1>8, <2>4, StillOnce
  <2>8. QED
    BY <2>3, <2>4, <2>5, <2>6, <2>7, TurnKeepsIInv
<1>9. QED
  BY <1>1, <1>7, <1>8

LEMMA ClassifyKeepsIInv ==
    ASSUME IInv, NEW t \in Turn, Classify(t)
    PROVE  IInv'
<1>1. /\ pc[t] = "classify"
      /\ UNCHANGED <<access, filter, scope, capped, selected, history, begun, changes, replays,
                     alone, before, held>>
  BY DEF Classify
<1>2. TypeOK /\ Kept(t) /\ Solo(t) /\ session \in Session /\ Windowed(session)
  BY DEF IInv, TypeOK, Windowed
<1>3. PICK d \in Decision :
        /\ Dispatch(t, Guarded(d, session.clarified), session)
        /\ healthy' \in [Turn -> BOOLEAN]
  <2>1. PICK e \in Answers \union {Fallback} :
          \/ /\ Dispatch(t, Guarded(e, session.clarified), session)
             /\ UNCHANGED healthy
          \/ /\ Dispatch(t, Guarded([e EXCEPT !.ambiguous = FALSE], session.clarified), session)
             /\ healthy' = [healthy EXCEPT ![t] = FALSE]
    BY DEF Classify
  <2>2. e \in Decision /\ [e EXCEPT !.ambiguous = FALSE] \in Decision
    BY ChatConstants, FallbackType, DecisionType
  <2>3. healthy' \in [Turn -> BOOLEAN]
    BY <1>2, <2>1 DEF TypeOK
  <2>4. QED
    BY <2>1, <2>2, <2>3
<1> DEFINE g == Guarded(d, session.clarified)
<1>4. g \in Decision /\ (g.route = "CLARIFY" => ~session.clarified)
  BY GuardedType
<1> HIDE DEF g
<1>5. g.route = "CLARIFY" /\ alone[t] => ~before[t]
  BY <1>1, <1>2, <1>4 DEF Solo
<1>6. /\ selected' \in [Turn -> SUBSET Meeting] /\ replays' \in [Turn -> Nat]
      /\ history' \in [Turn -> SUBSET Meeting]
      /\ selected'[t] \subseteq scope[t]
      /\ \A u \in Turn : selected'[u] = selected[u] /\ replays'[u] = replays[u]
  BY <1>1, <1>2 DEF TypeOK, Kept
<1>7. Dispatch(t, g, session)
  BY <1>3 DEF g
<1>8. QED
  BY <1>1, <1>2, <1>3, <1>4, <1>5, <1>6, <1>7, DispatchKeepsIInv

(* A role given is noted for the turns in flight; no role given or taken    *)
(* changes what they hold.                                                  *)
LEMMA BecomesKeepsIInv ==
    ASSUME IInv, NEW m \in Meeting, NEW role \in Role, Becomes(m, role)
    PROVE  IInv'
<1>1. /\ changes' = changes + 1
      /\ access' = [access EXCEPT ![m] = role]
      /\ held' = [t \in Turn |-> IF pc[t] # "idle" /\ role # "none"
                                 THEN held[t] \union {m} ELSE held[t]]
      /\ UNCHANGED <<session, pc, filter, scope, capped, selected, history, decision, healthy, response,
                     begun, asked, replays, alone, before>>
  BY DEF Becomes, local
<1>2. TypeOK
  BY DEF IInv
<1>3. /\ access' \in [Meeting -> Role] /\ held' \in [Turn -> SUBSET Meeting]
      /\ \A t \in Turn : held[t] \subseteq held'[t]
  BY <1>1, <1>2 DEF TypeOK
<1>4. changes' \in Nat
  BY <1>1, <1>2 DEF TypeOK
<1>5. TypeOK'
  BY <1>1, <1>2, <1>3, <1>4 DEF TypeOK
<1>6. \A t \in Turn : Kept(t)'
  BY <1>1, <1>3 DEF IInv, Kept, Sent, Unscoped
<1>7. \A t \in Turn : Solo(t)'
  BY <1>1 DEF IInv, Solo, Sent
<1>8. Waiting' /\ PendingIsTakenOnce'
  BY <1>1 DEF IInv, Waiting, PendingIsTakenOnce
<1>9. QED
  BY <1>5, <1>6, <1>7, <1>8 DEF IInv

LEMMA IInvInit == Init => IInv
<1> SUFFICES ASSUME Init PROVE IInv
  OBVIOUS
<1>1. NewSession \in Session /\ NewSession.pending = {} /\ Len(NewSession.turns) <= TurnWindow
  BY ChatConstants DEF NewSession, Session, NoPending
<1>2. Plain("SEARCH") \in Response /\ "all" \in AccessFilter
  BY PlainType DEF Route, AccessFilter
<1>3. TypeOK
  BY <1>1, <1>2, FallbackType, ChatConstants DEF Init, TypeOK
<1>4. \A t \in Turn : Kept(t) /\ Solo(t)
  BY DEF Init, Kept, Solo, Sent
<1>5. Waiting /\ PendingIsTakenOnce
  BY <1>1 DEF Init, Waiting, PendingIsTakenOnce
<1>6. QED
  BY <1>3, <1>4, <1>5 DEF IInv

LEMMA IInvStep == IInv /\ [Next]_vars => IInv'
<1> SUFFICES ASSUME IInv, [Next]_vars
             PROVE  IInv'
  OBVIOUS
<1>1. ASSUME NEW t \in Turn, Respond(t) \/ Fail(t)
      PROVE  IInv'
  BY <1>1, ForgetKeepsIInv DEF Respond, Fail
<1>2. ASSUME NEW m \in Meeting, Grant(m) \/ Revoke(m) \/ Enrol(m)
      PROVE  IInv'
  BY <1>2, BecomesKeepsIInv DEF Grant, Revoke, Enrol, Role
<1>3. CASE Next
  BY <1>1, <1>2, <1>3, AuthoriseKeepsIInv, CountKeepsIInv, SelectKeepsIInv, ClassifyKeepsIInv,
     ReplyKeepsIInv, TellOfCapKeepsIInv, AnswerKeepsIInv DEF Next
<1>4. CASE UNCHANGED vars
  <2>1. UNCHANGED <<access, session, pc, filter, scope, capped, selected, history, decision, healthy,
                    response, begun, changes, asked, replays, alone, before, held>>
    BY <1>4 DEF vars, local, ghosts
  <2>2. TypeOK' /\ Waiting' /\ PendingIsTakenOnce'
    BY <2>1 DEF IInv, TypeOK, Waiting, PendingIsTakenOnce
  <2>3. \A t \in Turn : Kept(t)' /\ Solo(t)'
    BY <2>1 DEF IInv, Kept, Solo, Sent, Unscoped
  <2>4. QED
    BY <2>2, <2>3 DEF IInv
<1>5. QED
  BY <1>3, <1>4

-----------------------------------------------------------------------------

(* The invariant holds in every reachable state.                            *)
THEOREM ChatInvariant == Spec => []IInv
  BY IInvInit, IInvStep, PTL DEF Spec

(* Sessions, turns and answers keep their types: one question waits at most, *)
(* and the window of turns never overflows.                                 *)
THEOREM TypeCorrect == Spec => []TypeOK
<1>1. IInv => TypeOK
  BY DEF IInv
<1>2. QED
  BY <1>1, ChatInvariant, PTL

(* An answer refers to a meeting the user had no role in while the turn ran  *)
(* only as a newcomer's question finds it by name: handle_chat, scope.py and *)
(* the metadata searches leave no other way.  AnswersWithinAccess, without   *)
(* the exception, does not hold, so this is the most that can be proved.     *)
THEOREM AnswersStrayOnlyUnscoped == Spec => []StraysOnlyUnscoped
<1>1. IInv => StraysOnlyUnscoped
  BY DEF IInv, Kept, StraysOnlyUnscoped
<1>2. QED
  BY <1>1, ChatInvariant, PTL

(* A disambiguation question is taken up by one turn at most.               *)
THEOREM QuestionsAreTakenOnce == Spec => []PendingIsTakenOnce
<1>1. IInv => PendingIsTakenOnce
  BY DEF IInv
<1>2. QED
  BY <1>1, ChatInvariant, PTL

(* A turn that runs alone does not follow a clarification with another one. *)
THEOREM ClarifiesOnce == Spec => []NoClarifyLoop
<1>1. IInv => NoClarifyLoop
  BY DEF IInv, Solo, Sent, NoClarifyLoop
<1>2. QED
  BY <1>1, ChatInvariant, PTL

(* An answer from outside the selection is disclosed, or a widened search.  *)
THEOREM ExpansionIsTold == Spec => []ExpansionIsDisclosed
<1>1. IInv => ExpansionIsDisclosed
  BY DEF IInv, Kept, ExpansionIsDisclosed
<1>2. QED
  BY <1>1, ChatInvariant, PTL

=============================================================================
