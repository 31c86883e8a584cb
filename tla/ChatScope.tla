----------------------------- MODULE ChatScope -----------------------------
(***************************************************************************)
(* Which meetings a chat turn may look at, and which it does look at: the  *)
(* authorised scope, the user's selection, the narrowing by the titles and *)
(* dates of the question, and what each handler reads of the scope it is   *)
(* given (app/services/chat: scope.py, orchestrator.py, repos, handlers).  *)
(*                                                                         *)
(* Lists of meeting ids are sets: their order only ranks the answer.  A    *)
(* meeting is a number, larger for a later date.  The titles, or the dates *)
(* a question names are {S}, S the tenant's meetings that match them; {}   *)
(* when it names none.                                                     *)
(***************************************************************************)
EXTENDS Naturals, FiniteSets

CONSTANTS
    Meeting,      \* meetings of the tenant
    Recent,       \* those of the last RBAC_WITHIN_DAYS days
    Indexed,      \* those with chunks
    Digested,     \* those with insight rows
    MaxMeetings,  \* RBAC_MAX_MEETINGS, 0 for no cap
    MaxCompared   \* COMPARE_MAX_SUMMARY

ASSUME ChatScopeConstants ==
    /\ Meeting \subseteq Nat
    /\ IsFiniteSet(Meeting)
    /\ Recent \subseteq Meeting
    /\ Indexed \subseteq Meeting
    /\ Digested \subseteq Meeting
    /\ MaxMeetings \in Nat
    /\ MaxCompared \in Nat

Role == {"none", "attended", "granted"}
AccessFilter == {"all", "attended", "granted"}
NoFilter == {}
Filter == {NoFilter} \union {{hits} : hits \in SUBSET Meeting}

Early == {"GENERAL_REFUSE", "GENERAL_GK", "CLARIFY"}
Structured == {"STRUCTURED_DIRECT", "STRUCTURED_LLM"}
Route == Early \union Structured \union {"META", "SEARCH", "HYBRID", "COMPARE"}

Decision == [route : Route, titles : Filter, dates : Filter, ambiguous : BOOLEAN]

\* The router's decision without an answer of the LLM, or an invalid one.
Fallback ==
    [route |-> "SEARCH", titles |-> NoFilter, dates |-> NoFilter, ambiguous |-> FALSE]

-----------------------------------------------------------------------------
(* The authorised scope.  access[m] is the asker's role in meeting m.       *)

\* Meetings the user has a role in, of the kind asked for.
Held(access, kind) ==
    {m \in Meeting : access[m] # "none" /\ kind \in {"all", access[m]}}

Newest(S, n) == {m \in S : Cardinality({k \in S : k > m}) < n}

Authorised(access, kind) ==
    LET inWindow == Held(access, kind) \intersect Recent
    IN  IF MaxMeetings = 0 THEN inWindow ELSE Newest(inWindow, MaxMeetings)

\* The cap may be biting: the unbounded count is worth a query.
AtCap(scope) == MaxMeetings > 0 /\ Cardinality(scope) >= MaxMeetings

Capped(access, kind, scope) ==
    Cardinality(Held(access, kind) \intersect Recent) > Cardinality(scope)

\* Mutant: the saved selection is used as it was saved.
SelectedUnchecked(asked, saved, scope) ==
    IF asked # {} THEN asked \intersect scope
    ELSE IF saved # {} THEN saved
    ELSE scope

\* The caller's selection, else the session's, else everything.
Selected(asked, saved, scope) ==
    IF asked # {} THEN asked \intersect scope
    ELSE IF saved # {} THEN saved \intersect scope
    ELSE scope

-----------------------------------------------------------------------------
(* Narrowing.                                                               *)

\* The SQL of both metadata searches; without allowed meetings it has no
\* condition on the id.
Allowed(named, allowed) ==
    IF allowed = {} THEN UNION named ELSE (UNION named) \intersect allowed

Narrows(d) == d.titles # NoFilter \/ d.dates # NoFilter

\* Titles and dates together must both match.
Candidates(d, scope) ==
    CASE d.titles = NoFilter -> Allowed(d.dates, scope)
      [] d.dates = NoFilter  -> Allowed(d.titles, scope)
      [] OTHER -> Allowed(d.titles, scope) \intersect Allowed(d.dates, scope)

Matched(d, selected, scope) ==
    IF Narrows(d) THEN Candidates(d, scope) \intersect selected ELSE selected

Extra(d, selected, scope) ==
    IF Narrows(d) THEN Candidates(d, scope) \ selected ELSE {}

AutoExpands(d, selected, scope) ==
    Matched(d, selected, scope) = {} /\ Extra(d, selected, scope) # {}

Effective(d, selected, scope) ==
    IF AutoExpands(d, selected, scope) THEN Extra(d, selected, scope)
                                       ELSE Matched(d, selected, scope)

\* The filters matched nothing and older meetings may be beyond the cap.
BeyondCap(d, selected, scope, capped) ==
    Narrows(d) /\ capped /\ Candidates(d, scope) = {}

\* Mutant: the orchestrator does not tell that it expanded the scope.
BannerWithoutDisclosure(d, selected, scope) ==
    IF Extra(d, selected, scope) = {} THEN "none" ELSE "offer"

Banner(d, selected, scope) ==
    IF Extra(d, selected, scope) = {} THEN "none"
    ELSE IF AutoExpands(d, selected, scope) THEN "disclosure" ELSE "offer"

-----------------------------------------------------------------------------
(* What the handlers refer to in their answer, of the meetings they get.    *)

\* Any chunks can rank first; a question without a match finds none.
SearchFinds(scope) == SUBSET (scope \intersect Indexed)

\* Both structured handlers read the insight rows; they come back empty
\* without rows, and STRUCTURED_DIRECT also when the rows say nothing that
\* was asked for.
StructuredFinds(route, scope) ==
    {scope \intersect Digested} \union
        (IF route = "STRUCTURED_DIRECT" THEN {{}} ELSE {})

HybridFinds(scope) == {found \union (scope \intersect Digested) : found \in SearchFinds(scope)}

CompareFinds(scope) ==
    {IF Cardinality(scope) \in 2..MaxCompared THEN scope ELSE {}}

\* SEARCH, and a structured handler that found nothing, look at everything
\* authorised when the effective scope is empty.
Widened(scope, authorised) == IF scope = {} THEN authorised ELSE scope

\* The LLM composes the answer, with the history in its prompt, when there is
\* something to answer from; STRUCTURED_DIRECT never asks it.
Composed(out) == out.found # {} /\ out.route # "STRUCTURED_DIRECT"

\* The possible outcomes of the dispatch: the final route and the meetings.
Outcomes(route, scope, authorised) ==
    LET searched == {[route |-> "SEARCH", found |-> found] :
                        found \in SearchFinds(Widened(scope, authorised))}
        of(finds) == {[route |-> route, found |-> found] : found \in finds}
    IN  CASE route = "SEARCH"  -> searched
          [] route = "META"    -> of({scope})
          [] route = "HYBRID"  -> of(HybridFinds(scope))
          [] route = "COMPARE" -> of(CompareFinds(scope))
          [] OTHER ->
               of(StructuredFinds(route, scope) \ {{}}) \union
               (IF {} \in StructuredFinds(route, scope) THEN searched ELSE {})

=============================================================================
