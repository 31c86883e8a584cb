------------------------------- MODULE MCChat -------------------------------
(* Small instances of Chat for TLC. *)
EXTENDS Chat, TLC

MCMeeting == 1..3

\* Decisions of the routes that differ in what they look at.
MCDecisions == {
    [Fallback EXCEPT !.route = "CLARIFY"],
    [Fallback EXCEPT !.route = "STRUCTURED_DIRECT", !.titles = {{1}}],
    [Fallback EXCEPT !.titles = {{1, 2}}, !.dates = {{2, 3}}],
    [Fallback EXCEPT !.route = "META", !.ambiguous = TRUE, !.dates = {{3}}]}

\* Nothing selected, the oldest meeting, the others.
MCSelections == {{}, {1}, {2, 3}}

\* All three meetings are accessible, one more than the cap, or one is.
MCRoles == {<<"granted", "attended", "granted">>, <<"none", "none", "granted">>}

\* A user who has a role in no meeting, as one whose first login this is.
MCNewcomer == {[m \in MCMeeting |-> "none"]}

Alike == Permutations(Turn)

=============================================================================
