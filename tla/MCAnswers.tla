------------------------------ MODULE MCAnswers ------------------------------
(***************************************************************************)
(* What answers rest on: the chunks a transcript is cut into, the search   *)
(* that ranks them, the names in labels and replies, and the turns of the  *)
(* session.  The algorithms keep no state between calls and share none     *)
(* with the turns, so a behaviour is one call of one or a session.         *)
(***************************************************************************)
EXTENDS MCChat, MCAlgorithms

VARIABLE part  \* what a behaviour is of

AnswersInit ==
    /\ part \in {"session", "call"}
    /\ Init
    /\ AlgorithmsInit
    \* A session makes no call, and to a call roles are all the same.
    /\ part = "session" => task = "search"
    /\ part = "call" => access = CHOOSE roles \in Roles : TRUE

AnswersNext ==
    \/ part = "session" /\ Next /\ UNCHANGED <<part, algorithmsVars>>
    \/ part = "call" /\ AlgorithmsNext /\ UNCHANGED <<part, vars>>

AnswersSpec == AnswersInit /\ [][AnswersNext]_<<part, vars, algorithmsVars>>

=============================================================================
