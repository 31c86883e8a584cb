----------------------------- MODULE Algorithms -----------------------------
(***************************************************************************)
(* The algorithms of retrieval and ingestion, each applied to the inputs   *)
(* it may meet: two ranked lists of chunks, the blocks of a transcript as  *)
(* they are read, a speaker label or a reply to "which one did you mean?". *)
(* A behaviour runs one of them.                                           *)
(***************************************************************************)
EXTENDS Ranking, Chunker, Speakers

CONSTANTS
    Person,       \* participants' graph ids
    FullName

ASSUME AlgorithmsConstants == IsFiniteSet(Person)

VARIABLES task, input

algorithmsVars == <<task, input, rankingVars, chunkerVars>>

None == [of |-> "nothing"]

AlgorithmsInit ==
    /\ task \in {"search", "transcript", "name"}
    /\ input = None
    /\ RankingInit
    /\ ChunkerInit

People ==
    UNION {{{[id |-> p, name |-> name[p], mail |-> mail[p]] : p \in here} :
               name \in [here -> FullName], mail \in [here -> Mail \union {NoMail}]} :
           here \in SUBSET Person}

\* A label, or a reply, is a name or an address.
Said == FullName \union {<<mail>> : mail \in Mail}

Label ==
    /\ input = None
    /\ \E label \in Said, people \in People :
         input' = [of |-> "label", label |-> label, people |-> people]

ReplyInput ==
    /\ input = None
    /\ \E reply \in Said, name \in FullName, people \in People :
         input' = [of |-> "reply", reply |-> reply, name |-> name, people |-> people]

AlgorithmsNext ==
    \/ /\ task = "search" /\ RankingNext
       /\ UNCHANGED <<task, input, chunkerVars>>
    \/ /\ task = "transcript" /\ ChunkerNext
       /\ UNCHANGED <<task, input, rankingVars>>
    \/ /\ task = "name" /\ (Label \/ ReplyInput)
       /\ UNCHANGED <<task, rankingVars, chunkerVars>>

AlgorithmsSpec == AlgorithmsInit /\ [][AlgorithmsNext]_algorithmsVars

-----------------------------------------------------------------------------
(* What is said of names; Ranking and Chunker state what they come to.      *)

(* ingestion/speaker_resolver.py:108: see ResolvedIsBest.                   *)
LabelsAreUnambiguous ==
    input.of = "label" => ResolvedIsBest(input.label, input.people)

(* orchestrator.py:628: see ChoiceIsClear.                                  *)
RepliesAreUnambiguous ==
    input.of = "reply" => ChoiceIsClear(input.reply, input.name, input.people)

=============================================================================
