------------------------------ MODULE Speakers ------------------------------
(***************************************************************************)
(* Who is meant by a name: a speaker label of a transcript among the       *)
(* meeting's participants (app/services/ingestion/speaker_resolver.py), a  *)
(* name in a question among the tenant's participants                      *)
(* (app/services/chat/repos/speaker_resolver.py), and the reply to "which  *)
(* one did you mean?" (app/services/chat/orchestrator.py).                 *)
(*                                                                         *)
(* A name, a label or a reply is a sequence of tokens, trimmed and in lower *)
(* case; an address is one token.                                          *)
(***************************************************************************)
EXTENDS Naturals, Sequences, FiniteSets

CONSTANTS
    Mail,    \* the tokens that are addresses
    Local,   \* Local[m]: the local part of the address m
    Near,    \* pairs of different names that two edits turn into each other
    NoMail   \* no address

\* Participants: [id, name, mail].
FirstToken(name) == IF name = <<>> THEN <<>> ELSE <<name[1]>>
LastToken(name) == name[Len(name)]

\* The Levenshtein distance of two names, taken as whole strings, is at most
\* _LEV_THRESHOLD: the edits may fall in one token, in two, or between them.
NearName(a, b) == a = b \/ <<a, b>> \in Near

\* The local part decides, whatever the domain.
SameMailbox(p, label) ==
    /\ p.mail # NoMail
    /\ Len(label) = 1 /\ label[1] \in Mail
    /\ Local[p.mail] = Local[label[1]]

\* Whether a participant matches a label at a tier of _resolve_one.
Matches(p, label, tier) ==
    CASE tier = 1 -> p.name = label
      [] tier = 2 -> SameMailbox(p, label)
      [] tier = 3 -> FirstToken(p.name) = FirstToken(label)
      [] tier = 4 -> p.name # <<>> /\ NearName(p.name, label)

Tiers == 1..4
Matching(label, people, tier) == {p \in people : Matches(p, label, tier)}

\* Mutant: an ambiguous tier gives way to the next.
ResolveFurther(label, people) ==
    LET unique == {t \in Tiers : Cardinality(Matching(label, people, t)) = 1} IN
    IF label = <<>> \/ unique = {} THEN {}
    ELSE Matching(label, people, CHOOSE t \in unique : \A u \in unique : t <= u)

\* _resolve_one: the first tier at which anybody matches decides; nobody is
\* meant if it is several.
ResolveOne(label, people) ==
    LET tiers == {t \in Tiers : Matching(label, people, t) # {}}
        found == IF tiers = {} THEN {}
                 ELSE Matching(label, people, CHOOSE t \in tiers : \A u \in tiers : t <= u)
    IN  IF label # <<>> /\ Cardinality(found) = 1 THEN found ELSE {}

\* TenantSpeakerResolver.resolve: the full name, or else the first name.
AskedAbout(name, people) ==
    LET full == {p \in people : p.name = name} IN
    IF name = <<>> THEN {}
    ELSE IF full # {} THEN full
    ELSE {p \in people : FirstToken(p.name) = FirstToken(name)}

\* Whether a candidate is what a reply names: the full name, the address, or
\* the last name, whatever the reply looks like.
Names(reply, p, way) ==
    CASE way = 1 -> p.name = reply
      [] way = 2 -> p.mail # NoMail /\ reply = <<p.mail>>
      [] way = 3 -> p.name # <<>> /\ LastToken(p.name) = LastToken(reply)

Ways == 1..3
Named(reply, people, way) == {p \in people : Names(reply, p, way)}

\* Mutant: the first candidate that has the last name is taken.
ChooseFirst(reply, people) ==
    LET ways == {w \in Ways : Named(reply, people, w) # {}} IN
    IF reply = <<>> \/ ways = {} THEN {}
    ELSE {CHOOSE p \in Named(reply, people, CHOOSE w \in ways : \A v \in ways : w <= v) : TRUE}

\* _resolve_disambiguation_choice: the first way that names exactly one.
Choose(reply, people) ==
    LET unique == {w \in Ways : Cardinality(Named(reply, people, w)) = 1} IN
    IF reply = <<>> \/ unique = {} THEN {}
    ELSE Named(reply, people, CHOOSE w \in unique : \A v \in unique : w <= v)

-----------------------------------------------------------------------------

BestTier(p, label) ==
    LET tiers == {t \in Tiers : Matches(p, label, t)} IN
    IF tiers = {} THEN 5 ELSE CHOOSE t \in tiers : \A u \in tiers : t <= u

(* A label is given to a participant only if every other participant        *)
(* matches it less well: two of them with one name, or one first name and   *)
(* no better match, are never confused.  It speaks of participants only:    *)
(* an external whose first name one participant has is taken for that one.  *)
ResolvedIsBest(label, people) ==
    \A p \in ResolveOne(label, people) :
        /\ BestTier(p, label) < 5
        /\ \A q \in people \ {p} : BestTier(q, label) > BestTier(p, label)

(* The reply to the question picks a candidate only if it names that one in *)
(* some way and no other in that way; and if the reply is the full name of  *)
(* anybody asked about, or the address of one of them, nobody is picked for *)
(* the last name.                                                           *)
ChoiceIsClear(reply, name, people) ==
    LET asked == AskedAbout(name, people) IN
    \A p \in Choose(reply, asked) :
        /\ p \in asked
        /\ \E w \in Ways : Names(reply, p, w) /\ \A q \in asked \ {p} : ~Names(reply, q, w)
        /\ \A q \in asked :
             Names(reply, q, 1) \/ (Names(reply, q, 2) /\ Named(reply, asked, 2) = {q}) =>
                 Names(reply, p, 1) \/ Names(reply, p, 2)

=============================================================================
