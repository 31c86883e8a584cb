------------------------------ MODULE Ranking ------------------------------
(***************************************************************************)
(* From two ranked lists of chunks to an answer's chunks and source cards: *)
(* reciprocal rank fusion and the round robin over meetings                *)
(* (app/db/helpers/chat_search.py), and the cards                          *)
(* (app/services/chat/sources.py), one action for each iteration of their  *)
(* loops.  How the database ranks is left out.                             *)
(*                                                                         *)
(* A fused chunk is known by its place in the fused list.                  *)
(***************************************************************************)
EXTENDS Naturals, Sequences, FiniteSets

CONSTANTS
    Chunk,
    MeetingOf,    \* MeetingOf[c]: the meeting of chunk c
    RrfK,         \* RRF_K (60 in the code)
    Unit,         \* what a score of 1 is here: shares of it are whole numbers
    TopK,         \* SEARCH_TOP_K
    Multiplier,   \* POOL_MULTIPLIER
    MaxSources    \* MAX_SOURCE_CARDS

\* What one query returns: LIMIT :pool.
Pool == TopK * Multiplier

ASSUME RankingConstants ==
    /\ {RrfK, Unit, TopK, Multiplier, MaxSources} \subseteq Nat \ {0}
    /\ \A rank \in 1..Pool : Unit % (RrfK + rank) = 0

ChunkMeeting == {MeetingOf[c] : c \in Chunk}

VARIABLES
    phase,        \* of the search
    vector, bm25, \* the lists of the two queries
    fused,        \* the candidates of the round robin
    order,        \* meetings by first appearance
    byMeeting,    \* the places of a meeting's candidates
    pos,          \* the position of a loop
    progressed,
    result,       \* the places of the chunks taken
    cards         \* the meetings of the source cards

rankingVars ==
    <<phase, vector, bm25, fused, order, byMeeting, pos, progressed, result, cards>>

RankingInit ==
    /\ phase = "query"
    /\ vector = <<>>
    /\ bm25 = <<>>
    /\ fused = <<>>
    /\ order = <<>>
    /\ byMeeting = [m \in ChunkMeeting |-> <<>>]
    /\ pos = 1
    /\ progressed = FALSE
    /\ result = <<>>
    /\ cards = <<>>

-----------------------------------------------------------------------------
(* Reciprocal rank fusion.                                                  *)

Elements(seq) == {seq[i] : i \in DOMAIN seq}

Distinct(seq) == \A i, j \in DOMAIN seq : seq[i] = seq[j] => i = j

\* The best chunks, each once.
RankedLists == UNION {{l \in [1..n -> Chunk] : Distinct(l)} : n \in 0..Pool}

RankIn(list, c) == CHOOSE r \in DOMAIN list : list[r] = c

Share(list, c) == IF c \in Elements(list) THEN Unit \div (RrfK + RankIn(list, c)) ELSE 0

Score(v, b, c) == Share(v, c) + Share(b, c)

\* When the dict of scores gets a chunk: the first loop is over v.
Met(v, b, c) == IF c \in Elements(v) THEN RankIn(v, c) ELSE Len(v) + RankIn(b, c)

Found(v, b) == Elements(v) \union Elements(b)

\* c comes before d: by score, the greater first; equals stay as they were met.
Precedes(v, b, c, d) ==
    \/ Score(v, b, c) > Score(v, b, d)
    \/ Score(v, b, c) = Score(v, b, d) /\ Met(v, b, c) < Met(v, b, d)

Precedence(v, b) ==
    {pair \in Found(v, b) \X Found(v, b) : Precedes(v, b, pair[1], pair[2])}

\* The elements of S in the order of R.
Place(S, R, c) == Cardinality({d \in S : <<d, c>> \in R}) + 1
Sorted(S, R) == [i \in 1..Cardinality(S) |-> CHOOSE c \in S : Place(S, R, c) = i]

\* Mutant: a chunk of both lists keeps its score in the first.
RrfMergeFirst(v, b) ==
    LET score(c) == IF c \in Elements(v) THEN Share(v, c) ELSE Share(b, c) IN
    Sorted(Found(v, b),
           {pair \in Found(v, b) \X Found(v, b) :
               \/ score(pair[1]) > score(pair[2])
               \/ /\ score(pair[1]) = score(pair[2])
                  /\ Met(v, b, pair[1]) < Met(v, b, pair[2])})

\* _rrf_merge.
RrfMerge(v, b) == Sorted(Found(v, b), Precedence(v, b))

\* hybrid_chunk_search: both queries, then the fusion.
Retrieve ==
    /\ phase = "query"
    /\ \E v, b \in RankedLists :
         /\ vector' = v
         /\ bm25' = b
         /\ fused' = RrfMerge(v, b)
    /\ phase' = "group"
    /\ UNCHANGED <<order, byMeeting, pos, progressed, result, cards>>

-----------------------------------------------------------------------------
(* _round_robin_by_meeting.                                                 *)

Of(place) == MeetingOf[fused[place]]

NotedIn(list, m) == IF m \in Elements(list) THEN list ELSE Append(list, m)

GroupChunk ==
    /\ phase = "group"
    /\ pos <= Len(fused)
    /\ order' = NotedIn(order, Of(pos))
    /\ byMeeting' = [byMeeting EXCEPT ![Of(pos)] = Append(@, pos)]
    /\ pos' = pos + 1
    /\ UNCHANGED <<phase, vector, bm25, fused, progressed, result, cards>>

\* The first cycle begins.
Grouped ==
    /\ phase = "group"
    /\ pos > Len(fused)
    /\ phase' = "cycle"
    /\ pos' = 1
    /\ UNCHANGED <<vector, bm25, fused, order, byMeeting, progressed, result, cards>>

\* Mutant: a meeting's chunks are taken one after the other.
TakeChunkGreedily ==
    /\ phase = "cycle"
    /\ pos <= Len(order)
    /\ LET m == order[pos] IN
       /\ byMeeting[m] # <<>>
       /\ result' = Append(result, Head(byMeeting[m]))
       /\ byMeeting' = [byMeeting EXCEPT ![m] = Tail(@)]
    /\ progressed' = TRUE
    /\ IF Len(result') >= TopK THEN phase' = "cards" /\ pos' = 1
       ELSE pos' = pos /\ UNCHANGED phase
    /\ UNCHANGED <<vector, bm25, fused, order, cards>>

\* A cycle takes the best chunk that is left of each meeting, until there
\* are TopK.
TakeChunk ==
    /\ phase = "cycle"
    /\ pos <= Len(order)
    /\ LET m == order[pos] IN
       /\ byMeeting[m] # <<>>
       /\ result' = Append(result, Head(byMeeting[m]))
       /\ byMeeting' = [byMeeting EXCEPT ![m] = Tail(@)]
    /\ progressed' = TRUE
    /\ IF Len(result') >= TopK THEN phase' = "cards" /\ pos' = 1
       ELSE pos' = pos + 1 /\ UNCHANGED phase
    /\ UNCHANGED <<vector, bm25, fused, order, cards>>

SkipMeeting ==
    /\ phase = "cycle"
    /\ pos <= Len(order)
    /\ byMeeting[order[pos]] = <<>>
    /\ pos' = pos + 1
    /\ UNCHANGED <<phase, vector, bm25, fused, order, byMeeting, progressed, result, cards>>

NextCycle ==
    /\ phase = "cycle"
    /\ pos > Len(order)
    /\ pos' = 1
    /\ progressed' = FALSE
    /\ IF progressed THEN UNCHANGED phase ELSE phase' = "cards"
    /\ UNCHANGED <<vector, bm25, fused, order, byMeeting, result, cards>>

-----------------------------------------------------------------------------
(* build_sources_from_chunks.                                               *)

AddToCard ==
    /\ phase = "cards"
    /\ pos <= Len(result)
    /\ cards' = NotedIn(cards, Of(result[pos]))
    /\ pos' = pos + 1
    /\ UNCHANGED <<phase, vector, bm25, fused, order, byMeeting, progressed, result>>

Cut(seq, n) == SubSeq(seq, 1, IF n < Len(seq) THEN n ELSE Len(seq))

CutCards ==
    /\ phase = "cards"
    /\ pos > Len(result)
    /\ cards' = Cut(cards, MaxSources)
    /\ phase' = "done"
    /\ UNCHANGED <<vector, bm25, fused, order, byMeeting, pos, progressed, result>>

RankingNext ==
    \/ Retrieve \/ GroupChunk \/ Grouped
    \/ TakeChunk \/ SkipMeeting \/ NextCycle
    \/ AddToCard \/ CutCards

-----------------------------------------------------------------------------

Ahead(seq, c, d) == RankIn(seq, c) < RankIn(seq, d)

\* c is ranked before d, or d not at all.
Beats(list, c, d) ==
    c \in Elements(list) /\ (d \notin Elements(list) \/ Ahead(list, c, d))

(* chat_search.py:234: chunks are fused once each, and a chunk that one     *)
(* signal ranks before another, and the other signal does not put behind    *)
(* it, stays before it.                                                     *)
FusionIsFaithful ==
    /\ Elements(fused) = Found(vector, bm25)
    /\ Distinct(fused)
    /\ \A c, d \in Elements(fused) :
         /\ Beats(vector, c, d) \/ Beats(bm25, c, d)
         /\ ~Beats(vector, d, c) /\ ~Beats(bm25, d, c)
         => Ahead(fused, c, d)

\* How many chunks of a meeting were taken.
Taken(m) == Cardinality({i \in DOMAIN result : Of(result[i]) = m})

\* The cards show the first meetings of the chunks that were taken.
CardsAreFirst ==
    /\ Distinct(cards)
    /\ \A i \in DOMAIN cards : \E k \in DOMAIN result : Of(result[k]) = cards[i]
    /\ \A k \in DOMAIN result :
         \/ \E i \in DOMAIN cards : cards[i] = Of(result[k])
         \/ /\ Len(cards) = MaxSources
            /\ \A i \in DOMAIN cards : \E l \in 1..(k - 1) : Of(result[l]) = cards[i]
    /\ \A i, j \in DOMAIN cards, k \in DOMAIN result :
         i < j /\ Of(result[k]) = cards[j] => \E l \in 1..(k - 1) : Of(result[l]) = cards[i]

(* chat_search.py:275: every meeting contributes a chunk before any         *)
(* contributes two, and so on for each further one; within a meeting the    *)
(* better chunk comes first, and nothing is left out while there is room.   *)
(* The cards show the meetings of the chunks, as many as there may be.      *)
RetrievalIsDiverse ==
    phase = "done" =>
        /\ Distinct(result)
        /\ Elements(result) \subseteq DOMAIN fused
        /\ Len(result) = IF Len(fused) < TopK THEN Len(fused) ELSE TopK
        /\ \A p, q \in DOMAIN fused, j \in DOMAIN result :
             p < q /\ Of(p) = Of(q) /\ result[j] = q => \E i \in 1..(j - 1) : result[i] = p
        /\ \A p \in DOMAIN fused \ Elements(result), m \in ChunkMeeting :
             Taken(m) <= Taken(Of(p)) + 1
        /\ CardsAreFirst

=============================================================================
