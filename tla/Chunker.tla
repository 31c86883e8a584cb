------------------------------ MODULE Chunker ------------------------------
(***************************************************************************)
(* From the blocks of a VTT transcript to chunks: the loops of parse_vtt   *)
(* (app/services/ingestion/vtt_parser.py), merge_speaker_turns and         *)
(* chunk_segments (chunker.py), one action for each iteration.             *)
(*                                                                         *)
(* A text is the numbers of the blocks it was said in, a chunk the numbers *)
(* of its turns; the lines of a block are their speaker tags and the words *)
(* that are left once the tags are stripped.                               *)
(***************************************************************************)
EXTENDS Integers, Sequences, FiniteSets

CONSTANTS
    MERGE_GAP,             \* MERGE_GAP_MS
    MAX_UTTERANCES, MAX_SPAN, MAX_WORDS,     \* hard caps of a chunk
    SOFT_MIN_UTTERANCES, SOFT_MIN_SPAN,      \* what a chunk that a pause ends has
    PAUSE_GAP,
    SEC,                   \* milliseconds in a second
    Speaker,      \* the names in tags
    Untagged,     \* the tag of a line without one
    Unknown,      \* the speaker of a cue whose first line has no tag
    Text,         \* what a cue may hold: [tags, words]
    Gaps,         \* from the end of a cue to the start of the next one
    Lengths,      \* of a cue
    MaxBlocks     \* bound: blocks of a transcript

ASSUME ChunkerConstants ==
    /\ {MAX_UTTERANCES, MAX_WORDS, SEC} \subseteq Nat \ {0}
    /\ {MERGE_GAP, MAX_SPAN, SOFT_MIN_UTTERANCES, SOFT_MIN_SPAN, PAUSE_GAP} \subseteq Nat
    /\ Text \subseteq [tags : Seq(Speaker \union {Untagged}), words : Nat]
    /\ Gaps \subseteq Int
    /\ Lengths \subseteq Nat

VARIABLES
    loop,       \* the function whose loop runs
    blocks,     \* of the file, as they are read
    cues,       \* the segments that parse_vtt returns
    turns,      \* the segments that merge_speaker_turns returns
    at,         \* the position of a loop in its input
    buf, bufWords,
    chunks      \* what chunk_segments returns

chunkerVars == <<loop, blocks, cues, turns, at, buf, bufWords, chunks>>

ChunkerInit ==
    /\ loop = "parse_vtt"
    /\ blocks = <<>>
    /\ cues = <<>>
    /\ turns = <<>>
    /\ at = 1
    /\ buf = <<>>
    /\ bufWords = 0
    /\ chunks = <<>>

-----------------------------------------------------------------------------

End == IF blocks = <<>> THEN 0 ELSE blocks[Len(blocks)].end

\* What the file may go on with: a cue, which may overlap the one before, or
\* a header or note.
NextBlock ==
    {[kind |-> "cue", tags |-> text.tags, words |-> text.words,
      start |-> End + gap, end |-> End + gap + length] :
        text \in Text, gap \in {g \in Gaps : End + g >= 0}, length \in Lengths}
    \union {[kind |-> "note", tags |-> <<>>, words |-> 0, start |-> End, end |-> End]}

\* Whether a block is kept: a cue that has words.
Spoken(block) == block.kind = "cue" /\ block.tags # <<>> /\ block.words > 0

\* The tag of the first line names the speaker.
SpeakerOf(block) == IF block.tags[1] = Untagged THEN Unknown ELSE block.tags[1]

CueOf(block, number) ==
    [speaker |-> SpeakerOf(block), text |-> <<number>>, words |-> block.words,
     start |-> block.start, end |-> block.end]

\* parse_vtt.
ParseBlock ==
    /\ loop = "parse_vtt"
    /\ Len(blocks) < MaxBlocks
    /\ \E block \in NextBlock :
         /\ blocks' = Append(blocks, block)
         /\ cues' = IF Spoken(block) THEN Append(cues, CueOf(block, Len(blocks) + 1)) ELSE cues
    /\ UNCHANGED <<loop, turns, at, buf, bufWords, chunks>>

EndOfFile ==
    /\ loop = "parse_vtt"
    /\ loop' = "merge_speaker_turns"
    /\ UNCHANGED <<blocks, cues, turns, at, buf, bufWords, chunks>>

\* A cue goes on with the last turn.
GoesOn(cue) ==
    /\ turns # <<>>
    /\ turns[Len(turns)].speaker = cue.speaker
    /\ cue.start - turns[Len(turns)].end <= MERGE_GAP

Joined(turn, cue) ==
    [turn EXCEPT !.text = @ \o cue.text, !.words = @ + cue.words, !.end = cue.end]

\* merge_speaker_turns.
MergeCue ==
    /\ loop = "merge_speaker_turns"
    /\ at <= Len(cues)
    /\ turns' = IF GoesOn(cues[at]) THEN [turns EXCEPT ![Len(turns)] = Joined(@, cues[at])]
                ELSE Append(turns, cues[at])
    /\ at' = at + 1
    /\ UNCHANGED <<loop, blocks, cues, buf, bufWords, chunks>>

EndOfCues ==
    /\ loop = "merge_speaker_turns"
    /\ at > Len(cues)
    /\ loop' = "chunk_segments"
    /\ at' = 1
    /\ UNCHANGED <<blocks, cues, turns, buf, bufWords, chunks>>

\* Of a buffer or chunk: the numbers of its turns.
LastTurn(ts, segs) == ts[segs[Len(segs)]]

Span(ts, segs) == (LastTurn(ts, segs).end - ts[segs[1]].start) \div SEC

HitsCap(ts, segs, words) ==
    \/ Len(segs) >= MAX_UTTERANCES
    \/ Span(ts, segs) >= MAX_SPAN
    \/ words >= MAX_WORDS

\* A pause before the next turn ends a chunk that is large enough.
AtPause(ts, segs, next) ==
    /\ (ts[next].start - LastTurn(ts, segs).end) \div SEC >= PAUSE_GAP
    /\ Len(segs) >= SOFT_MIN_UTTERANCES
    /\ Span(ts, segs) >= SOFT_MIN_SPAN

\* Mutant: the words so far are not reset, and count for the next chunk too.
EmitCounting(segs) ==
    /\ chunks' = Append(chunks, segs)
    /\ buf' = <<>>
    /\ UNCHANGED bufWords

Emit(segs) ==
    /\ chunks' = Append(chunks, segs)
    /\ buf' = <<>>
    /\ bufWords' = 0

\* chunk_segments: a chunk is emitted at a cap, at a pause and at the end.
TakeTurn ==
    /\ loop = "chunk_segments"
    /\ at <= Len(turns)
    /\ LET taken == Append(buf, at)
           words == bufWords + turns[at].words
       IN  IF \/ HitsCap(turns, taken, words)
              \/ at < Len(turns) /\ AtPause(turns, taken, at + 1)
           THEN Emit(taken)
           ELSE buf' = taken /\ bufWords' = words /\ UNCHANGED chunks
    /\ at' = at + 1
    /\ UNCHANGED <<loop, blocks, cues, turns>>

EndOfTurns ==
    /\ loop = "chunk_segments"
    /\ at > Len(turns)
    /\ IF buf = <<>> THEN UNCHANGED <<buf, bufWords, chunks>> ELSE Emit(buf)
    /\ loop' = "done"
    /\ UNCHANGED <<blocks, cues, turns, at>>

ChunkerNext ==
    ParseBlock \/ EndOfFile \/ MergeCue \/ EndOfCues \/ TakeTurn \/ EndOfTurns

-----------------------------------------------------------------------------
(* What the three loops come to.                                            *)

\* The sequences of seqs, one after the other, are the numbers of S in order.
InOrder(seqs, S) ==
    /\ \A i \in DOMAIN seqs : \A k \in DOMAIN seqs[i] : seqs[i][k] \in S
    /\ \A n \in S : \E i \in DOMAIN seqs : \E k \in DOMAIN seqs[i] : seqs[i][k] = n
    /\ \A i, j \in DOMAIN seqs : \A k \in DOMAIN seqs[i], l \in DOMAIN seqs[j] :
         i < j \/ (i = j /\ k < l) => seqs[i][k] < seqs[j][l]

Texts == [t \in DOMAIN turns |-> turns[t].text]

SpokenBlocks == {b \in DOMAIN blocks : Spoken(blocks[b])}

\* A turn has the speaker of each of its blocks, and lasts from the first to
\* the last.
IsAsSaid(bs, turn) ==
    /\ turn.text # <<>>
    /\ \A k \in DOMAIN turn.text : turn.speaker = SpeakerOf(bs[turn.text[k]])
    /\ turn.start = bs[turn.text[1]].start
    /\ turn.end = bs[turn.text[Len(turn.text)]].end

\* The words of blocks, and how many were said in turns.
BlocksOf(turn) == {turn.text[k] : k \in DOMAIN turn.text}
WordsOf(bs, numbers) == UNION {{b} \X (1..bs[b].words) : b \in numbers}
BlocksIn(ts, segs) == UNION {BlocksOf(ts[segs[i]]) : i \in DOMAIN segs}
SaidIn(bs, ts, segs) == Cardinality(WordsOf(bs, BlocksIn(ts, segs)))

AllButLast(segs) == SubSeq(segs, 1, Len(segs) - 1)

\* A chunk is not empty, and reached no cap before its last turn.
IsInBounds(bs, ts, segs) ==
    /\ segs # <<>>
    /\ Len(segs) > 1 => ~HitsCap(ts, AllButLast(segs), SaidIn(bs, ts, AllButLast(segs)))

\* It was time to end a chunk before the turn next.
IsDue(bs, ts, segs, next) ==
    HitsCap(ts, segs, SaidIn(bs, ts, segs)) \/ AtPause(ts, segs, next)

(* chunker.py:101: every spoken block of the transcript ends up in exactly  *)
(* one turn of exactly one chunk, in the order of the transcript, under the *)
(* name its first line gives and with its times; turns of one speaker that  *)
(* are close are one; no chunk has passed a hard cap before its last turn,  *)
(* and one that is not at a cap is followed by a pause or by nothing.  That *)
(* is the boundary rule of the module's docstring.  It limits no chunk: one *)
(* turn may have more words than the cap, and a chunk may end when or even  *)
(* before it begins, which docs/ingestion-service.md:195 and 226 and        *)
(* tests/test_chunker.py:11-13 rule out.                                    *)
NothingSaidIsLost ==
    loop = "done" =>
        /\ InOrder(Texts, SpokenBlocks)
        /\ InOrder(chunks, DOMAIN turns)
        /\ \A t \in DOMAIN turns : IsAsSaid(blocks, turns[t])
        /\ \A t \in 1..(Len(turns) - 1) :
             turns[t].speaker = turns[t + 1].speaker =>
                 turns[t + 1].start - turns[t].end > MERGE_GAP
        /\ \A c \in DOMAIN chunks :
             /\ IsInBounds(blocks, turns, chunks[c])
             /\ c < Len(chunks) => IsDue(blocks, turns, chunks[c], chunks[c + 1][1])

=============================================================================
