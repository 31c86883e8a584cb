---------------------------- MODULE MeetingStore ----------------------------
(***************************************************************************)
(* What ingestion promises a reader of one tenant's database.  A reader    *)
(* (the chat, the frontend) sees committed rows only, and every committed  *)
(* change of a meeting is one of four: it is registered, its roster grows, *)
(* an ingestion of it is published whole, or an ingestion of it is         *)
(* recorded as failed and leaves the index and the ledger alone.           *)
(* Ingestion implements this module step by step.                          *)
(***************************************************************************)
EXTENDS Naturals

CONSTANTS
    Meeting,    \* rows of `meetings`, named by meeting_graph_id
    Person,     \* people a roster may name besides the organizer
    MaxVersion  \* bound: transcripts of one meeting, numbered from 1

VARIABLE meeting  \* meeting[m]: the committed rows of m, over all tables

Version == 1..MaxVersion

(* The committed image of a meeting.  `transcript` is the version in       *)
(* transcripts.raw_text (0: no row); `chunks` and `analytics` are the      *)
(* versions that have rows in these tables; `credits` counts credit_usage. *)
Image == [status: {"none", "pending", "ingesting", "ready", "failed"},
          transcript: 0..MaxVersion,
          chunks: SUBSET Version,
          analytics: SUBSET Version,
          credits: Nat,
          roster: SUBSET Person]

Absent == [status |-> "none", transcript |-> 0, chunks |-> {},
           analytics |-> {}, credits |-> 0, roster |-> {}]

-----------------------------------------------------------------------------

(* The manual route saved the meeting before Teams had a transcript. *)
Register(m, people) ==
    /\ meeting[m].status = "none"
    /\ meeting' = [meeting EXCEPT ![m].status = "pending", ![m].roster = people]

(* New participants, and nothing else, were saved. *)
Enrol(m, people) ==
    /\ meeting[m].status # "none"
    /\ meeting' = [meeting EXCEPT ![m].roster = @ \union people]

(* Transcript v was ingested: text, chunks, analytics, the charge and the  *)
(* status become visible together, and nothing of an older version stays.  *)
Publish(m, v, people) ==
    meeting' = [meeting EXCEPT ![m] =
                  [status |-> "ready", transcript |-> v, chunks |-> {v},
                   analytics |-> {v}, credits |-> @.credits + 1,
                   roster |-> @.roster \union people]]

(* An ingestion failed after the meeting was saved: the text may already   *)
(* be the new one; the index still is the old one and nothing is charged.  *)
RecordFailure(m, text, people) ==
    /\ text \in Version \union {meeting[m].transcript}
    /\ meeting' = [meeting EXCEPT ![m].status = "failed",
                                  ![m].transcript = text,
                                  ![m].roster = @ \union people]

Init == meeting = [m \in Meeting |-> Absent]

Next ==
    \E m \in Meeting, people \in SUBSET Person :
        \/ Register(m, people)
        \/ Enrol(m, people)
        \/ \E v \in Version : Publish(m, v, people)
        \/ \E text \in 0..MaxVersion : RecordFailure(m, text, people)

Spec == Init /\ [][Next]_meeting

=============================================================================
