--------------------------- MODULE IngestionProofs ---------------------------
(***************************************************************************)
(* Theorems about Ingestion, for every set of meetings, jobs and people    *)
(* and every MaxRetries and MaxVersion.                                    *)
(*                                                                         *)
(* IInv is the inductive invariant.  TypeOK alone is not inductive: a job  *)
(* that reaches the index must hold a transcript (HasText).  OneWriter is  *)
(* not either: it follows from who owns the row lock (OwnsRow).            *)
(*                                                                         *)
(* The second half shows what readers see and pay, and that Ingestion      *)
(* implements MeetingStore: DraftAt says, step by step, how the            *)
(* uncommitted draft of the job that owns a meeting's row differs from the *)
(* committed row.  Only the owner can change the committed row, except for *)
(* the roster, so the difference is still the same when the owner commits. *)
(***************************************************************************)
EXTENDS Ingestion, TLAPS, FiniteSetTheorems

\* Steps at which a job has downloaded or loaded its transcript.
WithText(j) ==
    \/ pc[j] \in {"price", "mark", "transcript", "index", "analytics"}
    \/ j \in Task /\ pc[j] \in {"select", "write", "roster", "enrol"}

HasText == \A j \in Job : WithText(j) => vtt[j] \in Version

\* A job that rewrites a meeting, or has rewritten it and will commit the
\* failure, owns the row lock.
OwnsRow ==
    \A j \in Job :
        (pc[j] \in Owning \/ (pc[j] = "persist" /\ tx[j] = "open"))
            => owner[Target[j]] = j

IInv == TypeOK /\ HasText /\ OwnsRow

-----------------------------------------------------------------------------
(* What the building blocks of the actions do to IInv.                     *)

Steps == {"queued"} \union Running \union Ended

(* The row that was never saved is a possible image. *)
LEMMA AbsentIsImage == Absent \in Store!Image
  BY IngestionConstants DEF Absent, Store!Absent, Store!Image, Store!Version

(* Ending a transaction keeps the types of everything it resets. *)
LEMMA DropTxTypes ==
    ASSUME TypeOK, NEW j \in Job,
           NEW state \in {"none", "open", "aborted", "inactive"},
           DropTx(j, state)
    PROVE  /\ owner' \in [Meeting -> Job \union {NoJob}]
           /\ tx' \in [Job -> {"none", "open", "aborted", "inactive"}]
           /\ found' \in [Job -> BOOLEAN]
           /\ edit' \in [Job -> [new: SUBSET Person, old: SUBSET Person]]
           /\ held' \in [Job -> SUBSET Person]
           /\ draft' \in [Job -> Store!Image]
  BY AbsentIsImage DEF TypeOK, DropTx, NoEdit

(* Ending a transaction frees no row of another job. *)
LEMMA DropTxOwners ==
    ASSUME TypeOK, NEW j \in Job, NEW state, DropTx(j, state),
           NEW k \in Job \ {j}, owner[Target[k]] = k
    PROVE  owner'[Target[k]] = k
  BY IngestionConstants DEF TypeOK, DropTx

(* Ending an attempt keeps IInv: the job is past every step IInv asks       *)
(* something of, whatever was published and however retries were counted.   *)
LEMMA EndAttemptKeepsIInv ==
    ASSUME IInv, NEW j \in Job,
           NEW how \in {"queued", "retry"} \union Ended,
           EndAttempt(j, how),
           meeting' \in [Meeting -> Store!Image],
           graph' = graph,
           retries' \in [Job -> 0..MaxRetries]
    PROVE  IInv'
<1>0. how \in Steps \ ({"price", "mark", "transcript", "index", "analytics",
                        "select", "write", "roster", "enrol", "persist"} \union Owning)
  BY DEF Steps, Running, Before, Pipeline, After, Ended, Owning
<1>1. TypeOK'
  <2>1. pc' \in [Job -> Steps] /\ vtt' \in [Job -> 0..MaxVersion]
    BY <1>0, IngestionConstants DEF IInv, TypeOK, EndAttempt, Goto, Steps
  <2> QED
    BY <2>1, DropTxTypes DEF IInv, TypeOK, EndAttempt, Steps
<1>2. HasText'
  BY <1>0 DEF IInv, TypeOK, HasText, WithText, EndAttempt, Goto
<1>3. OwnsRow'
  <2> SUFFICES ASSUME NEW k \in Job,
                      pc'[k] \in Owning \/ (pc'[k] = "persist" /\ tx'[k] = "open")
               PROVE  owner'[Target[k]] = k
    BY DEF OwnsRow
  <2>1. k # j /\ pc'[k] = pc[k] /\ tx'[k] = tx[k]
    BY <1>0 DEF IInv, TypeOK, EndAttempt, Goto, DropTx
  <2> QED
    BY <2>1, DropTxOwners DEF IInv, OwnsRow, EndAttempt
<1> QED
  BY <1>1, <1>2, <1>3 DEF IInv

(* A retry keeps IInv. *)
LEMMA RescheduleKeepsIInv ==
    ASSUME IInv, NEW t \in Job, Reschedule(t), meeting' = meeting, graph' = graph
    PROVE  IInv'
<1>1. retries' \in [Job -> 0..MaxRetries]
  BY IngestionConstants DEF IInv, TypeOK, Reschedule, RetriesLeft
<1>2. \E how \in {"queued", "gaveUp", "error"} : EndAttempt(t, how)
  BY DEF Reschedule
<1> QED
  BY <1>1, <1>2, EndAttemptKeepsIInv DEF IInv, TypeOK, Ended

(* A failed flush keeps IInv. *)
LEMMA FlushFailsKeepsIInv ==
    ASSUME IInv, NEW j \in Job, NEW step \in {"persist", "commit"},
           FlushFails(j, step), UNCHANGED <<meeting, graph, retries>>
    PROVE  IInv'
<1>1. TypeOK'
  <2>1. pc' \in [Job -> Steps]
    BY DEF IInv, TypeOK, FlushFails, Goto, Steps, Running, After
  <2> QED
    BY <2>1, DropTxTypes DEF IInv, TypeOK, FlushFails, Steps
<1>2. HasText'
  BY DEF IInv, TypeOK, HasText, WithText, FlushFails, Goto
<1>3. OwnsRow'
  <2> SUFFICES ASSUME NEW k \in Job,
                      pc'[k] \in Owning \/ (pc'[k] = "persist" /\ tx'[k] = "open")
               PROVE  owner'[Target[k]] = k
    BY DEF OwnsRow
  <2>1. k # j /\ pc'[k] = pc[k] /\ tx'[k] = tx[k]
    BY DEF IInv, TypeOK, FlushFails, Goto, DropTx, Owning, Pipeline
  <2> QED
    BY <2>1, DropTxOwners DEF IInv, OwnsRow, FlushFails
<1> QED
  BY <1>1, <1>2, <1>3 DEF IInv

-----------------------------------------------------------------------------
(* IInv is inductive.                                                      *)

LEMMA InitIInv == Init => IInv
<1> SUFFICES ASSUME Init PROVE IInv
  OBVIOUS
<1>1. TypeOK
  BY IngestionConstants, AbsentIsImage DEF Init, TypeOK, NoEdit
<1>2. HasText
  BY DEF Init, HasText, WithText
<1>3. OwnsRow
  BY DEF Init, OwnsRow, Owning, Pipeline
<1> QED
  BY <1>1, <1>2, <1>3 DEF IInv

(* The steps of a job before its session, and the loads of the script. *)
LEMMA FetchingKeepsIInv == ASSUME IInv, NEW j \in Job, Fetching(j) PROVE IInv'
<1> USE DEF IInv
<1>1. CASE Begin(j)
  <2>1. TypeOK'
    BY <1>1 DEF TypeOK, Begin, Goto, txVars, Job, Running, Before
  <2>2. HasText' /\ OwnsRow'
    BY <1>1 DEF TypeOK, HasText, WithText, OwnsRow, Begin, Goto, txVars, Job, Owning, Pipeline
  <2> QED
    BY <2>1, <2>2
<1>2. CASE j \in Task /\ ResolveTenant(j)
  <2>1. CASE Goto(j, "locate") /\ UNCHANGED <<retries, vtt, txVars>>
    <3>1. TypeOK'
      BY <1>2, <2>1 DEF TypeOK, ResolveTenant, Goto, txVars, Running, Before
    <3>2. HasText' /\ OwnsRow'
      BY <1>2, <2>1 DEF TypeOK, HasText, WithText, OwnsRow, Goto, txVars, Owning, Pipeline
    <3> QED
      BY <3>1, <3>2
  <2>2. CASE Reschedule(j)
    BY <1>2, <2>2, RescheduleKeepsIInv DEF ResolveTenant
  <2>3. CASE (EndAttempt(j, "skipped") \/ EndAttempt(j, "error")) /\ UNCHANGED retries
    BY <1>2, <2>3, EndAttemptKeepsIInv DEF ResolveTenant, TypeOK, Ended
  <2> QED
    BY <1>2, <2>1, <2>2, <2>3 DEF ResolveTenant
<1>3. CASE LocateMeeting(j)
  <2>1. CASE Goto(j, IF j \in Task THEN "fetch" ELSE "select") /\ UNCHANGED <<retries, vtt, txVars>>
    <3>1. TypeOK'
      BY <1>3, <2>1 DEF TypeOK, LocateMeeting, Goto, txVars, Running, Before
    <3>2. HasText' /\ OwnsRow'
      BY <1>3, <2>1 DEF TypeOK, HasText, WithText, OwnsRow, Goto, txVars, Owning, Pipeline
    <3> QED
      BY <3>1, <3>2
  <2>2. CASE Reschedule(j)
    BY <1>3, <2>2, RescheduleKeepsIInv DEF LocateMeeting
  <2>3. CASE EndAttempt(j, IF j \in Task THEN "skipped" ELSE "error") /\ UNCHANGED retries
    BY <1>3, <2>3, EndAttemptKeepsIInv DEF LocateMeeting, TypeOK, Ended
  <2> QED
    BY <1>3, <2>1, <2>2, <2>3 DEF LocateMeeting
<1>4. CASE FetchTranscript(j)
  <2>1. CASE \E v \in 1..graph[Target[j]] :
                /\ vtt' = [vtt EXCEPT ![j] = v]
                /\ Goto(j, "price")
                /\ UNCHANGED <<retries, txVars>>
    <3>1. 1..graph[Target[j]] \subseteq Version
      <4>1. graph[Target[j]] \in 0..MaxVersion
        BY IngestionConstants DEF TypeOK
      <4> QED
        BY <4>1, IngestionConstants DEF Version
    <3>2. PICK v \in Version : /\ vtt' = [vtt EXCEPT ![j] = v]
                               /\ Goto(j, "price")
                               /\ UNCHANGED <<retries, txVars>>
      BY <2>1, <3>1
    <3>3. TypeOK'
      BY <1>4, <3>2, IngestionConstants
      DEF TypeOK, FetchTranscript, Goto, txVars, Running, Before, Version
    <3>4. HasText' /\ OwnsRow'
      BY <3>2 DEF TypeOK, HasText, WithText, OwnsRow, Goto, txVars, Owning, Pipeline
    <3> QED
      BY <3>3, <3>4
  <2>2. CASE Goto(j, "commit") /\ UNCHANGED <<retries, vtt, txVars>>
    <3>1. TypeOK'
      BY <1>4, <2>2 DEF TypeOK, FetchTranscript, Goto, txVars, Running, After
    <3>2. HasText' /\ OwnsRow'
      BY <2>2 DEF TypeOK, HasText, WithText, OwnsRow, Goto, txVars, Owning, Pipeline
    <3> QED
      BY <3>1, <3>2
  <2>3. CASE Reschedule(j)
    BY <1>4, <2>3, RescheduleKeepsIInv DEF FetchTranscript
  <2>4. CASE EndAttempt(j, "error") /\ UNCHANGED retries
    BY <1>4, <2>4, EndAttemptKeepsIInv DEF FetchTranscript, TypeOK, Ended
  <2> QED
    BY <1>4, <2>1, <2>2, <2>3, <2>4 DEF FetchTranscript
<1>5. CASE PriceCredits(j)
  <2>1. CASE Goto(j, IF j \in Task THEN "select" ELSE "mark") /\ UNCHANGED <<vtt, txVars>>
    <3>1. TypeOK'
      BY <1>5, <2>1 DEF TypeOK, PriceCredits, Goto, txVars, Running, Before, Pipeline
    <3>2. HasText' /\ OwnsRow'
      BY <1>5, <2>1
      DEF TypeOK, HasText, WithText, OwnsRow, PriceCredits, Goto, txVars, Owning, Pipeline
    <3> QED
      BY <3>1, <3>2
  <2>2. CASE EndAttempt(j, "error")
    BY <1>5, <2>2, EndAttemptKeepsIInv DEF PriceCredits, TypeOK, Ended
  <2> QED
    BY <1>5, <2>1, <2>2 DEF PriceCredits
<1>6. CASE LoadTranscript(j)
  <2> DEFINE text == meeting[Target[j]].transcript
  <2>1. text \in 0..MaxVersion
    BY IngestionConstants DEF TypeOK, Store!Image
  <2>2. CASE text = 0
    BY <1>6, <2>2, EndAttemptKeepsIInv DEF LoadTranscript, TypeOK, Ended
  <2>3. CASE text # 0
    <3>1. text \in Version
      BY <2>1, <2>3, IngestionConstants DEF Version
    <3>2. TypeOK'
      BY <1>6, <2>1, <2>3 DEF TypeOK, LoadTranscript, Goto, Running, Pipeline
    <3>3. HasText' /\ OwnsRow'
      BY <1>6, <2>3, <3>1
      DEF TypeOK, HasText, WithText, OwnsRow, LoadTranscript, Goto, Owning, Pipeline
    <3> QED
      BY <3>2, <3>3
  <2> QED
    BY <2>2, <2>3
<1> QED
  BY <1>1, <1>2, <1>3, <1>4, <1>5, <1>6 DEF Fetching

(* The steps on the meeting's row and its roster. *)
LEMMA SavingKeepsIInv == ASSUME IInv, NEW j \in Job, Saving(j) PROVE IInv'
<1> USE DEF IInv
<1>1. CASE SelectMeeting(j)
  <2>1. TypeOK'
    BY <1>1 DEF TypeOK, SelectMeeting, Goto, Running, Before
  <2>2. HasText' /\ OwnsRow'
    BY <1>1 DEF TypeOK, HasText, WithText, OwnsRow, SelectMeeting, Goto, Owning, Pipeline
  <2> QED
    BY <2>1, <2>2
<1>2. CASE WriteMeeting(j)
  <2>1. CASE Goto(j, "roster") /\ UNCHANGED <<vtt, txVars>>
    <3>1. TypeOK'
      BY <1>2, <2>1 DEF TypeOK, WriteMeeting, Goto, txVars, Running, Before
    <3>2. HasText' /\ OwnsRow'
      BY <1>2, <2>1
      DEF TypeOK, HasText, WithText, OwnsRow, WriteMeeting, Goto, txVars, Owning, Pipeline
    <3> QED
      BY <3>1, <3>2
  <2>2. ASSUME NEW image \in Store!Image, RowFree(j), Own(j, image), Goto(j, "roster"),
               UNCHANGED <<vtt, tx, found, edit, held>>
        PROVE  IInv'
    <3>1. TypeOK'
      BY <1>2, <2>2, IngestionConstants DEF TypeOK, WriteMeeting, Own, Goto, Running, Before
    <3>2. HasText'
      BY <1>2, <2>2 DEF TypeOK, HasText, WithText, WriteMeeting, Goto
    <3>3. OwnsRow'
      BY <2>2, IngestionConstants DEF TypeOK, OwnsRow, Own, RowFree, Goto, Owning, Pipeline
    <3> QED
      BY <3>1, <3>2, <3>3
  <2>3. meeting[Target[j]] \in Store!Image
    BY IngestionConstants DEF TypeOK
  <2>4. [Absent EXCEPT !.status = "pending"] \in Store!Image
    BY AbsentIsImage DEF Store!Image
  <2>5. CASE EndAttempt(j, "error")
    BY <1>2, <2>5, EndAttemptKeepsIInv DEF WriteMeeting, TypeOK, Ended
  <2> QED
    BY <1>2, <2>1, <2>2, <2>3, <2>4, <2>5 DEF WriteMeeting
<1>3. CASE ReadRoster(j)
  <2>1. TypeOK'
    BY <1>3 DEF TypeOK, ReadRoster, Goto, Running, Before
  <2>2. HasText' /\ OwnsRow'
    BY <1>3 DEF TypeOK, HasText, WithText, OwnsRow, ReadRoster, Goto, Owning, Pipeline
  <2> QED
    BY <2>1, <2>2
<1>4. CASE WriteRoster(j)
  <2>1. CASE EndAttempt(j, "error")
    BY <1>4, <2>1, EndAttemptKeepsIInv DEF WriteRoster, TypeOK, Ended
  <2>2. CASE /\ held' = [held EXCEPT ![j] = RowsOf(edit[j])]
             /\ edit' = [edit EXCEPT ![j] = NoEdit]
             /\ Goto(j, IF j \in Task THEN "mark" ELSE "fetch")
             /\ UNCHANGED <<vtt, owner, tx, found, draft>>
    <3>1. TypeOK'
      BY <1>4, <2>2 DEF TypeOK, WriteRoster, RowsOf, NoEdit, Goto, Running, Before, Pipeline
    <3>2. HasText' /\ OwnsRow'
      BY <1>4, <2>2 DEF TypeOK, HasText, WithText, OwnsRow, WriteRoster, Goto, Owning, Pipeline
    <3> QED
      BY <3>1, <3>2
  <2> QED
    BY <1>4, <2>1, <2>2 DEF WriteRoster
<1> QED
  BY <1>1, <1>2, <1>3, <1>4 DEF Saving

(* The steps of run_ingestion_pipeline. *)
LEMMA PipingKeepsIInv == ASSUME IInv, NEW j \in Job, Piping(j) PROVE IInv'
<1> USE DEF IInv
<1>0. meeting[Target[j]] \in Store!Image /\ draft[j] \in Store!Image
  BY IngestionConstants DEF TypeOK
<1>1. CASE MarkIngesting(j)
  <2>1. TypeOK'
    BY <1>0, <1>1, IngestionConstants
    DEF TypeOK, MarkIngesting, Own, Goto, Running, Pipeline, Store!Image
  <2>2. HasText'
    BY <1>1 DEF TypeOK, HasText, WithText, MarkIngesting, Goto
  <2>3. OwnsRow'
    BY <1>1, IngestionConstants DEF TypeOK, OwnsRow, MarkIngesting, Own, RowFree, Goto
  <2> QED
    BY <2>1, <2>2, <2>3
\* A step that stays between the lock and the commit, and changes the draft.
<1>2. ASSUME pc[j] \in Owning,
             NEW step \in Owning \union {"persist"}, Goto(j, step),
             step \in {"index", "analytics"} => vtt[j] \in Version,
             step # "transcript",
             NEW image \in Store!Image, draft' = [draft EXCEPT ![j] = image],
             UNCHANGED <<meeting, graph, retries, vtt, owner, tx, found, edit, held>>
      PROVE  IInv'
  <2>1. TypeOK'
    BY <1>2 DEF TypeOK, Goto, Owning, Running, Pipeline, After
  <2>2. HasText' /\ OwnsRow'
    BY <1>2 DEF TypeOK, HasText, WithText, OwnsRow, Goto, Owning, Pipeline
  <2> QED
    BY <2>1, <2>2
<1>3. pc[j] \in {"transcript", "index", "analytics"} => vtt[j] \in Version
  BY DEF HasText, WithText
<1>4. draft = [draft EXCEPT ![j] = draft[j]]
  BY DEF TypeOK
<1>5. CASE UpsertTranscript(j)
  <2> DEFINE image == IF j \in Script THEN draft[j] ELSE [draft[j] EXCEPT !.transcript = vtt[j]]
  <2>1. image \in Store!Image
    BY <1>0 DEF TypeOK, Store!Image
  <2>2. draft' = draft \/ draft' = [draft EXCEPT ![j] = image]
    BY <1>4, <1>5 DEF UpsertTranscript
  <2> QED
    BY <1>0, <1>2, <1>3, <1>4, <1>5, <2>1, <2>2 DEF UpsertTranscript, Owning, Pipeline
<1>6. CASE IndexChunks(j)
  <2> DEFINE image == [draft[j] EXCEPT !.chunks = {vtt[j]}]
  <2>1. image \in Store!Image
    BY <1>0, <1>3, <1>6 DEF IndexChunks, Store!Image, Store!Version, Version
  <2>2. draft' = draft \/ draft' = [draft EXCEPT ![j] = image]
    BY <1>6 DEF IndexChunks, ReplaceRows
  <2> QED
    BY <1>0, <1>2, <1>3, <1>4, <1>6, <2>1, <2>2 DEF IndexChunks, Owning, Pipeline
<1>7. CASE ReplaceAnalytics(j)
  <2> DEFINE image == [draft[j] EXCEPT !.analytics = {vtt[j]}]
  <2>1. image \in Store!Image
    BY <1>0, <1>3, <1>7 DEF ReplaceAnalytics, Store!Image, Store!Version, Version
  <2>2. draft' = [draft EXCEPT ![j] = image]
    BY <1>7 DEF ReplaceAnalytics, ReplaceRows
  <2> QED
    BY <1>2, <1>7, <2>1, <2>2 DEF ReplaceAnalytics, Owning, Pipeline
<1>8. CASE Charge(j)
  <2> DEFINE image == [draft[j] EXCEPT !.credits = @ + 1]
  <2>1. image \in Store!Image
    BY <1>0 DEF Store!Image
  <2>2. draft' = [draft EXCEPT ![j] = image]
    BY <1>8 DEF Charge
  <2> QED
    BY <1>2, <1>8, <2>1, <2>2 DEF Charge, Owning, Pipeline
<1>9. CASE MarkReady(j)
  <2> DEFINE image == [draft[j] EXCEPT !.status = "ready"]
  <2>1. image \in Store!Image
    BY <1>0 DEF Store!Image
  <2>2. draft' = [draft EXCEPT ![j] = image]
    BY <1>9 DEF MarkReady
  <2> QED
    BY <1>2, <1>9, <2>1, <2>2 DEF MarkReady, Owning, Pipeline
<1>10. CASE MarkFailed(j)
  <2> DEFINE image == [draft[j] EXCEPT !.status = "failed"]
  <2>1. image \in Store!Image
    BY <1>0 DEF Store!Image
  <2>2. draft' = [draft EXCEPT ![j] = image]
    BY <1>10 DEF MarkFailed
  <2> QED
    BY <1>2, <1>10, <2>1, <2>2 DEF MarkFailed, Owning, Pipeline
<1>11. CASE GenerateInsights(j)
  <2>1. CASE FlushFails(j, "commit")
    BY <1>11, <2>1, FlushFailsKeepsIInv DEF GenerateInsights
  <2>2. CASE /\ Goto(j, "commit")
             /\ tx' = tx \/ tx' = [tx EXCEPT ![j] = "aborted"]
             /\ UNCHANGED <<vtt, owner, found, edit, held, draft>>
    <3>1. TypeOK'
      BY <1>11, <2>2 DEF TypeOK, GenerateInsights, Goto, Running, After
    <3>2. HasText' /\ OwnsRow'
      BY <1>11, <2>2 DEF TypeOK, HasText, WithText, OwnsRow, Goto, Owning, Pipeline
    <3> QED
      BY <3>1, <3>2
  <2> QED
    BY <1>11, <2>1, <2>2 DEF GenerateInsights, txVars
<1> QED
  BY <1>1, <1>5, <1>6, <1>7, <1>8, <1>9, <1>10, <1>11 DEF Piping

(* A commit publishes a possible image. *)
LEMMA PublishTypes ==
    ASSUME TypeOK, NEW j \in Job, PublishDraft(j)
    PROVE  meeting' \in [Meeting -> Store!Image]
<1> DEFINE m == Target[j]
           image == IF owner[m] = j THEN draft[j] ELSE meeting[m]
<1>1. m \in Meeting /\ image \in Store!Image /\ meeting[m] \in Store!Image /\ held[j] \subseteq Person
  BY IngestionConstants DEF TypeOK
<1>2. [image EXCEPT !.roster = meeting[m].roster \union held[j]] \in Store!Image
  BY <1>1 DEF Store!Image
<1> QED
  BY <1>1, <1>2 DEF TypeOK, PublishDraft

(* The steps that end an attempt. *)
LEMMA FinishingKeepsIInv == ASSUME IInv, NEW j \in Job, Finishing(j) PROVE IInv'
<1> USE DEF IInv
<1>1. CASE PersistFailure(j)
  <2>1. \E how \in {"retry", "error"} : EndAttempt(j, how)
    BY <1>1 DEF PersistFailure, EndAttempt
  <2>2. meeting' \in [Meeting -> Store!Image]
    BY <1>1, PublishTypes DEF PersistFailure, TypeOK
  <2> QED
    BY <1>1, <2>1, <2>2, EndAttemptKeepsIInv DEF PersistFailure, TypeOK, Ended
<1>2. CASE j \in Task /\ RetryFailed(j)
  BY <1>2, RescheduleKeepsIInv DEF RetryFailed
<1>3. CASE CommitSession(j)
  <2>1. \E how \in {"ok", "accepted", "error"} : EndAttempt(j, how)
    BY <1>3 DEF CommitSession
  <2>2. meeting' \in [Meeting -> Store!Image]
    BY <1>3, PublishTypes DEF CommitSession, TypeOK
  <2> QED
    BY <1>3, <2>1, <2>2, EndAttemptKeepsIInv DEF CommitSession, TypeOK, Ended
<1> QED
  BY <1>1, <1>2, <1>3 DEF Finishing

(* A failed statement, in a deadlock or not. *)
LEMMA DbFailsKeepsIInv == ASSUME IInv, NEW j \in Job, DbFails(j) PROVE IInv'
<1>1. EndAttempt(j, "error") \/ FlushFails(j, "persist")
  BY DEF DbFails
<1> QED
  BY <1>1, EndAttemptKeepsIInv, FlushFailsKeepsIInv DEF DbFails, IInv, TypeOK, Ended

LEMMA NextKeepsIInv == IInv /\ [Next]_vars => IInv'
<1> SUFFICES ASSUME IInv, [Next]_vars PROVE IInv'
  OBVIOUS
<1>1. ASSUME NEW j \in Job, Fetching(j) PROVE IInv'
  BY <1>1, FetchingKeepsIInv
<1>2. ASSUME NEW j \in Job, Saving(j) PROVE IInv'
  BY <1>2, SavingKeepsIInv
<1>3. ASSUME NEW j \in Job, Piping(j) PROVE IInv'
  BY <1>3, PipingKeepsIInv
<1>4. ASSUME NEW j \in Job, Finishing(j) PROVE IInv'
  BY <1>4, FinishingKeepsIInv
<1>5. ASSUME NEW j \in Job, DeadlockVictim(j) \/ DbFails(j) PROVE IInv'
  BY <1>5, DbFailsKeepsIInv DEF DeadlockVictim
<1>6. ASSUME NEW j \in Job, Crash(j) PROVE IInv'
  BY <1>6, EndAttemptKeepsIInv DEF Crash, IInv, TypeOK, Ended
<1>7. ASSUME NEW m \in Meeting, TranscriptAppears(m) PROVE IInv'
  <2>1. TypeOK'
    BY <1>7, IngestionConstants DEF IInv, TypeOK, TranscriptAppears
  <2>2. HasText' /\ OwnsRow'
    BY <1>7 DEF IInv, HasText, WithText, OwnsRow, TranscriptAppears
  <2> QED
    BY <2>1, <2>2 DEF IInv
<1>8. CASE UNCHANGED vars
  BY <1>8 DEF IInv, TypeOK, HasText, WithText, OwnsRow, vars
<1> QED
  BY <1>1, <1>2, <1>3, <1>4, <1>5, <1>6, <1>7, <1>8 DEF Next, AllEnded

-----------------------------------------------------------------------------
(* Theorems of the specification.                                          *)

(* Every reachable state satisfies the inductive invariant: a job that is   *)
(* about to write rows of a meeting holds a transcript and the row's lock.  *)
THEOREM IngestionInvariant == Spec => []IInv
  BY InitIInv, NextKeepsIInv, PTL DEF Spec

(* Rows, locks and job states stay in their types; in particular no task is *)
(* retried more than MaxRetries times, and no version 0 is ever indexed.    *)
THEOREM TypeCorrect == Spec => []TypeOK
<1>1. IInv => TypeOK
  BY DEF IInv
<1> QED
  BY <1>1, IngestionInvariant, PTL

(* One job at a time rewrites the rows of a meeting: the row lock that the  *)
(* flush of 'ingesting' takes (pipeline.py:80) serializes the pipelines of  *)
(* any number of tasks, requests and scripts, retries and crashes included. *)
THEOREM PipelinesExclude == Spec => []OneWriter
<1>1. IInv => OneWriter
  BY DEF IInv, OwnsRow, OneWriter
<1> QED
  BY <1>1, IngestionInvariant, PTL

-----------------------------------------------------------------------------
(* The draft of the row's owner.                                            *)

Owns(j) == owner[Target[j]] = j

\* The index, and what was paid for it, as committed.
SameIndex(d, r) ==
    d.chunks = r.chunks /\ d.analytics = r.analytics /\ d.credits = r.credits

\* Everything but the roster, which PublishDraft merges.
SameBut(d, r) ==
    /\ SameIndex(d, r)
    /\ d.transcript = r.transcript
    /\ d.status = IF r.status = "none" THEN "pending" ELSE r.status

\* The transcript a pipeline ends with: the script writes none.
TextOf(j, r) == IF j \in Script THEN r.transcript ELSE vtt[j]

Indexed(j, d, r) ==
    /\ vtt[j] \in Version
    /\ d.transcript = TextOf(j, r)
    /\ d.chunks = {vtt[j]}

Finished(j, d, r) ==
    /\ Indexed(j, d, r)
    /\ d.analytics = {vtt[j]}
    /\ d.credits = r.credits + 1

\* What the draft d of job j is, when r is the committed row.
DraftAt(j, d, r) ==
    /\ pc[j] \in {"roster", "enrol", "fetch", "price", "mark"} => SameBut(d, r)
    /\ pc[j] = "transcript" => SameIndex(d, r) /\ d.transcript = r.transcript
    /\ pc[j] = "index" => SameIndex(d, r) /\ d.transcript = TextOf(j, r)
    /\ pc[j] = "analytics" =>
         Indexed(j, d, r) /\ d.analytics = r.analytics /\ d.credits = r.credits
    /\ pc[j] = "charge" =>
         Indexed(j, d, r) /\ d.analytics = {vtt[j]} /\ d.credits = r.credits
    /\ pc[j] = "ready" => Finished(j, d, r)
    /\ (pc[j] = "insights" \/ (pc[j] = "commit" /\ vtt[j] # 0)) =>
         Finished(j, d, r) /\ d.status = "ready"
    /\ (pc[j] = "commit" /\ vtt[j] = 0) => SameBut(d, r)
    /\ pc[j] \in {"failing", "persist"} =>
         SameIndex(d, r) /\ d.transcript \in Version \union {r.transcript}
    /\ pc[j] = "persist" => d.status = "failed"

\* Before a job downloads a transcript.
NoText(j) ==
    \/ pc[j] \in {"queued", "resolve", "locate", "fetch"}
    \/ j \notin Task /\ pc[j] \in {"select", "write", "roster", "enrol"}

\* Before a job's flush of the meeting.
Unowned(j) ==
    \/ pc[j] \in {"queued", "resolve", "locate", "select", "load", "write"}
    \/ j \in Task /\ pc[j] \in {"fetch", "price"}

\* After that flush, and before the pipeline takes the row.
Saved(j) ==
    \/ pc[j] \in {"roster", "enrol", "mark"}
    \/ j \notin Task /\ pc[j] \in {"fetch", "price"}

\* The job has saved its meeting: it inserts the row, or found it committed.
RowExists(j) == Owns(j) \/ meeting[Target[j]].status # "none"

JobInv(j) ==
    /\ NoText(j) => vtt[j] = 0
    /\ Unowned(j) => ~Owns(j)
    /\ (pc[j] = "write" \/ Saved(j) \/ pc[j] \in Owning) => tx[j] = "open"
    /\ Owns(j) => tx[j] \in {"open", "aborted"}
    /\ (pc[j] = "commit" /\ vtt[j] # 0 /\ tx[j] = "open") => Owns(j)
    /\ found[j] => meeting[Target[j]].status # "none"
    /\ (Saved(j) \/ (pc[j] = "commit" /\ tx[j] = "open")) => RowExists(j)
    /\ Owns(j) => DraftAt(j, draft[j], meeting[Target[j]])

\* A row that was never saved has no dependants.
NoOrphans == \A m \in Meeting : meeting[m].status = "none" => meeting[m] = Absent

RInv == IInv /\ NoOrphans /\ \A j \in Job : JobInv(j)

-----------------------------------------------------------------------------
(* A step of one job, seen by the others.                                  *)

\* What a step of j leaves alone of every other job.
Frame(j) ==
    \A k \in Job \ {j} :
        /\ pc'[k] = pc[k] /\ vtt'[k] = vtt[k] /\ tx'[k] = tx[k]
        /\ found'[k] = found[k] /\ draft'[k] = draft[k]
        /\ owner'[Target[k]] = k <=> owner[Target[k]] = k

(* A step that commits nothing keeps RInv if it keeps the job's own part.   *)
LEMMA QuietStep ==
    ASSUME RInv, IInv', NEW j \in Job, Frame(j), meeting' = meeting, JobInv(j)'
    PROVE  RInv'
<1>1. ASSUME NEW k \in Job \ {j} PROVE JobInv(k)'
  <2>1. JobInv(k)
    BY DEF RInv
  <2>2. Owns(k)' <=> Owns(k)
    BY DEF Frame, Owns
  <2>3. NoText(k)' = NoText(k) /\ Unowned(k)' = Unowned(k) /\ Saved(k)' = Saved(k)
    BY DEF Frame, NoText, Unowned, Saved
  <2>4. DraftAt(k, draft[k], meeting[Target[k]])' <=> DraftAt(k, draft[k], meeting[Target[k]])
    BY DEF Frame, DraftAt, Finished, Indexed, TextOf, SameIndex, SameBut
  <2> QED
    BY <2>1, <2>2, <2>3, <2>4 DEF Frame, JobInv, RowExists
<1>2. \A k \in Job : JobInv(k)'
  BY <1>1
<1>3. NoOrphans'
  BY DEF RInv, NoOrphans
<1> QED
  BY <1>2, <1>3 DEF RInv

(* Ending an attempt touches no other job.                                  *)
LEMMA DropTxFrame ==
    ASSUME TypeOK, NEW j \in Job, NEW state, DropTx(j, state),
           NEW k \in Job \ {j}
    PROVE  /\ tx'[k] = tx[k] /\ found'[k] = found[k] /\ draft'[k] = draft[k]
           /\ owner'[Target[k]] = k <=> owner[Target[k]] = k
<1>1. tx'[k] = tx[k] /\ found'[k] = found[k] /\ draft'[k] = draft[k]
  BY DEF TypeOK, DropTx
<1>2. Target[k] \in Meeting /\ k # NoJob
  BY IngestionConstants
<1>3. owner'[Target[k]] = IF owner[Target[k]] = j THEN NoJob ELSE owner[Target[k]]
  BY <1>2 DEF DropTx
<1> QED
  BY <1>1, <1>2, <1>3

LEMMA DropTxUnowns ==
    ASSUME TypeOK, NEW j \in Job, NEW state, DropTx(j, state)
    PROVE  ~Owns(j)' /\ found'[j] = FALSE /\ tx'[j] = state
  BY IngestionConstants DEF TypeOK, DropTx, Owns

LEMMA EndAttemptOwn ==
    ASSUME TypeOK, NEW j \in Job,
           NEW how \in {"queued", "retry"} \union Ended,
           EndAttempt(j, how)
    PROVE  Frame(j) /\ JobInv(j)'
<1>1. Frame(j)
  BY DropTxFrame DEF TypeOK, Frame, EndAttempt, Goto
<1>2. pc'[j] = how /\ vtt'[j] = 0
  BY DEF TypeOK, EndAttempt, Goto
<1>3. JobInv(j)'
  BY <1>2, DropTxUnowns
  DEF EndAttempt, JobInv, NoText, Saved, Unowned, Owning, Pipeline, Ended
<1> QED
  BY <1>1, <1>3

LEMMA EndAttemptQuiet ==
    ASSUME RInv, IInv', NEW j \in Job,
           NEW how \in {"queued", "retry"} \union Ended,
           EndAttempt(j, how), meeting' = meeting
    PROVE  RInv'
  BY EndAttemptOwn, QuietStep DEF RInv, IInv

LEMMA RescheduleQuiet ==
    ASSUME RInv, IInv', NEW t \in Job, Reschedule(t), meeting' = meeting
    PROVE  RInv'
<1>1. \E how \in {"queued", "gaveUp", "error"} : EndAttempt(t, how)
  BY DEF Reschedule
<1> QED
  BY <1>1, EndAttemptQuiet DEF Ended

LEMMA FlushFailsQuiet ==
    ASSUME RInv, IInv', NEW j \in Job, NEW step \in {"persist", "commit"},
           FlushFails(j, step), meeting' = meeting
    PROVE  RInv'
<1>1. Frame(j)
  BY DropTxFrame DEF RInv, IInv, TypeOK, Frame, FlushFails, Goto
<1>2. pc'[j] = step /\ ~Owns(j)' /\ found'[j] = FALSE /\ tx'[j] = "inactive"
  BY DropTxUnowns DEF RInv, IInv, TypeOK, FlushFails, Goto
<1>3. JobInv(j)'
  BY <1>2 DEF JobInv, NoText, Saved, Unowned, Owning, Pipeline
<1> QED
  BY <1>1, <1>3, QuietStep

(* A step that changes the job's position only.                             *)
LEMMA GotoFrame ==
    ASSUME TypeOK, NEW j \in Job, NEW step, Goto(j, step),
           UNCHANGED <<owner, found, draft>>,
           vtt' = vtt \/ \E v : vtt' = [vtt EXCEPT ![j] = v],
           tx' = tx \/ \E state : tx' = [tx EXCEPT ![j] = state]
    PROVE  Frame(j) /\ pc'[j] = step /\ (Owns(j)' <=> Owns(j))
  BY DEF TypeOK, Frame, Goto, Owns

-----------------------------------------------------------------------------
(* RInv is inductive: steps that commit nothing.                           *)

LEMMA InitRInv == Init => RInv
<1> SUFFICES ASSUME Init PROVE RInv
  OBVIOUS
<1>1. NoOrphans
  BY DEF Init, NoOrphans
<1>2. ASSUME NEW j \in Job PROVE JobInv(j)
  <2>1. pc[j] = "queued" /\ vtt[j] = 0 /\ ~found[j] /\ ~Owns(j)
    BY IngestionConstants DEF Init, Owns
  <2> QED
    BY <2>1 DEF JobInv, Saved, Owning, Pipeline
<1> QED
  BY <1>1, <1>2, InitIInv DEF RInv

LEMMA FetchingQuiet == ASSUME RInv, IInv', NEW j \in Job, Fetching(j) PROVE RInv'
<1>0. TypeOK /\ JobInv(j) /\ NoOrphans
  BY DEF RInv, IInv
<1>1. CASE Begin(j)
  <2>1. PICK step \in {"resolve", "locate", "load"} : Goto(j, step)
    BY <1>1 DEF Begin, Job
  <2>2. Frame(j) /\ pc'[j] = step /\ (Owns(j)' <=> Owns(j))
    BY <1>0, <1>1, <2>1, GotoFrame DEF Begin, txVars
  <2>3. JobInv(j)'
    BY <1>0, <1>1, <2>2
    DEF JobInv, NoText, Unowned, Saved, Owning, Pipeline, Begin, txVars
  <2> QED
    BY <1>1, <2>2, <2>3, QuietStep DEF Begin
<1>2. CASE j \in Task /\ ResolveTenant(j)
  <2>1. CASE Goto(j, "locate") /\ UNCHANGED <<retries, vtt, txVars>>
    <3>1. Frame(j) /\ pc'[j] = "locate" /\ (Owns(j)' <=> Owns(j))
      BY <1>0, <2>1, GotoFrame DEF txVars
    <3>2. JobInv(j)'
      BY <1>0, <1>2, <2>1, <3>1
      DEF JobInv, NoText, Unowned, Saved, Owning, Pipeline, ResolveTenant, txVars
    <3> QED
      BY <1>2, <3>1, <3>2, QuietStep DEF ResolveTenant
  <2>2. CASE Reschedule(j)
    BY <1>2, <2>2, RescheduleQuiet DEF ResolveTenant
  <2>3. CASE EndAttempt(j, "skipped") \/ EndAttempt(j, "error")
    BY <1>2, <2>3, EndAttemptQuiet DEF ResolveTenant, Ended
  <2> QED
    BY <1>2, <2>1, <2>2, <2>3 DEF ResolveTenant
<1>3. CASE LocateMeeting(j)
  <2>1. CASE Goto(j, IF j \in Task THEN "fetch" ELSE "select") /\ UNCHANGED <<retries, vtt, txVars>>
    <3>1. Frame(j) /\ pc'[j] = (IF j \in Task THEN "fetch" ELSE "select") /\ (Owns(j)' <=> Owns(j))
      BY <1>0, <2>1, GotoFrame DEF txVars
    <3>2. JobInv(j)'
      BY <1>0, <1>3, <2>1, <3>1
      DEF JobInv, NoText, Unowned, Saved, Owning, Pipeline, LocateMeeting, txVars
    <3> QED
      BY <1>3, <3>1, <3>2, QuietStep DEF LocateMeeting
  <2>2. CASE Reschedule(j)
    BY <1>3, <2>2, RescheduleQuiet DEF LocateMeeting
  <2>3. CASE EndAttempt(j, IF j \in Task THEN "skipped" ELSE "error")
    BY <1>3, <2>3, EndAttemptQuiet DEF LocateMeeting, Ended
  <2> QED
    BY <1>3, <2>1, <2>2, <2>3 DEF LocateMeeting
<1>4. CASE FetchTranscript(j)
  <2>1. CASE \E v \in 1..graph[Target[j]] :
                /\ vtt' = [vtt EXCEPT ![j] = v]
                /\ Goto(j, "price")
                /\ UNCHANGED <<retries, txVars>>
    <3>1. Frame(j) /\ pc'[j] = "price" /\ (Owns(j)' <=> Owns(j))
      BY <1>0, <2>1, GotoFrame DEF txVars
    <3>2. Owns(j) => SameBut(draft[j], meeting[Target[j]])
      BY <1>0, <1>4 DEF JobInv, DraftAt, FetchTranscript
    <3>3. Owns(j)' => DraftAt(j, draft[j], meeting[Target[j]])'
      BY <1>4, <2>1, <3>1, <3>2
      DEF DraftAt, SameBut, SameIndex, FetchTranscript, txVars
    <3>4. JobInv(j)'
      BY <1>0, <1>4, <2>1, <3>1, <3>3
      DEF JobInv, NoText, Unowned, Saved, RowExists, Owning, Pipeline, FetchTranscript, txVars
    <3> QED
      BY <1>4, <3>1, <3>4, QuietStep DEF FetchTranscript
  <2>2. CASE j \in Request /\ Goto(j, "commit") /\ UNCHANGED <<retries, vtt, txVars>>
    <3>1. Frame(j) /\ pc'[j] = "commit" /\ (Owns(j)' <=> Owns(j))
      BY <1>0, <2>2, GotoFrame DEF txVars
    <3>2. Owns(j) => SameBut(draft[j], meeting[Target[j]])
      BY <1>0, <1>4 DEF JobInv, DraftAt, FetchTranscript
    <3>3. j \notin Task /\ vtt[j] = 0
      BY <1>0, <1>4, <2>2, IngestionConstants DEF JobInv, NoText, FetchTranscript
    <3>4. Owns(j)' => DraftAt(j, draft[j], meeting[Target[j]])'
      BY <1>4, <2>2, <3>1, <3>2, <3>3
      DEF DraftAt, SameBut, SameIndex, FetchTranscript, txVars
    <3>5. JobInv(j)'
      BY <1>0, <1>4, <2>2, <3>1, <3>3, <3>4
      DEF JobInv, NoText, Unowned, Saved, RowExists, Owning, Pipeline, FetchTranscript, txVars
    <3> QED
      BY <1>4, <3>1, <3>5, QuietStep DEF FetchTranscript
  <2>3. CASE Reschedule(j)
    BY <1>4, <2>3, RescheduleQuiet DEF FetchTranscript
  <2>4. CASE EndAttempt(j, "error")
    BY <1>4, <2>4, EndAttemptQuiet DEF FetchTranscript, Ended
  <2> QED
    BY <1>4, <2>1, <2>2, <2>3, <2>4 DEF FetchTranscript
<1>5. CASE PriceCredits(j)
  <2>1. CASE Goto(j, IF j \in Task THEN "select" ELSE "mark") /\ UNCHANGED <<vtt, txVars>>
    <3>1. Frame(j) /\ pc'[j] = (IF j \in Task THEN "select" ELSE "mark") /\ (Owns(j)' <=> Owns(j))
      BY <1>0, <2>1, GotoFrame DEF txVars
    <3>2. Owns(j) => SameBut(draft[j], meeting[Target[j]])
      BY <1>0, <1>5 DEF JobInv, DraftAt, PriceCredits
    <3>3. Owns(j)' => DraftAt(j, draft[j], meeting[Target[j]])'
      BY <1>5, <2>1, <3>1, <3>2
      DEF DraftAt, SameBut, SameIndex, PriceCredits, txVars
    <3>4. JobInv(j)'
      BY <1>0, <1>5, <2>1, <3>1, <3>3
      DEF JobInv, NoText, Unowned, Saved, RowExists, Owning, Pipeline, PriceCredits, txVars
    <3> QED
      BY <1>5, <3>1, <3>4, QuietStep DEF PriceCredits
  <2>2. CASE EndAttempt(j, "error")
    BY <1>5, <2>2, EndAttemptQuiet DEF PriceCredits, Ended
  <2> QED
    BY <1>5, <2>1, <2>2 DEF PriceCredits
<1>6. CASE LoadTranscript(j)
  <2>1. CASE meeting[Target[j]].transcript = 0 /\ EndAttempt(j, "skipped")
    BY <1>6, <2>1, EndAttemptQuiet DEF LoadTranscript, Ended
  <2>2. CASE /\ meeting[Target[j]].transcript # 0
             /\ vtt' = [vtt EXCEPT ![j] = meeting[Target[j]].transcript]
             /\ tx' = [tx EXCEPT ![j] = "open"]
             /\ Goto(j, "mark")
             /\ UNCHANGED <<owner, found, edit, held, draft>>
    <3>1. Frame(j) /\ pc'[j] = "mark" /\ (Owns(j)' <=> Owns(j))
      BY <1>0, <2>2, GotoFrame
    <3>2. meeting[Target[j]].status # "none"
      BY <1>0, <2>2, IngestionConstants DEF NoOrphans, Absent, Store!Absent
    <3>3. tx'[j] = "open" /\ ~Owns(j)
      BY <1>0, <1>6, <2>2 DEF TypeOK, JobInv, Unowned, LoadTranscript
    <3>4. JobInv(j)'
      BY <1>0, <1>6, <3>1, <3>2, <3>3
      DEF JobInv, NoText, Unowned, Saved, RowExists, Owning, Pipeline, LoadTranscript
    <3> QED
      BY <1>6, <3>1, <3>4, QuietStep DEF LoadTranscript
  <2> QED
    BY <1>6, <2>1, <2>2 DEF LoadTranscript
<1> QED
  BY <1>1, <1>2, <1>3, <1>4, <1>5, <1>6 DEF Fetching

LEMMA SavingQuiet == ASSUME RInv, IInv', NEW j \in Job, Saving(j) PROVE RInv'
<1>0. TypeOK /\ JobInv(j) /\ NoOrphans /\ Target[j] \in Meeting /\ j # NoJob
  BY IngestionConstants DEF RInv, IInv
<1>1. CASE SelectMeeting(j)
  <2>1. pc'[j] = "write" /\ tx'[j] = "open" /\ ~Owns(j)' /\ NoText(j) = NoText(j)'
        /\ found'[j] = (meeting[Target[j]].status # "none")
    BY <1>0, <1>1 DEF TypeOK, JobInv, NoText, Unowned, Owns, SelectMeeting, Goto
  <2>2. Frame(j)
    BY <1>0, <1>1 DEF TypeOK, Frame, SelectMeeting, Goto
  <2>3. JobInv(j)'
    BY <1>0, <1>1, <2>1 DEF JobInv, Unowned, Saved, Owning, Pipeline, SelectMeeting
  <2> QED
    BY <1>1, <2>2, <2>3, QuietStep DEF SelectMeeting
<1>2. CASE WriteMeeting(j)
  <2>0. tx[j] = "open" /\ ~Owns(j)
    BY <1>0, <1>2 DEF JobInv, Unowned, WriteMeeting
  <2>1. CASE found[j] /\ Goto(j, "roster") /\ UNCHANGED <<vtt, txVars>>
    <3>1. Frame(j) /\ pc'[j] = "roster" /\ (Owns(j)' <=> Owns(j))
      BY <1>0, <2>1, GotoFrame DEF txVars
    <3>2. JobInv(j)'
      BY <1>0, <1>2, <2>0, <2>1, <3>1
      DEF JobInv, NoText, Unowned, Saved, RowExists, Owning, Pipeline, WriteMeeting, txVars
    <3> QED
      BY <1>2, <3>1, <3>2, QuietStep DEF WriteMeeting
  <2>2. ASSUME NEW image, SameBut(image, meeting[Target[j]]), RowFree(j), Own(j, image),
               Goto(j, "roster"), UNCHANGED <<vtt, tx, found, edit, held>>
        PROVE  RInv'
    <3>1. pc'[j] = "roster" /\ Owns(j)' /\ draft'[j] = image
      BY <1>0, <2>2 DEF TypeOK, Goto, Own, Owns
    <3>2. Frame(j)
      <4>1. ASSUME NEW k \in Job \ {j} PROVE owner'[Target[k]] = k <=> owner[Target[k]] = k
        BY <1>0, <2>2, IngestionConstants DEF TypeOK, RowFree, Own
      <4> QED
        BY <1>0, <2>2, <4>1 DEF TypeOK, Frame, Goto, Own
    <3>3. DraftAt(j, draft[j], meeting[Target[j]])'
      BY <1>2, <2>2, <3>1 DEF DraftAt, SameBut, SameIndex, WriteMeeting
    <3>4. JobInv(j)'
      BY <1>0, <1>2, <2>0, <2>2, <3>1, <3>3
      DEF JobInv, NoText, Unowned, Saved, RowExists, Owning, Pipeline, WriteMeeting
    <3> QED
      BY <1>2, <3>2, <3>4, QuietStep DEF WriteMeeting
  <2>3. found[j] => SameBut(meeting[Target[j]], meeting[Target[j]])
    BY <1>0 DEF JobInv, SameBut, SameIndex
  <2>4. meeting[Target[j]].status = "none" =>
          SameBut([Absent EXCEPT !.status = "pending"], meeting[Target[j]])
    BY <1>0 DEF NoOrphans, SameBut, SameIndex, Absent, Store!Absent
  <2>5. CASE EndAttempt(j, "error")
    BY <1>2, <2>5, EndAttemptQuiet DEF WriteMeeting, Ended
  <2> QED
    BY <1>2, <2>1, <2>2, <2>3, <2>4, <2>5 DEF WriteMeeting
<1>3. CASE ReadRoster(j)
  <2>1. Frame(j) /\ pc'[j] = "enrol" /\ (Owns(j)' <=> Owns(j))
    BY <1>0, <1>3, GotoFrame DEF ReadRoster
  <2>2. Owns(j)' => DraftAt(j, draft[j], meeting[Target[j]])'
    BY <1>0, <1>3, <2>1 DEF JobInv, DraftAt, SameBut, SameIndex, ReadRoster
  <2>3. JobInv(j)'
    BY <1>0, <1>3, <2>1, <2>2
    DEF JobInv, NoText, Unowned, Saved, RowExists, Owning, Pipeline, ReadRoster
  <2> QED
    BY <1>3, <2>1, <2>3, QuietStep DEF ReadRoster
<1>4. CASE WriteRoster(j)
  <2>1. CASE EndAttempt(j, "error")
    BY <1>4, <2>1, EndAttemptQuiet DEF WriteRoster, Ended
  <2>2. CASE /\ Goto(j, IF j \in Task THEN "mark" ELSE "fetch")
             /\ UNCHANGED <<vtt, owner, tx, found, draft>>
    <3>1. Frame(j) /\ pc'[j] = (IF j \in Task THEN "mark" ELSE "fetch") /\ (Owns(j)' <=> Owns(j))
      BY <1>0, <2>2, GotoFrame
    <3>2. Owns(j)' => DraftAt(j, draft[j], meeting[Target[j]])'
      BY <1>0, <1>4, <2>2, <3>1 DEF JobInv, DraftAt, SameBut, SameIndex, WriteRoster
    <3>3. JobInv(j)'
      BY <1>0, <1>4, <2>2, <3>1, <3>2
      DEF JobInv, NoText, Unowned, Saved, RowExists, Owning, Pipeline, WriteRoster
    <3> QED
      BY <1>4, <3>1, <3>3, QuietStep DEF WriteRoster
  <2> QED
    BY <1>4, <2>1, <2>2 DEF WriteRoster
<1> QED
  BY <1>1, <1>2, <1>3, <1>4 DEF Saving

LEMMA PipingQuiet == ASSUME RInv, IInv', NEW j \in Job, Piping(j) PROVE RInv'
<1> DEFINE r == meeting[Target[j]]
<1>0. TypeOK /\ JobInv(j) /\ NoOrphans /\ Target[j] \in Meeting /\ j # NoJob
  BY IngestionConstants DEF RInv, IInv
<1>1. CASE MarkIngesting(j)
  <2>1. pc'[j] = "transcript" /\ Owns(j)' /\ tx[j] = "open"
    BY <1>0, <1>1 DEF TypeOK, JobInv, Saved, MarkIngesting, Goto, Own, Owns
  <2>2. Frame(j)
    <3>1. ASSUME NEW k \in Job \ {j} PROVE owner'[Target[k]] = k <=> owner[Target[k]] = k
      BY <1>0, <1>1, IngestionConstants DEF TypeOK, RowFree, Own, MarkIngesting
    <3> QED
      BY <1>0, <1>1, <3>1 DEF TypeOK, Frame, Goto, Own, MarkIngesting
  <2>3. SameIndex(draft'[j], r) /\ draft'[j].transcript = r.transcript
    <3>1. draft'[j] = [IF Owns(j) THEN draft[j] ELSE r EXCEPT !.status = "ingesting"]
      BY <1>0, <1>1 DEF TypeOK, MarkIngesting, Own, Owns
    <3>2. Owns(j) => SameBut(draft[j], r)
      BY <1>0, <1>1 DEF JobInv, DraftAt, MarkIngesting
    <3>3. draft[j] \in Store!Image /\ r \in Store!Image
      BY <1>0 DEF TypeOK
    <3> QED
      BY <3>1, <3>2, <3>3 DEF SameBut, SameIndex, Store!Image
  <2>4. DraftAt(j, draft[j], meeting[Target[j]])'
    BY <1>1, <2>1, <2>3 DEF DraftAt, SameIndex, MarkIngesting
  <2>5. JobInv(j)'
    BY <1>0, <1>1, <2>1, <2>4
    DEF JobInv, NoText, Unowned, Saved, RowExists, Owning, Pipeline, MarkIngesting
  <2> QED
    BY <1>1, <2>2, <2>5, QuietStep DEF MarkIngesting
\* A step that stays between the lock and the commit, and changes the draft.
<1>2. ASSUME pc[j] \in Owning,
             NEW step \in Owning \union {"persist", "commit"}, Goto(j, step),
             NEW image, draft' = [draft EXCEPT ![j] = image],
             DraftAt(j, draft[j], meeting[Target[j]])',
             tx' = tx \/ (tx' = [tx EXCEPT ![j] = "aborted"] /\ step = "commit"),
             UNCHANGED <<meeting, vtt, owner, found>>
      PROVE  RInv'
  <2>1. pc'[j] = step /\ Owns(j) /\ Owns(j)' /\ tx[j] = "open" /\ tx'[j] \in {"open", "aborted"}
        /\ (step # "commit" => tx'[j] = "open")
    BY <1>0, <1>2 DEF TypeOK, JobInv, Goto, Owns, RInv, IInv, OwnsRow
  <2>2. Frame(j)
    BY <1>0, <1>2 DEF TypeOK, Frame, Goto
  <2>3. JobInv(j)'
    BY <1>0, <1>2, <2>1 DEF JobInv, NoText, Unowned, Saved, RowExists, Owning, Pipeline
  <2> QED
    BY <1>2, <2>2, <2>3, QuietStep
<1>3. pc[j] \in Owning => DraftAt(j, draft[j], r)
  BY <1>0 DEF JobInv, Owns, RInv, IInv, OwnsRow
<1>4. draft = [draft EXCEPT ![j] = draft[j]]
  BY <1>0 DEF TypeOK
<1>5. pc[j] \in {"transcript", "index", "analytics"} => vtt[j] \in Version
  BY DEF RInv, IInv, HasText, WithText
<1>6. draft[j] \in Store!Image
  BY <1>0 DEF TypeOK
<1>7. CASE UpsertTranscript(j)
  <2>1. CASE Goto(j, "failing") /\ UNCHANGED draft
    <3>1. pc'[j] = "failing"
      BY <1>0, <2>1 DEF TypeOK, Goto
    <3>2. DraftAt(j, draft[j], meeting[Target[j]])'
      BY <1>3, <1>7, <2>1, <3>1 DEF DraftAt, SameIndex, UpsertTranscript, Owning, Pipeline
    <3> QED
      BY <1>2, <1>4, <1>7, <2>1, <3>2 DEF UpsertTranscript, Owning, Pipeline
  <2>2. CASE Goto(j, "index") /\ j \in Script /\ UNCHANGED draft
    <3>1. pc'[j] = "index"
      BY <1>0, <2>2 DEF TypeOK, Goto
    <3>2. DraftAt(j, draft[j], meeting[Target[j]])'
      BY <1>3, <1>7, <2>2, <3>1 DEF DraftAt, SameIndex, TextOf, UpsertTranscript, Owning, Pipeline
    <3> QED
      BY <1>2, <1>4, <1>7, <2>2, <3>2 DEF UpsertTranscript, Owning, Pipeline
  <2>3. CASE /\ Goto(j, "index") /\ j \notin Script
             /\ draft' = [draft EXCEPT ![j].transcript = vtt[j]]
    <3>1. pc'[j] = "index" /\ draft'[j] = [draft[j] EXCEPT !.transcript = vtt[j]]
      BY <1>0, <2>3 DEF TypeOK, Goto
    <3>2. DraftAt(j, draft[j], meeting[Target[j]])'
      BY <1>3, <1>6, <1>7, <2>3, <3>1
      DEF DraftAt, SameIndex, TextOf, UpsertTranscript, Owning, Pipeline, Store!Image
    <3> QED
      BY <1>2, <1>7, <2>3, <3>2 DEF UpsertTranscript, Owning, Pipeline
  <2> QED
    BY <1>7, <2>1, <2>2, <2>3 DEF UpsertTranscript
<1>8. CASE IndexChunks(j)
  <2>1. CASE Goto(j, "failing") /\ UNCHANGED draft
    <3>1. pc'[j] = "failing"
      BY <1>0, <2>1 DEF TypeOK, Goto
    <3>2. DraftAt(j, draft[j], meeting[Target[j]])'
      BY <1>3, <1>5, <1>8, <2>1, <3>1
      DEF DraftAt, SameIndex, TextOf, IndexChunks, Owning, Pipeline
    <3> QED
      BY <1>2, <1>4, <1>8, <2>1, <3>2 DEF IndexChunks, Owning, Pipeline
  <2>2. CASE Goto(j, "analytics") /\ draft' = [draft EXCEPT ![j].chunks = {vtt[j]}]
    <3>1. pc'[j] = "analytics" /\ draft'[j] = [draft[j] EXCEPT !.chunks = {vtt[j]}]
      BY <1>0, <2>2 DEF TypeOK, Goto
    <3>2. DraftAt(j, draft[j], meeting[Target[j]])'
      BY <1>3, <1>5, <1>6, <1>8, <3>1
      DEF DraftAt, SameIndex, Indexed, TextOf, IndexChunks, Owning, Pipeline, Store!Image
    <3> QED
      BY <1>2, <1>8, <2>2, <3>2 DEF IndexChunks, Owning, Pipeline
  <2> QED
    BY <1>8, <2>1, <2>2 DEF IndexChunks, ReplaceRows
<1>9. CASE ReplaceAnalytics(j)
  <2>1. pc'[j] = "charge" /\ draft'[j] = [draft[j] EXCEPT !.analytics = {vtt[j]}]
    BY <1>0, <1>9 DEF TypeOK, ReplaceAnalytics, ReplaceRows, Goto
  <2>2. DraftAt(j, draft[j], meeting[Target[j]])'
    BY <1>3, <1>6, <1>9, <2>1
    DEF DraftAt, Indexed, TextOf, ReplaceAnalytics, Owning, Pipeline, Store!Image
  <2> QED
    BY <1>2, <1>9, <2>2 DEF ReplaceAnalytics, ReplaceRows, Owning, Pipeline
<1>10. CASE Charge(j)
  <2>1. pc'[j] = "ready" /\ draft'[j] = [draft[j] EXCEPT !.credits = @ + 1]
    BY <1>0, <1>10 DEF TypeOK, Charge, Goto
  <2>2. DraftAt(j, draft[j], meeting[Target[j]])'
    BY <1>3, <1>6, <1>10, <2>1
    DEF DraftAt, Finished, Indexed, TextOf, Charge, Owning, Pipeline, Store!Image
  <2> QED
    BY <1>2, <1>10, <2>2 DEF Charge, Owning, Pipeline
<1>11. CASE MarkReady(j)
  <2>1. pc'[j] = "insights" /\ draft'[j] = [draft[j] EXCEPT !.status = "ready"]
    BY <1>0, <1>11 DEF TypeOK, MarkReady, Goto
  <2>2. DraftAt(j, draft[j], meeting[Target[j]])'
    BY <1>3, <1>6, <1>11, <2>1
    DEF DraftAt, Finished, Indexed, TextOf, MarkReady, Owning, Pipeline, Store!Image
  <2> QED
    BY <1>2, <1>11, <2>2 DEF MarkReady, Owning, Pipeline
<1>12. CASE MarkFailed(j)
  <2>1. pc'[j] = "persist" /\ draft'[j] = [draft[j] EXCEPT !.status = "failed"]
    BY <1>0, <1>12 DEF TypeOK, MarkFailed, Goto
  <2>2. DraftAt(j, draft[j], meeting[Target[j]])'
    BY <1>3, <1>6, <1>12, <2>1 DEF DraftAt, SameIndex, MarkFailed, Owning, Pipeline, Store!Image
  <2> QED
    BY <1>2, <1>12, <2>2 DEF MarkFailed, Owning, Pipeline
<1>13. CASE GenerateInsights(j)
  <2>1. CASE FlushFails(j, "commit")
    BY <1>13, <2>1, FlushFailsQuiet DEF GenerateInsights
  <2>2. CASE /\ Goto(j, "commit")
             /\ tx' = tx \/ tx' = [tx EXCEPT ![j] = "aborted"]
             /\ UNCHANGED <<vtt, owner, found, edit, held, draft>>
    <3>1. pc'[j] = "commit"
      BY <1>0, <2>2 DEF TypeOK, Goto
    <3>2. Finished(j, draft[j], r) /\ draft[j].status = "ready" /\ vtt[j] # 0
      BY <1>3, <1>13, IngestionConstants
      DEF DraftAt, Finished, Indexed, GenerateInsights, Owning, Version
    <3>3. DraftAt(j, draft[j], meeting[Target[j]])'
      BY <1>13, <2>2, <3>1, <3>2 DEF DraftAt, Finished, Indexed, TextOf, GenerateInsights
    <3> QED
      BY <1>2, <1>4, <1>13, <2>2, <3>3 DEF GenerateInsights, Owning
  <2> QED
    BY <1>13, <2>1, <2>2 DEF GenerateInsights, txVars
<1> QED
  BY <1>1, <1>7, <1>8, <1>9, <1>10, <1>11, <1>12, <1>13 DEF Piping

-----------------------------------------------------------------------------
(* The steps that commit.                                                  *)

\* What a live transaction of j publishes at its end.
Commits(j) ==
    /\ pc[j] \in {"persist", "commit"}
    /\ tx[j] = "open"
    /\ PublishDraft(j)
    /\ \E how \in {"retry"} \union Ended : EndAttempt(j, how)
    /\ pc[j] = "commit" /\ vtt[j] # 0 => pc'[j] = "ok"

(* A commit leaves the rows of a meeting the job does not own alone, but    *)
(* for the roster, and never makes a meeting disappear.                     *)
LEMMA CommitEffect ==
    ASSUME RInv, NEW j \in Job, Commits(j)
    PROVE  LET m == Target[j]
               r == meeting[m]
               image == IF Owns(j) THEN draft[j] ELSE r
           IN  /\ m \in Meeting /\ r \in Store!Image /\ draft[j] \in Store!Image
               /\ meeting' = [meeting EXCEPT ![m] =
                                [image EXCEPT !.roster = r.roster \union held[j]]]
               /\ pc[j] = "persist" => Owns(j)
               /\ Owns(j) => DraftAt(j, draft[j], r)
               /\ image.status # "none"
<1> DEFINE m == Target[j]
           r == meeting[m]
           image == IF Owns(j) THEN draft[j] ELSE r
<1>1. m \in Meeting /\ r \in Store!Image /\ draft[j] \in Store!Image
  BY IngestionConstants DEF RInv, IInv, TypeOK
<1>2. meeting' = [meeting EXCEPT ![m] = [image EXCEPT !.roster = r.roster \union held[j]]]
  BY DEF Commits, PublishDraft, Owns
<1>3. pc[j] = "persist" => Owns(j)
  BY DEF Commits, RInv, IInv, OwnsRow, Owns
<1>4. Owns(j) => DraftAt(j, draft[j], r)
  BY DEF RInv, JobInv
<1>5. image.status # "none"
  <2>1. CASE ~Owns(j)
    BY <1>3, <2>1 DEF Commits, RInv, JobInv, RowExists
  <2>2. CASE Owns(j)
    BY <1>4, <2>2 DEF Commits, DraftAt, SameBut
  <2> QED
    BY <2>1, <2>2
<1> QED
  BY <1>1, <1>2, <1>3, <1>4, <1>5

LEMMA CommitKeepsRInv ==
    ASSUME RInv, IInv', NEW j \in Job, Commits(j)
    PROVE  RInv'
<1> DEFINE m == Target[j]
           r == meeting[m]
           image == IF Owns(j) THEN draft[j] ELSE r
           new == [image EXCEPT !.roster = r.roster \union held[j]]
<1>0. /\ m \in Meeting /\ r \in Store!Image /\ image \in Store!Image
      /\ meeting' = [meeting EXCEPT ![m] = new]
      /\ image.status # "none"
  BY CommitEffect
<1>1. Frame(j) /\ JobInv(j)'
  BY EndAttemptOwn DEF Commits, RInv, IInv
<1>2. new.status # "none" /\ meeting'[m] = new
  BY <1>0 DEF Store!Image, RInv, IInv, TypeOK
<1>3. ASSUME NEW k \in Job \ {j} PROVE JobInv(k)'
  <2> DEFINE rk == meeting[Target[k]]
  <2>0. Target[k] \in Meeting /\ JobInv(k)
    BY IngestionConstants DEF RInv
  <2>1. Owns(k)' <=> Owns(k)
    BY <1>1 DEF Frame, Owns
  <2>2. NoText(k)' = NoText(k) /\ Unowned(k)' = Unowned(k) /\ Saved(k)' = Saved(k)
    BY <1>1 DEF Frame, NoText, Unowned, Saved
  <2>3. rk.status # "none" => rk'.status # "none"
    BY <1>0, <1>2, <2>0 DEF RInv, IInv, TypeOK
  <2>4. Owns(k) => SameIndex(rk', rk) /\ rk'.transcript = rk.transcript /\ rk'.status = rk.status
    <3>1. CASE Target[k] # m
      BY <1>0, <2>0, <3>1 DEF SameIndex, RInv, IInv, TypeOK
    <3>2. CASE Target[k] = m /\ Owns(k)
      <4>1. ~Owns(j)
        BY <3>2 DEF Owns
      <4> QED
        BY <1>0, <1>2, <3>2, <4>1 DEF SameIndex, Store!Image
    <3> QED
      BY <3>1, <3>2
  <2>5. Owns(k)' => DraftAt(k, draft[k], meeting[Target[k]])'
    <3>1. Owns(k) => DraftAt(k, draft[k], rk)
      BY <2>0 DEF JobInv
    <3> QED
      BY <1>1, <2>1, <2>4, <3>1
      DEF Frame, DraftAt, Finished, Indexed, TextOf, SameIndex, SameBut
  <2> QED
    BY <1>1, <2>0, <2>1, <2>2, <2>3, <2>5 DEF Frame, JobInv, RowExists
<1>4. NoOrphans'
  BY <1>0, <1>2 DEF RInv, NoOrphans, IInv, TypeOK
<1>5. \A k \in Job : JobInv(k)'
  BY <1>1, <1>3
<1> QED
  BY <1>4, <1>5 DEF RInv

LEMMA FinishingCommits ==
    ASSUME RInv, NEW j \in Job, Finishing(j)
    PROVE  \/ Commits(j)
           \/ /\ meeting' = meeting
              /\ \E how \in {"queued", "retry"} \union Ended : EndAttempt(j, how)
<1>1. CASE PersistFailure(j)
  BY <1>1 DEF PersistFailure, Commits, EndAttempt, Ended
<1>2. CASE j \in Task /\ RetryFailed(j)
  BY <1>2 DEF RetryFailed, Reschedule, Ended
<1>3. CASE CommitSession(j)
  <2>1. ASSUME NEW how, EndAttempt(j, how) PROVE pc'[j] = how
    BY <2>1 DEF RInv, IInv, TypeOK, EndAttempt, Goto
  <2> QED
    BY <1>3, <2>1 DEF CommitSession, Commits, Ended
<1> QED
  BY <1>1, <1>2, <1>3 DEF Finishing

\* The steps that neither finish an attempt nor belong to Teams.
Quiet(j) == Fetching(j) \/ Saving(j) \/ Piping(j) \/ DbFails(j) \/ DeadlockVictim(j) \/ Crash(j)

LEMMA QuietKeepsRInv ==
    ASSUME RInv, IInv', NEW j \in Job, Quiet(j)
    PROVE  RInv'
<1>1. CASE DbFails(j) \/ DeadlockVictim(j)
  <2>1. meeting' = meeting /\ (EndAttempt(j, "error") \/ FlushFails(j, "persist"))
    BY <1>1 DEF DbFails, DeadlockVictim
  <2> QED
    BY <2>1, EndAttemptQuiet, FlushFailsQuiet DEF Ended
<1>2. CASE Crash(j)
  BY <1>2, EndAttemptQuiet DEF Crash, Ended
<1> QED
  BY <1>1, <1>2, FetchingQuiet, SavingQuiet, PipingQuiet DEF Quiet

LEMMA NextKeepsRInv == RInv /\ [Next]_vars => RInv'
<1> SUFFICES ASSUME RInv, [Next]_vars PROVE RInv'
  OBVIOUS
<1>0. IInv'
  BY NextKeepsIInv DEF RInv
<1>1. ASSUME NEW j \in Job, Quiet(j) PROVE RInv'
  BY <1>0, <1>1, QuietKeepsRInv
<1>2. ASSUME NEW j \in Job, Finishing(j) PROVE RInv'
  BY <1>0, <1>2, FinishingCommits, CommitKeepsRInv, EndAttemptQuiet
<1>3. CASE UNCHANGED <<meeting, owner, pc, vtt, tx, found, draft>>
  <2>1. NoOrphans'
    BY <1>3 DEF RInv, NoOrphans
  <2>2. ASSUME NEW j \in Job PROVE JobInv(j)'
    <3>1. JobInv(j)
      BY DEF RInv
    <3> QED
      BY <1>3, <3>1
      DEF JobInv, NoText, Unowned, Saved, RowExists, Owns, DraftAt, Finished, Indexed,
          TextOf, SameIndex, SameBut
  <2>3. \A j \in Job : JobInv(j)'
    BY <2>2
  <2> QED
    BY <1>0, <2>1, <2>3 DEF RInv
<1>4. ASSUME NEW m \in Meeting, TranscriptAppears(m) PROVE RInv'
  BY <1>3, <1>4 DEF TranscriptAppears
<1>5. CASE UNCHANGED vars
  BY <1>3, <1>5 DEF vars
<1> QED
  BY <1>1, <1>2, <1>4, <1>5 DEF Next, Quiet, AllEnded

(* The invariant behind the refinement, in every reachable state.           *)
THEOREM DraftInvariant == Spec => []RInv
  BY InitRInv, NextKeepsRInv, PTL DEF Spec

-----------------------------------------------------------------------------
(* What readers see.                                                       *)

LEMMA OnlyCommitsShow ==
    ASSUME RInv, [Next]_vars
    PROVE  meeting' = meeting \/ \E j \in Job : Commits(j)
<1>1. ASSUME NEW j \in Job, Fetching(j) \/ Saving(j) PROVE meeting' = meeting
  BY <1>1 DEF Fetching, Begin, ResolveTenant, LocateMeeting, FetchTranscript, PriceCredits,
              LoadTranscript, Saving, SelectMeeting, WriteMeeting, ReadRoster, WriteRoster
<1>2. ASSUME NEW j \in Job, Piping(j) PROVE meeting' = meeting
  BY <1>2 DEF Piping, MarkIngesting, UpsertTranscript, IndexChunks, ReplaceAnalytics, Charge,
              MarkReady, GenerateInsights, MarkFailed
<1>3. ASSUME NEW j \in Job, DbFails(j) \/ DeadlockVictim(j) \/ Crash(j) PROVE meeting' = meeting
  BY <1>3 DEF DbFails, DeadlockVictim, Crash
<1>4. ASSUME NEW j \in Job, Finishing(j) PROVE meeting' = meeting \/ Commits(j)
  BY <1>4, FinishingCommits
<1>5. ASSUME NEW m \in Meeting, TranscriptAppears(m) PROVE meeting' = meeting
  BY <1>5 DEF TranscriptAppears
<1> QED
  BY <1>1, <1>2, <1>3, <1>4, <1>5 DEF Next, AllEnded, vars

(* The three things a commit can publish of the row r, as new.              *)
LEMMA CommitCases ==
    ASSUME RInv, NEW j \in Job, Commits(j)
    PROVE  LET r == meeting[Target[j]]
               new == meeting'[Target[j]]
           IN  \/ /\ SameBut(new, r)
                  /\ r.status = "none" => r = Absent
               \/ /\ SameIndex(new, r) /\ new.status = "failed"
                  /\ new.transcript \in Version \union {r.transcript}
               \/ /\ vtt[j] \in Version
                  /\ new.chunks = {vtt[j]} /\ new.analytics = {vtt[j]}
                  /\ new.transcript = TextOf(j, r)
                  /\ new.credits = r.credits + 1 /\ new.status = "ready"
<1> DEFINE m == Target[j]
           r == meeting[m]
           image == IF Owns(j) THEN draft[j] ELSE r
           new == [image EXCEPT !.roster = r.roster \union held[j]]
<1>1. /\ m \in Meeting /\ r \in Store!Image /\ image \in Store!Image
      /\ meeting' = [meeting EXCEPT ![m] = new]
      /\ pc[j] = "persist" => Owns(j)
      /\ Owns(j) => DraftAt(j, draft[j], r)
      /\ image.status # "none"
      /\ r.status = "none" => r = Absent
  BY CommitEffect DEF RInv, NoOrphans
<1>2. /\ meeting'[m] = new
      /\ new.status = image.status /\ new.transcript = image.transcript
      /\ SameIndex(new, image)
  BY <1>1 DEF Store!Image, SameIndex, RInv, IInv, TypeOK
<1>3. CASE ~Owns(j)
  BY <1>1, <1>2, <1>3 DEF SameBut, SameIndex
<1>4. CASE Owns(j) /\ pc[j] = "persist"
  BY <1>1, <1>2, <1>4 DEF DraftAt, SameIndex
<1>5. CASE Owns(j) /\ pc[j] = "commit" /\ vtt[j] = 0
  BY <1>1, <1>2, <1>5 DEF DraftAt, SameBut, SameIndex
<1>6. CASE Owns(j) /\ pc[j] = "commit" /\ vtt[j] # 0
  BY <1>1, <1>2, <1>6 DEF DraftAt, Finished, Indexed, SameIndex
<1> QED
  BY <1>3, <1>4, <1>5, <1>6 DEF Commits

LEMMA CommitElsewhere ==
    ASSUME RInv, NEW j \in Job, Commits(j), NEW m \in Meeting, m # Target[j]
    PROVE  meeting'[m] = meeting[m]
  BY CommitEffect DEF RInv, IInv, TypeOK

(* Only the commit of a success changes what a meeting is charged.          *)
LEMMA CommitCharges ==
    ASSUME RInv, NEW j \in Job, Commits(j),
           meeting'[Target[j]].credits # meeting[Target[j]].credits
    PROVE  /\ pc[j] = "commit" /\ vtt[j] # 0
           /\ meeting'[Target[j]].credits = meeting[Target[j]].credits + 1
<1> DEFINE m == Target[j]
           r == meeting[m]
           image == IF Owns(j) THEN draft[j] ELSE r
           new == [image EXCEPT !.roster = r.roster \union held[j]]
<1>1. /\ m \in Meeting /\ r \in Store!Image /\ image \in Store!Image
      /\ meeting' = [meeting EXCEPT ![m] = new]
      /\ Owns(j) => DraftAt(j, draft[j], r)
  BY CommitEffect
<1>2. meeting'[m].credits = image.credits
  BY <1>1 DEF Store!Image, RInv, IInv, TypeOK
<1>3. Owns(j) /\ draft[j].credits # r.credits
  BY <1>2
<1>4. pc[j] # "persist" /\ ~(pc[j] = "commit" /\ vtt[j] = 0)
  BY <1>1, <1>3 DEF DraftAt, SameBut, SameIndex
<1>5. pc[j] = "commit" /\ vtt[j] # 0
  BY <1>4 DEF Commits
<1> QED
  BY <1>1, <1>2, <1>3, <1>5 DEF DraftAt, Finished

(* Chunks and analytics of a meeting are rows of one version and of the     *)
(* same one, whatever failed, was retried or was rechunked before.          *)
THEOREM IndexOfOneVersion == Spec => []IndexIsOneVersion
<1> DEFINE One(m) == /\ meeting[m].analytics = meeting[m].chunks
                     /\ \A v, w \in meeting[m].chunks : v = w
<1>1. Init => IndexIsOneVersion
  <2>1. Absent.chunks = {} /\ Absent.analytics = {}
    BY DEF Absent, Store!Absent
  <2> QED
    BY <2>1 DEF Init, IndexIsOneVersion
<1>2. IndexIsOneVersion /\ RInv /\ [Next]_vars => IndexIsOneVersion'
  <2> SUFFICES ASSUME IndexIsOneVersion, RInv, [Next]_vars, NEW m \in Meeting
               PROVE  One(m)'
    BY DEF IndexIsOneVersion
  <2>0. One(m)
    BY DEF IndexIsOneVersion
  <2>1. CASE meeting' = meeting
    BY <2>0, <2>1
  <2>2. ASSUME NEW j \in Job, Commits(j) PROVE One(m)'
    <3>1. CASE m # Target[j]
      BY <2>0, <2>2, <3>1, CommitElsewhere
    <3>2. CASE m = Target[j]
      BY <2>0, <2>2, <3>2, CommitCases DEF SameBut, SameIndex
    <3> QED
      BY <3>1, <3>2
  <2> QED
    BY <2>1, <2>2, OnlyCommitsShow
<1> QED
  BY <1>1, <1>2, DraftInvariant, PTL DEF Spec

(* The index of a meeting changes only together with one more row of        *)
(* credit_usage and the status ready, scripts included.                     *)
THEOREM IndexIsCharged == Spec => ChargedWithIndex
<1>1. RInv /\ [Next]_vars =>
        [\A m \in Meeting :
           LET old == meeting[m]  new == meeting'[m] IN
           IF new.credits = old.credits
             THEN new.chunks = old.chunks
             ELSE new.credits = old.credits + 1 /\ new.status = "ready"]_meeting
  <2> SUFFICES ASSUME RInv, [Next]_vars, meeting' # meeting, NEW m \in Meeting
               PROVE  IF meeting'[m].credits = meeting[m].credits
                        THEN meeting'[m].chunks = meeting[m].chunks
                        ELSE /\ meeting'[m].credits = meeting[m].credits + 1
                             /\ meeting'[m].status = "ready"
    OBVIOUS
  <2>1. PICK j \in Job : Commits(j)
    BY OnlyCommitsShow
  <2>2. CASE m # Target[j]
    BY <2>1, <2>2, CommitElsewhere
  <2>3. CASE m = Target[j]
    <3>1. meeting[m].credits \in Nat
      BY DEF RInv, IInv, TypeOK, Store!Image
    <3> QED
      BY <2>1, <2>3, <3>1, CommitCases DEF SameBut, SameIndex
  <2> QED
    BY <2>2, <2>3
<1> QED
  BY <1>1, DraftInvariant, PTL DEF Spec, ChargedWithIndex

-----------------------------------------------------------------------------
(* Charges.                                                                *)

\* The jobs that reported the success of an ingestion of m.
Earned(m) == {j \in Job : Target[j] = m /\ pc[j] = "ok"}

(* A step moves one job at most, and none that has reported success.        *)
LEMMA OneJobMoves ==
    ASSUME [Next]_vars
    PROVE  \/ pc' = pc
           \/ \E j \in Job : \E step : pc[j] # "ok" /\ pc' = [pc EXCEPT ![j] = step]
<1>1. ASSUME NEW j \in Job, Fetching(j)
      PROVE  \E step : pc[j] # "ok" /\ pc' = [pc EXCEPT ![j] = step]
  BY <1>1 DEF Fetching, Begin, ResolveTenant, LocateMeeting, FetchTranscript, PriceCredits,
              LoadTranscript, Reschedule, EndAttempt, Goto
<1>2. ASSUME NEW j \in Job, Saving(j)
      PROVE  \E step : pc[j] # "ok" /\ pc' = [pc EXCEPT ![j] = step]
  BY <1>2 DEF Saving, SelectMeeting, WriteMeeting, ReadRoster, WriteRoster, EndAttempt, Goto
<1>3. ASSUME NEW j \in Job, Piping(j)
      PROVE  \E step : pc[j] # "ok" /\ pc' = [pc EXCEPT ![j] = step]
  BY <1>3 DEF Piping, MarkIngesting, UpsertTranscript, IndexChunks, ReplaceAnalytics, Charge,
              MarkReady, GenerateInsights, MarkFailed, FlushFails, Goto
<1>4. ASSUME NEW j \in Job, Finishing(j)
      PROVE  \E step : pc[j] # "ok" /\ pc' = [pc EXCEPT ![j] = step]
  BY <1>4 DEF Finishing, PersistFailure, RetryFailed, CommitSession, Reschedule, EndAttempt, Goto
<1>5. ASSUME NEW j \in Job, DbFails(j) \/ DeadlockVictim(j) \/ Crash(j)
      PROVE  \E step : pc[j] # "ok" /\ pc' = [pc EXCEPT ![j] = step]
  BY <1>5 DEF DbFails, DeadlockVictim, Crash, EndAttempt, FlushFails, Goto,
              Pipeline, Running, Before, After
<1>6. ASSUME NEW m \in Meeting, TranscriptAppears(m) PROVE pc' = pc
  BY <1>6 DEF TranscriptAppears
<1> QED
  BY <1>1, <1>2, <1>3, <1>4, <1>5, <1>6 DEF Next, AllEnded, vars

(* So successes are only added, one at a time.                              *)
LEMMA EarnedGrows ==
    ASSUME TypeOK, [Next]_vars, NEW m, IsFiniteSet(Earned(m))
    PROVE  /\ IsFiniteSet(Earned(m)')
           /\ Cardinality(Earned(m)) <= Cardinality(Earned(m)')
           /\ \A j \in Earned(m)' \ Earned(m) :
                  Cardinality(Earned(m)') = Cardinality(Earned(m)) + 1
<1>1. CASE pc' = pc
  <2>1. Earned(m)' = Earned(m)
    BY <1>1 DEF Earned
  <2> QED
    BY <2>1, FS_CardinalityType
<1>2. ASSUME NEW j \in Job, NEW step, pc[j] # "ok", pc' = [pc EXCEPT ![j] = step]
      PROVE  Earned(m)' = Earned(m) \/ Earned(m)' = Earned(m) \union {j}
  <2>1. /\ pc'[j] = step
        /\ \A k \in Job \ {j} : pc'[k] = pc[k]
    BY <1>2 DEF TypeOK
  <2>2. CASE step = "ok" /\ Target[j] = m
    BY <1>2, <2>1, <2>2 DEF Earned
  <2>3. CASE ~(step = "ok" /\ Target[j] = m)
    BY <1>2, <2>1, <2>3 DEF Earned
  <2> QED
    BY <2>2, <2>3
<1>3. CASE \E j : Earned(m)' = Earned(m) \/ Earned(m)' = Earned(m) \union {j}
  BY <1>3, FS_CardinalityType, FS_AddElement
<1> QED
  BY <1>1, <1>2, <1>3, OneJobMoves

(* A meeting has at most as many rows of credit_usage as jobs reported the  *)
(* success of its ingestion, however often tasks failed, were retried or    *)
(* died: the charge is committed with a success or not at all.              *)
THEOREM ChargesEarned == Spec => []ChargesAreEarned
<1> DEFINE Paid(m) == /\ IsFiniteSet(Earned(m))
                      /\ meeting[m].credits <= Cardinality(Earned(m))
           AllPaid == \A m \in Meeting : Paid(m)
<1>1. Init => AllPaid
  <2> SUFFICES ASSUME Init, NEW m \in Meeting PROVE Paid(m)
    OBVIOUS
  <2>1. Earned(m) = {}
    BY DEF Init, Earned
  <2>2. meeting[m].credits = 0
    BY DEF Init, Absent, Store!Absent
  <2> QED
    BY <2>1, <2>2, FS_EmptySet
<1>2. AllPaid /\ RInv /\ [Next]_vars => AllPaid'
  <2> SUFFICES ASSUME AllPaid, RInv, [Next]_vars, NEW m \in Meeting PROVE Paid(m)'
    OBVIOUS
  <2>0. TypeOK /\ Paid(m) /\ meeting[m].credits \in Nat
    BY DEF RInv, IInv, TypeOK, Store!Image
  <2>1. /\ IsFiniteSet(Earned(m)')
        /\ Cardinality(Earned(m)) <= Cardinality(Earned(m)')
        /\ \A j \in Earned(m)' \ Earned(m) :
               Cardinality(Earned(m)') = Cardinality(Earned(m)) + 1
    BY <2>0, EarnedGrows
  <2>2. Cardinality(Earned(m)) \in Nat /\ Cardinality(Earned(m)') \in Nat
    BY <2>0, <2>1, FS_CardinalityType
  <2>3. CASE meeting'[m].credits = meeting[m].credits
    BY <2>0, <2>1, <2>2, <2>3
  <2>4. CASE meeting'[m].credits # meeting[m].credits
    <3>1. PICK j \in Job : Commits(j)
      BY <2>4, OnlyCommitsShow
    <3>2. m = Target[j]
      BY <2>4, <3>1, CommitElsewhere
    <3>3. pc[j] = "commit" /\ vtt[j] # 0 /\ meeting'[m].credits = meeting[m].credits + 1
      BY <2>4, <3>1, <3>2, CommitCharges
    <3>4. j \in Earned(m)' \ Earned(m)
      BY <3>1, <3>2, <3>3 DEF Earned, Commits
    <3> QED
      BY <2>0, <2>1, <2>2, <3>3, <3>4
  <2> QED
    BY <2>3, <2>4
<1>3. AllPaid => ChargesAreEarned
  BY DEF ChargesAreEarned, Earned
<1> QED
  BY <1>1, <1>2, <1>3, DraftInvariant, PTL DEF Spec

-----------------------------------------------------------------------------
(* Without scripts.                                                        *)

(* Where no operator rechunks, a meeting that readers see as ready is       *)
(* indexed from the transcript it shows.                                    *)
THEOREM ReadyCoherent == ASSUME Script = {} PROVE Spec => []ReadyIsCoherent
<1> DEFINE Good(m) == meeting[m].status = "ready" =>
                        /\ meeting[m].chunks = {meeting[m].transcript}
                        /\ meeting[m].analytics = {meeting[m].transcript}
<1>1. Init => ReadyIsCoherent
  BY DEF Init, ReadyIsCoherent, Absent, Store!Absent
<1>2. ReadyIsCoherent /\ RInv /\ [Next]_vars => ReadyIsCoherent'
  <2> SUFFICES ASSUME ReadyIsCoherent, RInv, [Next]_vars, NEW m \in Meeting
               PROVE  Good(m)'
    BY DEF ReadyIsCoherent
  <2>0. Good(m)
    BY DEF ReadyIsCoherent
  <2>1. CASE meeting' = meeting
    BY <2>0, <2>1
  <2>2. ASSUME NEW j \in Job, Commits(j) PROVE Good(m)'
    <3>1. CASE m # Target[j]
      BY <2>0, <2>2, <3>1, CommitElsewhere
    <3>2. CASE m = Target[j]
      BY <2>0, <2>2, <3>2, CommitCases DEF SameBut, SameIndex, TextOf
    <3> QED
      BY <3>1, <3>2
  <2> QED
    BY <2>1, <2>2, OnlyCommitsShow
<1> QED
  BY <1>1, <1>2, DraftInvariant, PTL DEF Spec

(* Where no operator rechunks, ingestion implements MeetingStore: every     *)
(* step of any number of racing, failing, retried and crashing jobs is, for *)
(* a reader, one of its four changes or nothing.                            *)
THEOREM IngestionImplementsStore == ASSUME Script = {} PROVE Spec => ImplementsStore
<1>1. Init => Store!Init
  BY DEF Init, Store!Init, Absent
<1>2. RInv /\ [Next]_vars => [Store!Next]_meeting
  <2> SUFFICES ASSUME RInv, [Next]_vars, meeting' # meeting PROVE Store!Next
    OBVIOUS
  <2>1. PICK j \in Job : Commits(j)
    BY OnlyCommitsShow
  <2> DEFINE m == Target[j]
             r == meeting[m]
             image == IF Owns(j) THEN draft[j] ELSE r
             people == held[j]
  <2>2. /\ m \in Meeting /\ people \in SUBSET Person
        /\ r \in Store!Image /\ image \in Store!Image
        /\ meeting' = [meeting EXCEPT ![m] = [image EXCEPT !.roster = r.roster \union people]]
        /\ pc[j] = "persist" => Owns(j)
        /\ Owns(j) => DraftAt(j, draft[j], r)
        /\ image.status # "none"
        /\ r.status = "none" => r = Absent
    BY <2>1, CommitEffect DEF RInv, NoOrphans, IInv, TypeOK
  <2>3. CASE SameBut(image, r) /\ r.status # "none"
    <3>1. [image EXCEPT !.roster = r.roster \union people] = [r EXCEPT !.roster = @ \union people]
      BY <2>2, <2>3 DEF SameBut, SameIndex, Store!Image
    <3>2. Store!Enrol(m, people)
      BY <2>2, <2>3, <3>1 DEF Store!Enrol, RInv, IInv, TypeOK
    <3> QED
      BY <2>2, <3>2 DEF Store!Next
  <2>4. CASE SameBut(image, r) /\ r.status = "none"
    <3>0. r.roster \union people = people
      BY <2>2, <2>4 DEF Absent, Store!Absent
    <3>1. [image EXCEPT !.roster = r.roster \union people]
            = [r EXCEPT !.status = "pending", !.roster = people]
      BY <2>2, <2>4, <3>0 DEF SameBut, SameIndex, Store!Image
    <3>2. Store!Register(m, people)
      BY <2>2, <2>4, <3>1 DEF Store!Register, RInv, IInv, TypeOK
    <3> QED
      BY <2>2, <3>2 DEF Store!Next
  <2>5. CASE Owns(j) /\ pc[j] = "persist"
    <3>1. /\ image.status = "failed" /\ SameIndex(image, r)
          /\ image.transcript \in Version \union {r.transcript}
      BY <2>2, <2>5 DEF DraftAt
    <3>2. [image EXCEPT !.roster = r.roster \union people]
            = [r EXCEPT !.status = "failed", !.transcript = image.transcript,
                        !.roster = @ \union people]
      BY <2>2, <3>1 DEF SameIndex, Store!Image
    <3>3. Store!RecordFailure(m, image.transcript, people)
      BY <2>2, <3>1, <3>2
      DEF Store!RecordFailure, Store!Version, Version, RInv, IInv, TypeOK
    <3>4. image.transcript \in 0..MaxVersion
      BY <2>2 DEF Store!Image
    <3> QED
      BY <2>2, <3>3, <3>4 DEF Store!Next
  <2>6. CASE Owns(j) /\ pc[j] = "commit" /\ vtt[j] # 0
    <3>0. Finished(j, image, r) /\ image.status = "ready"
      BY <2>2, <2>6 DEF DraftAt
    <3>1. /\ vtt[j] \in Version
          /\ image.status = "ready" /\ image.transcript = vtt[j]
          /\ image.chunks = {vtt[j]} /\ image.analytics = {vtt[j]}
          /\ image.credits = r.credits + 1
      BY <3>0 DEF Finished, Indexed, TextOf
    <3>2. [image EXCEPT !.roster = r.roster \union people]
            = [status |-> "ready", transcript |-> vtt[j], chunks |-> {vtt[j]},
               analytics |-> {vtt[j]}, credits |-> r.credits + 1,
               roster |-> r.roster \union people]
      <4>1. image \in Store!Image
        BY <2>2
      <4> HIDE DEF image, r, people
      <4>2. [image EXCEPT !.roster = r.roster \union people]
              = [status |-> image.status, transcript |-> image.transcript,
                 chunks |-> image.chunks, analytics |-> image.analytics,
                 credits |-> image.credits, roster |-> r.roster \union people]
        BY <4>1 DEF Store!Image
      <4> QED
        BY <3>1, <4>2
    <3>3. Store!Publish(m, vtt[j], people)
      BY <2>2, <3>2 DEF Store!Publish
    <3>4. vtt[j] \in Store!Version
      BY <3>1 DEF Version, Store!Version
    <3> QED
      BY <2>2, <3>3, <3>4 DEF Store!Next
  <2>7. SameBut(image, r) \/ (Owns(j) /\ (pc[j] = "persist" \/ (pc[j] = "commit" /\ vtt[j] # 0)))
    BY <2>1, <2>2 DEF Commits, DraftAt, SameBut, SameIndex
  <2> QED
    BY <2>3, <2>4, <2>5, <2>6, <2>7
<1> QED
  BY <1>1, <1>2, DraftInvariant, PTL DEF Spec, ImplementsStore, Store!Spec

=============================================================================
