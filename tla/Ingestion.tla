------------------------------ MODULE Ingestion ------------------------------
(***************************************************************************)
(* The ingestion jobs of one tenant and the database they share.           *)
(*                                                                         *)
(* A job is a Celery task sent for a webhook notification                  *)
(* (workers/tasks/ingestion.py), a call of POST /ingest/meeting            *)
(* (app/api/routes/ingest.py) or a run of scripts/rechunk_meeting.py on    *)
(* one meeting.  Each opens one transaction on the tenant database,        *)
(* upserts the meeting and its participants, runs the pipeline             *)
(* (app/services/ingestion/pipeline.py), which only flushes, and commits.  *)
(* Jobs interleave at every statement that waits or can fail.              *)
(*                                                                         *)
(* Postgres runs at READ COMMITTED: an UPDATE of a meeting takes its row   *)
(* lock, an INSERT of a key waits for the transaction that is inserting    *)
(* the same key, and both are held to the end of the transaction.          *)
(*                                                                         *)
(* A transcript is its version number.  Names, dates, embeddings, summary  *)
(* and insight rows are left out; whether a save changes a column is free. *)
(***************************************************************************)
EXTENDS Naturals, FiniteSets

CONSTANTS
    Meeting,     \* meetings, named by meeting_graph_id
    Task,        \* messages of ingest_meeting_task, one per notification
    Request,     \* calls of POST /ingest/meeting
    Script,      \* runs of rechunk_meeting.py
    Target,      \* Target[j]: the meeting job j is about
    Person,      \* people a roster may name besides the organizer
    NoJob,       \* nobody holds the row
    MaxRetries,  \* max_retries of the task (10 in the code)
    MaxVersion   \* bound: transcripts Teams makes of one meeting

Job == Task \union Request \union Script

ASSUME IngestionConstants ==
    /\ Task \intersect Request = {}
    /\ Task \intersect Script = {}
    /\ Request \intersect Script = {}
    /\ Target \in [Job -> Meeting]
    /\ NoJob \notin Job
    /\ MaxRetries \in Nat
    /\ MaxVersion \in Nat \ {0}

VARIABLES
    meeting,  \* meeting[m]: the committed rows of m
    owner,    \* owner[m]: the job whose open transaction wrote the row of m
    graph,    \* graph[m]: how many transcripts of m Microsoft Graph lists
    pc,       \* pc[j]: the step job j takes next, or how it ended
    retries,  \* retries[j]: task.request.retries
    vtt,      \* vtt[j]: the transcript the job has downloaded (0: none)
    tx,       \* tx[j]: the SQLAlchemy session's transaction
    found,    \* found[j]: _upsert_meeting's SELECT returned a row
    edit,     \* edit[j]: participant rows the next flush inserts or updates
    held,     \* held[j]: participant rows the transaction has written
    draft     \* draft[j]: the meeting as the transaction of its owner sees it

vars == <<meeting, owner, graph, pc, retries, vtt, tx, found, edit, held, draft>>

\* The rows readers see are the abstract store.
Store == INSTANCE MeetingStore WITH meeting <- meeting, Meeting <- Meeting,
                                    Person <- Person, MaxVersion <- MaxVersion
Absent == Store!Absent
Version == 1..MaxVersion

-----------------------------------------------------------------------------
(* Control points.                                                         *)

\* Inside ingest_meeting or _ingest_async, before the pipeline.
Before == {"resolve", "locate", "fetch", "price", "load", "select", "write", "roster", "enrol"}

\* Inside run_ingestion_pipeline, in the order of its flushes.
Pipeline == {"mark", "transcript", "index", "analytics", "charge", "ready", "failing"}

\* After the pipeline: insights, the commit of a success, the commit of a
\* failed status, and the call of task.retry that follows it.
After == {"insights", "commit", "persist", "retry"}

Running == Before \union Pipeline \union After

\* ok: success was reported.  accepted: the route saved the meeting and found
\* no transcript.  skipped: the task returned early.  error: an exception
\* reached Celery or the client.  gaveUp: max_retries.  crashed: process lost.
Ended == {"ok", "accepted", "skipped", "error", "gaveUp", "crashed"}

\* Steps at which a live transaction must own the row of its meeting.
Owning == (Pipeline \ {"mark"}) \union {"insights"}

NoEdit == [new |-> {}, old |-> {}]

TypeOK ==
    /\ meeting \in [Meeting -> Store!Image]
    /\ owner \in [Meeting -> Job \union {NoJob}]
    /\ graph \in [Meeting -> 0..MaxVersion]
    /\ pc \in [Job -> {"queued"} \union Running \union Ended]
    /\ retries \in [Job -> 0..MaxRetries]
    /\ vtt \in [Job -> 0..MaxVersion]
    /\ tx \in [Job -> {"none", "open", "aborted", "inactive"}]
    /\ found \in [Job -> BOOLEAN]
    /\ edit \in [Job -> [new: SUBSET Person, old: SUBSET Person]]
    /\ held \in [Job -> SUBSET Person]
    /\ draft \in [Job -> Store!Image]

Init ==
    /\ meeting = [m \in Meeting |-> Absent]
    /\ owner = [m \in Meeting |-> NoJob]
    /\ graph = [m \in Meeting |-> 0]
    /\ pc = [j \in Job |-> "queued"]
    /\ retries = [j \in Job |-> 0]
    /\ vtt = [j \in Job |-> 0]
    /\ tx = [j \in Job |-> "none"]
    /\ found = [j \in Job |-> FALSE]
    /\ edit = [j \in Job |-> NoEdit]
    /\ held = [j \in Job |-> {}]
    /\ draft = [j \in Job |-> Absent]

-----------------------------------------------------------------------------
(* Transactions and locks.                                                 *)

Goto(j, step) == pc' = [pc EXCEPT ![j] = step]

\* Mutant: a failed flush keeps its locks.
DropTxKeepingLock(j, state) ==
    /\ tx' = [tx EXCEPT ![j] = state]
    /\ found' = [found EXCEPT ![j] = FALSE]
    /\ edit' = [edit EXCEPT ![j] = NoEdit]
    /\ held' = [held EXCEPT ![j] = {}]
    /\ draft' = [draft EXCEPT ![j] = Absent]
    /\ UNCHANGED owner

\* The database transaction of j is over without a commit, and its locks are
\* free: the session is closed ("none") or has failed a flush ("inactive").
DropTx(j, state) ==
    /\ owner' = [m \in Meeting |-> IF owner[m] = j THEN NoJob ELSE owner[m]]
    /\ tx' = [tx EXCEPT ![j] = state]
    /\ found' = [found EXCEPT ![j] = FALSE]
    /\ edit' = [edit EXCEPT ![j] = NoEdit]
    /\ held' = [held EXCEPT ![j] = {}]
    /\ draft' = [draft EXCEPT ![j] = Absent]

\* The attempt is over, its session closed and its locals gone.
EndAttempt(j, how) ==
    /\ Goto(j, how)
    /\ vtt' = [vtt EXCEPT ![j] = 0]
    /\ DropTx(j, "none")

\* A flush raised: SQLAlchemy rolls the transaction back at once, and every
\* later flush or commit of this session raises PendingRollbackError.
FlushFails(j, step) ==
    /\ Goto(j, step)
    /\ DropTx(j, "inactive")
    /\ UNCHANGED vtt

\* Make j's transaction the writer of its meeting's row, and `image` its view.
Own(j, image) ==
    /\ owner' = [owner EXCEPT ![Target[j]] = j]
    /\ draft' = [draft EXCEPT ![j] = image]

RowFree(j) == owner[Target[j]] \in {NoJob, j}

RowsOf(e) == e.new \union e.old

RosterFree(j) ==
    \A k \in Job \ {j} :
        Target[k] = Target[j] => held[k] \intersect RowsOf(edit[j]) = {}

\* The commit of a live transaction.  A session that only touched the roster
\* does not own the row, and leaves the other columns to their owner.
PublishDraft(j) ==
    LET m == Target[j]
        image == IF owner[m] = j THEN draft[j] ELSE meeting[m]
    IN  meeting' = [meeting EXCEPT ![m] =
                      [image EXCEPT !.roster = meeting[m].roster \union held[j]]]

txVars == <<owner, tx, found, edit, held, draft>>

-----------------------------------------------------------------------------
(* Before the pipeline.                                                    *)

\* Mutant: one retry too many.
RetriesLeftOrEqual(t) == retries[t] <= MaxRetries

\* raise task.retry(...): a new message with retries + 1, or the exception
\* itself once max_retries is reached; the task is also lost when the broker
\* refuses the new message.
RetriesLeft(t) == retries[t] < MaxRetries

Reschedule(t) ==
    \/ /\ RetriesLeft(t)
       /\ retries' = [retries EXCEPT ![t] = @ + 1]
       /\ EndAttempt(t, "queued")
    \/ /\ ~RetriesLeft(t)
       /\ EndAttempt(t, "gaveUp")
       /\ UNCHANGED retries
    \/ /\ EndAttempt(t, "error")
       /\ UNCHANGED retries

\* A worker takes the message (its countdown is over), the request or the
\* script arrives.
Begin(j) ==
    /\ pc[j] = "queued"
    /\ Goto(j, CASE j \in Task -> "resolve"
                 [] j \in Request -> "locate"
                 [] j \in Script -> "load")
    /\ UNCHANGED <<meeting, graph, retries, vtt, txVars>>

\* Steps 1 to 3.5 of the task: tenant, app token, call record, registry and
\* the platform-user gate.  Token and call record errors are retried; an
\* inactive tenant, a malformed record or a meeting without a platform user
\* ends the task; a central or tenant DB error is raised as it is.
ResolveTenant(t) ==
    /\ pc[t] = "resolve"
    /\ \/ Goto(t, "locate") /\ UNCHANGED <<retries, vtt, txVars>>
       \/ Reschedule(t)
       \/ EndAttempt(t, "skipped") /\ UNCHANGED retries
       \/ EndAttempt(t, "error") /\ UNCHANGED retries
    /\ UNCHANGED <<meeting, graph>>

\* The meeting is looked up by its join URL.  The task gives up on a stale URL
\* and retries every other error; the route answers 401, 404, 500 or 503.
LocateMeeting(j) ==
    /\ pc[j] = "locate"
    /\ \/ /\ Goto(j, IF j \in Task THEN "fetch" ELSE "select")
          /\ UNCHANGED <<retries, vtt, txVars>>
       \/ j \in Task /\ Reschedule(j)
       \/ /\ EndAttempt(j, IF j \in Task THEN "skipped" ELSE "error")
          /\ UNCHANGED retries
    /\ UNCHANGED <<meeting, graph>>

\* The transcript list and the content of its first entry; Graph does not say
\* in which order it lists.  Nothing listed yet: the task retries, the route
\* answers 202 and its dependency commits.  An error rolls the route back.
FetchTranscript(j) ==
    /\ pc[j] = "fetch"
    /\ \/ \E v \in 1..graph[Target[j]] :
            /\ vtt' = [vtt EXCEPT ![j] = v]
            /\ Goto(j, "price")
            /\ UNCHANGED <<retries, txVars>>
       \/ /\ graph[Target[j]] = 0
          /\ j \in Request
          /\ Goto(j, "commit")
          /\ UNCHANGED <<retries, vtt, txVars>>
       \/ j \in Task /\ Reschedule(j)
       \/ j \in Request /\ EndAttempt(j, "error") /\ UNCHANGED retries
    /\ UNCHANGED <<meeting, graph>>

\* Credit pricing, from the central database.
PriceCredits(j) ==
    /\ pc[j] = "price"
    /\ \/ /\ Goto(j, IF j \in Task THEN "select" ELSE "mark")
          /\ UNCHANGED <<vtt, txVars>>
       \/ EndAttempt(j, "error")
    /\ UNCHANGED <<meeting, graph, retries>>

\* The script loads the meeting and its transcript, and keeps both in the
\* session's identity map.
LoadTranscript(j) ==
    /\ pc[j] = "load"
    /\ LET text == meeting[Target[j]].transcript IN
       \/ /\ text # 0
          /\ vtt' = [vtt EXCEPT ![j] = text]
          /\ tx' = [tx EXCEPT ![j] = "open"]
          /\ Goto(j, "mark")
          /\ UNCHANGED <<owner, found, edit, held, draft>>
       \/ text = 0 /\ EndAttempt(j, "skipped")
    /\ UNCHANGED <<meeting, graph, retries>>

\* _upsert_meeting: SELECT ... WHERE meeting_graph_id.
SelectMeeting(j) ==
    /\ pc[j] = "select"
    /\ tx' = [tx EXCEPT ![j] = "open"]
    /\ found' = [found EXCEPT ![j] = meeting[Target[j]].status # "none"]
    /\ Goto(j, "write")
    /\ UNCHANGED <<meeting, graph, retries, vtt, owner, edit, held, draft>>

\* The flush that follows.  A loaded row is updated if a column changed; a
\* missing one is inserted, which waits for a rival insert and fails on the
\* unique meeting_graph_id once the rival has committed.
WriteMeeting(j) ==
    LET m == Target[j] IN
    /\ pc[j] = "write"
    /\ \/ /\ found[j]
          /\ Goto(j, "roster")
          /\ UNCHANGED <<vtt, txVars>>
       \/ /\ found[j]
          /\ RowFree(j)
          /\ Own(j, meeting[m])
          /\ Goto(j, "roster")
          /\ UNCHANGED <<vtt, tx, found, edit, held>>
       \/ /\ ~found[j]
          /\ RowFree(j)
          /\ meeting[m].status = "none"
          /\ Own(j, [Absent EXCEPT !.status = "pending"])
          /\ Goto(j, "roster")
          /\ UNCHANGED <<vtt, tx, found, edit, held>>
       \/ /\ ~found[j]
          /\ RowFree(j)
          /\ meeting[m].status # "none"
          /\ EndAttempt(j, "error")
    /\ UNCHANGED <<meeting, graph, retries>>

\* _upsert_participant for everyone Graph names: the SELECTs.  Both callers
\* insert who is missing; the route also overwrites rows it finds.
ReadRoster(j) ==
    /\ pc[j] = "roster"
    /\ \E people \in SUBSET Person, changed \in SUBSET Person :
          LET known == people \intersect meeting[Target[j]].roster IN
          /\ changed \subseteq (IF j \in Request THEN known ELSE {})
          /\ edit' = [edit EXCEPT ![j] = [new |-> people \ known, old |-> changed]]
    /\ Goto(j, "enrol")
    /\ UNCHANGED <<meeting, graph, retries, vtt, owner, tx, found, held, draft>>

\* The flush of these rows: it waits for transactions that wrote one of them,
\* and fails on the primary key if somebody committed a row it inserts.
WriteRoster(j) ==
    /\ pc[j] = "enrol"
    /\ RosterFree(j)
    /\ \/ /\ edit[j].new \intersect meeting[Target[j]].roster = {}
          /\ held' = [held EXCEPT ![j] = RowsOf(edit[j])]
          /\ edit' = [edit EXCEPT ![j] = NoEdit]
          /\ Goto(j, IF j \in Task THEN "mark" ELSE "fetch")
          /\ UNCHANGED <<vtt, owner, tx, found, draft>>
       \/ /\ edit[j].new \intersect meeting[Target[j]].roster # {}
          /\ EndAttempt(j, "error")
    /\ UNCHANGED <<meeting, graph, retries>>

-----------------------------------------------------------------------------
(* run_ingestion_pipeline.  The parts that raise without failing the        *)
(* transaction (parsing, chunking, embedding) go to "failing", the handler  *)
(* at its end; a failed statement is DbFails.                               *)

\* Mutant: the status is set and not flushed, so nothing is locked.
MarkUnflushed(j) ==
    /\ pc[j] = "mark"
    /\ draft' = [draft EXCEPT ![j] = [meeting[Target[j]] EXCEPT !.status = "ingesting"]]
    /\ Goto(j, "transcript")
    /\ UNCHANGED <<meeting, graph, retries, vtt, owner, tx, found, edit, held>>

\* status = 'ingesting', flushed: from here on the row is locked.
MarkIngesting(j) ==
    LET m == Target[j]
        seen == IF owner[m] = j THEN draft[j] ELSE meeting[m] IN
    /\ pc[j] = "mark"
    /\ RowFree(j)
    /\ Own(j, [seen EXCEPT !.status = "ingesting"])
    /\ Goto(j, "transcript")
    /\ UNCHANGED <<meeting, graph, retries, vtt, tx, found, edit, held>>

\* Mutant: the charge is made with the transcript, before the index is built.
UpsertTranscriptAndCharge(j) ==
    /\ pc[j] = "transcript"
    /\ \E ok \in BOOLEAN :
          /\ draft' = [draft EXCEPT ![j].transcript = IF j \in Script THEN @ ELSE vtt[j],
                                    ![j].credits = @ + 1]
          /\ Goto(j, IF ok THEN "index" ELSE "failing")
    /\ UNCHANGED <<meeting, graph, retries, vtt, owner, tx, found, edit, held>>

\* Parse, and upsert the transcript.  The script assigns the text its session
\* loaded before the lock: SQLAlchemy sees no change and writes nothing.
UpsertTranscript(j) ==
    /\ pc[j] = "transcript"
    /\ \/ Goto(j, "failing") /\ UNCHANGED draft
       \/ /\ draft' = IF j \in Script THEN draft
                      ELSE [draft EXCEPT ![j].transcript = vtt[j]]
          /\ Goto(j, "index")
    /\ UNCHANGED <<meeting, graph, retries, vtt, owner, tx, found, edit, held>>

\* Mutant: the DELETE is forgotten.
AppendRows(rows, v) == rows \union {v}

\* DELETE the rows of this meeting, INSERT the rows of version v.
ReplaceRows(rows, v) == {v}

\* Mutant: the old chunks are deleted before the new ones are embedded.
IndexChunksDeletingFirst(j) ==
    /\ pc[j] = "index"
    /\ \/ /\ draft' = [draft EXCEPT ![j].chunks = {}]
          /\ Goto(j, "failing")
       \/ /\ draft' = [draft EXCEPT ![j].chunks = ReplaceRows(@, vtt[j])]
          /\ Goto(j, "analytics")
    /\ UNCHANGED <<meeting, graph, retries, vtt, owner, tx, found, edit, held>>

\* Resolve speakers, chunk, embed, and replace the chunks.
IndexChunks(j) ==
    /\ pc[j] = "index"
    /\ \/ Goto(j, "failing") /\ UNCHANGED draft
       \/ /\ draft' = [draft EXCEPT ![j].chunks = ReplaceRows(@, vtt[j])]
          /\ Goto(j, "analytics")
    /\ UNCHANGED <<meeting, graph, retries, vtt, owner, tx, found, edit, held>>

ReplaceAnalytics(j) ==
    /\ pc[j] = "analytics"
    /\ draft' = [draft EXCEPT ![j].analytics = ReplaceRows(@, vtt[j])]
    /\ Goto(j, "charge")
    /\ UNCHANGED <<meeting, graph, retries, vtt, owner, tx, found, edit, held>>

\* Mutant: a meeting is charged for its first ingestion only.
ChargeFirstOnly(j) ==
    /\ pc[j] = "charge"
    /\ draft' = [draft EXCEPT ![j].credits = IF @ = 0 THEN 1 ELSE @]
    /\ Goto(j, "ready")
    /\ UNCHANGED <<meeting, graph, retries, vtt, owner, tx, found, edit, held>>

\* A row of credit_usage, for every successful pipeline.
Charge(j) ==
    /\ pc[j] = "charge"
    /\ draft' = [draft EXCEPT ![j].credits = @ + 1]
    /\ Goto(j, "ready")
    /\ UNCHANGED <<meeting, graph, retries, vtt, owner, tx, found, edit, held>>

\* The summary, whose errors are swallowed, and status = 'ready'.
MarkReady(j) ==
    /\ pc[j] = "ready"
    /\ draft' = [draft EXCEPT ![j].status = "ready"]
    /\ Goto(j, "insights")
    /\ UNCHANGED <<meeting, graph, retries, vtt, owner, tx, found, edit, held>>

\* Insights.  Every exception is swallowed, but not what it did to the
\* transaction: a failed SELECT leaves it aborted, a failed flush rolled back.
GenerateInsights(j) ==
    /\ pc[j] = "insights"
    /\ \/ Goto(j, "commit") /\ UNCHANGED <<vtt, txVars>>
       \/ /\ tx' = [tx EXCEPT ![j] = "aborted"]
          /\ Goto(j, "commit")
          /\ UNCHANGED <<vtt, owner, found, edit, held, draft>>
       \/ FlushFails(j, "commit")
    /\ UNCHANGED <<meeting, graph, retries>>

\* except Exception: status = 'failed', flush, raise.
MarkFailed(j) ==
    /\ pc[j] = "failing"
    /\ draft' = [draft EXCEPT ![j].status = "failed"]
    /\ Goto(j, "persist")
    /\ UNCHANGED <<meeting, graph, retries, vtt, owner, tx, found, edit, held>>

-----------------------------------------------------------------------------
(* How an attempt ends.                                                     *)

\* The caller commits what the failed pipeline flushed; then the task asks for
\* a retry and the route answers 422 or 503.  In a session whose flush failed
\* the commit raises instead.  The script has no handler: it rolls back.
PersistFailure(j) ==
    /\ pc[j] = "persist"
    /\ \/ /\ j \notin Script /\ tx[j] = "open"
          /\ PublishDraft(j)
          /\ DropTx(j, "none")
          /\ Goto(j, IF j \in Task THEN "retry" ELSE "error")
          /\ vtt' = [vtt EXCEPT ![j] = 0]
       \/ /\ j \in Script \/ tx[j] = "inactive"
          /\ EndAttempt(j, "error")
          /\ UNCHANGED meeting
    /\ UNCHANGED <<graph, retries>>

RetryFailed(t) ==
    /\ pc[t] = "retry"
    /\ Reschedule(t)
    /\ UNCHANGED <<meeting, graph>>

\* get_session commits on clean exit.  COMMIT of an aborted transaction is a
\* ROLLBACK that raises nothing: success is reported all the same.
CommitSession(j) ==
    /\ pc[j] = "commit"
    /\ \/ /\ tx[j] = "open"
          /\ PublishDraft(j)
          /\ EndAttempt(j, IF vtt[j] # 0 THEN "ok" ELSE "accepted")
       \/ tx[j] = "aborted" /\ EndAttempt(j, "ok") /\ UNCHANGED meeting
       \/ tx[j] = "inactive" /\ EndAttempt(j, "error") /\ UNCHANGED meeting
    /\ UNCHANGED <<graph, retries>>

\* A statement fails, or the connection does.  Before the pipeline and at a
\* commit the exception ends the attempt.  In the pipeline the handler's own
\* flush fails too, the status is not saved, and the caller's commit raises.
DbFails(j) ==
    /\ \/ pc[j] \in {"load", "select", "write", "roster", "enrol"} /\ EndAttempt(j, "error")
       \/ pc[j] \in {"persist", "commit"} /\ tx[j] = "open" /\ EndAttempt(j, "error")
       \/ pc[j] \in Pipeline /\ FlushFails(j, "persist")
    /\ UNCHANGED <<meeting, graph, retries>>

\* Postgres finds two transactions waiting for each other, one for the row of
\* the meeting and one for a participant, and fails the statement of one.
Waits(j, k) ==
    /\ Target[j] = Target[k]
    /\ \/ pc[j] = "mark" /\ owner[Target[j]] = k
       \/ pc[j] = "enrol" /\ held[k] \intersect RowsOf(edit[j]) # {}

DeadlockVictim(j) ==
    /\ \E k \in Job \ {j} : Waits(j, k) /\ Waits(k, j)
    /\ DbFails(j)

\* The process dies: Postgres rolls its transaction back, and the message was
\* acknowledged when the task started, so nobody takes it up again.
Crash(j) ==
    /\ pc[j] \in Running
    /\ EndAttempt(j, "crashed")
    /\ UNCHANGED <<meeting, graph, retries>>

\* Teams has made another transcript of m.
TranscriptAppears(m) ==
    /\ graph[m] < MaxVersion
    /\ graph' = [graph EXCEPT ![m] = @ + 1]
    /\ UNCHANGED <<meeting, owner, pc, retries, vtt, tx, found, edit, held, draft>>

AllEnded == (\A j \in Job : pc[j] \in Ended) /\ UNCHANGED vars

-----------------------------------------------------------------------------
(* The specification.                                                       *)

Fetching(j) ==
    \/ Begin(j)
    \/ j \in Task /\ ResolveTenant(j)
    \/ LocateMeeting(j)
    \/ FetchTranscript(j)
    \/ PriceCredits(j)
    \/ LoadTranscript(j)

Saving(j) ==
    \/ SelectMeeting(j)
    \/ WriteMeeting(j)
    \/ ReadRoster(j)
    \/ WriteRoster(j)

Piping(j) ==
    \/ MarkIngesting(j)
    \/ UpsertTranscript(j)
    \/ IndexChunks(j)
    \/ ReplaceAnalytics(j)
    \/ Charge(j)
    \/ MarkReady(j)
    \/ GenerateInsights(j)
    \/ MarkFailed(j)

Finishing(j) ==
    \/ PersistFailure(j)
    \/ j \in Task /\ RetryFailed(j)
    \/ CommitSession(j)

\* What a job does by itself, or Postgres to it when it is in a deadlock.
Proceeds(j) == Fetching(j) \/ Saving(j) \/ Piping(j) \/ Finishing(j) \/ DeadlockVictim(j)

Next ==
    \/ \E j \in Job : Fetching(j)
    \/ \E j \in Job : Saving(j)
    \/ \E j \in Job : Piping(j)
    \/ \E j \in Job : Finishing(j)
    \/ \E j \in Job : DeadlockVictim(j)
    \/ \E j \in Job : DbFails(j)
    \/ \E j \in Job : Crash(j)
    \/ \E m \in Meeting : TranscriptAppears(m)
    \/ AllEnded

Spec == Init /\ [][Next]_vars

\* Celery delivers messages and runs countdowns out, uvicorn runs handlers,
\* remote calls time out, Postgres detects deadlocks.  Nothing makes Teams
\* produce a transcript, and nothing makes a statement or a process fail.
FairSpec == Spec /\ \A j \in Job : WF_vars(Proceeds(j))

-----------------------------------------------------------------------------
(* Properties.                                                              *)

(* A job between the flush of 'ingesting' and the end of its transaction is *)
(* the only one: no two jobs rewrite the rows of one meeting at a time,     *)
(* although nothing but that flush (pipeline.py:80) serializes them.        *)
OneWriter ==
    \A j, k \in Job :
        (pc[j] \in Owning /\ pc[k] \in Owning /\ Target[j] = Target[k]) => j = k

(* A meeting a reader sees as ready is indexed from the transcript it       *)
(* shows, once, whatever ran before or runs beside it.                      *)
ReadyIsCoherent ==
    \A m \in Meeting :
        meeting[m].status = "ready" =>
            /\ meeting[m].chunks = {meeting[m].transcript}
            /\ meeting[m].analytics = {meeting[m].transcript}

(* Chunks and analytics never hold rows of two versions, nor of different   *)
(* ones, failed and repeated ingestions included.                           *)
IndexIsOneVersion ==
    \A m \in Meeting :
        /\ meeting[m].analytics = meeting[m].chunks
        /\ \A v, w \in meeting[m].chunks : v = w

(* The ledger grows by one row when an ingestion is published as ready, and *)
(* the index does not change unless that row is added.                      *)
ChargedWithIndex ==
    [][\A m \in Meeting :
         LET old == meeting[m]  new == meeting'[m] IN
         IF new.credits = old.credits
           THEN new.chunks = old.chunks
           ELSE new.credits = old.credits + 1 /\ new.status = "ready"]_meeting

(* Every credit row was earned by a job that reported success: a task that  *)
(* failed, retried and then succeeded is charged once.                      *)
ChargesAreEarned ==
    \A m \in Meeting :
        meeting[m].credits <= Cardinality({j \in Job : Target[j] = m /\ pc[j] = "ok"})

(* What readers see is one of MeetingStore's changes at a time.             *)
ImplementsStore == Store!Spec

(* No job waits for ever: locks are released, deadlocks broken, retries run *)
(* out.                                                                     *)
JobsEnd == \A j \in Job : <>(pc[j] \in Ended)

=============================================================================
