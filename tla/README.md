# A TLA+ model of va-test-2

The repository is the backend of a meeting assistant: a FastAPI process, Celery
workers, one Postgres database per tenant and a central one, Redis, Azure Key
Vault, and the Microsoft Graph API as the source of meetings and transcripts.
This directory models the parts of it whose correctness depends on order
(concurrent jobs, transactions, retries, crashes, redelivered notifications,
rotated passwords and keys, overlapping turns of a chat) and its pure
algorithms. TLC checks the models on small instances; TLAPS proves the
invariants for every value of the constants.

Paths below are relative to `src/`.

## 1. Inventory

For each component: its state, its operations, whom it talks to, what is hard,
and what makes it correct. The status is in brackets.

**Ingestion jobs** [modelled: `Ingestion`, `MeetingStore`].
`workers/tasks/ingestion.py`, `app/api/routes/ingest.py`,
`app/services/ingestion/pipeline.py`, `scripts/rechunk_meeting.py`,
`app/services/insights/generator.py`.
State: the tables `meetings`, `meeting_participants`, `transcripts`, `chunks`,
`speaker_analytics`, `credit_usage`. Three kinds of job (Celery task, manual
request, rechunk script) upsert a meeting, run the same pipeline in one
transaction, and commit. Hard: the jobs race on one meeting with only row locks
between them; the pipeline fails half way and its failure is committed; tasks
retry; statements fail and exceptions are swallowed; processes die. Correct: a
reader sees whole ingestions only, a ready meeting is indexed from the text it
shows, a meeting is charged once per success, and every job ends.

**Webhook dispatch** [modelled: `WebhookDispatch`].
`app/api/routes/webhook.py`, `app/services/graph/webhook.py:234-374`.
State: the in-memory dedup map `_seen`, the central session of a POST. Hard:
copies from several IPs, redeliveries, batches, interleaved handlers, a shared
session that a failed statement aborts, a broker that refuses a message, a
restart. Correct: no event is lost silently, one task per event and window.

**Tenant connection pools** [partly: `TenantPool`].
`app/db/manager.py`, `app/core/keyvault.py`, `app/core/state.py`. State: one
pool per tenant and process, a lock. Hard: double-checked locking, rotation of
the password in two steps, eviction. Correct: one pool per tenant; a pool with
an old password does not last. Sizes and timeouts of a pool are left out.

**Tenant registry and central database** [partly: `TenantAuth`].
`app/db/registry.py`, `app/db/central/session.py`. State: a cache of tenants
with no expiry. Hard: `refresh_one` reads, awaits, and stores over a newer
entry; the entry is checked, and read again later. Correct: nobody is refused
for a stale entry, nobody is served for a tenant that never was active.
`load_all`, which nothing calls, and the billing tables are left out.

**Authentication** [modelled: `TenantAuth`, `Access`]. `app/core/security.py`,
`app/api/deps.py`. State: the copy of Microsoft's signing keys in Redis; user
rows made at first login. Hard: fetches that overlap and are stored late, keys
withdrawn and published meanwhile, two first logins of one user. Correct: a
withdrawn key is accepted for one lifetime of the copy, and what a store was
late, at most; a published key is found; one row per user.

**Administration and access** [modelled: `Access`]. `app/api/routes/admin.py`
(a router `app/main.py` does not mount). State: roles of users and of
participants. Hard: the cap of compliance officers is counted, then used; grant
and revoke race with re-ingestion, which overwrites roles. Correct: the cap is
exceeded by overlapping promotions at most (that it is exceeded at all is a
finding); nobody is demoted knowingly;
revoking does not remove participants, and what is revoked stays revoked.

**Chat orchestration, scope, sessions, handlers** [modelled: `Chat`,
`ChatScope`; handlers partly]. `app/services/chat/orchestrator.py`, `scope.py`,
`session.py`, `router.py`, `handlers/`, `repos/`. State: the session (history,
saved selection, last intent, waiting question), in the memory of the process:
`InMemorySessionStore` is the store in use. Hard: overlapping turns of one
session; a saved selection, a replayed question or the history that name
meetings since revoked; the widening of a narrow selection. Correct: answers
refer to meetings the user may see (with one exception, a finding) and say when
they leave the selection; a question is replayed once; no clarification follows
another.

**Graph client and subscriptions** [modelled: `GraphCalls`].
`app/services/graph/client.py`, `meetings.py`, `transcripts.py`,
`app/services/graph/webhook.py:62-229`. State: none but Graph's. Hard: a POST,
PATCH or DELETE is sent again after a timeout that hid its effect. Correct: what
a caller is told is true, and every call ends.

**Ranking and text algorithms** [`Ranking` partly; `Chunker`, `Speakers`
modelled]. `app/db/helpers/chat_search.py` (rank fusion, round robin),
`app/services/chat/sources.py`, `app/services/ingestion/chunker.py`,
`vtt_parser.py`, `speaker_resolver.py`,
`app/services/chat/repos/speaker_resolver.py`. Pure functions, most of them
loops over lists; the state is that of the loops. Hard: ties in a dict's order,
meetings that run out in the middle of a cycle, caps and pauses at the same
turn, cues that overlap. Correct: every cue is in one chunk, every meeting gets
its turn, no name that is ambiguous among the participants is resolved.

**Left out on purpose**: embedding and LLM clients, prompts and insight parsing
(remote calls and texts; in `Ingestion` they succeed or fail), migrations and
provisioning scripts (run by hand, in sequence), and the stub files of workers
and services that hold a comment and no code.

### How they interact

A Graph notification reaches the route in the API process, becomes a Celery
message (`WebhookDispatch`: an item that is sent is one `Task` of `Ingestion`),
and a worker slot runs it, calling Graph through the client (`GraphCalls`: a
call ends with a result or an error, which is what `Ingestion` knows of it).
Requests pass the registry, the keys and the tenant check (`TenantAuth`), get a
session of the tenant's pool (`TenantPool`), provision their user and pass the
gates (`Access`), and then ingest or chat. Tasks, requests and scripts meet in
the tenant's database (`Ingestion` for a meeting's rows, `Access` for its
roster). Chat (`Chat`, over `ChatScope`) reads what is committed: the roster
decides the scope, the abstract store of `MeetingStore` is what it searches.

## 2. Modules

| module | what it is |
|---|---|
| `MeetingStore` | what ingestion promises a reader: four kinds of committed change |
| `Ingestion` | the jobs, their transactions and locks; its properties |
| `IngestionProofs` | types, mutual exclusion, what readers see and pay; `Ingestion` implements `MeetingStore` |
| `WebhookDispatch`, `WebhookProofs` | notifications and the dedup map; no loss, no double |
| `TenantPool`, `TenantPoolProofs` | the pool cache under rotation; one pool, a safe fast path |
| `TenantAuth`, `TenantAuthProofs` | registry, signing keys, admission of a request |
| `Access`, `AccessProofs` | first logins, roles, the cap, grants and revocations |
| `ChatScope` | which meetings a turn may and does look at: operators |
| `Chat`, `ChatProofs` | the turns of one session, on `ChatScope` |
| `GraphCalls`, `GraphCallsProofs` | the retry loop against Graph's subscriptions |
| `Ranking`, `Chunker` | the loops of retrieval and of chunking, an action for each iteration |
| `Speakers` | who is meant by a name: operators |
| `Algorithms`, `AlgorithmsProofs` | runs one of them on any input; what each promises |
| `MC...` | instances for TLC |

### Ingestion

State and code: `meeting[m]` is the committed rows over all tables (a version
number stands for a transcript's text; `chunks` and `analytics` are the sets of
versions that have rows), `owner[m]` the Postgres lock on the row of
`meetings`, `draft[j]` what the owner's transaction sees, `held[j]` the
participant rows it wrote, `tx[j]` the state of the SQLAlchemy session:

- *aborted*: a statement failed in the database and nobody rolled back. COMMIT
  then is a ROLLBACK and raises nothing;
- *inactive*: a flush failed, SQLAlchemy rolled back, and everything that
  follows raises `PendingRollbackError`.

`pc[j]` walks through the functions: `resolve` .. `fetch` are steps 1 to 4 of
the task (or of the route, which saves the meeting first), `select` .. `enrol`
the upserts, `mark` .. `ready` the flushes of `run_ingestion_pipeline`,
`failing` its except clause, `insights`, `commit`, and `persist` and `retry` the
callers' handling of a failure. One action is what happens between two places
where the code waits or can fail. Deadlocks are those of the code: one
transaction holds the meeting's row and wants a participant, another holds the
participant and wants the row; Postgres fails one (`DeadlockVictim`).

Things worth knowing that the model has and the docs do not say:

- errors of the central and tenant databases before the pipeline are logged as
  "retrying" and end the task (`workers/tasks/ingestion.py:363`);
- an exception swallowed by the insight step leaves the transaction aborted:
  the commit rolls everything back and success is reported
  (`app/services/insights/generator.py:77`, `workers/tasks/ingestion.py:497`);
- a failed pipeline commits `failed` with the *new* transcript and the *old*
  index, also over a meeting that was ready;
- the status `ingesting` is never visible: it is set and replaced in one
  transaction. It still matters, because its flush takes the row lock that
  serializes the pipelines;
- messages are acknowledged early: a worker that dies loses the job.

The route's 200 or 202 may precede or follow the commit of its dependency,
depending on the FastAPI version; `ok` and `accepted` stand for the reply of a
request whose commit did not raise. Requests whose user login wrote the session
first are not told apart from those whose did not.

### WebhookDispatch

`posted[h]`, `todo[h]`, `broken[h]`: the POST a handler works on, its remaining
items, and whether its central session has failed a statement. `seen`, `age`
are the dedup map; `since`, `burst` remember when this process sent tasks of an
event, for the properties. Time is counted in ticks up to one past the window.
Handlers interleave between items (where they await the lookup); the dedup and
`send_task` are one step, because nothing is awaited between them but a lock
that is free on one event loop. The model has what the code does when things go
wrong: the dedup key is recorded before `send_task`, so a refused message leaves
an entry for a task never sent (`app/services/graph/webhook.py:48`), and one
failed lookup aborts the session of the whole batch, whose other items are
skipped and answered with 200 (`:306`). No document promises more of either
case, and the properties count both as handled: they do not show that such an
event is ever ingested.

### TenantPool

`cache[p]`, `lock[p]` per process; `pc[s]` walks through
`_get_or_create_factory` and `get_session`. The API runs sessions concurrently
and in threads; a Celery slot (prefork, the default: the repository does not
configure another pool) runs one at a time. `vault` and `password` are rotated
in either order. `Catches` says whether the exception of a session's first
statement reaches `get_session` as it is: in a task it does, in a request
`_upsert_user` replaces it, so the API never evicts the pool of a rotated
password (`app/api/deps.py:52`), and `SlotsRecover` speaks of workers only.
`FastPathSafe` depends on that: the unlocked `if tid in cache: return
cache[tid]` is safe because no request evicts. Its mutant lets the error pass to
`get_session`, and the fast path then raises `KeyError`: whoever repairs the
eviction must repair the fast path too.

### TenantAuth

`row[t]` is the central database, `cache[t]` the entry of `TenantRegistry`,
`published` and `age` Microsoft's keys, `redis` the copy with its time to live.
`pc[r]` walks through `_get_token_data` and `TokenVerifier.verify`: `query`
and `refresh` are the two halves of `refresh_one`, around its SELECT; `get`,
`fetch`, `store`, and the second `fetch again` and `store again` are `get_key`,
which looks for an unknown key in a fresh set. `held[r]` (what was the case at
some time since r began) and `wasActive` serve the properties. A token is a
tenant, a key, and good or not: signatures and claims are a library's.
Nothing bounds how late fetched keys are stored: the fetch has a timeout, but the
Redis client has none (`app/main.py:74`). Time therefore passes while keys wait
for their SETEX, `late[r]` counts it (up to `MaxLate`, a bound), and the copy
remembers how late it was, so that `WithdrawnKeysExpire` can say what holds: a
withdrawn key is accepted for the copy's time to live and that delay, and no
longer.

### Access

`role`, `active`, `roster` are the committed rows of `users` and of one meeting's
`meeting_participants`. A request's `pc` walks through the login (`lookup`,
`insert`: the flush that a second first login waits for), the gate, and the
handler: `loaded` is the row as its SELECT returned it, `writes` the columns
that its flush will set. Statements of a read-committed transaction see what is
committed at the time, and the UPDATE at the end sets the changed columns only,
whatever the row says by then. Admin handlers, the manual ingestion (which
overwrites roles), the task (which does not) and chat (which only provisions)
are the operations. A PATCH that demotes an officer is accepted and not
carried out (`admin.py:244`); one with an unknown role is answered from the
object in memory and fails at the COMMIT (`:282`).

### ChatScope and Chat

`ChatScope` translates the pure part: `Authorised` (the SQL of
`get_authorized_meeting_ids`, with its window and cap), `Selected`, the narrowing
of `narrow_within_scope` (`Candidates`, `Matched`, `Extra`, `Effective`), the
banners, and for each handler the meetings it can refer to (`Outcomes`).
`Chat` runs turns: `count` and `select` are the reads before the router,
`classify` awaits it, `reply` awaits the LLM of the routes without meetings,
`answer` is the narrowing and the handler, `sent` the end of the request's
transaction. Between two awaits a turn is alone on the event loop, so what it
does to the session there is one step. `session` is the `SessionState`:
`scope`, `clarified` (the last intent was CLARIFY), `pending` (at most one
question), `turns` (the rolling window; of each turn the meetings its text can
draw on). `history[t]` is what the last turns draw on when t reads them, all of
it: the character limit and CLARIFY's shorter window only leave out more. A failed speaker lookup is swallowed
and leaves `healthy[t]` false: later statements of the turn fail.

An empty list of authorised meetings puts no condition on the metadata searches
(`repos/metadata_repo.py:114`): titles and dates then match every meeting of the
tenant. `Allowed` has this, so `AnswersWithinAccess`, which is CONTEXT.md's
"No exceptions", does not hold: a user without any meeting gets answers from
others' meetings. `StraysOnlyUnscoped` says that this is the only way out:
without an authorised meeting, by a title or a date that the question names, and
disclosed. Whoever repairs the search can drop its second alternative.

What an answer *refers to* is `found`; what the LLM had before it of earlier
turns is `recalled`, and `AnswersWithinAccess` is about both. The history is not
checked against the roles again, so it does not hold of `recalled` either: the
answer about a meeting is handed to the LLM after the access to it was revoked.
The run stops at the shorter counterexample, the search without a scope.
`recalled` is what the prompt allows, an upper bound of what an answer repeats;
`StraysOnlyUnscoped` and its theorem are about `found`.

### GraphCalls

`subs[i]` is what Graph has: ticks a subscription has left. `Serve` and
`Decline` are Graph's side of an attempt, and choose what becomes of the answer:
it arrives, is lost, is a 429, a 5xx, or no JSON. `Receive` is the body of the
loop in `_request`: all retryable failures share one budget of attempts.
`Stumble` is the error body that is JSON but not Graph's object: looking for its
code raises an `AttributeError` that ends the call at once, also on a 5xx that
would have been retried (`client.py:231`).
`touched[c]` and `unsure[c]` remember what a call did and whether it can know.
`AnswersAreTrue` has to survive a DELETE that is repeated after its answer was
lost and then is told 404; a registration repeated so leaves a subscription that
nobody knows, which `FailuresHaveNoEffect` allows only after such a loss. A crash
after Graph has served a request leaves one too; such a call has no result and
the property says nothing of it. `Begin` includes the token, which MSAL gets in a
thread without a timeout: that it comes back is assumed, and `CallsEnd` speaks of
calls whose loop has begun.

### The algorithms

`Ranking` and `Chunker` are the loops of the code: `phase` and `loop` say which
one runs, `pos` and `at` are its position, and an action is one iteration.
`Retrieve` chooses what the two queries return and fuses it (`RrfMerge` is a
sort, so it is an operator: the list of the found chunks by how many come
before). `GroupChunk` .. `NextCycle` are `_round_robin_by_meeting`, with
`byMeeting`, `order`, `progressed` and `result` of the code; `AddToCard` and
`CutCards` are the source cards. `ParseBlock` is an iteration of `parse_vtt` and
chooses the block that the file goes on with, `MergeCue` one of
`merge_speaker_turns`, `TakeTurn` one of `chunk_segments`, with `buf`,
`buf_words` and `emit`. Chunks of a search are known by their place in the fused
list, turns by their number, texts by the numbers of their blocks.

Scores are fractions 1 / (RRF_K + rank). `Unit` is a common multiple of the
denominators, so that shares of it are whole numbers that add and compare as
the fractions do.

`Speakers` has labels, names and replies, as operators. A name is the sequence of
its tokens, and an address one token. `Near` is a relation on whole names, since
the edit distance is taken over the whole string: its pairs differ in a letter
of one token, or in a space that makes one token of two. `Names` compares the
full name, the address and the last name with any reply, an address too.

What the algorithms should satisfy is stated apart from them, as relations
between input and output: `NothingSaidIsLost` counts words in the blocks, not in
the buffer. A behaviour of `Algorithms` runs one algorithm on one input.

Two disagreements with documents are in the model, and no run is about them.

- *Long and empty turns.* `NothingSaidIsLost` is the boundary rule of the
  docstring of `chunker.py`: a cap ends a chunk, it does not limit one. The
  ingestion document (docs/ingestion-service.md:195, 224-241) and
  `tests/test_chunker.py` (11-13, 171, 199) describe an earlier chunker, which
  splits a turn of more than 300 words and makes every `end_ms` larger than its
  `start_ms`. Neither is so: one turn of more words than the cap is one chunk, and
  a chunk ends when its last cue does, which may be when it begins or before.
- *Externals.* `LabelsAreUnambiguous` is about participants, of whom none is taken
  for another who matches as well. It does not say that the words of an outsider
  go to nobody, as the comment of `speaker_resolver.py:46` does ("None for
  external attendees"). They do not always: a first name is enough for tier 3, so
  an Anne May who is not invited becomes the Anne Lee who is. Line 13 of the same
  file has the tier, and leaves open which was meant.

## 3. Runs

| run | instance | what it asks |
|---|---|---|
| `ingestion` | 1 task, 2 requests, 1 meeting, 1 person, 2 transcripts, 1 retry | types, one writer, coherent ready meetings, one version in the index, changed with its charge only, earned charges, refinement of `MeetingStore` |
| `ingestion_live` | 1 task, 1 request, 1 script, 1 transcript, fair | every job ends |
| `webhook` | 2 events, 2 handlers, batches of 2, window 2, 1 restart | nothing lost, nothing twice in a window |
| `recovery` | either 2 requests, 1 slot, 1 rotation, or 2 events, 1 handler, window 1, 1 restart; fair | one pool, safe fast path, workers recover; every event is dispatched or skipped for a reason |
| `tenant_auth` | 1 tenant, 2 keys, 2 requests, TTL 2, 2 changes, stores 1 tick late | no stale refusal, withdrawn keys expire, only active tenants served |
| `access` | 3 people, 2 requests, a cap of 2 | the cap within overlap, one row per user, no demotion, participants stay, revocations hold |
| `answers` | either 3 turns, 2 at a time, 3 meetings, a cap of 2, 1 change of a role, or 5 chunks of 3 meetings, transcripts of 4 blocks, 3 participants | answers leave access only unscoped, expansion disclosed, questions taken once, no loop of clarifications; faithful fusion, fair rounds, nothing said is lost, no ambiguous participant is picked |
| `graph_calls` | 2 calls, 2 attempts, 2 subscriptions, fair | true answers, no hidden effects, every call ends |

Two of them have components side by side that share no state: `MCRecovery` runs
the pools or the dispatcher, `MCAnswers` a session or a call of an algorithm. Their
variable `part` says which of the two moves in a behaviour; the product would
have more states and no more to say of either.

Four runs end in a violation and are the findings:

| run | what it shows |
|---|---|
| `rechunk_coherence` | the script re-indexes the text it loaded before somebody published another: a ready meeting shows transcript 2 and chunks of transcript 1 |
| `suspended_is_refused` | a tenant that is suspended after its first request passes the check until the API restarts: the registry's entry never expires |
| `answers_within_access` | a user without any meeting names a title and a date, and the answer refers to a meeting of the tenant that matches |
| `officer_cap` | two overlapping promotions both count fewer officers than the cap: one officer too many |

### Why the bounds are enough

Meetings share nothing in `Ingestion`, so one meeting with three jobs has every
pairwise race, and a third job to meet what two leave behind. Two transcripts
are enough for "old" and "new", one person for a lock on the roster, one retry
for a retry and the end of retries. In `WebhookDispatch` two items tell a batch
from an item, a window of 2 has an inside, an edge and an outside. Tenants share
only the lock and the secret in `TenantPool`; one tenant, two threads and one
rotation have every order of check, fetch, change and eviction.

Tenants share nothing in `TenantAuth` either, but keys share one copy: two keys
tell a copy that has yours from one that has not, two requests one late store
from a newer one, and two changes withdraw a key and publish it again, or edit a
tenant twice around a refresh. In `Access` three people are an officer, a
candidate and one more, two requests overlap in every way, and since requests
end and begin again, they do so any number of times; a cap of 2 is reached with
one promotion. In a session the window of turns is 1, which no passing property
depends on but the one on the window. The third turn meets what two overlapping
ones left in the session; three meetings and a cap of 2 have one beyond the cap;
the decisions in `MCChat` name a clarification, a narrowing by titles, by dates
and by both, and an ambiguous one. In `GraphCalls` two attempts have one retry, and two
subscriptions one that is known and one that is not. Five chunks of three
meetings (three, one and one) have ties, meetings that run out and a list cut at
`TOP_K`; four blocks have a chunk that ends and one that begins, at a cap, at a
pause, over an overlap or a note. The six names have an exact match, a letter's
and a space's difference, a shared first and a shared last name, and an address
as a display name. `Unit` is 61 * 62 * 63, for the three ranks.

Bounds that are not the code's are `MaxVersion`, `MaxBatch`, `MaxCrashes`,
`MaxRotations`, `MaxChanges`, `MaxTurns`, `MaxMade`, `MaxLate` and `MaxBlocks`. Parameters
of the code are smaller in the runs: `MaxRetries` is 10, `Window` 30 s,
`MAX_RETRIES` 3, the cap of officers 3, the chunker's limits are scaled down in
proportion. The proofs below do not depend on any of these values.

### Fairness and deadlock

Safety is checked without fairness, except that `recovery` and `graph_calls`
use one specification for both. `Ingestion`: weak fairness of what each job does
by itself: Celery delivers messages and runs countdowns out, uvicorn runs
handlers, remote calls have timeouts, Postgres detects deadlocks. Nothing forces
a transcript to appear, a failure or a crash. `WebhookDispatch`: a started
handler runs on (weak), and Graph redelivers what it owes (strong, as the
process may be busy at times). `TenantPool`: weak fairness of each session,
which includes that tasks keep coming; rotations, closed connections and
restarts are not forced. `GraphCalls`: weak fairness of each call's steps: an
attempt has a timeout, so it is answered or lost, and a sleep ends; nothing
forces Graph to answer well. `TenantAuth`, `Access` and `Chat` have no liveness
property: their steps are straight lines that end.

Deadlock is checked except in `answers` and `answers_within_access`, where a call
ends with its input and a session with `MaxTurns` (`AllEnded` marks the end of
`Ingestion`).

## 4. Proofs

All theorems hold for every set of jobs, meetings, people, events, handlers,
requests, slots, tenants, keys, turns, calls, chunks and blocks, and every value
of the numeric constants, under the named assumptions on constants (`IngestionConstants`,
`WebhookConstants`, `TenantPoolConstants`, `AuthConstants`, `AccessConstants`,
`ChatScopeConstants`, `ChatConstants`, `GraphConstants`, `RankingConstants`,
`ChunkerConstants`, `AlgorithmsConstants`), which TLC evaluates too. People and
requests of `Access`, the calls of `GraphCalls` and the participants of
`Algorithms` are assumed finite in number; `Unit` is assumed to be a multiple of
the denominators, and there is one for every `RrfK` and pool. Every invariant
and every action property of the runs is stated by a theorem.

**`IngestionProofs`**: `TypeCorrect`, `PipelinesExclude` (`OneWriter`). The
inductive invariant `IInv` adds to the types that a job which reaches the
pipeline holds a transcript (otherwise the index could take version 0), and that
a job which rewrites a meeting, or will commit that it failed, owns its row
(`OwnsRow`). Two owners of one row cannot be, hence `OneWriter`.

On top of it: `IndexOfOneVersion`, `IndexIsCharged`, `ChargesEarned`,
`ReadyCoherent`, `IngestionImplementsStore`. What is committed is the owner's draft, so the invariant `RInv` says, for each step of the
pipeline, how the draft differs from the committed row: nothing but the status
after `mark`, the transcript too after `transcript`, then chunks, analytics, the
charge. It also says that the committed row does not change under the owner
except for its roster. The commit step then *is* `Publish`, `RecordFailure`,
`Register` or `Enrol`, and every other step stutters. `ChargesEarned` counts:
the successes of a meeting are a finite set that grows by one job at most in a
step, and a commit that adds a charge is the step that adds its job. `ReadyCoherent`
and the refinement assume `Script = {}`: with the rechunk script they are false,
as the run `rechunk_coherence` shows. The other theorems hold with scripts.

**`WebhookProofs`**: `TypeCorrect`, `NothingIsLost` (`AnsweredIsAccounted`),
`SentOncePerWindow` (`OncePerWindow`). What is answered was in a batch that was
worked off, and what was dropped as a duplicate was in the map: both are
accounted for, and accounts are never withdrawn. An event with a task in the
window has an entry at least as recent.

**`TenantPoolProofs`**: `TypeCorrect`, `MakesOnePool`, `FastPathNeverMisses`.
Who makes a pool holds the lock and has seen an empty cache since; only slots
evict, and a slot is alone in its process.

**`TenantAuthProofs`**: `TypeCorrect`, `NoStaleRefusal` (`RefusalsAreCurrent`),
`KeysExpire` (`WithdrawnKeysExpire`), `OnlyActiveServed` (`ServedWasActive`). The
properties speak of how requests end, so the invariant says what they have been
through: a fetch in hand holds keys no older than it is late (`FetchedAreFresh`;
without it a late store would break `WithdrawnKeysExpire`), a request past the
tenant check has a tenant that was active (`PassedWasActive`, from
`ActiveIsNoted` of rows and entries), and what a request missed was missing
while it ran (`MissesHeld`, which needs `HeldNow`: what is missing now has been
noted).

**`AccessProofs`**: `TypeCorrect`, `LoginsProvisionOnce` (`OneProvisioning`),
`OfficersStay` (`NoDemotion`), `RosterStays` (`ParticipantsStay`),
`RevocationsHold` (`RevokedStaysRevoked`), `ExcessIsBounded` (`CapWithinOverlap`).
`Sure(r)` is what a request has made sure of at each step: whom it changes is
registered, an officer it has read keeps the role, what it revokes was granted
when it looked. Rows of users never disappear, so the others stay sure
(`OthersAreSure`). The bound on the excess is an invariant of its own on top (the
cap itself, `CapHolds`, is false): officers and promotions in flight grow
together only by a `Count` that saw room, and then all but that request can be
promoting.

**`GraphCallsProofs`**: `TypeCorrect`, `ReportsHold` (`AnswersAreTrue`),
`SureFailuresAreEmpty` (`FailuresHaveNoEffect`). `Fine(c)` says of each reply
what it implies of the subscriptions the call touched; ids are never used twice,
so a subscription that is gone stays gone, whatever other calls do
(`OthersAreFine`).

**`ChatProofs`**: `TypeCorrect`, `AnswersStrayOnlyUnscoped` (`StraysOnlyUnscoped`),
`QuestionsAreTakenOnce` (`PendingIsTakenOnce`), `ClarifiesOnce`
(`NoClarifyLoop`), `ExpansionIsTold` (`ExpansionIsDisclosed`). Lemmas on
`ChatScope` come first: scopes are held, selections and candidates are within the
scope, an effective scope is within the selection or disclosed, handlers refer
to what they get; without a scope, what is found matches every title and date
that is named (`EffectiveUnscoped`), so the theorem covers the case in which the
answer does stray. The invariant carries this across the awaits (`Kept`), ties a
turn that is alone to the last intent it began with (`Solo`), and says that a
waiting question has a number that no turn replays (`Waiting`).

**`AlgorithmsProofs`**: `FusionKeepsRanks` (`FusionIsFaithful`),
`RetrievalIsEven` (`RetrievalIsDiverse`), `TranscriptsAreKept`
(`NothingSaidIsLost`), `LabelsAreClear` (`LabelsAreUnambiguous`),
`RepliesAreClear` (`RepliesAreUnambiguous`), for every list, transcript and set
of participants. What a loop computes for every input would need induction over
data, which the provers do not have; as state machines the loops need an
invariant each instead, and that is what `IInv` is.

- *Fusion.* `Precedence` is a strict total order on the found chunks (scores,
  then the order in which the dict met them, which is injective). Listing a
  finite set by the number of predecessors lists it once and in order
  (`SortedIsSorted`); a chunk that one signal puts first and the other does not
  put behind has the greater score, or an equal one and was met earlier.
- *Round robin.* `GroupsInv` says where every place is: waiting to be grouped,
  in the list of its meeting, in increasing order, or taken. `CyclesInv` is the
  heart: in the cycle after the first r, a meeting with chunks left has given
  r + 1 if its turn was, and r if not, and none has given more. When the loop
  ends in the middle of a cycle, or after one that took nothing, this leaves
  `Even`, and either `TopK` chunks or nothing left. `CardsInv` does the same for
  the cards and their cut.
- *Transcripts.* For each loop, what it has read is, once and in order, in what
  it has written (`CuesInv`, `TurnsInv`, `ChunksInv`). `BufferInv` ties
  `buf_words` to the blocks that were said in the buffer, and says that the
  buffer is at no cap: without it no chunk could be shown to have been within
  bounds before its last turn. A chunk was due before the turn that came next,
  which is in the buffer, or still to be taken, while the loop runs (`NextTurn`).
- *Names.* For every relation `Near` and every finite set of participants: one
  tier of several decides for one person: whoever else matched as
  well or better would be in the same set, or in one that was looked at before.

Only model-checked: liveness (`JobsEnd`, `EveryEventIsHandled`, `SlotsRecover`,
`CallsEnd`), since fairness and ENABLED are beyond the prover. No module has a
`RECURSIVE` operator, and no theorem rests on one that was not proved.

## 5. Not modelled, and why

- *Embedding and LLM clients, prompts, insight parsing*: remote calls and texts
  without state; the models that use them let them succeed or fail, and `Chat`
  lets the router decide anything.
- *Formatting of answers and listings*, the SQL rankings of the search, names,
  dates and texts: no property is about them. The rankings enter `Ranking` as
  any two ranked lists.
- *Sizes and timeouts of pools, the other lazily made singletons of `state.py`,
  `load_all` of the registry, billing tables*: library settings, code without a
  caller, tables that are only read.
- *Migrations, provisioning and developer scripts* run by hand, one at a time,
  on a schema; `rechunk_meeting.py`, which runs beside the service, is modelled.
- *Stub tasks and services* hold a comment and no code.

What could be added: two API processes, were the service deployed so (the
dedup map, the registry and the chat sessions are per process); an abstract
"who may read" that `Access` and `Chat` together implement; a chat session that
expires while a turn runs, once the store has an expiry.
