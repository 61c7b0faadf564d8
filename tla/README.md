# Hybrid-RAG in TLA+

TLA+ models of the Hybrid-RAG backend and frontend, TLC configurations that
check them on small instances, and TLAPS proofs of what holds on every
instance. Paths below are relative to the repository; `backend/app/` is
shortened to `app/`.

Parse, check and prove, inside this directory:

    tlasany IngestionQueue.tla
    tlc -workers 2 -config queue_reliable.cfg MCIngestionQueue
    tlapm IngestionQueueProofs.tla

Section 4 names the module and the configuration of every run, section 6 the
modules that hold proofs.

## 1. The system

A user uploads documents and asks questions about them. The API stores a file
and queues a job; worker processes turn files into chunks with embeddings; a
question is answered from the chunks that two searches find, by a language
model whose tokens are streamed to the browser. All processes meet in one
Postgres database; nothing else is shared but the upload directory.

| component | state it keeps | operations | correct when |
|---|---|---|---|
| job queue, `app/jobs/queue.py` | table `ingestion_jobs`: status, attempts, run_after, heartbeat_at | enqueue, claim_next, heartbeat, mark_succeeded, mark_failed, reap_stale_jobs, purge_old_jobs | one live job per document, one worker per job, bounded attempts, terminal rows stay, no job runs forever |
| worker, `app/jobs/worker.py` | the job in hand, a session with the rows it loaded, a heartbeat thread | loop: reap and purge at intervals, claim, run, sleep | a death at any point strands nothing |
| pipeline, `app/ingestion/pipeline.py` | `documents.status`, `.error`, `document_chunks` | begin, persist (atomic), fail | chunks, status and job tell one story |
| upload and delete, `app/api/routes/documents.py`, `app/stores/document_repository.py` | `documents`, files named by checksum and suffix | upload (create, re-queue a failed one), list, delete | every pending document gets a job, every document has its file, quotas hold |
| chat API, `app/api/routes/chat.py`, `app/stores/chat_repository.py` | `chat_sessions`, `chat_messages` | create, rename, delete session; ask; ask with stream | a stream ends with done or error; a done answer is stored; messages stay in turns |
| answer pipeline, `app/graph/*`, `app/generation/prompt.py`, `citations.py` | none | retrieve, truncate context, generate, cite | a number the model was shown is cited as the chunk it saw, and no other number |
| retrieval, `app/retrieval/*` | none | two searches, reciprocal rank fusion, diversity cap, rerank, hydrate | order, caps and backfill as stated; survives concurrent re-ingestion |
| chunker and loaders, `app/ingestion/chunker.py`, `loaders/*` | a window, a heading stack | sections to bounded windows | no text lost, windows bounded, heading paths right |
| rate limiter, `app/security/rate_limit.py` | attempts per key, under a lock | check, evict | never more than the limit in a window, memory bounded |
| accounts, `app/api/routes/auth.py`, `app/security/*` | `users` | register, log in, verify a token | one account per e-mail |
| LLM, embedder, tokenizer, searches, reranker | external services and neural models | | not ours: their outcomes are inputs |
| configuration, health, errors, observability, migrations, evaluation | none at run time | | |
| chat client, `frontend/src/hooks/useChat.js`, `api/client.js` | sessions, active session, messages, streaming answer | load, switch, send, remove; decode event-stream frames | what is shown belongs to the active session; no frame lost |
| document client, `frontend/src/hooks/useDocuments.js` | the list, a polling timer | refresh, upload, remove, poll | an old answer does not replace a newer one; polling ends |

How they interact. The API and the workers share only tables: the upload
handler *creates* a document and *enqueues* a job in two transactions; a worker
*claims* with `SELECT ... FOR UPDATE SKIP LOCKED` and commits, works outside any
lock, persists in one transaction, and marks the job in another. Every worker
also *reaps* jobs of other workers whose heartbeat is old. Deleting a document
cascades to its chunks and jobs at any of these points. The browser polls the
document list and reads answers as server-sent events.

What is hard. Nothing but the claim locks a row: reaper and failing worker
decide from rows their SQLAlchemy session loaded earlier and write them back by
id. A flush writes only the attributes that changed against the loaded values,
so two writers can combine into a row neither intended. Processes die between
any two commits. Two clocks, the heartbeat cutoff and the backoff, decide who
owns a job. `PROJECT.json` lists the hazards line by line.

## 2. Layout

Two components promise something to others, and each promise is a module of its
own: `IngestionLifecycle` (what an owner sees of a document) and `ChatTurns`
(what a client sees of a turn). The server side is shown to implement the
promise, the browser side is built on it and nothing else:

    IngestionQueue --implements--> IngestionLifecycle <--EXTENDS-- DocumentList
    ChatServer     --implements--> ChatTurns          <--EXTENDS-- ChatClient

`DocumentFiles`, `AnswerPipeline`, `Passages` and `Accounts` stand alone: they
meet the others in one table or one call, which the modules name. A module that
needs more than a configuration has an `MC` module, and a module with theorems
a `Proofs` module; what is true of the files on disk takes a history, which
`FileHistory` adds to `DocumentFiles`; the theorems about sequences, sums and
sorting that several modules need are in `OrdersProofs`:

    OrdersProofs <-- DocumentFilesProofs, ChatClientProofs, AnswerPipelineProofs

No module uses recursive operators, so that every module can be proved about:
loops are folds, or are given by what they select and in which order (`Orders`).

| module | models | built on |
|---|---|---|
| `IngestionLifecycle` | promise: the life of a document | |
| `IngestionQueue` | queue, workers, pipeline status, writes of upload and delete | |
| `DocumentFiles` | files on disk, duplicates, quotas, concurrent requests | |
| `FileHistory` | what has happened to the files: no code of its own | `DocumentFiles` |
| `DocumentList` | the browser's document panel | `IngestionLifecycle` |
| `ChatTurns` | promise: a turn, its events, what is kept | |
| `ChatServer` | the chat API and its transactions | |
| `ChatClient` | the browser's chat, its stream parser | `ChatTurns`, `Orders` |
| `Orders` | sorting a finite set, selecting places of a sequence | |
| `AnswerPipeline` | searches, fusion, hydration, selection, context, citations | `Orders` |
| `Passages` | loaders and chunker | |
| `Accounts` | limiters, auth handlers, sign-in of one tab | |

## 3. Modules and code

### `IngestionQueue`

One action is one database transaction, or one read whose result a later
transaction uses.

| variable | stands for |
|---|---|
| `doc[d]` | row of `documents`: status, does `error` hold text, do rows of `document_chunks` exist; `absent` before the upload, `deleted` after the delete |
| `job[j]` | row of `ingestion_jobs`: status, document, attempts, heartbeat_at (`null`, `fresh`, `stale`), has run_after passed; `gone` after purge or cascade |
| `pc[w]`, `task[w]` | where worker `w` is in `Worker.run` and the job it runs |
| `seen[w][j]` | the row of `j` as `w`'s session last loaded it. `expire_on_commit` is off, so it stays as it was; a rollback expires it |
| `req[r]` | an upload request between two of its transactions |
| `crashes`, `stalls` | counters for the bounds |

| action | code |
|---|---|
| `CreateDocument`, `FindFailed`, `RetryFailed`, `Enqueue`, `ApiFails` | `upload_document`, `_queue_ingestion`, `create_document`, `enqueue` |
| `DeleteDocument` | `delete_document` and the cascades |
| `ClaimNext` | `claim_next`, one transaction under a row lock |
| `BeginIngest`, `Persist`, `IngestFails` | `ingest_document`, `_persist`, the two kinds of failure |
| `RecordFailure`, `MarkSucceeded` | `mark_failed` and `mark_succeeded`, by the worker |
| `Heartbeat` | the thread of `Heartbeat` |
| `SelectStale`, `ReapOne`, `PurgeOldJobs` | `reap_stale_jobs` (select, then one `mark_failed` per row) and `purge_old_jobs` |
| `LoopError`, `Crash`, `Restart` | the `except` of `Worker.run`, a kill, the container's restart policy |
| `BeatExpires`, `Stall`, `BackoffElapses` | time |

`Flush` is the heart of it: SQLAlchemy writes, by primary key, the attributes
whose new value differs from the *loaded* one, and leaves the rest of the row
as other transactions made it.

Abstractions. `locked_by`, `last_error`, `duration_ms`, `request_id` are left
out: no statement decides from them. The claim takes any due job, since "oldest
due" depends on clocks. The reaper's interval and order are free. Reading and
writing the document row in `BeginIngest` is one step. A graceful shutdown
finishes the job in hand and so is the crash of an idle worker. A heartbeat
that lands after its job was released (the `join` timed out) is ignored. The
files, checksums, duplicate detection and quotas are in `DocumentFiles`: here
every upload of a new document gets a fresh row. What the chunks say is left
out.

### `IngestionLifecycle`

What the owner of a document is promised, with no worker or job in it: absent,
working, written, then ready or failed; deleted for good. `written` is READY
with the job still live: a crash there may redo the work. `IngestionQueue`
implements it under the refinement mapping `OwnerView`. `Safety` is what no step
may do, `Spec` adds what must happen in the end.

### `MCIngestionQueue`

The symmetry set, for runs that check only safety, and two bounds for the run
that checks liveness. `InOrder` takes unused ids in order: they are
interchangeable, so that the others only repeat behaviours. `Focus` keeps two
documents from having more than two jobs and requests between them; one document
may have all there are. It bounds what users begin (`CreateDocument`,
`FindFailed`) and nothing else, so that what is fair of `Next` is fair of the
bounded steps: no other action adds to what it counts.

### `IngestionQueueProofs`

The theorems about `IngestionQueue`, section 6: what holds under every fault;
who may touch a job while no live worker looks dead; the refinement.

### `DocumentFiles`

The upload and delete handlers again, this time with what `IngestionQueue`
leaves out: files, checksums, duplicate detection, quotas, and any number of
requests at a time. One action is one statement that another request can come
before or after: a query, a commit, a rename, an unlink.

| variable | stands for |
|---|---|
| `disk` | the files of `UPLOAD_DIR`: pairs of contents (the checksum) and suffix |
| `row[d]` | row of `documents`: owner, contents (checksum and, as a number, `byte_size`), suffix of `filename`, status; and the suffix of `file_path` of its live job |
| `req[r]` | a request: the statement it is at, its upload's contents and suffix, the document it has loaded. `r` is an owner and one of that owner's slots |

| action | code |
|---|---|
| `BeginUpload` | the pre-check of `_enforce_quota`; a refused request has no effect |
| `StoreUpload` | `_store_upload`, the rename to the final name |
| `FindExisting`, `RetryFailed` | `find_by_checksum` and what follows from it |
| `CheckQuota`, `TestInUse`, `Unlink` | the second `_enforce_quota`; `_discard_upload` |
| `CreateDocument`, `Enqueue` | `create_document` with its unique constraint; `_queue_ingestion` |
| `BeginDelete`, `DeleteDocument`, `TestInUse`, `Unlink` | `delete_document` |
| `EndJob` | the worker reads the file and the job ends, ready or failed |
| `ApiFails` | the process dies, or a statement raises, between two statements |

Abstractions. The staging file has a unique name, so no other request can see
it, and an upload over `MAX_UPLOAD_BYTES` leaves nothing but the file it
removes. The queue is `IngestionQueue`'s subject: here a job is live or not,
and ends once. The status `processing` is omitted, as the handlers only test
for `failed`. Ids of deleted documents are used again, but only once no request
remembers them, so that a finite set stands for unique ids.

Requests about the same contents overlap as they like, and `ApiFails` is
possible at any statement. `Serve` is what handlers that live do.

### `FileHistory`

`DocumentFiles` with three history variables, which are forgotten when contents
have left no file, document or request: `named`, the files that were stored;
`abandoned`, contents whose handler died while no document referred to their
file; `raced`, files that an upload had stored while another request was
between the in-use test and the unlink. They only watch: every step of
`DocumentFiles` is possible with them. The properties of the disk name them as
the only ways in which a file is lost or left over.

### `MCDocumentFiles`, `DocumentFilesProofs`

The symmetry set and a bound, `Focus`: either both owners upload the same
contents, the smallest (which always fit) or the largest (which never do), one
request each at a time; or one owner uploads what it likes, under one suffix,
with handlers that live. Owners meet only over contents they share, and different contents only in the
caps of one owner. The proofs are about `DocumentFiles` and `FileHistory` without bounds.

### `Orders`, and the `Proofs` modules

`Sorted` is `sort` of the code: the member at place i is the one with i - 1
before it. `Picked` is a comprehension with a condition, or a loop that appends
or skips. Each `Proofs` module has the theorems about the module it is named
for, section 6. `ChatServerProofs` is also about `ChatServer` as an
implementation of `ChatTurns`, `IngestionQueueProofs` about `IngestionQueue` as one of
`IngestionLifecycle`.

### `ChatTurns`, `ChatServer`

`ChatTurns` is the promise of the chat API: a turn is refused or answered; a
streamed answer is meta, tokens, then done, or error instead; it is kept before
it is reported, never kept and reported as failed; every turn ends. All but the
last is `Safety`; `Spec` adds the fairness.

`ChatServer` is the code. One action is one statement, or what the stream's
generator does between two yields.

| variable | stands for |
|---|---|
| `chat[s]` | row of `chat_sessions`: absent, untitled, titled, deleted |
| `rows[s]` | its rows of `chat_messages`: turn, role, `created_at` |
| `turn[t]` | a handler: the statement it is at, the title and history it has read, when its transaction began |
| `sent[t]` | the events its generator has yielded |
| `clock` | the last transaction that began |

| action | code |
|---|---|
| `CreateSession`, `DeleteSession` | the handlers, with the cascade |
| `Arrive`, `LoadSession` | `get_current_user` (the first statement), `_load_session` |
| `ReadHistory`, `Rename`, `StoreQuestion` | `_prepare_turn`: `recent_history`, `rename_session`, `add_message` |
| `Generate`, `StoreReply`, `Reply` | `query_session` |
| `OpenStream`, `NextPiece`, `EndOfPieces`, `StreamFails` | `event_stream` up to its last token; `GroqClient.stream` |
| `ReloadSession`, `StoreAnswer`, `SendDone` | `event_stream` after its try block |
| `Disconnect`, `Crash` | the client closes the connection; the process dies |

`created_at` defaults to `now()`, which in Postgres is the start of the
*transaction*, and the transcript is ordered by it. Whether answers follow their
questions is therefore decided by which statement opened a transaction: the
request's is opened by `get_current_user`, each commit ends one, and retrieval
opens that of the stream. The model stamps transactions, not statements.

### `ChatClient`

`useChat.js` and the stream parser of `client.js`, against `ChatTurns`. What
JavaScript does between two awaits is one action. A frame is two halves and a
chunk any number of halves, so every split at, inside or across frames occurs.
`loads` holds the calls of `listMessages` that are not answered: they arrive in
any order, and each replaces the messages, as `setMessages` does. `op` is a
`startSession` or `removeSession` in progress, with the `activeId` its closure
captured. Left out: the error banner. Bound: one such operation at a time.

### `DocumentList`

`useDocuments.js` with the guards of `DocumentPanel.jsx`, over documents that
live as `IngestionLifecycle` says. `fetching` and `answers` are the refreshes
the server has not answered, and the answers on their way; `calls` the uploads,
which may overlap because a drop is not disabled while one runs. Removing a
document that is listed but already deleted is answered 404, which the handler
catches without a refresh: nothing that is modelled changes, and it is left out.

`MCDocumentList` bounds what the user does: with more than one document there
are two calls at most, and two only while nothing is removed.

### `AnswerPipeline`

One action is one SELECT, or the pure code up to the next one. `store` changes
between any two: chunks appear all at once and go with their document. The
searches may return any order of what is committed, and the reranker any order
of what it is given; fusion (with scores over a common denominator), the
shortlist, hydration, the cap with its backfill, the context block and the
markers are computed as in the code. The loop of `enforce_document_diversity` is given by the
positions it selects: `Within` are those that find their document below the cap,
`Selected` the first `TopK` of them, `Backfilled` those and the first displaced
ones; the final sort is the order of `EnforceDiversity`. Abstraction: the code
divides floating point numbers, so scores closer than their rounding may tie
there.

### `Passages`, `MCPassages`

A document is read line by line, as both loaders do after extraction; a word is
known by its line and place, so that losing, repeating or moving one shows. The
Markdown actions are lines that are fences, headings or text; the PDF action
computes the level of a line from font sizes, table of contents, bold type and
length. `Chunk` is the whole chunker: units, hard splits, windows, overlap, the
merged rest.

### `Accounts`, `MCAccounts`

`hits` are the deques of both limiters; `handler[h]` is a request at one
statement of `register`, `login`, `logout` or `/auth/me`; `cookie`, `user`,
`checking` are the browser's. A handler reads the clock before it takes the
lock, as `check` does. `admitted`, `ordered`, `latest` and `lost` are history
variables for the properties: `admitted` is every attempt that was let through
since the key's last success, also those the deque has forgotten, and is kept
as long as no check overtook another (`ordered`). Two independent parts of the state are explored
in turn: either a tab is open, or time passes (`tabOpen`). All requests come
from one address; tokens do not expire within the model. A request may be lost before
or after it was served (`Fail`); a response cut short may have set the cookie
although the page never reads the answer.

## 4. Runs

Nine runs pass, three end in a counterexample.

| run | module | instance | shows |
|---|---|---|---|
| `queue_reliable` | `MCIngestionQueue` | 2 documents, 3 jobs, 2 workers, 2 requests, 2 attempts, 2 crashes, fair; two documents have 2 jobs and requests between them | `InFlightHasJob`, `OneWorkerPerDocument`, `ReadyHasNoError`, `TerminalIsFinal`, `NoJobRunsForever`, `ImplementsLifecycle` under the timing assumptions |
| `queue_faults` | `MCIngestionQueue` | 1 document, 3 jobs, 2 workers, 2 requests, 2 crashes, 2 stalls, dying uploads | `TypeOK`, `SucceededHasChunks`, and `AttemptsBounded` although a live worker loses its job |
| `files` | `MCDocumentFiles` | 2 owners, 2 requests at a time, of one owner or both, contents of 1, 2, 4, 5 and 9 bytes, caps of 2 documents and 8 bytes, 2 suffixes, handlers die anywhere | `HistoryTypeOK`, `JobHasFile`, `QuietDiskIsReferenced`, `CountOvershoot`, `BytesOvershoot` |
| `chat_server` | `ChatServer` | 1 session, 2 turns of either kind, 2 pieces, a window of 1 turn | order of transcripts, prompts that hold the past only, `ReportedIsKept`, `ImplementsTurns` |
| `chat_client` | `ChatClient` | 2 sessions, 1 turn of 1 piece in chunks of any size, 2 loads awaited | `FinishedIsWhole`, `SettledViewIsStored`, `PendingEnds` |
| `documents` | `MCDocumentList` | 2 documents in drops of one or both, 3 upload calls, 2 refreshes awaited | `ListIsCurrent`, `ListedWhileSending`, `PollingEnds` |
| `answer` | `AnswerPipeline` | 2 documents of 3 chunks, rankings of 3 and 2, shortlist of 4, top 3, 1 per document | `FusionRespectsAgreement`, `SelectionIsDiverse`, `WindowIsFull`, `ShownNumbersResolve` |
| `passages` | `MCPassages` | every document of up to 4 lines, 2 pages, 3 heading levels of which 2 are kept, 3 font sizes, sentences below, at and above the target | `SectionsAreLocated`, `NoTextIsLost`, `ChunkSizesBounded` |
| `accounts` | `MCAccounts` | 2 addresses, 2 handlers, 2 attempts in a window of 1 second, 1 tracked key, 2 seconds | `WindowBound`, `RefusalsAreDue`, `ViewMatchesCookie` |
| `upload_failure_strands` | `MCIngestionQueue` | 1 document, 1 upload that dies | violates `EventuallySettled` |
| `unlink_race` | `MCDocumentFiles` | 2 owners, 1 content | violates `UnlinkedOnlyUnreferenced` |
| `citations_unshown` | `AnswerPipeline` | as `answer` | violates `CitationsMatchContext` |

Every property of a passing run has a mutant: a plausible bug (a dropped guard,
an off-by-one, a missing reset) under which the same run finds it violated. The
mutants stand next to the definitions they replace.

### Queue

Deadlock is checked, since a worker can always look for stale jobs. The timing
assumptions are constants, so that a run can drop each:

- `MaxStalls = 0`: the heartbeat of a live worker never looks dead for
  `JOB_STALE_AFTER_SECONDS`. `queue.py:257-259` asks the operator for this.
- `SlowWriters = FALSE`: between a process reading a row and writing it back
  there is no room for 30 seconds of backoff, an ingestion, or a user who
  re-uploads (`TimeToReact`, `TimeToWork`). All runs keep this assumption; the
  theorem about `SucceededHasChunks` does without.
- `ApiMayFail = FALSE`: an upload handler is not killed between transactions.

Which property needs which was found by dropping them one at a time:
`SucceededHasChunks` needs none; `AttemptsBounded` needs `SlowWriters = FALSE`;
`OneWorkerPerDocument`, `ReadyHasNoError` and `TerminalIsFinal` also need
`MaxStalls = 0`; `InFlightHasJob` and `ImplementsLifecycle` need all
three, `NoJobRunsForever` needs `MaxStalls = 0`. `TerminalIsFinal` fails under a stall because the reaper selects without
a lock and writes later by id: a worker that beats late and finishes in between
has its succeeded job queued again. Without a stall too, a claim outlives its
worker: it is committed before the work starts, contrary to the comment at
`queue.py:18-19`.

Dropping them also shows what goes wrong, none of which a test reaches:

- a death between `_persist` and `mark_succeeded` sends the document back to
  PENDING with its chunks in place, while `models.py:127` says that a chunk
  exists only for a document that is searchable;
- after one stall, a worker that has persisted overwrites the requeued job by
  id: the job succeeded, the document is PENDING, nothing is queued
  (`worker.py:74` expects a retry at worst);
- a worker that lost its job and fails writes `heartbeat_at = NULL` over the
  claim of another; if that one dies, the row is never older than the cutoff
  and stays RUNNING (`queue.py:252` promises otherwise).

Bounds. Three jobs: the first fails for good, and two requests that found the
document failed then queue one each, so that two re-uploads of one document
overlap, one `Enqueue` is refused because the other's job is live already, and
a third job can follow it. Two workers, one to hold a job and one to reap or
steal it; two attempts, so that there is a first, a last, and a retry between;
two crashes, so that a job crashes on its last attempt too. A second document
because jobs of one may disturb another through a common worker, or a reaper
that has selected both: for that one job or request of each is enough.
`queue_faults` has one document.

`upload_failure_strands`: "an API restart mid-ingest cannot strand a document"
(`README.md:43`), but a death between `create_document` and `enqueue` leaves a
PENDING document that no job and no re-upload will ever process.

### Files

Deadlock is checked: some request can always begin or go on. Nothing orders the
requests, and handlers die anywhere; what this does to the files is in the
properties:

- `JobHasFile`: a live job finds its file, unless the file is in `raced`. In
  `unlink_race` a delete finds the checksum unused, another owner's upload stores
  the bytes and creates its document, the delete unlinks the file, and that
  document's job fails for good, while `README.md:221` says that a file is "only
  unlinked once no document anywhere references its checksum". There is no
  other way.
- `QuietDiskIsReferenced`: no file is left over, unless its handler died
  (`abandoned`), or the contents came under two suffixes (`named`): the file is
  named by checksum *and* suffix, contrary to `documents.py:63`, so that the bytes
  of a stored `.md` uploaded again as `.markdown` leave a second file that no delete
  unlinks.
- `CountOvershoot`, `BytesOvershoot`: the caps are exceeded when two uploads of
  one owner run side by side, by one upload per other request and no more. At the
  document cap the pre-check refuses the re-upload that `documents.py:137`
  recommends for a failed document.

Bounds. The contents `c` have `c` bytes. With caps of 2 documents and 8 bytes, what is stored
already decides: a third upload is refused at 1 + 2, one of 5 at 4 though it fits by
itself, and 9 never fits, so that every upload of it is discarded. A wrong
count reaches four documents, a wrong sum more than the overshoot. Two requests
at a time (`MaxActive`) is every race of two handlers; two slots let both be the
same owner's. Four document ids are enough that an upload never waits for one.

### Chat

`chat_server`: two turns are every race of two handlers; two pieces let an
error come before, between and after tokens; a history window of one turn cuts
a conversation of two. Turns end, so the run may stop: deadlock is not checked.
What it rests on was seen in the model: a stream whose session is deleted ends
without `done` or `error` (`cut`), unlike the sequence documented at
`chat.py:166-172`; `ChatTurns` promises no more. The answer to "is an answer ever listed before its question"
is no, because the commit of the question ends the older transaction.

`chat_client`: one turn, since the composer is disabled while one is pending;
two sessions and two loads, so that answers overtake each other. Without
`~disturbed`, `SettledViewIsStored` is false: two quick switches show one session's
messages under the other's title, and switching away during a stream loses the
question on screen. `disturbed` records exactly that: the user acted while
something was awaited, or the network failed.

`documents`: two documents, so that a drop has files still waiting while one is
sent, which is what `ListedWhileSending` is about; three calls, so that one drop
overlaps two others; two refreshes, so that an old list can arrive last. `ListIsCurrent` is stated without such an
overtaking because it is false with it: a stale answer without pending
documents stops the timer. That the timer ends at all is unconditional.

### Answers, passages, accounts

`answer`: three chunks per document and one per document allowed, so that the
cap displaces chunks and the backfill returns some; the shortlist is shorter
than what both searches find together; `MaxContext` makes the context block cut
one or two chunks. `ShownNumbersResolve`: a number that the model was shown
becomes a citation of the chunk it was shown under, whatever was dropped before.

`citations_unshown`: "markers that point outside the context block are dropped"
(`citations.py:3`; `README.md:117-119`: "validates every `[n]` marker the model
emitted against the context block that was actually sent"). They are validated
against all selected chunks (`citations.py:31`), so that the number of one for
which the context block had no room becomes a citation of a source the model
never saw. With the default settings that takes six snippets of
`MAX_SNIPPET_CHARS` (2,000), which with their labels exceed `MAX_CONTEXT_CHARS`
(12,000).

`passages`: three lines are a heading, its section and the next heading; the
fourth lets a section be split. The texts are an empty line, sentences below,
at and above the target, and one word above it. What the bound of
`ChunkSizesBounded` allows is reached: a chunk may exceed the target by the
overlap, and the merged last window repeats the overlap text it starts with.
A document ends, so deadlock is not checked.

`accounts`: two attempts so that a window can be partly used; three times so
that attempts expire one after another; one tracked key so that eviction
happens. `WindowBound` and `RefusalsAreDue` hold as long as threads take the lock in
the order in which they read the clock; otherwise an attempt stamped earlier
than one already recorded is dropped with it, and one with a late clock can
evict a key whose record an earlier one still needs. `ViewMatchesCookie` excludes
answers that were lost (`lost`): of a logout, after which the page forgets the
user while the cookie stays and the next reload signs in again; and of a sign-in
cut short after its headers, which leaves a cookie the page knows nothing of.

## 5. Fairness

Each is what the scheduling of the code gives; nothing is assumed of users,
failures, crashes or stalls.

`IngestionQueue!Fairness`:

- `SF(ClaimNext(w))`, `SF(SelectStale(w))`: each round of `Worker.run` tries a
  claim, and reaps once the reaper interval has passed; in between the worker
  is busy, so the actions are enabled again and again rather than continuously.
- `WF(WorkerStep(w))`: a worker that holds a job, or a list of stale ones, goes
  on; model calls and statements return or raise.
- `WF(Restart(w))`: `restart: unless-stopped` in `docker-compose.yml`.
- `WF(RequestStep(r))`: a handler that was not killed finishes.
- `WF(BeatExpires(j))`, `WF(BackoffElapses(j))`: time passes.

`ChatServer!FairSpec`: `WF(TurnStep(t))`, a handler goes on; statements return,
and the client of the language model has a timeout and bounded retries
(`llm.py:34-47`).

`ChatClient!ClientSpec`: what the server sent arrives or the read rejects
(`Read`), promises are settled (`Settle`), and the server ends its turns, which
is `ChatTurns`'s own fairness and thus what `ImplementsTurns` shows.

`DocumentList!ListFairness`: the timer ticks (`Poll`), answers arrive, a refresh is
not refused for ever (`SF(ServeList)`), and ingestion ends as
`IngestionLifecycle` says.

## 6. Proofs

The theorems hold for every value of the constants that satisfies the named
assumptions of the modules: any number of documents, jobs, workers, owners,
requests, sessions, turns, pieces, chunks, calls and seconds. Where a theorem
needs more (no stalls, no slow writers) it is an `ASSUME` of the theorem,
and named here. No fairness is used. `TypeCorrect`, in every module of theorems
but `OrdersProofs`, is the type invariant of the module it is about.

The safety halves of both refinements are proved, so that what section 2 draws
is, but for fairness, a theorem: `KeepsLifecycle` and `KeepsPromises`.

### Queue

The module assumptions: `NoDoc` and `NoJob` are no ids, `Jobs` is finite, the
bounds have their types.

| theorem | timing assumed | inductive invariant |
|---|---|---|
| `SucceededHasChunksAlways` | none | `SuccessInv` |
| `AttemptsBoundedAlways` | `~SlowWriters` | `RetryInv` |
| `OneWorkerPerDocumentAlways`, `ReadyHasNoErrorAlways`, `TerminalIsFinalAlways`, `KeepsLifecycle` | `MaxStalls = 0`, `~SlowWriters` | `ClaimsInv` |
| `InFlightHasJobAlways` | the same and `~ApiMayFail` | `ClaimsInv` and itself |

These assumptions are the ones the runs make, and each theorem is false without
its own (section 4, Queue; the safety of the lifecycle was tried the same way,
and TLC breaks it within a few steps under one stall or one slow writer): they
are conditions the operator is asked to keep, not conveniences of the proof.
`ClaimsInv` and `RetryInv` hold on the instances of the runs too.

Under every fault:

- **`TypeCorrect`**. One step per action; lemmas say what `SetDocumentStatus`,
  `ClaimedRow`, `FailedRow` and `MarkFailed` return.
- **`SucceededHasChunksAlways`**. The property alone is not inductive:
  `MarkSucceeded` writes from a row loaded long ago. `SuccessInv` adds that a
  worker that has persisted and whose job still exists has left chunks, and
  that the document it knows is the one of its job. What keeps this true is
  that nothing removes chunks but the delete, which removes the job too, and
  that rows are never reused. `FrameStep` covers the actions that leave chunks
  alone; `Enqueue`, `DeleteDocument`, `ClaimNext`, `Persist` and
  `MarkSucceeded` are argued in full.
- **`AttemptsBoundedAlways`**. A retry is decided from a snapshot that other
  processes may have outrun. `RetryInv` says that a snapshot from which
  `mark_failed` may decide counts the attempts the row counts, and that the job
  is not due meanwhile (`SnapshotsCount`): that is where `~SlowWriters` comes in.

While no live worker looks dead: `ClaimsInv` says for each job whose it is. A document has
one live job at most; a worker that holds a job has the row as it is, with a
fresh heartbeat, or the job went with its document (`HoldersKnow`,
`OneHolder`); a reaper that has selected a job finds it as it was or as another
reaper has left it (`SelectedKnown`), and no upload, worker or other job is
concerned with that document (`SelectedAlone`); nobody uploads again a document
whose worker is dead (`StaleUndisturbed`). The actions of a worker at its job
are one kind of step (`OwnStep`: a live job, its document and its worker, no
other row), a crash or a lost loop is another (`DropStep`), a reaper's write a
third (`ReapStep`); each kind is shown to keep the invariant once, and each
action to be of a kind. Requests, deletes, the claim, the selection and the
passing of time are argued one by one.

The refinement, `KeepsLifecycle`: every step is a step of
`IngestionLifecycle` or a stutter under `OwnerView`, by the same kinds, since each
moves one document at most (`ViewStep`). `InFlightHasJobAlways` is about the job
*or* the handler that will queue one, hence the additional assumption: a
handler that dies is the counterexample of `upload_failure_strands`.

### Files

`DocumentFilesProofs`. The module assumptions: `Slots`, `Docs` and the sizes of
uploads are finite, `NoDoc` and `NoSuffix` are none of the others' members, the caps are numbers, a
document may be stored at all.

- **`TypeCorrect`**.
- **`CountOvershootAlways`**. Documents alone are not inductive: a creation
  raises their number without looking at the cap. `CountInv` counts the owner's
  requests that have passed the check but not created their document yet. A
  request passes when there are fewer than `MaxDocuments` documents, and then
  at most all other slots are past their check; creating one trades a request
  for a document. Every step is of one of three kinds (`QuotaSteps`): no more of
  either, a request that passes, a creation.
- **`BytesOvershootAlways`**, by the same kinds. `BytesInv` adds the uploads that
  have passed the check to the bytes stored; each passed by itself, so it is
  within the cap. What a sum loses with a member, and what bounds it, are
  lemmas of `OrdersProofs`.
- **`HistoryTypeCorrect`**, **`JobHasFileAlways`**, **`QuietDiskAlways`**, about
  `FileHistory`, with no further assumption: any number of suffixes, every
  overlap, dying handlers.
  - A job gets its file's name long after the file was stored, and the unlink
    comes after the test. `HeldInv` adds what holds in between: a file an upload
    has stored is there until a job names it, and a file about to be unlinked
    is named by no job, both unless the two meet, which `raced` records
    (`Window`).
  - `FileInv` says that each file's contents are those of some document, or of a
    request that will create one or test whether to unlink, or `abandoned`, or
    under two names. The delete handler hands the responsibility from the row
    to itself, which needs that the row it deletes still has the contents it
    loaded. `named` is forgotten only with the last file, document and request.

### Chat

The module assumptions: `NoSession` is no session, the bounds are positive.

`ChatServerProofs`:

- **`TypeCorrect`**.
- **`AnswerAfterQuestionAlways`**, for clients that leave, crashes and deletions.
  The transcript alone says nothing of a turn under way. `OrderInv` does: no
  transaction began in the future, and once a turn has stored its question, the
  question is in the session, with a stamp older than the transaction now open,
  unless the session was deleted. Each step of a handler is shown to store
  nothing, the question, or the answer (`StepKinds`), and each kind to keep the
  invariant (`KindsKeep`).

As an implementation of `ChatTurns`: every action of a handler comes to one of nine kinds, from
`Prepares` and `Asks` to `Reports` and `Breaks`, and the theorems are about kinds:

- **`ReportedIsKeptAlways`**. What has been said is said over several steps, what
  has been stored in another. `TurnInv` ties the two to the statement a turn is
  at: which events it has sent (`EventsFit`), which of its messages exist
  (`StoredInOrder`), and that a turn past its last commit has its answer in the
  session for as long as that exists (`SuccessKept`).
- **`KeepsPromises`**: `Spec => ClientView!Safety`, kind by kind.
- **`HistoryIsPastAlways`**. The window of `recent_history` is cut by number, the
  promise is about time. `HistoryInv` adds that no two messages of a session
  have one stamp and that no open transaction will give one that exists
  (`StampsApart`); the lemma `FullWindow` says that a window that leaves a message
  out is full, so that nothing stored later can push a message into it.

### Clients

`DocumentListProofs` (`NoDoc` is no document, one refresh may be awaited):

- **`TypeCorrect`**.
- **`ListedWhileSendingAlways`**. `SendingInv` adds that only a call that is
  sending has files left, and that without an overlap one call at most is under
  way: what the panel says is then that call's.
- **`ListIsCurrentAlways`**. The property is about rest; `CurrentInv` is about
  what the panel will show when the last answer on its way has arrived
  (`Latest`), and needs that only while nobody will ask again (`NobodyAsks`): no
  refresh to be served, no call sending, no removal to be followed by one, and
  no pending document in that answer, which would start the timer.

`AccountsProofs` (`NoEmail` is no address, the limits are positive):

- **`TypeCorrect`**, which includes that no deque outgrows the allowance.
- **`ViewMatchesCookieAlways`**. `SignInInv` adds what each answer on its way is
  about (`Sound`): the tab awaits one at most, a granted request is an
  account's, and the session check was made with the cookie the browser still
  has.
- **`WindowBoundAlways`**, for every window, allowance and cap on tracked keys,
  evictions included. The deque alone knows too little: it has forgotten. `Tracks`
  relates it to the whole history: it is the end of the sequence of admitted
  attempts, which is in the order of time, and whatever precedes it has expired.
  Trimming, evicting, admitting and forgetting each keep this (`TrimmedTracks`,
  `EvictedTracks`, `AdmittedTracks`); any window of time that ends with the
  attempt let through then holds at most what the deque did.
- **`RefusalsAreDueAlways`**, an action property: by the same relation a refused
  key has as many unexpired attempts as allowed.

`ChatClientProofs` is about the browser on any server that keeps `ChatTurns`
(`MaxLoads` is positive, turns are numbered):

- **`TypeCorrect`**.
- **`FinishedIsWholeAlways`**, for streams of any length in chunks of any size. What is
  shown and what the server has are several steps apart. `BubblesTrue` relates
  them: a bubble marked as streaming holds exactly the tokens of the frames that
  have arrived whole (`Filling`), and an answer not so marked is the whole answer
  of a turn that did not fail (`Sound`), also in the lists of messages on their
  way. `TurnsInOrder` is what that needs of the server: the order of a turn's
  events.
- **`SettledViewIsStoredAlways`**. The property is about rest; `ViewAgrees` is about
  the one thing awaited before it: a load whose answer will agree, or a turn
  whose question is shown and belongs to the active session. A view agrees
  (`Agreeing`) if all of it belongs to the active session and it has every
  stored question, and every answer whose `done` was read.

### Answers

`AnswerPipelineProofs`. The module assumptions: documents are numbers, the limits
and weights are positive. `AnswerInv` adds to the types that a ranking repeats
nothing (`RankedOnce`), that what was found is still there unless a document was
removed meanwhile, and is lost but to the cut (`FoundIsThere`), and that the
context block is the beginning of the selection (`CitedIsSelected`).

- **`TypeCorrect`**.
- **`FusionRespectsAgreementAlways`**. Two chunks that both searches rank alike have
  scores in that order, because the better rank has the greater share of the
  same weight: a share is a quotient by the rank, and every rank divides the
  common denominator (`Denominator` is a product, followed factor by factor).
  Sorting then puts them in that order, and the cut keeps a beginning.
- **`SelectionIsDiverseAlways`**. The positions within the cap are, of each
  document, the first (`WithinTheCap`); if one document has more than the cap, the
  backfill took place, and so everything within the cap was selected.
- **`WindowIsFullAlways`**. The selection is as long as the ranking or `TopK`; the
  ranking as long as what was found or the shortlist.
- **`ShownNumbersResolveAlways`**. When answered, the citations are those of the
  markers within the selection, each of the place it numbers; the context block
  being a beginning of the selection, a number within it names the same chunk in both.

### Lemmas for all of them

`OrdersProofs`. The library's induction principles take a predicate as a
parameter, which the provers cannot instantiate. They are used here for sets
instead: `LeastNumber` (from the well-foundedness of finite sets), `Upwards` (a
set that has zero and every next number has all) and `SubsetsUpwards` (the same
for the subsets of a finite set). With these, what the recursive functions of
the community modules compute is proved once: `SortedPlaces`, `AscendingPlaces`
and `PickedPlaces` for `Orders`, `FlattenSteps` and `FlattenMembers` for
`FlattenSeq`, `SumInAnyOrder`, `SumWithout`, `SumOfFewer` and `SumBounded` for
`SumFunction`.

### Model-checked only

- Liveness (`NoJobRunsForever`, `PendingEnds`, `PollingEnds`), and with it the
  fairness halves of `ImplementsLifecycle` and `ImplementsTurns`: out of the
  prover's reach.
- `Passages`, its types included: `SectionsAreLocated`, `NoTextIsLost` and
  `ChunkSizesBounded` would each need an induction over a document that follows
  the loaders and the chunker line by line. The run checks them for every
  document of up to four lines.
- The three runs that end in a counterexample, which show that their properties
  are false.

## 7. Not modelled

`PROJECT.json` gives each component's status and reason.

- The neural models, SQL full-text and vector search, PDF text extraction,
  password hashing and token signing: libraries, whose outcomes are inputs.
- The connection pool. A stream suspended at a yield keeps its connection, and
  40 threads share 15 connections (`chat.py:192`); what happens then depends on
  sizes and timeouts that are configuration.
- Configuration, health probes, logging, request ids, timing: no state that
  decides anything at run time.
- Migrations: they run before the programs that are modelled.
- The evaluation harness: offline and sequential, over the functions that
  `AnswerPipeline` models.
- Layout and wording of the visual components; their guards are guards of the
  clients' actions.
