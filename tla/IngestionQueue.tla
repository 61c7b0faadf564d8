--------------------------- MODULE IngestionQueue ---------------------------
(***************************************************************************)
(* The ingestion job queue of the backend: the tables `documents` and      *)
(* `ingestion_jobs`, the worker processes that claim, run and reap jobs    *)
(* (jobs/worker.py, jobs/queue.py, ingestion/pipeline.py) and the part of  *)
(* the upload and delete handlers that writes these two tables             *)
(* (api/routes/documents.py).                                              *)
(*                                                                         *)
(* One action is one database transaction, or one read whose result is    *)
(* used by a later transaction.  Nothing in the code locks a row it has    *)
(* read: the reaper and a failing worker decide from a snapshot held in    *)
(* their SQLAlchemy session, and write the row back by id alone.           *)
(*                                                                         *)
(* Left out: locked_by, last_error, duration_ms and request_id, which no   *)
(* statement of the code decides from.  Time is abstract: run_after has    *)
(* passed or not, heartbeat_at is NULL, younger or older than the cutoff.  *)
(***************************************************************************)
EXTENDS Naturals, FiniteSets

CONSTANTS
  Docs,        \* ids of document rows (uuid4: never reused after a delete)
  Jobs,        \* ids of job rows (uuid4)
  Workers,     \* worker processes
  Requests,    \* concurrent upload requests of the API
  NoDoc,       \* "no document"
  NoJob,       \* "no job"
  MaxAttempts, \* JOB_MAX_ATTEMPTS, copied to every job row
  MaxCrashes,  \* bound: worker crashes and loop errors in one behaviour
  MaxStalls,   \* bound: times the heartbeat of a LIVE worker goes stale
  SlowWriters, \* may a backoff, an ingestion or a user's re-upload fit
               \* between a process reading a row and writing it back?
  ApiMayFail   \* may an upload handler die between its transactions?

ASSUME DocsAssumption == NoDoc \notin Docs
ASSUME JobsAssumption == NoJob \notin Jobs /\ IsFiniteSet(Jobs)
ASSUME BoundsAssumption ==
  /\ MaxAttempts \in Nat \ {0}
  /\ MaxCrashes \in Nat
  /\ MaxStalls \in Nat
  /\ SlowWriters \in BOOLEAN
  /\ ApiMayFail \in BOOLEAN

VARIABLES
  doc,      \* doc[d]: the row of document d
  job,      \* job[j]: the row of job j
  pc,       \* pc[w]: where worker w is in Worker.run
  task,     \* task[w]: the job w is running
  seen,     \* seen[w][j]: the row of j as w's session last loaded it
  req,      \* req[r]: where upload request r is, and its document
  crashes,  \* crashes and loop errors so far
  stalls    \* lapses of a live worker's heartbeat so far

vars == <<doc, job, pc, task, seen, req, crashes, stalls>>

-----------------------------------------------------------------------------
(* Rows *)

Live == {"queued", "running"}
Terminal == {"succeeded", "dead"}
InFlight == {"pending", "processing"}
Stored == InFlight \cup {"ready", "failed"}

DocRow == [status : Stored \cup {"absent", "deleted"},
           chunks : BOOLEAN,   \* rows of document_chunks exist
           error  : BOOLEAN]   \* documents.error is not NULL

JobRow == [status   : Live \cup Terminal \cup {"none", "gone"},
           doc      : Docs \cup {NoDoc},
           attempts : Nat,
           beat     : {"null", "fresh", "stale"},
           due      : BOOLEAN]

NoRow == [status |-> "none", doc |-> NoDoc, attempts |-> 0,
          beat |-> "null", due |-> FALSE]
Gone == [NoRow EXCEPT !.status = "gone"]

Exists(j) == job[j].status \in Live \cup Terminal
LiveJobOf(d) == {j \in Jobs : job[j].doc = d /\ job[j].status \in Live}

\* Between claim_next and the end of _run_job a worker holds a job, and its
\* Heartbeat thread runs.
Working == {"claimed", "ingesting", "persisted", "failing", "rejecting"}
HeldBy(j) == {w \in Workers : pc[w] \in Working /\ task[w] = j}

\* A reaper, or a worker recording a failure, has read a job row of document
\* d and not written it back yet.
FailurePending(d) ==
  \E w \in Workers : /\ pc[w] \in {"reaping", "failing", "rejecting"}
                     /\ \E j \in Jobs : seen[w][j].doc = d

\* An upload handler is between two of its transactions on document d.
UploadPending(d) == \E r \in Requests : req[r].doc = d

\* Assumption on speed: the seconds of an ingestion, 30 seconds of backoff, 300
\* of staleness and a user's reaction are enough for such steps to land first.
TimeToReact(d) == SlowWriters \/ ~FailurePending(d)
TimeToWork(d) == SlowWriters \/ ~(FailurePending(d) \/ UploadPending(d))

Nothing == [j \in Jobs |-> NoRow]
Idle == [pc |-> "idle", doc |-> NoDoc]

Init ==
  /\ doc = [d \in Docs |-> [status |-> "absent", chunks |-> FALSE, error |-> FALSE]]
  /\ job = [j \in Jobs |-> NoRow]
  /\ pc = [w \in Workers |-> "idle"]
  /\ task = [w \in Workers |-> NoJob]
  /\ seen = [w \in Workers |-> Nothing]
  /\ req = [r \in Requests |-> Idle]
  /\ crashes = 0
  /\ stalls = 0

-----------------------------------------------------------------------------
(* What the ORM and the queue write *)

\* Mutant: the error of the previous attempt is never cleared.
SetDocumentStatusKeepingError(d, status, error) ==
  IF doc[d].status \in Stored
  THEN [doc EXCEPT ![d].status = status, ![d].error = error \/ doc[d].error]
  ELSE doc

\* _set_document_status: an UPDATE by id, whatever the row holds by now.  It
\* matches no row once the document is deleted.
SetDocumentStatus(d, status, error) ==
  IF doc[d].status \in Stored
  THEN [doc EXCEPT ![d].status = status, ![d].error = error]
  ELSE doc

\* A flush writes, by id, the attributes whose new value differs from the
\* value the session loaded; the others keep what the row holds by now.
Flush(row, loaded, new) ==
  [row EXCEPT
     !.status = IF new.status = loaded.status THEN row.status ELSE new.status,
     !.beat   = IF new.beat = loaded.beat THEN row.beat ELSE new.beat]

\* Mutant: off by one, MaxAttempts retries after the first attempt.
RetriesOnceMore(loaded, permanent) ==
  ~permanent /\ loaded.attempts <= MaxAttempts

Retries(loaded, permanent) ==
  ~permanent /\ loaded.attempts < MaxAttempts

\* Mutant: a job that is given up gets a status the enumeration lacks.
FailedRowPlainFailed(row, loaded, permanent) ==
  LET retry == Retries(loaded, permanent)
      new == [loaded EXCEPT !.status = IF retry THEN "queued" ELSE "failed",
                            !.beat = "null"]
  IN  [Flush(row, loaded, new) EXCEPT !.due = IF retry THEN FALSE ELSE row.due]

\* The row mark_failed leaves, decided from the row its session loaded.
\* run_after is a new timestamp, so a retry always writes it.
FailedRow(row, loaded, permanent) ==
  LET retry == Retries(loaded, permanent)
      new == [loaded EXCEPT !.status = IF retry THEN "queued" ELSE "dead",
                            !.beat = "null"]
  IN  [Flush(row, loaded, new) EXCEPT !.due = IF retry THEN FALSE ELSE row.due]

\* The partial unique index uq_ingestion_jobs_active_document.
ViolatesIndex(j, row) ==
  /\ row.status \in Live
  /\ \E k \in Jobs \ {j} : job[k].doc = row.doc /\ job[k].status \in Live

\* mark_failed commits unless its UPDATE matches no row (StaleDataError,
\* ObjectDeletedError) or violates the index (IntegrityError).
CanMarkFailed(j, loaded, permanent) ==
  /\ Exists(j)
  /\ ~ViolatesIndex(j, FailedRow(job[j], loaded, permanent))

\* Mutant: the document goes back to PENDING although the job is dead.
MarkFailedAlwaysPending(j, loaded, permanent) ==
  /\ job' = [job EXCEPT ![j] = FailedRow(@, loaded, permanent)]
  /\ doc' = SetDocumentStatus(loaded.doc, "pending", TRUE)

MarkFailed(j, loaded, permanent) ==
  /\ job' = [job EXCEPT ![j] = FailedRow(@, loaded, permanent)]
  /\ doc' = SetDocumentStatus(loaded.doc,
                IF Retries(loaded, permanent) THEN "pending" ELSE "failed", TRUE)

-----------------------------------------------------------------------------
(* The upload and delete handlers *)

\* Bound: an upload starts only while job ids are left for every request.
JobsLeft == Cardinality({j \in Jobs : job[j] = NoRow})
              > Cardinality({r \in Requests : req[r] # Idle})

\* create_document: the first of the two transactions of a new upload.
CreateDocument(r, d) ==
  /\ req[r] = Idle
  /\ doc[d].status = "absent"
  /\ JobsLeft
  /\ doc' = [doc EXCEPT ![d].status = "pending"]
  /\ req' = [req EXCEPT ![r] = [pc |-> "queueing", doc |-> d]]
  /\ UNCHANGED <<job, pc, task, seen, crashes, stalls>>

\* Mutant: a document that is ready is queued again, too.
FindSettled(r, d) ==
  /\ req[r] = Idle
  /\ doc[d].status \in {"failed", "ready"}
  /\ JobsLeft
  /\ TimeToReact(d)
  /\ req' = [req EXCEPT ![r] = [pc |-> "retrying", doc |-> d]]
  /\ UNCHANGED <<doc, job, pc, task, seen, crashes, stalls>>

\* A re-upload of the same bytes finds the document FAILED ...
FindFailed(r, d) ==
  /\ req[r] = Idle
  /\ doc[d].status = "failed"
  /\ JobsLeft
  /\ TimeToReact(d)
  /\ req' = [req EXCEPT ![r] = [pc |-> "retrying", doc |-> d]]
  /\ UNCHANGED <<doc, job, pc, task, seen, crashes, stalls>>

\* ... and sets it PENDING, whatever it is by now; a deleted one is a 500.
RetryFailed(r) ==
  /\ req[r].pc = "retrying"
  /\ LET d == req[r].doc IN
       \/ /\ doc[d].status \in Stored
          /\ doc' = SetDocumentStatus(d, "pending", FALSE)
          /\ req' = [req EXCEPT ![r].pc = "queueing"]
       \/ /\ doc[d].status \notin Stored
          /\ req' = [req EXCEPT ![r] = Idle]
          /\ UNCHANGED doc
  /\ UNCHANGED <<job, pc, task, seen, crashes, stalls>>

\* enqueue, in a transaction of its own.  The handler swallows every
\* IntegrityError: a live job exists, or the document is gone.
Enqueue(r) ==
  /\ req[r].pc = "queueing"
  /\ LET d == req[r].doc IN
       IF doc[d].status \in Stored /\ LiveJobOf(d) = {}
       THEN \E j \in Jobs :
              /\ job[j] = NoRow
              /\ job' = [job EXCEPT ![j] =
                    [NoRow EXCEPT !.status = "queued", !.doc = d, !.due = TRUE]]
       ELSE UNCHANGED job
  /\ req' = [req EXCEPT ![r] = Idle]
  /\ UNCHANGED <<doc, pc, task, seen, crashes, stalls>>

\* The API process dies, or the database refuses the next statement.
ApiFails(r) ==
  /\ ApiMayFail
  /\ req[r] # Idle
  /\ req' = [req EXCEPT ![r] = Idle]
  /\ UNCHANGED <<doc, job, pc, task, seen, crashes, stalls>>

\* Chunks and jobs go with the document (ON DELETE CASCADE).
DeleteDocument(d) ==
  /\ doc[d].status \in Stored
  /\ doc' = [doc EXCEPT ![d] = [status |-> "deleted", chunks |-> FALSE, error |-> FALSE]]
  /\ job' = [j \in Jobs |-> IF job[j].doc = d THEN Gone ELSE job[j]]
  /\ UNCHANGED <<pc, task, seen, req, crashes, stalls>>

-----------------------------------------------------------------------------
(* A worker running one job *)

Load(w, j, row) == seen' = [seen EXCEPT ![w] = [Nothing EXCEPT ![j] = row]]

\* The session is closed and the job forgotten.
Release(w) ==
  /\ pc' = [pc EXCEPT ![w] = "idle"]
  /\ task' = [task EXCEPT ![w] = NoJob]
  /\ seen' = [seen EXCEPT ![w] = Nothing]

\* The row that the UPDATE of claim_next leaves.
ClaimedRow(row) ==
  [row EXCEPT !.status = "running", !.attempts = @ + 1, !.beat = "fresh"]

\* Mutant: the claim does not look at the status.
ClaimAnyDue(w) ==
  /\ pc[w] = "idle"
  /\ \E j \in Jobs :
       /\ Exists(j)
       /\ job[j].due
       /\ job' = [job EXCEPT ![j] = ClaimedRow(@)]
       /\ doc' = SetDocumentStatus(job[j].doc, "processing", FALSE)
       /\ Load(w, j, ClaimedRow(job[j]))
       /\ task' = [task EXCEPT ![w] = j]
  /\ pc' = [pc EXCEPT ![w] = "claimed"]
  /\ UNCHANGED <<req, crashes, stalls>>

\* claim_next.  Which due job is oldest depends on clocks: any due job.
ClaimNext(w) ==
  /\ pc[w] = "idle"
  /\ \E j \in Jobs :
       /\ job[j].status = "queued"
       /\ job[j].due
       /\ job' = [job EXCEPT ![j] = ClaimedRow(@)]
       /\ doc' = SetDocumentStatus(job[j].doc, "processing", FALSE)
       /\ Load(w, j, ClaimedRow(job[j]))
       /\ task' = [task EXCEPT ![w] = j]
  /\ pc' = [pc EXCEPT ![w] = "claimed"]
  /\ UNCHANGED <<req, crashes, stalls>>

DocOf(w) == seen[w][task[w]].doc

\* ingest_document up to its try block.  Without the document the job row is
\* gone too, and mark_failed raises in turn: the error ends in Worker.run.
BeginIngest(w) ==
  /\ pc[w] = "claimed"
  /\ IF doc[DocOf(w)].status \in Stored
     THEN /\ doc' = SetDocumentStatus(DocOf(w), "processing", FALSE)
          /\ pc' = [pc EXCEPT ![w] = "ingesting"]
          /\ UNCHANGED <<task, seen>>
     ELSE Release(w) /\ UNCHANGED doc
  /\ UNCHANGED <<job, req, crashes, stalls>>

\* _persist: old chunks out, new chunks in and READY, in one transaction.
\* The error column is not written: this session already loaded it as NULL.
Persist(w) ==
  /\ pc[w] = "ingesting"
  /\ doc[DocOf(w)].status \in Stored
  /\ TimeToWork(DocOf(w))
  /\ doc' = [doc EXCEPT ![DocOf(w)].status = "ready", ![DocOf(w)].chunks = TRUE]
  /\ pc' = [pc EXCEPT ![w] = "persisted"]
  /\ UNCHANGED <<job, task, seen, req, crashes, stalls>>

\* Mutant: the exception is swallowed and ingest_document returns normally.
IngestReturnsAnyway(w) ==
  /\ pc[w] = "ingesting"
  /\ pc' = [pc EXCEPT ![w] = "persisted"]
  /\ UNCHANGED <<doc, job, task, seen, req, crashes, stalls>>

\* The try block of ingest_document raises: a domain error is permanent, any
\* other is not.  The rollback expires the session, so mark_failed first
\* loads the job row again; a deleted row raises once more.
IngestFails(w) ==
  /\ pc[w] = "ingesting"
  /\ IF Exists(task[w])
     THEN /\ \E p \in {"failing", "rejecting"} : pc' = [pc EXCEPT ![w] = p]
          /\ Load(w, task[w], job[task[w]])
          /\ UNCHANGED task
     ELSE Release(w)
  /\ UNCHANGED <<doc, job, req, crashes, stalls>>

\* mark_failed by the worker itself.
RecordFailure(w) ==
  /\ pc[w] \in {"failing", "rejecting"}
  /\ LET j == task[w]
         permanent == pc[w] = "rejecting"
     IN  IF CanMarkFailed(j, seen[w][j], permanent)
         THEN MarkFailed(j, seen[w][j], permanent)
         ELSE UNCHANGED <<doc, job>>
  /\ Release(w)
  /\ UNCHANGED <<req, crashes, stalls>>

\* mark_succeeded, from the row loaded at the claim.
MarkSucceeded(w) ==
  /\ pc[w] = "persisted"
  /\ LET j == task[w]
         new == [seen[w][j] EXCEPT !.status = "succeeded", !.beat = "null"]
     IN  job' = IF Exists(j)
                THEN [job EXCEPT ![j] = Flush(@, seen[w][j], new)]
                ELSE job
  /\ Release(w)
  /\ UNCHANGED <<doc, req, crashes, stalls>>

\* heartbeat: one column, by id, whatever became of the job.
Heartbeat(w) ==
  /\ pc[w] \in Working
  /\ Exists(task[w])
  /\ job[task[w]].beat # "fresh"
  /\ job' = [job EXCEPT ![task[w]].beat = "fresh"]
  /\ UNCHANGED <<doc, pc, task, seen, req, crashes, stalls>>

-----------------------------------------------------------------------------
(* The reaper: reap_stale_jobs, then purge_old_jobs, between two jobs *)

\* Mutant: the reaper selects every running job, whatever its heartbeat.
SelectRunning(w) ==
  /\ pc[w] = "idle"
  /\ pc' = [pc EXCEPT ![w] = "reaping"]
  /\ seen' = [seen EXCEPT ![w] =
       [j \in Jobs |-> IF job[j].status = "running" THEN job[j] ELSE NoRow]]
  /\ UNCHANGED <<doc, job, task, req, crashes, stalls>>

\* Mutant: a job on its last attempt is not selected.
SelectRetryable(w) ==
  /\ pc[w] = "idle"
  /\ pc' = [pc EXCEPT ![w] = "reaping"]
  /\ seen' = [seen EXCEPT ![w] =
       [j \in Jobs |-> IF /\ job[j].status = "running" /\ job[j].beat = "stale"
                          /\ job[j].attempts < MaxAttempts
                       THEN job[j] ELSE NoRow]]
  /\ UNCHANGED <<doc, job, task, req, crashes, stalls>>

SelectStale(w) ==
  /\ pc[w] = "idle"
  /\ pc' = [pc EXCEPT ![w] = "reaping"]
  /\ seen' = [seen EXCEPT ![w] =
       [j \in Jobs |-> IF job[j].status = "running" /\ job[j].beat = "stale"
                       THEN job[j] ELSE NoRow]]
  /\ UNCHANGED <<doc, job, task, req, crashes, stalls>>

\* mark_failed of one selected job; an error abandons the rest of the pass.
ReapOne(w) ==
  /\ pc[w] = "reaping"
  /\ \E j \in Jobs :
       /\ seen[w][j] # NoRow
       /\ IF CanMarkFailed(j, seen[w][j], FALSE)
          THEN /\ MarkFailed(j, seen[w][j], FALSE)
               /\ seen' = [seen EXCEPT ![w][j] = NoRow]
               /\ UNCHANGED <<pc, task>>
          ELSE Release(w) /\ UNCHANGED <<doc, job>>
  /\ UNCHANGED <<req, crashes, stalls>>

\* Which terminal jobs are past the retention window: any set of them.
PurgeOldJobs(w) ==
  /\ pc[w] = "reaping"
  /\ seen[w] = Nothing
  /\ \E old \in SUBSET {j \in Jobs : job[j].status \in Terminal} :
       job' = [j \in Jobs |-> IF j \in old THEN Gone ELSE job[j]]
  /\ Release(w)
  /\ UNCHANGED <<doc, req, crashes, stalls>>

-----------------------------------------------------------------------------
(* Faults and time *)

\* The database refuses a statement: the error reaches the loop of
\* Worker.run, which drops the job in hand and carries on.
LoopError(w) ==
  /\ pc[w] \in Working \cup {"reaping"}
  /\ crashes < MaxCrashes
  /\ crashes' = crashes + 1
  /\ Release(w)
  /\ UNCHANGED <<doc, job, req, stalls>>

\* SIGKILL, power loss; a graceful shutdown is a crash of an idle worker.
Crash(w) ==
  /\ pc[w] # "down"
  /\ crashes < MaxCrashes
  /\ crashes' = crashes + 1
  /\ pc' = [pc EXCEPT ![w] = "down"]
  /\ task' = [task EXCEPT ![w] = NoJob]
  /\ seen' = [seen EXCEPT ![w] = Nothing]
  /\ UNCHANGED <<doc, job, req, stalls>>

Restart(w) ==
  /\ pc[w] = "down"
  /\ pc' = [pc EXCEPT ![w] = "idle"]
  /\ UNCHANGED <<doc, job, task, seen, req, crashes, stalls>>

\* JOB_STALE_AFTER_SECONDS pass and nobody beats for j.
BeatExpires(j) ==
  /\ job[j].status = "running"
  /\ job[j].beat = "fresh"
  /\ HeldBy(j) = {}
  /\ TimeToWork(job[j].doc)
  /\ job' = [job EXCEPT ![j].beat = "stale"]
  /\ UNCHANGED <<doc, pc, task, seen, req, crashes, stalls>>

\* The same although a live worker holds j: its heartbeat thread failed,
\* starved, or lost the database for that long.
Stall(j) ==
  /\ job[j].status = "running"
  /\ job[j].beat = "fresh"
  /\ HeldBy(j) # {}
  /\ stalls < MaxStalls
  /\ stalls' = stalls + 1
  /\ job' = [job EXCEPT ![j].beat = "stale"]
  /\ UNCHANGED <<doc, pc, task, seen, req, crashes>>

\* run_after passes.
BackoffElapses(j) ==
  /\ job[j].status = "queued"
  /\ ~job[j].due
  /\ TimeToWork(job[j].doc)
  /\ job' = [job EXCEPT ![j].due = TRUE]
  /\ UNCHANGED <<doc, pc, task, seen, req, crashes, stalls>>

-----------------------------------------------------------------------------

\* The steps a worker process takes once it holds something.
WorkerStep(w) ==
  \/ BeginIngest(w) \/ Persist(w) \/ IngestFails(w)
  \/ RecordFailure(w) \/ MarkSucceeded(w)
  \/ ReapOne(w) \/ PurgeOldJobs(w)

RequestStep(r) == RetryFailed(r) \/ Enqueue(r)

Next ==
  \/ \E r \in Requests, d \in Docs : CreateDocument(r, d) \/ FindFailed(r, d)
  \/ \E r \in Requests : RequestStep(r) \/ ApiFails(r)
  \/ \E d \in Docs : DeleteDocument(d)
  \/ \E w \in Workers : \/ ClaimNext(w) \/ WorkerStep(w) \/ Heartbeat(w)
                        \/ SelectStale(w) \/ LoopError(w)
                        \/ Crash(w) \/ Restart(w)
  \/ \E j \in Jobs : BeatExpires(j) \/ Stall(j) \/ BackoffElapses(j)

Spec == Init /\ [][Next]_vars

\* Every iteration of Worker.run tries a claim, and reaps once the reaper
\* interval has passed; in between the worker is busy (strong fairness).
\* Processes are restarted, run_after and the staleness cutoff pass.
Fairness ==
  /\ \A w \in Workers : /\ SF_vars(ClaimNext(w))
                        /\ SF_vars(SelectStale(w))
                        /\ WF_vars(WorkerStep(w))
                        /\ WF_vars(Restart(w))
  /\ \A r \in Requests : WF_vars(RequestStep(r))
  /\ \A j \in Jobs : WF_vars(BeatExpires(j)) /\ WF_vars(BackoffElapses(j))

FairSpec == Spec /\ Fairness

-----------------------------------------------------------------------------
(* Properties *)

\* The types of all variables.
TypeOK ==
  /\ doc \in [Docs -> DocRow]
  /\ job \in [Jobs -> JobRow]
  /\ pc \in [Workers -> Working \cup {"idle", "reaping", "down"}]
  /\ task \in [Workers -> Jobs \cup {NoJob}]
  /\ seen \in [Workers -> [Jobs -> JobRow]]
  /\ req \in [Requests -> [pc : {"idle", "retrying", "queueing"},
                           doc : Docs \cup {NoDoc}]]
  /\ crashes \in Nat
  /\ stalls \in Nat

\* A job that says "succeeded" has left the chunks of its document in the
\* database, whoever else touched the two rows meanwhile (queue.py:4-6: no
\* split brain between a job and its document).
SucceededHasChunks ==
  \A j \in Jobs : job[j].status = "succeeded" => doc[job[j].doc].chunks

\* What makes SucceededHasChunks inductive: uploads and jobs belong to
\* documents, a worker knows the document of its job (which is never a fresh
\* row), and a worker that has persisted has left chunks unless its job is gone.
SuccessInv ==
  /\ \A r \in Requests : req[r].pc # "idle" => req[r].doc \in Docs
  /\ \A j \in Jobs : Exists(j) => job[j].doc \in Docs
  /\ \A w \in Workers : pc[w] \in Working =>
       /\ task[w] \in Jobs
       /\ job[task[w]].status # "none"
       /\ Exists(task[w]) => DocOf(w) = job[task[w]].doc
  /\ \A w \in Workers :
       pc[w] = "persisted" /\ Exists(task[w]) => doc[DocOf(w)].chunks
  /\ SucceededHasChunks

\* Every document that the user sees as in flight has somebody who will move
\* it: a live job, or a request about to queue one (queue.py:6-7, README 44).
InFlightHasJob ==
  \A d \in Docs : doc[d].status \in InFlight =>
     \/ LiveJobOf(d) # {}
     \/ \E r \in Requests : req[r].doc = d /\ req[r].pc = "queueing"

\* Exactly-one-worker semantics (queue.py:8): two workers never run jobs of
\* one document at a time.
OneWorkerPerDocument ==
  \A v, w \in Workers :
     v # w /\ pc[v] \in Working /\ pc[w] \in Working
       => DocOf(v) # DocOf(w) \/ doc[DocOf(v)].status = "deleted"

\* Retries stop at JOB_MAX_ATTEMPTS (queue.py:23-25).
AttemptsBounded == \A j \in Jobs : job[j].attempts <= MaxAttempts

\* "Queued and running are live states; succeeded and dead are terminal"
\* (models.py:55): a terminal row changes in no column that matters again,
\* except that it is purged or goes with its document.
TerminalIsFinal ==
  [][\A j \in Jobs : job[j].status \in Terminal
       => job'[j].status \in {job[j].status, "gone"}]_vars

\* A READY document carries no error of an attempt that did not finish.
ReadyHasNoError ==
  \A d \in Docs : doc[d].status = "ready" => doc[d].chunks /\ ~doc[d].error

\* Every document in flight is eventually ready, failed, or deleted: no crash
\* strands it (queue.py:16).
EventuallySettled ==
  \A d \in Docs : doc[d].status \in InFlight ~> doc[d].status \notin InFlight

\* The reaper frees every job whose worker is gone: no job stays RUNNING
\* forever (queue.py:252-255).
NoJobRunsForever ==
  \A j \in Jobs : job[j].status = "running" ~> job[j].status # "running"

\* What the owner of the documents sees of all this.  READY while the job is
\* still live is "written": mark_succeeded has not run yet.
OwnerView(d) ==
  CASE doc[d].status \in InFlight -> "working"
    [] doc[d].status = "ready" /\ LiveJobOf(d) # {} -> "written"
    [] OTHER -> doc[d].status

Lifecycle == INSTANCE IngestionLifecycle WITH
               state <- [d \in Docs |-> OwnerView(d)]

\* The queue implements the lifecycle: a document recorded as ready, or
\* failed, changes only when its owner re-uploads or deletes it, and work on
\* one comes to an end.
ImplementsLifecycle == Lifecycle!Spec
=============================================================================
