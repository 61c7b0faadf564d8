------------------------ MODULE IngestionQueueProofs ------------------------
(***************************************************************************)
(* Theorems about IngestionQueue, for all values of its constants: its     *)
(* types and counters; who may touch a job, while no worker stalls past    *)
(* its heartbeat; and that it implements IngestionLifecycle.               *)
(***************************************************************************)
EXTENDS IngestionQueue, TLAPS

-----------------------------------------------------------------------------
(* The rows that the operators build have the types of rows. *)

\* The row constants are rows.
LEMMA RowConstants ==
  /\ NoRow \in JobRow
  /\ Gone \in JobRow
  /\ Nothing \in [Jobs -> JobRow]
  /\ Idle \in [pc : {"idle", "retrying", "queueing"}, doc : Docs \cup {NoDoc}]
  BY DEF NoRow, Gone, Nothing, Idle, JobRow, Live, Terminal

\* The statuses that the code writes are statuses of a stored document.
LEMMA StoredStatuses ==
  /\ "pending" \in Stored /\ "processing" \in Stored
  /\ "ready" \in Stored /\ "failed" \in Stored
  BY DEF Stored, InFlight

\* _set_document_status keeps the documents table well typed.
LEMMA SetDocumentStatusType ==
  ASSUME doc \in [Docs -> DocRow],
         NEW d, NEW status \in Stored, NEW error \in BOOLEAN
  PROVE  SetDocumentStatus(d, status, error) \in [Docs -> DocRow]
  BY DEF SetDocumentStatus, DocRow, Stored

\* claim_next writes a job row.
LEMMA ClaimedRowType ==
  ASSUME NEW row \in JobRow
  PROVE  ClaimedRow(row) \in JobRow
  <1>1. row.attempts + 1 \in Nat
    BY DEF JobRow
  <1>2. [row EXCEPT !.status = "running"] \in JobRow
    BY DEF JobRow, Live
  <1>3. [[row EXCEPT !.status = "running"] EXCEPT !.attempts = row.attempts + 1]
          \in JobRow
    BY <1>1, <1>2 DEF JobRow
  <1>4. QED
    BY <1>3 DEF ClaimedRow, JobRow

\* A flush of job rows leaves a job row.
LEMMA FlushType ==
  ASSUME NEW row \in JobRow, NEW loaded \in JobRow, NEW new \in JobRow
  PROVE  Flush(row, loaded, new) \in JobRow
  <1> DEFINE s == IF new.status = loaded.status THEN row.status ELSE new.status
             b == IF new.beat = loaded.beat THEN row.beat ELSE new.beat
  <1>1. s \in Live \cup Terminal \cup {"none", "gone"} /\ b \in {"null", "fresh", "stale"}
    BY DEF JobRow
  <1>2. Flush(row, loaded, new) = [[row EXCEPT !.status = s] EXCEPT !.beat = b]
    BY DEF Flush
  <1> HIDE DEF s, b
  <1>3. [row EXCEPT !.status = s] \in JobRow
    BY <1>1 DEF JobRow
  <1>4. [[row EXCEPT !.status = s] EXCEPT !.beat = b] \in JobRow
    BY <1>1, <1>3 DEF JobRow
  <1>5. QED
    BY <1>2, <1>4

\* mark_failed writes a job row, whatever row its session had loaded.
LEMMA FailedRowType ==
  ASSUME NEW row \in JobRow, NEW loaded \in JobRow, NEW permanent \in BOOLEAN
  PROVE  FailedRow(row, loaded, permanent) \in JobRow
  <1> DEFINE retry == Retries(loaded, permanent)
             new == [loaded EXCEPT !.status = IF retry THEN "queued" ELSE "dead",
                                   !.beat = "null"]
  <1>1. new \in JobRow
    BY DEF JobRow, Live, Terminal
  <1>2. Flush(row, loaded, new) \in JobRow
    BY <1>1, FlushType
  <1>3. QED
    BY <1>2 DEF FailedRow, JobRow

\* The whole of mark_failed keeps both tables well typed.
LEMMA MarkFailedType ==
  ASSUME TypeOK, NEW j \in Jobs, NEW loaded \in JobRow, NEW permanent \in BOOLEAN,
         MarkFailed(j, loaded, permanent)
  PROVE  job' \in [Jobs -> JobRow] /\ doc' \in [Docs -> DocRow]
  <1>1. FailedRow(job[j], loaded, permanent) \in JobRow
    BY FailedRowType DEF TypeOK
  <1>2. job' \in [Jobs -> JobRow]
    BY <1>1 DEF MarkFailed, TypeOK
  <1>3. doc' \in [Docs -> DocRow]
    BY SetDocumentStatusType DEF MarkFailed, TypeOK, Stored, InFlight
  <1>4. QED
    BY <1>2, <1>3

-----------------------------------------------------------------------------
(* Type correctness *)

\* The initial tables and processes are well typed.
LEMMA InitTypeOK == Init => TypeOK
  BY RowConstants DEF Init, TypeOK, DocRow, Working

\* Every step keeps the tables, the sessions and the processes well typed.
LEMMA NextTypeOK == TypeOK /\ [Next]_vars => TypeOK'
  <1> SUFFICES ASSUME TypeOK, [Next]_vars PROVE TypeOK'
    OBVIOUS
  <1> USE RowConstants
  <1>1. ASSUME NEW r \in Requests, NEW d \in Docs, CreateDocument(r, d)
        PROVE  TypeOK'
    BY <1>1 DEF CreateDocument, TypeOK, DocRow, Stored, InFlight
  <1>2. ASSUME NEW r \in Requests, NEW d \in Docs, FindFailed(r, d)
        PROVE  TypeOK'
    BY <1>2 DEF FindFailed, TypeOK
  <1>3. ASSUME NEW r \in Requests, RetryFailed(r)
        PROVE  TypeOK'
    <2>1. CASE doc[req[r].doc].status \in Stored
      <3>1. /\ doc' = SetDocumentStatus(req[r].doc, "pending", FALSE)
            /\ req' = [req EXCEPT ![r].pc = "queueing"]
        BY <1>3, <2>1 DEF RetryFailed
      <3>2. doc' \in [Docs -> DocRow]
        BY <3>1, SetDocumentStatusType, StoredStatuses DEF TypeOK
      <3>3. QED
        BY <1>3, <3>1, <3>2 DEF RetryFailed, TypeOK
    <2>2. CASE doc[req[r].doc].status \notin Stored
      <3>1. req' = [req EXCEPT ![r] = Idle] /\ doc' = doc
        BY <1>3, <2>2 DEF RetryFailed
      <3>2. UNCHANGED <<job, pc, task, seen, crashes, stalls>>
        BY <1>3 DEF RetryFailed
      <3>3. QED
        BY <3>1, <3>2 DEF TypeOK
    <2>3. QED
      BY <2>1, <2>2
  <1>4. ASSUME NEW r \in Requests, Enqueue(r)
        PROVE  TypeOK'
    <2>1. job' \in [Jobs -> JobRow]
      <3>1. CASE job' = job
        BY <3>1 DEF TypeOK
      <3>2. CASE job' # job
        <4>1. req[r].doc \in Docs \cup {NoDoc}
          BY DEF TypeOK
        <4>2. [NoRow EXCEPT !.status = "queued", !.doc = req[r].doc, !.due = TRUE]
                \in JobRow
          BY <4>1 DEF JobRow, NoRow, Live
        <4>3. PICK j \in Jobs : job' = [job EXCEPT ![j] =
                [NoRow EXCEPT !.status = "queued", !.doc = req[r].doc, !.due = TRUE]]
          BY <1>4, <3>2 DEF Enqueue
        <4>4. QED
          BY <4>2, <4>3 DEF TypeOK
      <3>3. QED
        BY <3>1, <3>2
    <2>2. QED
      BY <1>4, <2>1 DEF Enqueue, TypeOK
  <1>5. ASSUME NEW r \in Requests, ApiFails(r)
        PROVE  TypeOK'
    BY <1>5 DEF ApiFails, TypeOK
  <1>6. ASSUME NEW d \in Docs, DeleteDocument(d)
        PROVE  TypeOK'
    <2>1. doc' \in [Docs -> DocRow]
      BY <1>6 DEF DeleteDocument, TypeOK, DocRow
    <2>2. QED
      BY <1>6, <2>1 DEF DeleteDocument, TypeOK
  <1>7. ASSUME NEW w \in Workers, ClaimNext(w)
        PROVE  TypeOK'
    <2>1. PICK j \in Jobs :
            /\ job' = [job EXCEPT ![j] = ClaimedRow(job[j])]
            /\ doc' = SetDocumentStatus(job[j].doc, "processing", FALSE)
            /\ seen' = [seen EXCEPT ![w] = [Nothing EXCEPT ![j] = ClaimedRow(job[j])]]
            /\ task' = [task EXCEPT ![w] = j]
      BY <1>7 DEF ClaimNext, Load
    <2>2. ClaimedRow(job[j]) \in JobRow
      BY ClaimedRowType DEF TypeOK
    <2>3. doc' \in [Docs -> DocRow]
      BY <2>1, SetDocumentStatusType, StoredStatuses DEF TypeOK
    <2>4. job' \in [Jobs -> JobRow] /\ seen' \in [Workers -> [Jobs -> JobRow]]
      BY <2>1, <2>2 DEF TypeOK
    <2>5. QED
      BY <1>7, <2>1, <2>3, <2>4 DEF ClaimNext, TypeOK, Working
  <1>8. ASSUME NEW w \in Workers, BeginIngest(w)
        PROVE  TypeOK'
    <2>1. doc' \in [Docs -> DocRow]
      <3>1. doc' = SetDocumentStatus(DocOf(w), "processing", FALSE) \/ doc' = doc
        BY <1>8 DEF BeginIngest
      <3>2. SetDocumentStatus(DocOf(w), "processing", FALSE) \in [Docs -> DocRow]
        BY SetDocumentStatusType, StoredStatuses DEF TypeOK
      <3>3. QED
        BY <3>1, <3>2 DEF TypeOK
    <2>2. QED
      BY <1>8, <2>1 DEF BeginIngest, Release, TypeOK, Working
  <1>9. ASSUME NEW w \in Workers, Persist(w)
        PROVE  TypeOK'
    <2>1. doc' \in [Docs -> DocRow]
      <3>1. ASSUME NEW d \in Docs
            PROVE  [[doc[d] EXCEPT !.status = "ready"] EXCEPT !.chunks = TRUE] \in DocRow
        <4>1. doc[d] \in DocRow
          BY DEF TypeOK
        <4>2. QED
          BY <4>1, StoredStatuses DEF DocRow
      <3>2. \/ DocOf(w) \notin Docs /\ doc' = doc
            \/ /\ DocOf(w) \in Docs
               /\ doc' = [doc EXCEPT ![DocOf(w)] =
                    [[doc[DocOf(w)] EXCEPT !.status = "ready"] EXCEPT !.chunks = TRUE]]
        BY <1>9 DEF Persist, TypeOK
      <3>3. QED
        BY <3>1, <3>2 DEF TypeOK
    <2>2. QED
      BY <1>9, <2>1 DEF Persist, TypeOK, Working
  <1>10. ASSUME NEW w \in Workers, IngestFails(w)
         PROVE  TypeOK'
    <2>1. CASE Exists(task[w])
      <3>1. job[task[w]] \in JobRow \/ task[w] \notin Jobs
        BY DEF TypeOK
      <3>2. [Nothing EXCEPT ![task[w]] = job[task[w]]] \in [Jobs -> JobRow]
        BY <3>1
      <3>3. seen' \in [Workers -> [Jobs -> JobRow]]
        BY <1>10, <2>1, <3>2 DEF IngestFails, Load, TypeOK
      <3>4. QED
        BY <1>10, <2>1, <3>3 DEF IngestFails, TypeOK, Working
    <2>2. CASE ~Exists(task[w])
      BY <1>10, <2>2 DEF IngestFails, Release, TypeOK
    <2>3. QED
      BY <2>1, <2>2
  <1>11. ASSUME NEW w \in Workers, RecordFailure(w)
         PROVE  TypeOK'
    <2>1. job' \in [Jobs -> JobRow] /\ doc' \in [Docs -> DocRow]
      <3> DEFINE j == task[w]
                 permanent == pc[w] = "rejecting"
      <3>1. CASE j \in Jobs /\ CanMarkFailed(j, seen[w][j], permanent)
        <4>1. seen[w][j] \in JobRow
          BY <3>1 DEF TypeOK
        <4>2. MarkFailed(j, seen[w][j], permanent)
          BY <1>11, <3>1 DEF RecordFailure
        <4>3. QED
          BY <3>1, <4>1, <4>2, MarkFailedType
      <3>2. CASE j \notin Jobs /\ CanMarkFailed(j, seen[w][j], permanent)
        <4>1. MarkFailed(j, seen[w][j], permanent)
          BY <1>11, <3>2 DEF RecordFailure
        <4>2. job' = job
          BY <3>2, <4>1 DEF MarkFailed, TypeOK
        <4>3. doc' \in [Docs -> DocRow]
          BY <4>1, SetDocumentStatusType DEF MarkFailed, TypeOK, Stored, InFlight
        <4>4. QED
          BY <4>2, <4>3 DEF TypeOK
      <3>3. CASE ~CanMarkFailed(j, seen[w][j], permanent)
        BY <1>11, <3>3 DEF RecordFailure, TypeOK
      <3>4. QED
        BY <3>1, <3>2, <3>3
    <2>2. QED
      BY <1>11, <2>1 DEF RecordFailure, Release, TypeOK
  <1>12. ASSUME NEW w \in Workers, MarkSucceeded(w)
         PROVE  TypeOK'
    <2> DEFINE j == task[w]
               new == [seen[w][j] EXCEPT !.status = "succeeded", !.beat = "null"]
    <2>1. job' \in [Jobs -> JobRow]
      <3>1. CASE j \in Jobs
        <4>1. job[j] \in JobRow /\ seen[w][j] \in JobRow
          BY <3>1 DEF TypeOK
        <4>2. new \in JobRow
          BY <4>1 DEF JobRow, Terminal
        <4>3. Flush(job[j], seen[w][j], new) \in JobRow
          BY <4>1, <4>2, FlushType
        <4>4. QED
          BY <1>12, <4>3 DEF MarkSucceeded, TypeOK
      <3>2. CASE j \notin Jobs
        BY <1>12, <3>2 DEF MarkSucceeded, TypeOK
      <3>3. QED
        BY <3>1, <3>2
    <2>2. QED
      BY <1>12, <2>1 DEF MarkSucceeded, Release, TypeOK
  <1>13. ASSUME NEW w \in Workers, Heartbeat(w)
         PROVE  TypeOK'
    <2>1. job' \in [Jobs -> JobRow]
      <3>1. \A j \in Jobs : [job[j] EXCEPT !.beat = "fresh"] \in JobRow
        BY DEF TypeOK, JobRow
      <3>2. QED
        BY <1>13, <3>1 DEF Heartbeat, TypeOK
    <2>2. QED
      BY <1>13, <2>1 DEF Heartbeat, TypeOK
  <1>14. ASSUME NEW w \in Workers, SelectStale(w)
         PROVE  TypeOK'
    BY <1>14 DEF SelectStale, TypeOK
  <1>15. ASSUME NEW w \in Workers, ReapOne(w)
         PROVE  TypeOK'
    <2>1. PICK j \in Jobs :
            IF CanMarkFailed(j, seen[w][j], FALSE)
            THEN /\ MarkFailed(j, seen[w][j], FALSE)
                 /\ seen' = [seen EXCEPT ![w][j] = NoRow]
                 /\ UNCHANGED <<pc, task>>
            ELSE Release(w) /\ UNCHANGED <<doc, job>>
      BY <1>15 DEF ReapOne
    <2>2. CASE CanMarkFailed(j, seen[w][j], FALSE)
      <3>1. job' \in [Jobs -> JobRow] /\ doc' \in [Docs -> DocRow]
        <4>1. seen[w][j] \in JobRow /\ MarkFailed(j, seen[w][j], FALSE)
          BY <2>1, <2>2 DEF TypeOK
        <4>2. QED
          BY <4>1, MarkFailedType
      <3>2. seen' = [seen EXCEPT ![w] = [seen[w] EXCEPT ![j] = NoRow]]
        BY <2>1, <2>2
      <3>3. seen' \in [Workers -> [Jobs -> JobRow]]
        BY <3>2 DEF TypeOK
      <3>4. QED
        BY <1>15, <2>1, <2>2, <3>1, <3>3 DEF ReapOne, TypeOK
    <2>3. CASE ~CanMarkFailed(j, seen[w][j], FALSE)
      BY <1>15, <2>1, <2>3 DEF ReapOne, Release, TypeOK
    <2>4. QED
      BY <2>2, <2>3
  <1>16. ASSUME NEW w \in Workers, PurgeOldJobs(w)
         PROVE  TypeOK'
    BY <1>16 DEF PurgeOldJobs, Release, TypeOK
  <1>17. ASSUME NEW w \in Workers, LoopError(w) \/ Crash(w) \/ Restart(w)
         PROVE  TypeOK'
    <2>1. CASE LoopError(w)
      BY <2>1 DEF LoopError, Release, TypeOK
    <2>2. CASE Crash(w)
      BY <2>2 DEF Crash, TypeOK
    <2>3. CASE Restart(w)
      BY <2>3 DEF Restart, TypeOK
    <2>4. QED
      BY <1>17, <2>1, <2>2, <2>3
  <1>18. ASSUME NEW j \in Jobs, BeatExpires(j) \/ Stall(j) \/ BackoffElapses(j)
         PROVE  TypeOK'
    <2>1. job' \in [Jobs -> JobRow]
      <3>1. /\ [job[j] EXCEPT !.beat = "stale"] \in JobRow
            /\ [job[j] EXCEPT !.due = TRUE] \in JobRow
        BY DEF TypeOK, JobRow
      <3>2. QED
        BY <1>18, <3>1 DEF BeatExpires, Stall, BackoffElapses, TypeOK
    <2>2. QED
      BY <1>18, <2>1 DEF BeatExpires, Stall, BackoffElapses, TypeOK
  <1>19. CASE UNCHANGED vars
    BY <1>19 DEF vars, TypeOK
  <1>20. QED
    BY <1>1, <1>2, <1>3, <1>4, <1>5, <1>6, <1>7, <1>8, <1>9, <1>10, <1>11,
       <1>12, <1>13, <1>14, <1>15, <1>16, <1>17, <1>18, <1>19
    DEF Next, RequestStep, WorkerStep

\* The tables and processes are well typed at all times.
THEOREM TypeCorrect == Spec => []TypeOK
  <1>1. QED
    BY InitTypeOK, NextTypeOK, PTL DEF Spec

-----------------------------------------------------------------------------
(* A job that succeeded has its chunks *)

\* SetDocumentStatus, whatever it is called with, loses no chunks.
LEMMA SetDocumentStatusKeepsChunks ==
  ASSUME doc \in [Docs -> DocRow], NEW d, NEW status, NEW error,
         doc' = SetDocumentStatus(d, status, error)
  PROVE  \A e \in Docs : doc'[e].chunks = doc[e].chunks
  BY DEF SetDocumentStatus, DocRow

\* mark_failed never makes a job succeed, nor turns it into a fresh row, nor
\* changes its document.
LEMMA FailedRowStatus ==
  ASSUME NEW row \in JobRow, NEW loaded \in JobRow, NEW permanent \in BOOLEAN
  PROVE  LET new == FailedRow(row, loaded, permanent) IN
           /\ new.status \in {row.status, "queued", "dead"}
           /\ new.doc = row.doc
  BY DEF FailedRow, Flush, JobRow

\* A step preserves SuccessInv if it loses no chunks, creates no job and makes
\* none succeed, gives no worker a job, persists nothing, and gives requests
\* only documents.
LEMMA FrameStep ==
  ASSUME SuccessInv,
         \A d \in Docs : doc[d].chunks => doc'[d].chunks,
         \A j \in Jobs :
            /\ Exists(j)' => Exists(j) /\ job'[j].doc = job[j].doc
            /\ job'[j].status = "none" => job[j].status = "none"
            /\ job'[j].status = "succeeded" => job[j].status = "succeeded",
         \A w \in Workers : pc'[w] \in Working =>
            /\ pc[w] \in Working
            /\ pc'[w] = "persisted" => pc[w] = "persisted"
            /\ task'[w] = task[w]
            /\ Exists(task[w])' => DocOf(w)' = DocOf(w),
         \A r \in Requests : req'[r].pc # "idle" => req'[r].doc \in Docs
  PROVE  SuccessInv'
  <1>1. \A j \in Jobs : Exists(j)' => job'[j].doc \in Docs
    BY DEF SuccessInv
  <1>2. ASSUME NEW w \in Workers, pc'[w] \in Working
        PROVE  /\ task'[w] \in Jobs
               /\ job'[task'[w]].status # "none"
               /\ Exists(task[w])' => DocOf(w)' = job'[task'[w]].doc
    BY <1>2 DEF SuccessInv
  <1>3. ASSUME NEW w \in Workers, pc'[w] = "persisted", Exists(task[w])'
        PROVE  doc'[DocOf(w)'].chunks
    <2>1. pc'[w] \in Working
      BY <1>3 DEF Working
    <2>2. task[w] \in Jobs /\ task'[w] = task[w] /\ pc[w] = "persisted"
      BY <1>3, <2>1 DEF SuccessInv
    <2>3. Exists(task[w]) /\ DocOf(w)' = DocOf(w)
      BY <1>3, <2>1, <2>2
    <2>4. doc[DocOf(w)].chunks /\ DocOf(w) \in Docs
      BY <2>1, <2>2, <2>3 DEF SuccessInv
    <2>5. QED
      BY <2>3, <2>4
  <1>4. SucceededHasChunks'
    <2>1. SUFFICES ASSUME NEW j \in Jobs, job'[j].status = "succeeded"
                   PROVE  doc'[job'[j].doc].chunks
      BY DEF SucceededHasChunks
    <2>2. Exists(j)' /\ job[j].status = "succeeded"
      BY <2>1 DEF Exists, Terminal
    <2>3. Exists(j) /\ job'[j].doc = job[j].doc
      BY <2>2
    <2>4. QED
      BY <2>2, <2>3 DEF SuccessInv, SucceededHasChunks
  <1>5. QED
    BY <1>1, <1>2, <1>3, <1>4 DEF SuccessInv

\* mark_failed keeps both facts FrameStep asks of the tables.
LEMMA MarkFailedFrame ==
  ASSUME TypeOK, NEW i \in Jobs, NEW loaded \in JobRow, NEW permanent \in BOOLEAN,
         CanMarkFailed(i, loaded, permanent), MarkFailed(i, loaded, permanent)
  PROVE  /\ \A d \in Docs : doc[d].chunks => doc'[d].chunks
         /\ \A j \in Jobs :
               /\ Exists(j)' => Exists(j) /\ job'[j].doc = job[j].doc
               /\ job'[j].status = "none" => job[j].status = "none"
               /\ job'[j].status = "succeeded" => job[j].status = "succeeded"
  <1>1. \A d \in Docs : doc'[d].chunks = doc[d].chunks
    BY SetDocumentStatusKeepsChunks DEF MarkFailed, TypeOK
  <1>2. LET new == FailedRow(job[i], loaded, permanent) IN
          /\ new.status \in {job[i].status, "queued", "dead"}
          /\ new.doc = job[i].doc
    BY FailedRowStatus DEF TypeOK
  <1>3. /\ job'[i].status \in {job[i].status, "queued", "dead"}
        /\ job'[i].doc = job[i].doc
        /\ \A j \in Jobs \ {i} : job'[j] = job[j]
    BY <1>2 DEF MarkFailed, TypeOK
  <1>4. Exists(i)
    BY DEF CanMarkFailed
  <1>5. QED
    BY <1>1, <1>3, <1>4 DEF Exists

\* Initially there are no jobs and no workers at work.
LEMMA InitSuccessInv == Init => SuccessInv
  BY DEF Init, SuccessInv, SucceededHasChunks, Exists, NoRow, Idle, Working,
         Live, Terminal

\* Every step preserves the strengthened invariant.
LEMMA NextSuccessInv == TypeOK /\ SuccessInv /\ [Next]_vars => SuccessInv'
  <1> SUFFICES ASSUME TypeOK, SuccessInv, [Next]_vars PROVE SuccessInv'
    OBVIOUS
  <1>0. /\ \A r \in Requests : req[r].pc # "idle" => req[r].doc \in Docs
        /\ \A j \in Jobs : Exists(j) => job[j].doc \in Docs
        /\ \A w \in Workers : pc[w] \in Working =>
              /\ task[w] \in Jobs
              /\ job[task[w]].status # "none"
              /\ Exists(task[w]) => DocOf(w) = job[task[w]].doc
    BY DEF SuccessInv
  <1>1. ASSUME NEW r \in Requests, NEW d \in Docs, CreateDocument(r, d)
        PROVE  SuccessInv'
    <2>1. \A e \in Docs : doc'[e].chunks = doc[e].chunks
      BY <1>1 DEF CreateDocument, TypeOK, DocRow
    <2>2. \A q \in Requests : req'[q].pc # "idle" => req'[q].doc \in Docs
      BY <1>0, <1>1 DEF CreateDocument, TypeOK
    <2>3. QED
      BY <1>1, <2>1, <2>2, FrameStep DEF CreateDocument, Exists, DocOf
  <1>2. ASSUME NEW r \in Requests, NEW d \in Docs, FindFailed(r, d)
        PROVE  SuccessInv'
    <2>1. \A q \in Requests : req'[q].pc # "idle" => req'[q].doc \in Docs
      BY <1>0, <1>2 DEF FindFailed, TypeOK
    <2>2. QED
      BY <1>2, <2>1, FrameStep DEF FindFailed, Exists, DocOf
  <1>3. ASSUME NEW r \in Requests, RetryFailed(r)
        PROVE  SuccessInv'
    <2>1. \A e \in Docs : doc'[e].chunks = doc[e].chunks
      <3>1. doc' = SetDocumentStatus(req[r].doc, "pending", FALSE) \/ doc' = doc
        BY <1>3 DEF RetryFailed
      <3>2. QED
        BY <3>1, SetDocumentStatusKeepsChunks DEF TypeOK
    <2>2. \A q \in Requests : req'[q].pc # "idle" => req'[q].doc \in Docs
      <3>1. req' = [req EXCEPT ![r].pc = "queueing"] \/ req' = [req EXCEPT ![r] = Idle]
        BY <1>3 DEF RetryFailed
      <3>2. req[r].doc \in Docs
        BY <1>0, <1>3 DEF RetryFailed
      <3>3. QED
        BY <1>0, <3>1, <3>2 DEF TypeOK, Idle
    <2>3. QED
      BY <1>3, <2>1, <2>2, FrameStep DEF RetryFailed, Exists, DocOf
  <1>4. ASSUME NEW r \in Requests, Enqueue(r)
        PROVE  SuccessInv'
    <2>1. \A q \in Requests : req'[q].pc # "idle" => req'[q].doc \in Docs
      BY <1>0, <1>4 DEF Enqueue, TypeOK, Idle
    <2>2. CASE job' = job
      BY <1>4, <2>1, <2>2, FrameStep DEF Enqueue, Exists, DocOf
    <2>3. CASE job' # job
      <3> DEFINE new == [NoRow EXCEPT !.status = "queued", !.doc = req[r].doc, !.due = TRUE]
      <3>1. PICK i \in Jobs : job[i] = NoRow /\ job' = [job EXCEPT ![i] = new]
        BY <1>4, <2>3 DEF Enqueue
      <3>2. new.status = "queued" /\ new.doc = req[r].doc
        BY DEF NoRow
      <3>3. job[i].status = "none" /\ job'[i].status = "queued" /\ job'[i].doc = req[r].doc
        BY <3>1, <3>2 DEF TypeOK, NoRow
      <3>4. \A j \in Jobs \ {i} : job'[j] = job[j]
        BY <3>1 DEF TypeOK
      <3>5. req[r].doc \in Docs
        BY <1>0, <1>4 DEF Enqueue
      <3>6. \A w \in Workers : pc[w] \in Working => task[w] \in Jobs \ {i}
        BY <1>0, <3>3
      <3>7. UNCHANGED <<doc, pc, task, seen>>
        BY <1>4 DEF Enqueue
      <3>8. \A j \in Jobs : Exists(j)' => job'[j].doc \in Docs
        BY <1>0, <3>3, <3>4, <3>5 DEF Exists
      <3>9. \A w \in Workers : pc'[w] \in Working =>
              /\ task'[w] \in Jobs
              /\ job'[task'[w]].status # "none"
              /\ Exists(task[w])' => DocOf(w)' = job'[task'[w]].doc
        BY <1>0, <3>4, <3>6, <3>7 DEF Exists, DocOf
      <3>10. \A w \in Workers :
               pc'[w] = "persisted" /\ Exists(task[w])' => doc'[DocOf(w)'].chunks
        BY <3>4, <3>6, <3>7 DEF SuccessInv, Exists, DocOf, Working
      <3>11. SucceededHasChunks'
        BY <3>3, <3>4, <3>7 DEF SuccessInv, SucceededHasChunks
      <3>12. QED
        BY <2>1, <3>7, <3>8, <3>9, <3>10, <3>11 DEF SuccessInv
    <2>4. QED
      BY <2>2, <2>3
  <1>5. ASSUME NEW r \in Requests, ApiFails(r)
        PROVE  SuccessInv'
    <2>1. \A q \in Requests : req'[q].pc # "idle" => req'[q].doc \in Docs
      BY <1>0, <1>5 DEF ApiFails, TypeOK, Idle
    <2>2. QED
      BY <1>5, <2>1, FrameStep DEF ApiFails, Exists, DocOf
  <1>6. ASSUME NEW d \in Docs, DeleteDocument(d)
        PROVE  SuccessInv'
    <2>1. /\ \A e \in Docs \ {d} : doc'[e] = doc[e]
          /\ UNCHANGED <<pc, task, seen, req>>
      BY <1>6 DEF DeleteDocument, TypeOK
    <2>2. \A j \in Jobs : /\ job[j].doc = d => job'[j] = Gone
                          /\ job[j].doc # d => job'[j] = job[j]
      BY <1>6 DEF DeleteDocument
    <2>3. Gone.status = "gone"
      BY DEF Gone, NoRow
    <2>4. \A j \in Jobs :
            /\ Exists(j)' => Exists(j) /\ job'[j] = job[j] /\ job[j].doc # d
            /\ job'[j].status = "none" => job[j].status = "none"
      BY <2>2, <2>3 DEF Exists, Live, Terminal
    <2>5. \A j \in Jobs : Exists(j)' => job'[j].doc \in Docs
      BY <1>0, <2>4
    <2>6. \A w \in Workers : pc'[w] \in Working =>
            /\ task'[w] \in Jobs
            /\ job'[task'[w]].status # "none"
            /\ Exists(task[w])' => DocOf(w)' = job'[task'[w]].doc
      BY <1>0, <2>1, <2>4 DEF DocOf
    <2>7. ASSUME NEW w \in Workers, pc'[w] = "persisted", Exists(task[w])'
          PROVE  doc'[DocOf(w)'].chunks
      <3>1. task[w] \in Jobs /\ pc[w] = "persisted" /\ DocOf(w)' = DocOf(w)
        BY <1>0, <2>1, <2>7 DEF Working, DocOf
      <3>2. Exists(task[w]) /\ DocOf(w) = job[task[w]].doc /\ DocOf(w) \in Docs \ {d}
        BY <1>0, <2>1, <2>4, <2>7, <3>1 DEF Working, Exists
      <3>3. QED
        BY <2>1, <3>1, <3>2 DEF SuccessInv
    <2>8. SucceededHasChunks'
      <3>1. SUFFICES ASSUME NEW j \in Jobs, job'[j].status = "succeeded"
                     PROVE  doc'[job'[j].doc].chunks
        BY DEF SucceededHasChunks
      <3>2. Exists(j) /\ job'[j] = job[j] /\ job[j].doc # d
        BY <2>4, <3>1 DEF Exists, Terminal
      <3>3. QED
        BY <1>0, <2>1, <3>1, <3>2 DEF SuccessInv, SucceededHasChunks
    <2>9. QED
      BY <1>0, <2>1, <2>5, <2>6, <2>7, <2>8 DEF SuccessInv
  <1>7. ASSUME NEW w \in Workers, ClaimNext(w)
        PROVE  SuccessInv'
    <2>1. PICK i \in Jobs :
            /\ job[i].status = "queued"
            /\ job' = [job EXCEPT ![i] = ClaimedRow(job[i])]
            /\ doc' = SetDocumentStatus(job[i].doc, "processing", FALSE)
            /\ seen' = [seen EXCEPT ![w] = [Nothing EXCEPT ![i] = ClaimedRow(job[i])]]
            /\ task' = [task EXCEPT ![w] = i]
      BY <1>7 DEF ClaimNext, Load
    <2>2. /\ pc' = [pc EXCEPT ![w] = "claimed"]
          /\ req' = req
      BY <1>7 DEF ClaimNext
    <2>3. ClaimedRow(job[i]).status = "running" /\ ClaimedRow(job[i]).doc = job[i].doc
      BY DEF ClaimedRow, TypeOK, JobRow
    <2>4. /\ job'[i].status = "running" /\ job'[i].doc = job[i].doc
          /\ \A j \in Jobs \ {i} : job'[j] = job[j]
      BY <2>1, <2>3 DEF TypeOK
    <2>5. \A e \in Docs : doc'[e].chunks = doc[e].chunks
      BY <2>1, SetDocumentStatusKeepsChunks DEF TypeOK
    <2>6. \A j \in Jobs : Exists(j)' => Exists(j) /\ job'[j].doc = job[j].doc
      BY <2>1, <2>4 DEF Exists, Live
    <2>7. /\ pc'[w] = "claimed" /\ task'[w] = i
          /\ seen'[w][i].doc = job[i].doc
      BY <2>1, <2>2, <2>3 DEF TypeOK, Nothing
    <2>8. \A v \in Workers \ {w} : /\ pc'[v] = pc[v] /\ task'[v] = task[v]
                                   /\ seen'[v] = seen[v]
      BY <2>1, <2>2 DEF TypeOK
    <2>9. ASSUME NEW v \in Workers, pc'[v] \in Working
          PROVE  /\ task'[v] \in Jobs
                 /\ job'[task'[v]].status # "none"
                 /\ Exists(task[v])' => DocOf(v)' = job'[task'[v]].doc
      <3>1. CASE v = w
        BY <2>4, <2>7, <3>1 DEF DocOf
      <3>2. CASE v # w
        BY <1>0, <2>4, <2>6, <2>8, <2>9, <3>2 DEF DocOf, Exists
      <3>3. QED
        BY <3>1, <3>2
    <2>10. ASSUME NEW v \in Workers, pc'[v] = "persisted", Exists(task[v])'
           PROVE  doc'[DocOf(v)'].chunks
      <3>1. v # w
        BY <2>7, <2>10
      <3>2. pc[v] = "persisted" /\ task'[v] = task[v] /\ DocOf(v)' = DocOf(v)
        BY <2>8, <2>10, <3>1 DEF DocOf
      <3>3. task[v] \in Jobs /\ Exists(task[v]) /\ DocOf(v) \in Docs
        BY <1>0, <2>6, <2>10, <3>2 DEF Working, Exists
      <3>4. QED
        BY <2>5, <3>2, <3>3 DEF SuccessInv
    <2>11. SucceededHasChunks'
      BY <1>0, <2>4, <2>5 DEF SuccessInv, SucceededHasChunks, Exists, Terminal
    <2>12. \A j \in Jobs : Exists(j)' => job'[j].doc \in Docs
      BY <1>0, <2>6
    <2>13. QED
      BY <1>0, <2>2, <2>9, <2>10, <2>11, <2>12 DEF SuccessInv
  <1>8. ASSUME NEW w \in Workers, BeginIngest(w)
        PROVE  SuccessInv'
    <2>1. \A e \in Docs : doc'[e].chunks = doc[e].chunks
      <3>1. doc' = SetDocumentStatus(DocOf(w), "processing", FALSE) \/ doc' = doc
        BY <1>8 DEF BeginIngest
      <3>2. QED
        BY <3>1, SetDocumentStatusKeepsChunks DEF TypeOK
    <2>2. \A v \in Workers : pc'[v] \in Working =>
            /\ pc[v] \in Working
            /\ pc'[v] = "persisted" => pc[v] = "persisted"
            /\ task'[v] = task[v]
            /\ seen'[v] = seen[v]
      BY <1>8 DEF BeginIngest, Release, TypeOK, Working
    <2>3. UNCHANGED <<job, req>>
      BY <1>8 DEF BeginIngest
    <2>4. QED
      BY <1>0, <2>1, <2>2, <2>3, FrameStep DEF Exists, DocOf
  <1>9. ASSUME NEW w \in Workers, Persist(w)
        PROVE  SuccessInv'
    <2>1. \A e \in Docs : /\ doc[e].chunks => doc'[e].chunks
                          /\ e = DocOf(w) => doc'[e].chunks
      BY <1>9 DEF Persist, TypeOK, DocRow
    <2>2. /\ UNCHANGED <<job, task, seen, req>>
          /\ pc' = [pc EXCEPT ![w] = "persisted"]
          /\ pc[w] \in Working
      BY <1>9 DEF Persist, Working
    <2>3. ASSUME NEW v \in Workers, pc'[v] = "persisted", Exists(task[v])
          PROVE  doc'[DocOf(v)].chunks
      <3>1. pc[v] \in Working
        BY <2>2, <2>3 DEF TypeOK, Working
      <3>2. DocOf(v) \in Docs
        BY <1>0, <2>3, <3>1
      <3>3. v # w => pc[v] = "persisted"
        BY <2>2, <2>3 DEF TypeOK
      <3>4. QED
        BY <2>1, <2>3, <3>2, <3>3 DEF SuccessInv
    <2>4. SucceededHasChunks'
      BY <1>0, <2>1, <2>2 DEF SuccessInv, SucceededHasChunks, Exists, Terminal
    <2>5. \A v \in Workers : pc'[v] \in Working => pc[v] \in Working
      BY <2>2 DEF TypeOK
    <2>6. QED
      BY <1>0, <2>2, <2>3, <2>4, <2>5 DEF SuccessInv, Exists, DocOf
  <1>10. ASSUME NEW w \in Workers, IngestFails(w)
         PROVE  SuccessInv'
    <2>1. UNCHANGED <<doc, job, req>>
      BY <1>10 DEF IngestFails
    <2>2. ASSUME NEW v \in Workers, pc'[v] \in Working
          PROVE  /\ pc[v] \in Working
                 /\ pc'[v] = "persisted" => pc[v] = "persisted"
                 /\ task'[v] = task[v]
                 /\ Exists(task[v])' => DocOf(v)' = DocOf(v)
      <3>1. CASE v # w
        BY <1>10, <2>2, <3>1 DEF IngestFails, Load, Release, TypeOK, DocOf
      <3>2. CASE v = w
        <4>1. Exists(task[w]) /\ pc'[w] # "persisted" /\ pc[w] \in Working
          BY <1>10, <2>2, <3>2 DEF IngestFails, Release, TypeOK, Working
        <4>2. /\ task' = task
              /\ seen'[w] = [Nothing EXCEPT ![task[w]] = job[task[w]]]
          BY <1>10, <4>1 DEF IngestFails, Load, TypeOK
        <4>3. task[w] \in Jobs /\ DocOf(w) = job[task[w]].doc
          BY <1>0, <4>1
        <4>4. DocOf(w)' = job[task[w]].doc
          BY <4>2, <4>3 DEF DocOf, Nothing
        <4>5. QED
          BY <3>2, <4>1, <4>2, <4>3, <4>4
      <3>3. QED
        BY <3>1, <3>2
    <2>3. QED
      BY <1>0, <2>1, <2>2, FrameStep DEF Exists
  <1>11. ASSUME NEW w \in Workers, RecordFailure(w)
         PROVE  SuccessInv'
    <2> DEFINE i == task[w]
               permanent == pc[w] = "rejecting"
    <2>1. i \in Jobs /\ seen[w][i] \in JobRow
      BY <1>0, <1>11 DEF RecordFailure, TypeOK, Working
    <2>2. \A v \in Workers : pc'[v] \in Working =>
            pc[v] \in Working /\ pc'[v] = pc[v] /\ task'[v] = task[v] /\ seen'[v] = seen[v]
      BY <1>11 DEF RecordFailure, Release, TypeOK, Working
    <2>3. req' = req
      BY <1>11 DEF RecordFailure
    <2>4. CASE CanMarkFailed(i, seen[w][i], permanent)
      <3>1. MarkFailed(i, seen[w][i], permanent)
        BY <1>11, <2>4 DEF RecordFailure
      <3>2. QED
        BY <1>0, <2>1, <2>2, <2>3, <2>4, <3>1, MarkFailedFrame, FrameStep DEF DocOf
    <2>5. CASE ~CanMarkFailed(i, seen[w][i], permanent)
      <3>1. UNCHANGED <<doc, job>>
        BY <1>11, <2>5 DEF RecordFailure
      <3>2. QED
        BY <1>0, <2>2, <2>3, <3>1, FrameStep DEF Exists, DocOf
    <2>6. QED
      BY <2>4, <2>5
  <1>12. ASSUME NEW w \in Workers, MarkSucceeded(w)
         PROVE  SuccessInv'
    <2> DEFINE i == task[w]
               new == [seen[w][i] EXCEPT !.status = "succeeded", !.beat = "null"]
    <2>1. i \in Jobs /\ pc[w] = "persisted" /\ UNCHANGED <<doc, req>>
      BY <1>0, <1>12 DEF MarkSucceeded, Working
    <2>2. \A v \in Workers : pc'[v] \in Working =>
            pc[v] \in Working /\ pc'[v] = pc[v] /\ task'[v] = task[v] /\ seen'[v] = seen[v]
      BY <1>12 DEF MarkSucceeded, Release, TypeOK, Working
    <2>3. CASE Exists(i)
      <3>1. job' = [job EXCEPT ![i] = Flush(job[i], seen[w][i], new)]
        BY <1>12, <2>3 DEF MarkSucceeded
      <3>2. /\ Flush(job[i], seen[w][i], new).doc = job[i].doc
            /\ Flush(job[i], seen[w][i], new).status \in {job[i].status, "succeeded"}
        <4>1. job[i] \in JobRow /\ seen[w][i] \in JobRow
          BY <2>1 DEF TypeOK
        <4>2. QED
          BY <4>1 DEF Flush, JobRow
      <3>3. /\ job'[i].doc = job[i].doc
            /\ job'[i].status \in {job[i].status, "succeeded"}
            /\ \A j \in Jobs \ {i} : job'[j] = job[j]
        BY <2>1, <3>1, <3>2 DEF TypeOK
      <3>4. \A j \in Jobs :
              /\ Exists(j)' => Exists(j) /\ job'[j].doc = job[j].doc
              /\ job'[j].status = "none" => job[j].status = "none"
        BY <2>3, <3>3 DEF Exists, Terminal
      <3>5. doc[job[i].doc].chunks
        BY <1>0, <2>1, <2>3 DEF SuccessInv, Working
      <3>6. SucceededHasChunks'
        BY <2>1, <3>3, <3>5 DEF SuccessInv, SucceededHasChunks
      <3>7. \A v \in Workers : pc'[v] \in Working =>
              /\ task'[v] \in Jobs
              /\ job'[task'[v]].status # "none"
              /\ Exists(task[v])' => DocOf(v)' = job'[task'[v]].doc
        BY <1>0, <2>2, <3>4 DEF DocOf
      <3>8. ASSUME NEW v \in Workers, pc'[v] = "persisted", Exists(task[v])'
            PROVE  doc'[DocOf(v)'].chunks
        <4>1. pc[v] = "persisted" /\ task[v] \in Jobs /\ DocOf(v)' = DocOf(v)
          BY <1>0, <2>2, <3>8 DEF Working, DocOf
        <4>2. Exists(task[v])
          BY <2>2, <3>4, <3>8, <4>1 DEF Exists, Working
        <4>3. QED
          BY <2>1, <4>1, <4>2 DEF SuccessInv
      <3>9. QED
        BY <1>0, <2>1, <2>2, <3>4, <3>6, <3>7, <3>8 DEF SuccessInv
    <2>4. CASE ~Exists(i)
      <3>1. job' = job
        BY <1>12, <2>4 DEF MarkSucceeded
      <3>2. QED
        BY <1>0, <2>1, <2>2, <3>1, FrameStep DEF Exists, DocOf
    <2>5. QED
      BY <2>3, <2>4
  <1>13. ASSUME NEW w \in Workers, Heartbeat(w)
         PROVE  SuccessInv'
    <2>1. \A j \in Jobs : job'[j].status = job[j].status /\ job'[j].doc = job[j].doc
      BY <1>13 DEF Heartbeat, TypeOK, JobRow
    <2>2. UNCHANGED <<doc, pc, task, seen, req>>
      BY <1>13 DEF Heartbeat
    <2>3. QED
      BY <1>0, <2>1, <2>2, FrameStep DEF Exists, DocOf
  <1>14. ASSUME NEW w \in Workers, SelectStale(w)
         PROVE  SuccessInv'
    <2>1. \A v \in Workers : pc'[v] \in Working => pc'[v] = pc[v] /\ seen'[v] = seen[v]
      BY <1>14 DEF SelectStale, TypeOK, Working
    <2>2. UNCHANGED <<doc, job, task, req>>
      BY <1>14 DEF SelectStale
    <2>3. QED
      BY <1>0, <2>1, <2>2, FrameStep DEF Exists, DocOf
  <1>15. ASSUME NEW w \in Workers, ReapOne(w)
         PROVE  SuccessInv'
    <2>1. PICK i \in Jobs :
            IF CanMarkFailed(i, seen[w][i], FALSE)
            THEN /\ MarkFailed(i, seen[w][i], FALSE)
                 /\ seen' = [seen EXCEPT ![w][i] = NoRow]
                 /\ UNCHANGED <<pc, task>>
            ELSE Release(w) /\ UNCHANGED <<doc, job>>
      BY <1>15 DEF ReapOne
    <2>2. pc[w] = "reaping" /\ req' = req
      BY <1>15 DEF ReapOne
    <2>3. \A v \in Workers : pc'[v] \in Working =>
            pc'[v] = pc[v] /\ task'[v] = task[v] /\ seen'[v] = seen[v]
      BY <2>1, <2>2 DEF Release, TypeOK, Working
    <2>4. CASE CanMarkFailed(i, seen[w][i], FALSE)
      <3>1. seen[w][i] \in JobRow /\ MarkFailed(i, seen[w][i], FALSE)
        BY <2>1, <2>4 DEF TypeOK
      <3>2. QED
        BY <1>0, <2>2, <2>3, <2>4, <3>1, MarkFailedFrame, FrameStep DEF DocOf
    <2>5. CASE ~CanMarkFailed(i, seen[w][i], FALSE)
      <3>1. UNCHANGED <<doc, job>>
        BY <2>1, <2>5
      <3>2. QED
        BY <1>0, <2>2, <2>3, <3>1, FrameStep DEF Exists, DocOf
    <2>6. QED
      BY <2>4, <2>5
  <1>16. ASSUME NEW w \in Workers, PurgeOldJobs(w)
         PROVE  SuccessInv'
    <2>1. \A j \in Jobs : job'[j] = job[j] \/ job'[j] = Gone
      BY <1>16 DEF PurgeOldJobs
    <2>2. \A j \in Jobs :
            /\ Exists(j)' => Exists(j) /\ job'[j].doc = job[j].doc
            /\ job'[j].status = "none" => job[j].status = "none"
            /\ job'[j].status = "succeeded" => job[j].status = "succeeded"
      BY <2>1 DEF Exists, Gone, NoRow, Live, Terminal
    <2>3. \A v \in Workers : pc'[v] \in Working =>
            pc'[v] = pc[v] /\ task'[v] = task[v] /\ seen'[v] = seen[v]
      BY <1>16 DEF PurgeOldJobs, Release, TypeOK, Working
    <2>4. UNCHANGED <<doc, req>>
      BY <1>16 DEF PurgeOldJobs
    <2>5. QED
      BY <1>0, <2>2, <2>3, <2>4, FrameStep DEF DocOf
  <1>17. ASSUME NEW w \in Workers, LoopError(w) \/ Crash(w) \/ Restart(w)
         PROVE  SuccessInv'
    <2>1. \A v \in Workers : pc'[v] \in Working =>
            pc'[v] = pc[v] /\ task'[v] = task[v] /\ seen'[v] = seen[v]
      BY <1>17 DEF LoopError, Crash, Restart, Release, TypeOK, Working
    <2>2. UNCHANGED <<doc, job, req>>
      BY <1>17 DEF LoopError, Crash, Restart
    <2>3. QED
      BY <1>0, <2>1, <2>2, FrameStep DEF Exists, DocOf
  <1>18. ASSUME NEW j \in Jobs, BeatExpires(j) \/ Stall(j) \/ BackoffElapses(j)
         PROVE  SuccessInv'
    <2>1. \A i \in Jobs : job'[i].status = job[i].status /\ job'[i].doc = job[i].doc
      <3>1. job[j] \in JobRow
        BY DEF TypeOK
      <3>2. CASE job' = [job EXCEPT ![j].beat = "stale"]
        BY <3>1, <3>2 DEF TypeOK, JobRow
      <3>3. CASE job' = [job EXCEPT ![j].due = TRUE]
        BY <3>1, <3>3 DEF TypeOK, JobRow
      <3>4. QED
        BY <1>18, <3>2, <3>3 DEF BeatExpires, Stall, BackoffElapses
    <2>2. UNCHANGED <<doc, pc, task, seen, req>>
      BY <1>18 DEF BeatExpires, Stall, BackoffElapses
    <2>3. QED
      BY <1>0, <2>1, <2>2, FrameStep DEF Exists, DocOf
  <1>19. CASE UNCHANGED vars
    BY <1>19 DEF vars, SuccessInv, SucceededHasChunks, Exists, DocOf
  <1>20. QED
    BY <1>1, <1>2, <1>3, <1>4, <1>5, <1>6, <1>7, <1>8, <1>9, <1>10, <1>11,
       <1>12, <1>13, <1>14, <1>15, <1>16, <1>17, <1>18, <1>19
    DEF Next, RequestStep, WorkerStep

\* Whatever crashes, stalls or overlaps, a job that says it succeeded has its
\* chunks in the database.
THEOREM SucceededHasChunksAlways == Spec => []SucceededHasChunks
  <1>1. SuccessInv => SucceededHasChunks
    BY DEF SuccessInv
  <1>2. QED
    BY InitTypeOK, NextTypeOK, InitSuccessInv, NextSuccessInv, <1>1, PTL DEF Spec

-----------------------------------------------------------------------------
(* Retries stop *)

\* The worker states in which a failure is about to be counted.
Deciding == {"reaping", "failing", "rejecting"}

\* No job has been attempted too often, and a queued one has an attempt left.
AttemptsLeft == \A j \in Jobs :
  /\ job[j].attempts <= MaxAttempts
  /\ job[j].status = "queued" => job[j].attempts < MaxAttempts

\* A snapshot of a fresh row does not exist; mark_failed is given a row that
\* was a job, a reaper's was running.
SnapshotsOfJobs == \A w \in Workers, j \in Jobs :
  /\ job[j].status = "none" => seen[w][j] = NoRow
  /\ pc[w] = "reaping" /\ seen[w][j] # NoRow => seen[w][j].status = "running"
  /\ pc[w] \in {"failing", "rejecting"} /\ task[w] = j => seen[w][j].status \in Live \cup Terminal

\* A snapshot that mark_failed may turn into a retry counts the attempts that
\* the row counts: the job has not been claimed since, and cannot be now.
Stale(w, j) == pc[w] \in Deciding /\ seen[w][j].status \in {"running"} \cup Terminal
SnapshotsCount == \A w \in Workers, j \in Jobs : Stale(w, j) /\ Exists(j) =>
  /\ seen[w][j].doc = job[j].doc
  /\ seen[w][j].attempts = job[j].attempts
  /\ ~(job[j].status = "queued" /\ job[j].due)

\* The inductive invariant behind AttemptsBounded.
RetryInv == AttemptsLeft /\ SnapshotsOfJobs /\ SnapshotsCount

\* Rows that are removed, or keep their attempts and are not queued again.
LEMMA RetryFrame ==
  ASSUME TypeOK, RetryInv,
         \A j \in Jobs :
           \/ job'[j] = Gone
           \/ /\ job'[j].attempts = job[j].attempts /\ job'[j].doc = job[j].doc
              /\ job'[j].status = "queued" => job[j].status = "queued" /\ (job'[j].due => job[j].due)
              /\ Exists(j)' => Exists(j)
              /\ job'[j].status = "none" => job[j].status = "none",
         \A w \in Workers :
           \/ pc'[w] = pc[w] /\ task'[w] = task[w] /\ seen'[w] = seen[w]
           \/ pc'[w] \notin Deciding /\ (seen'[w] = seen[w] \/ seen'[w] = Nothing)
  PROVE  RetryInv'
  <1>1. Gone.status = "gone" /\ Gone.attempts = 0 /\ MaxAttempts \in Nat
    BY BoundsAssumption DEF Gone, NoRow
  <1>2. \A j \in Jobs : Nothing[j] = NoRow
    BY DEF Nothing
  <1>3. AttemptsLeft'
    BY <1>1 DEF RetryInv, AttemptsLeft
  <1>4. SnapshotsOfJobs'
    BY <1>1, <1>2 DEF RetryInv, SnapshotsOfJobs, Deciding
  <1>5. SnapshotsCount'
    <2>1. ASSUME NEW w \in Workers, NEW j \in Jobs, Stale(w, j)', Exists(j)'
          PROVE  Stale(w, j) /\ Exists(j) /\ seen'[w][j] = seen[w][j] /\ job'[j] # Gone
      BY <1>1, <2>1 DEF Stale, Exists, Live, Terminal
    <2>2. QED
      BY <2>1 DEF RetryInv, SnapshotsCount
  <1>6. QED
    BY <1>3, <1>4, <1>5 DEF RetryInv

\* mark_failed of a job that exists, from a snapshot that was a job.
LEMMA RetryFailure ==
  ASSUME TypeOK, RetryInv, NEW w \in Workers, NEW j \in Jobs, NEW permanent \in BOOLEAN,
         Exists(j), pc[w] \in Deciding, seen[w][j].status \in Live \cup Terminal,
         job' = [job EXCEPT ![j] = FailedRow(job[j], seen[w][j], permanent)],
         \A v \in Workers :
           \/ pc'[v] = pc[v] /\ task'[v] = task[v]
           \/ pc'[v] \notin Deciding,
         \A v \in Workers, k \in Jobs : seen'[v][k] \in {seen[v][k], NoRow},
         \A v \in Workers : pc'[v] \in Deciding \ {"reaping"} => seen'[v] = seen[v]
  PROVE  RetryInv'
  <1> DEFINE row == FailedRow(job[j], seen[w][j], permanent)
             retry == Retries(seen[w][j], permanent)
             target == IF retry THEN "queued" ELSE "dead"
  <1>1. job[j] \in JobRow /\ seen[w][j] \in JobRow
    BY DEF TypeOK
  <1>2. /\ row.attempts = job[j].attempts /\ row.doc = job[j].doc
        /\ row.status = (IF target = seen[w][j].status THEN job[j].status ELSE target)
        /\ row.due = (IF retry THEN FALSE ELSE job[j].due)
    BY <1>1 DEF FailedRow, Flush, JobRow
  <1>3. job'[j] = row /\ \A k \in Jobs : k # j => job'[k] = job[k]
    BY DEF TypeOK
  <1> HIDE DEF row
  <1>4. NoRow.status = "none"
    BY DEF NoRow
  <1>5. row.status = "queued" => row.attempts < MaxAttempts
    <2>1. CASE job[j].status = "queued"
      BY <1>2, <2>1 DEF RetryInv, AttemptsLeft
    <2>2. CASE job[j].status # "queued" /\ row.status = "queued"
      <3>1. retry /\ seen[w][j].status # "queued"
        BY <1>2, <2>2
      <3>2. Stale(w, j)
        BY <3>1 DEF Stale, Live
      <3>3. seen[w][j].attempts = job[j].attempts
        BY <3>2 DEF RetryInv, SnapshotsCount
      <3>4. QED
        BY <1>2, <3>1, <3>3 DEF Retries
    <2>3. QED
      BY <2>1, <2>2
  <1>6. AttemptsLeft'
    BY <1>2, <1>3, <1>5 DEF RetryInv, AttemptsLeft
  <1>7. row.status \in Live \cup Terminal /\ job[j].status # "none"
    BY <1>2 DEF Exists, Live, Terminal
  <1>8. SnapshotsOfJobs'
    <2>1. \A k \in Jobs : job'[k].status = "none" => job[k].status = "none"
      BY <1>3, <1>7 DEF Live, Terminal
    <2>2. \A v \in Workers : pc'[v] \in Deciding => pc'[v] = pc[v] /\ task'[v] = task[v]
      OBVIOUS
    <2>3. \A v \in Workers, k \in Jobs : job'[k].status = "none" => seen'[v][k] = NoRow
      BY <2>1 DEF RetryInv, SnapshotsOfJobs
    <2>4. \A v \in Workers, k \in Jobs :
            pc'[v] = "reaping" /\ seen'[v][k] # NoRow => seen'[v][k].status = "running"
      BY <2>2 DEF RetryInv, SnapshotsOfJobs, Deciding
    <2>5. \A v \in Workers, k \in Jobs :
            pc'[v] \in {"failing", "rejecting"} /\ task'[v] = k => seen'[v][k].status \in Live \cup Terminal
      BY <2>2 DEF RetryInv, SnapshotsOfJobs, Deciding
    <2>6. QED
      BY <2>3, <2>4, <2>5 DEF SnapshotsOfJobs
  <1>9. row.status = "queued" /\ row.due =>
          ~retry /\ seen[w][j].status = "dead" /\ job[j].status = "queued" /\ job[j].due
    BY <1>2
  <1>10. ~(row.status = "queued" /\ row.due)
    <2>1. ASSUME row.status = "queued", row.due PROVE FALSE
      <3>1. Stale(w, j)
        BY <1>9, <2>1 DEF Stale, Terminal
      <3>2. QED
        BY <1>9, <2>1, <3>1 DEF RetryInv, SnapshotsCount
    <2>2. QED
      BY <2>1
  <1>11. SnapshotsCount'
    <2>1. ASSUME NEW v \in Workers, NEW k \in Jobs, Stale(v, k)', Exists(k)'
          PROVE  Stale(v, k) /\ Exists(k) /\ seen'[v][k] = seen[v][k]
      BY <1>3, <1>4, <2>1 DEF Stale, Exists, Terminal
    <2>2. ASSUME NEW v \in Workers, NEW k \in Jobs, Stale(v, k)', Exists(k)'
          PROVE  /\ seen'[v][k].doc = job'[k].doc
                 /\ seen'[v][k].attempts = job'[k].attempts
                 /\ ~(job'[k].status = "queued" /\ job'[k].due)
      <3>1. /\ seen[v][k].doc = job[k].doc /\ seen[v][k].attempts = job[k].attempts
            /\ ~(job[k].status = "queued" /\ job[k].due)
        BY <2>1, <2>2 DEF RetryInv, SnapshotsCount
      <3>2. CASE k = j
        BY <1>2, <1>3, <1>10, <2>1, <2>2, <3>1, <3>2
      <3>3. CASE k # j
        BY <1>3, <2>1, <2>2, <3>1, <3>3
      <3>4. QED
        BY <3>2, <3>3
    <2>3. QED
      BY <2>2 DEF SnapshotsCount
  <1>12. QED
    BY <1>6, <1>8, <1>11 DEF RetryInv

\* Nobody has taken a snapshot at the start.
LEMMA InitRetryInv == Init => RetryInv
  <1> SUFFICES ASSUME Init PROVE RetryInv
    OBVIOUS
  <1>1. /\ \A j \in Jobs : job[j].attempts = 0 /\ job[j].status = "none"
        /\ \A w \in Workers, j \in Jobs : seen[w][j] = NoRow
        /\ \A w \in Workers : pc[w] = "idle"
    BY DEF Init, Nothing, NoRow
  <1>2. QED
    BY <1>1, BoundsAssumption
    DEF RetryInv, AttemptsLeft, SnapshotsOfJobs, SnapshotsCount, Stale, Deciding

\* Every step preserves RetryInv if backoffs are long enough for whoever has
\* read a row of the document to write it first.
LEMMA NextRetryInv ==
  ASSUME ~SlowWriters
  PROVE  TypeOK /\ SuccessInv /\ RetryInv /\ [Next]_vars => RetryInv'
  <1> SUFFICES ASSUME TypeOK, SuccessInv, RetryInv, [Next]_vars PROVE RetryInv'
    OBVIOUS
  <1>1. ASSUME NEW r \in Requests, NEW d \in Docs, CreateDocument(r, d) \/ FindFailed(r, d)
        PROVE  RetryInv'
    <2>1. UNCHANGED <<job, pc, task, seen>>
      BY <1>1 DEF CreateDocument, FindFailed
    <2>2. QED
      BY <2>1, RetryFrame DEF Exists
  <1>2. ASSUME NEW r \in Requests, RetryFailed(r) \/ ApiFails(r)
        PROVE  RetryInv'
    <2>1. UNCHANGED <<job, pc, task, seen>>
      BY <1>2 DEF RetryFailed, ApiFails
    <2>2. QED
      BY <2>1, RetryFrame DEF Exists
  <1>3. ASSUME NEW r \in Requests, Enqueue(r)
        PROVE  RetryInv'
    <2>1. UNCHANGED <<pc, task, seen>>
      BY <1>3 DEF Enqueue
    <2>2. CASE job' = job
      BY <2>1, <2>2, RetryFrame DEF Exists
    <2>3. CASE job' # job
      <3>1. PICK j \in Jobs :
              /\ job[j] = NoRow
              /\ job' = [job EXCEPT ![j] =
                   [NoRow EXCEPT !.status = "queued", !.doc = req[r].doc, !.due = TRUE]]
        BY <1>3, <2>3 DEF Enqueue
      <3>2. /\ job[j].status = "none"
            /\ job'[j].status = "queued" /\ job'[j].attempts = 0
            /\ \A k \in Jobs : k # j => job'[k] = job[k]
        BY <3>1 DEF TypeOK, NoRow
      <3>3. AttemptsLeft'
        BY <3>2, BoundsAssumption DEF RetryInv, AttemptsLeft
      <3>4. SnapshotsOfJobs'
        BY <2>1, <3>2 DEF RetryInv, SnapshotsOfJobs
      <3>5. \A w \in Workers : seen[w][j].status = "none"
        BY <3>2 DEF RetryInv, SnapshotsOfJobs, NoRow
      <3>6. \A w \in Workers, k \in Jobs : Stale(w, k)' => Stale(w, k) /\ k # j
        BY <2>1, <3>5 DEF Stale, Terminal
      <3>7. SnapshotsCount'
        BY <2>1, <3>2, <3>6 DEF RetryInv, SnapshotsCount, Exists
      <3>8. QED
        BY <3>3, <3>4, <3>7 DEF RetryInv
    <2>4. QED
      BY <2>2, <2>3
  <1>4. ASSUME NEW d \in Docs, DeleteDocument(d)
        PROVE  RetryInv'
    <2>1. UNCHANGED <<pc, task, seen>> /\ \A j \in Jobs : job'[j] = Gone \/ job'[j] = job[j]
      BY <1>4 DEF DeleteDocument
    <2>2. QED
      BY <2>1, RetryFrame DEF Exists
  <1>5. ASSUME NEW w \in Workers, ClaimNext(w)
        PROVE  RetryInv'
    <2>1. PICK j \in Jobs :
            /\ job[j].status = "queued" /\ job[j].due
            /\ job' = [job EXCEPT ![j] = ClaimedRow(job[j])]
            /\ seen' = [seen EXCEPT ![w] = [Nothing EXCEPT ![j] = ClaimedRow(job[j])]]
            /\ task' = [task EXCEPT ![w] = j]
      BY <1>5 DEF ClaimNext, Load
    <2>2. /\ pc'[w] = "claimed"
          /\ \A v \in Workers : v # w => pc'[v] = pc[v] /\ task'[v] = task[v] /\ seen'[v] = seen[v]
          /\ \A k \in Jobs : k # j => seen'[w][k] = NoRow
      BY <1>5, <2>1 DEF ClaimNext, TypeOK, Nothing
    <2>3. /\ job'[j].attempts = job[j].attempts + 1 /\ job'[j].status = "running"
          /\ \A k \in Jobs : k # j => job'[k] = job[k]
          /\ job[j].attempts \in Nat
      BY <2>1 DEF TypeOK, JobRow, ClaimedRow
    <2>4. AttemptsLeft'
      BY <2>1, <2>3, BoundsAssumption DEF RetryInv, AttemptsLeft
    <2>5. SnapshotsOfJobs'
      BY <2>1, <2>2, <2>3 DEF RetryInv, SnapshotsOfJobs
    <2>6. ASSUME NEW v \in Workers, NEW k \in Jobs, Stale(v, k)', Exists(k)'
          PROVE  Stale(v, k) /\ Exists(k) /\ k # j /\ seen'[v] = seen[v] /\ job'[k] = job[k]
      <3>1. v # w /\ seen'[v] = seen[v] /\ Stale(v, k)
        BY <2>2, <2>6 DEF Stale, Deciding
      <3>2. k # j
        BY <2>1, <3>1 DEF RetryInv, SnapshotsCount, Exists, Live
      <3>3. QED
        BY <2>3, <2>6, <3>1, <3>2 DEF Exists
    <2>7. SnapshotsCount'
      BY <2>6 DEF RetryInv, SnapshotsCount
    <2>8. QED
      BY <2>4, <2>5, <2>7 DEF RetryInv
  <1>6. ASSUME NEW w \in Workers, BeginIngest(w) \/ Persist(w)
        PROVE  RetryInv'
    <2>1. job' = job
      BY <1>6 DEF BeginIngest, Persist
    <2>2. \A v \in Workers :
           \/ pc'[v] = pc[v] /\ task'[v] = task[v] /\ seen'[v] = seen[v]
           \/ pc'[v] \notin Deciding /\ (seen'[v] = seen[v] \/ seen'[v] = Nothing)
      BY <1>6 DEF BeginIngest, Persist, Release, Deciding, TypeOK
    <2>3. QED
      BY <2>1, <2>2, RetryFrame DEF Exists
  <1>7. ASSUME NEW w \in Workers, IngestFails(w)
        PROVE  RetryInv'
    <2> DEFINE j == task[w]
    <2>1. job' = job /\ j \in Jobs /\ pc[w] = "ingesting"
      BY <1>7 DEF IngestFails, SuccessInv, Working
    <2>2. CASE ~Exists(j)
      <3>1. \A v \in Workers :
             \/ pc'[v] = pc[v] /\ task'[v] = task[v] /\ seen'[v] = seen[v]
             \/ pc'[v] \notin Deciding /\ (seen'[v] = seen[v] \/ seen'[v] = Nothing)
        BY <1>7, <2>2 DEF IngestFails, Release, Deciding, TypeOK
      <3>2. QED
        BY <2>1, <3>1, RetryFrame DEF Exists
    <2>3. CASE Exists(j)
      <3>1. /\ seen' = [seen EXCEPT ![w] = [Nothing EXCEPT ![j] = job[j]]]
            /\ task' = task
            /\ \E p \in {"failing", "rejecting"} : pc' = [pc EXCEPT ![w] = p]
        BY <1>7, <2>3 DEF IngestFails, Load
      <3>2. /\ pc'[w] \in {"failing", "rejecting"}
            /\ \A v \in Workers : v # w => pc'[v] = pc[v] /\ seen'[v] = seen[v]
            /\ seen'[w][j] = job[j]
            /\ \A k \in Jobs : k # j => seen'[w][k] = NoRow
        BY <2>1, <3>1 DEF TypeOK, Nothing
      <3>3. AttemptsLeft'
        BY <2>1 DEF RetryInv, AttemptsLeft
      <3>4. job[j].status \in Live \cup Terminal /\ job[j].status # "none" /\ NoRow.status = "none"
        BY <2>3 DEF Exists, Live, Terminal, NoRow
      <3>5. SnapshotsOfJobs'
        <4>1. ASSUME NEW v \in Workers, NEW k \in Jobs
              PROVE  /\ job'[k].status = "none" => seen'[v][k] = NoRow
                     /\ pc'[v] = "reaping" /\ seen'[v][k] # NoRow => seen'[v][k].status = "running"
                     /\ pc'[v] \in {"failing", "rejecting"} /\ task'[v] = k =>
                           seen'[v][k].status \in Live \cup Terminal
          <5>1. CASE v = w
            BY <2>1, <3>1, <3>2, <3>4, <5>1
          <5>2. CASE v # w
            BY <2>1, <3>1, <3>2, <5>2 DEF RetryInv, SnapshotsOfJobs
          <5>3. QED
            BY <5>1, <5>2
        <4>2. QED
          BY <4>1 DEF SnapshotsOfJobs
      <3>6. SnapshotsCount'
        <4>1. ASSUME NEW v \in Workers, NEW k \in Jobs, Stale(v, k)', Exists(k)'
              PROVE  /\ seen'[v][k].doc = job'[k].doc
                     /\ seen'[v][k].attempts = job'[k].attempts
                     /\ ~(job'[k].status = "queued" /\ job'[k].due)
          <5>1. CASE v = w
            <6>1. k = j
              BY <3>2, <3>4, <4>1, <5>1 DEF Stale, Terminal
            <6>2. job[j].status # "queued"
              BY <3>2, <4>1, <5>1, <6>1 DEF Stale, Terminal
            <6>3. QED
              BY <2>1, <3>2, <5>1, <6>1, <6>2
          <5>2. CASE v # w
            <6>1. Stale(v, k) /\ Exists(k)
              BY <2>1, <3>2, <4>1, <5>2 DEF Stale, Exists
            <6>2. QED
              BY <2>1, <3>2, <5>2, <6>1 DEF RetryInv, SnapshotsCount
          <5>3. QED
            BY <5>1, <5>2
        <4>2. QED
          BY <4>1 DEF SnapshotsCount
      <3>7. QED
        BY <3>3, <3>5, <3>6 DEF RetryInv
    <2>4. QED
      BY <2>2, <2>3
  <1>8. ASSUME NEW w \in Workers, RecordFailure(w)
        PROVE  RetryInv'
    <2> DEFINE j == task[w]
               permanent == pc[w] = "rejecting"
    <2>1. j \in Jobs /\ pc[w] \in {"failing", "rejecting"} /\ Release(w)
      BY <1>8 DEF RecordFailure, SuccessInv, Working
    <2>2. /\ \A v \in Workers :
             \/ pc'[v] = pc[v] /\ task'[v] = task[v] /\ seen'[v] = seen[v]
             \/ pc'[v] \notin Deciding /\ seen'[v] = Nothing
      BY <2>1 DEF Release, Deciding, TypeOK
    <2>3. CASE CanMarkFailed(j, seen[w][j], permanent)
      <3>1. Exists(j) /\ job' = [job EXCEPT ![j] = FailedRow(job[j], seen[w][j], permanent)]
        BY <1>8, <2>3 DEF RecordFailure, CanMarkFailed, MarkFailed
      <3>2. seen[w][j].status \in Live \cup Terminal
        BY <2>1 DEF RetryInv, SnapshotsOfJobs
      <3>3. pc[w] \in Deciding /\ permanent \in BOOLEAN
        BY <2>1 DEF Deciding
      <3>4. /\ \A v \in Workers, k \in Jobs : seen'[v][k] \in {seen[v][k], NoRow}
            /\ \A v \in Workers : pc'[v] \in Deciding \ {"reaping"} => seen'[v] = seen[v]
        BY <2>2 DEF Nothing
      <3> HIDE DEF j, permanent
      <3>5. QED
        BY <2>1, <2>2, <3>1, <3>2, <3>3, <3>4, RetryFailure
    <2>4. CASE ~CanMarkFailed(j, seen[w][j], permanent)
      <3>1. job' = job
        BY <1>8, <2>4 DEF RecordFailure
      <3>2. QED
        BY <2>2, <3>1, RetryFrame DEF Exists
    <2>5. QED
      BY <2>3, <2>4
  <1>9. ASSUME NEW w \in Workers, MarkSucceeded(w)
        PROVE  RetryInv'
    <2> DEFINE j == task[w]
               new == [seen[w][j] EXCEPT !.status = "succeeded", !.beat = "null"]
               row == Flush(job[j], seen[w][j], new)
    <2>1. j \in Jobs /\ Release(w)
      BY <1>9 DEF MarkSucceeded, SuccessInv, Working
    <2>2. \A v \in Workers :
            \/ pc'[v] = pc[v] /\ task'[v] = task[v] /\ seen'[v] = seen[v]
            \/ pc'[v] \notin Deciding /\ seen'[v] = Nothing
      BY <2>1 DEF Release, Deciding, TypeOK
    <2>3. CASE ~Exists(j)
      <3>1. job' = job
        BY <1>9, <2>3 DEF MarkSucceeded
      <3>2. QED
        BY <2>2, <3>1, RetryFrame DEF Exists
    <2>4. CASE Exists(j)
      <3>1. job[j] \in JobRow /\ seen[w][j] \in JobRow
        BY <2>1 DEF TypeOK
      <3>2. /\ row.status \in {job[j].status, "succeeded"}
            /\ row.attempts = job[j].attempts /\ row.doc = job[j].doc /\ row.due = job[j].due
        BY <3>1 DEF Flush, JobRow
      <3>3. job' = [job EXCEPT ![j] = row]
        BY <1>9, <2>4 DEF MarkSucceeded
      <3> HIDE DEF row
      <3>4. job'[j] = row /\ \A k \in Jobs : k # j => job'[k] = job[k]
        BY <2>1, <3>3 DEF TypeOK
      <3>5. ASSUME NEW k \in Jobs
            PROVE  /\ job'[k].attempts = job[k].attempts /\ job'[k].doc = job[k].doc
                   /\ job'[k].status = "queued" => job[k].status = "queued" /\ (job'[k].due => job[k].due)
                   /\ Exists(k)' => Exists(k)
                   /\ job'[k].status = "none" => job[k].status = "none"
        <4>1. CASE k = j
          BY <2>4, <3>2, <3>4, <4>1
        <4>2. CASE k # j
          BY <3>4, <4>2 DEF Exists
        <4>3. QED
          BY <4>1, <4>2
      <3>6. QED
        BY <2>2, <3>5, RetryFrame
    <2>5. QED
      BY <2>3, <2>4
  <1>10. ASSUME NEW w \in Workers, SelectStale(w)
         PROVE  RetryInv'
    <2>1. /\ job' = job /\ task' = task /\ pc'[w] = "reaping"
          /\ \A v \in Workers : v # w => pc'[v] = pc[v] /\ seen'[v] = seen[v]
          /\ \A j \in Jobs : seen'[w][j] =
               IF job[j].status = "running" /\ job[j].beat = "stale" THEN job[j] ELSE NoRow
      BY <1>10 DEF SelectStale, TypeOK
    <2>2. AttemptsLeft'
      BY <2>1 DEF RetryInv, AttemptsLeft
    <2>3. SnapshotsOfJobs'
      BY <2>1 DEF RetryInv, SnapshotsOfJobs
    <2>4. SnapshotsCount'
      <3>1. ASSUME NEW v \in Workers, NEW j \in Jobs, Stale(v, j)', Exists(j)'
            PROVE  /\ seen'[v][j].doc = job'[j].doc
                   /\ seen'[v][j].attempts = job'[j].attempts
                   /\ ~(job'[j].status = "queued" /\ job'[j].due)
        <4>1. CASE v = w
          <5>1. seen'[w][j] = job[j] /\ job[j].status = "running"
            BY <2>1, <3>1, <4>1 DEF Stale, NoRow, Terminal
          <5>2. QED
            BY <2>1, <4>1, <5>1
        <4>2. CASE v # w
          BY <2>1, <3>1, <4>2 DEF RetryInv, SnapshotsCount, Stale, Exists
        <4>3. QED
          BY <4>1, <4>2
      <3>2. QED
        BY <3>1 DEF SnapshotsCount
    <2>5. QED
      BY <2>2, <2>3, <2>4 DEF RetryInv
  <1>11. ASSUME NEW w \in Workers, ReapOne(w)
         PROVE  RetryInv'
    <2>1. PICK j \in Jobs :
            /\ seen[w][j] # NoRow
            /\ IF CanMarkFailed(j, seen[w][j], FALSE)
               THEN /\ MarkFailed(j, seen[w][j], FALSE)
                    /\ seen' = [seen EXCEPT ![w][j] = NoRow]
                    /\ UNCHANGED <<pc, task>>
               ELSE Release(w) /\ UNCHANGED <<doc, job>>
      BY <1>11 DEF ReapOne
    <2>2. pc[w] = "reaping"
      BY <1>11 DEF ReapOne
    <2>3. CASE CanMarkFailed(j, seen[w][j], FALSE)
      <3>1. /\ Exists(j) /\ job' = [job EXCEPT ![j] = FailedRow(job[j], seen[w][j], FALSE)]
            /\ pc' = pc /\ task' = task
        BY <2>1, <2>3 DEF CanMarkFailed, MarkFailed
      <3>2. seen[w][j].status \in Live \cup Terminal /\ pc[w] \in Deciding
        BY <2>1, <2>2 DEF RetryInv, SnapshotsOfJobs, Live, Deciding
      <3>3. /\ \A v \in Workers, k \in Jobs : seen'[v][k] \in {seen[v][k], NoRow}
            /\ \A v \in Workers : v # w => seen'[v] = seen[v]
        BY <2>1, <2>3 DEF TypeOK
      <3>4. QED
        BY <2>2, <3>1, <3>2, <3>3, RetryFailure
    <2>4. CASE ~CanMarkFailed(j, seen[w][j], FALSE)
      <3>1. job' = job
        BY <2>1, <2>4
      <3>2. \A v \in Workers :
            \/ pc'[v] = pc[v] /\ task'[v] = task[v] /\ seen'[v] = seen[v]
            \/ pc'[v] \notin Deciding /\ seen'[v] = Nothing
        BY <2>1, <2>4 DEF Release, Deciding, TypeOK
      <3>3. QED
        BY <3>1, <3>2, RetryFrame DEF Exists
    <2>5. QED
      BY <2>3, <2>4
  <1>12. ASSUME NEW w \in Workers, PurgeOldJobs(w) \/ LoopError(w) \/ Crash(w) \/ Restart(w)
         PROVE  RetryInv'
    <2>1. \A j \in Jobs : job'[j] = Gone \/ job'[j] = job[j]
      BY <1>12 DEF PurgeOldJobs, LoopError, Crash, Restart
    <2>2. \A v \in Workers :
            \/ pc'[v] = pc[v] /\ task'[v] = task[v] /\ seen'[v] = seen[v]
            \/ pc'[v] \notin Deciding /\ (seen'[v] = seen[v] \/ seen'[v] = Nothing)
      BY <1>12 DEF PurgeOldJobs, LoopError, Crash, Restart, Release, Deciding, TypeOK
    <2>3. QED
      BY <2>1, <2>2, RetryFrame DEF Exists
  <1>13. ASSUME NEW w \in Workers, Heartbeat(w)
         PROVE  RetryInv'
    <2>1. /\ \A j \in Jobs : /\ job'[j].attempts = job[j].attempts /\ job'[j].doc = job[j].doc
                             /\ job'[j].status = job[j].status /\ job'[j].due = job[j].due
          /\ UNCHANGED <<pc, task, seen>>
      BY <1>13 DEF Heartbeat, TypeOK, JobRow
    <2>2. QED
      BY <2>1, RetryFrame DEF Exists
  <1>14. ASSUME NEW i \in Jobs, BeatExpires(i) \/ Stall(i)
         PROVE  RetryInv'
    <2>1. job' = [job EXCEPT ![i].beat = "stale"] /\ UNCHANGED <<pc, task, seen>>
      BY <1>14 DEF BeatExpires, Stall
    <2>2. \A j \in Jobs : /\ job'[j].attempts = job[j].attempts /\ job'[j].doc = job[j].doc
                          /\ job'[j].status = job[j].status /\ job'[j].due = job[j].due
      BY <2>1 DEF TypeOK, JobRow
    <2>3. QED
      BY <2>1, <2>2, RetryFrame DEF Exists
  <1>15. ASSUME NEW i \in Jobs, BackoffElapses(i)
         PROVE  RetryInv'
    <2>1. /\ job' = [job EXCEPT ![i].due = TRUE] /\ UNCHANGED <<pc, task, seen>>
          /\ job[i].status = "queued" /\ ~FailurePending(job[i].doc)
      BY <1>15 DEF BackoffElapses, TimeToWork
    <2>2. /\ \A j \in Jobs : j # i => job'[j] = job[j]
          /\ job'[i].attempts = job[i].attempts /\ job'[i].status = job[i].status
      BY <2>1 DEF TypeOK, JobRow
    <2>3. AttemptsLeft'
      BY <2>2 DEF RetryInv, AttemptsLeft
    <2>4. SnapshotsOfJobs'
      BY <2>1, <2>2 DEF RetryInv, SnapshotsOfJobs
    <2>5. \A w \in Workers : ~Stale(w, i)
      <3>1. Exists(i)
        BY <2>1 DEF Exists, Live
      <3>2. ASSUME NEW w \in Workers, Stale(w, i) PROVE FALSE
        <4>1. seen[w][i].doc = job[i].doc /\ pc[w] \in Deciding
          BY <3>1, <3>2 DEF RetryInv, SnapshotsCount, Stale
        <4>2. QED
          BY <2>1, <4>1 DEF FailurePending, Deciding
      <3>3. QED
        BY <3>2
    <2>6. \A w \in Workers, k \in Jobs : Stale(w, k)' => Stale(w, k) /\ k # i
      BY <2>1, <2>5 DEF Stale
    <2>7. SnapshotsCount'
      BY <2>1, <2>2, <2>6 DEF RetryInv, SnapshotsCount, Exists
    <2>8. QED
      BY <2>3, <2>4, <2>7 DEF RetryInv
  <1>16. CASE UNCHANGED vars
    BY <1>16, RetryFrame DEF vars, Exists
  <1>17. QED
    BY <1>1, <1>2, <1>3, <1>4, <1>5, <1>6, <1>7, <1>8, <1>9, <1>10, <1>11,
       <1>12, <1>13, <1>14, <1>15, <1>16
    DEF Next, RequestStep, WorkerStep

\* However often workers crash, stall and overlap, and mark_failed decides from
\* old snapshots, no job is attempted more than JOB_MAX_ATTEMPTS times.
THEOREM AttemptsBoundedAlways ==
  ASSUME ~SlowWriters
  PROVE  Spec => []AttemptsBounded
  <1>1. TypeOK /\ SuccessInv /\ RetryInv /\ [Next]_vars => RetryInv'
    BY NextRetryInv
  <1>2. RetryInv => AttemptsBounded
    BY DEF RetryInv, AttemptsLeft, AttemptsBounded
  <1>3. QED
    BY InitTypeOK, NextTypeOK, InitSuccessInv, NextSuccessInv, InitRetryInv, <1>1, <1>2, PTL DEF Spec

-----------------------------------------------------------------------------
(* Who may touch a job: the claims of workers and reapers on it, while no *)
(* worker stalls past its heartbeat.                                      *)

\* Worker w holds job j, has selected it as stale; job j is queued or running.
Holds(w, j) == pc[w] \in Working /\ task[w] = j
Selected(w, j) == pc[w] = "reaping" /\ seen[w][j] # NoRow
LiveJob(j) == job[j].status \in Live

\* A job belongs to a stored document, one live job at most to each.
JobsStored == \A j \in Jobs : Exists(j) =>
  job[j].doc \in Docs /\ doc[job[j].doc].status \in Stored
OneLiveJob == \A j, k \in Jobs :
  LiveJob(j) /\ LiveJob(k) /\ job[j].doc = job[k].doc => j = k

\* Nobody uploads again what is being worked on, least of all while its worker
\* is dead.
RunningNotFailed == \A j \in Jobs :
  job[j].status = "running" => doc[job[j].doc].status # "failed"
StaleUndisturbed == \A j \in Jobs, r \in Requests :
  job[j].status = "running" /\ job[j].beat = "stale" => req[r].doc # job[j].doc

\* What an upload request is about.
RequestsKnown == \A r \in Requests :
  IF req[r].pc = "idle" THEN req[r].doc = NoDoc
  ELSE req[r].doc \in Docs /\ doc[req[r].doc].status \notin {"ready", "absent"}

\* What a worker knows of the job it holds is what the row says, unless it went
\* with its document.
Knows(w, j) ==
  IF job[j] = Gone THEN seen[w][j].doc \in Docs /\ doc[seen[w][j].doc].status = "deleted"
  ELSE seen[w][j] = job[j] /\ job[j].status = "running" /\ job[j].beat = "fresh"
HoldersKnow ==
  /\ \A w \in Workers : pc[w] \in Working => task[w] \in Jobs
  /\ \A w \in Workers, j \in Jobs : Holds(w, j) => Knows(w, j)
OneHolder == \A v, w \in Workers, j \in Jobs : Holds(v, j) /\ Holds(w, j) => v = w
IngestedCleanly == \A w \in Workers, j \in Jobs : Holds(w, j) /\ job[j] # Gone =>
  /\ pc[w] \in {"ingesting", "persisted"} => ~doc[job[j].doc].error
  /\ pc[w] = "persisted" => doc[job[j].doc].status = "ready"

\* What a reaper knows of a job it has selected: the row is as it was or
\* another reaper has written what this one will write.
AsReaped(w, j) ==
  \/ job[j].status = "running" /\ job[j].beat = "stale"
  \/ job[j].status = "queued" /\ ~job[j].due /\ Retries(seen[w][j], FALSE)
  \/ /\ job[j].status = "dead" /\ ~Retries(seen[w][j], FALSE)
     /\ doc[job[j].doc].status = "failed"
SelectedKnown == \A w \in Workers, j \in Jobs : Selected(w, j) =>
  /\ seen[w][j].status = "running" /\ seen[w][j].beat = "stale" /\ seen[w][j].doc \in Docs
  /\ job[j] # Gone => /\ seen[w][j].doc = job[j].doc
                      /\ seen[w][j].attempts = job[j].attempts
                      /\ AsReaped(w, j)

\* Nobody else is concerned with it: no upload, no worker, no other job.
SelectedAlone == \A w \in Workers, j \in Jobs : Selected(w, j) /\ job[j] # Gone =>
  /\ \A r \in Requests : req[r].doc # job[j].doc
  /\ \A v \in Workers : ~Holds(v, j)
  /\ \A k \in Jobs : LiveJob(k) /\ job[k].doc = job[j].doc => k = j

\* The inductive invariant behind the theorems of this module.
ClaimsInv ==
  /\ TypeOK
  /\ JobsStored /\ OneLiveJob /\ RunningNotFailed /\ StaleUndisturbed
  /\ RequestsKnown /\ ReadyHasNoError
  /\ HoldersKnow /\ OneHolder /\ IngestedCleanly
  /\ SelectedKnown /\ SelectedAlone

\* The placeholders for a deleted and for a missing row have statuses no job has.
LEMMA RowStatuses == Gone.status = "gone" /\ NoRow.status = "none"
  BY DEF Gone, NoRow

\* What set_document_status leaves of the row of a stored document.
LEMMA DocUpdated ==
  ASSUME TypeOK, NEW d \in Docs, doc[d].status \in Stored, NEW status, NEW error,
         doc' = SetDocumentStatus(d, status, error)
  PROVE  /\ doc'[d].status = status /\ doc'[d].error = error
         /\ doc'[d].chunks = doc[d].chunks
         /\ \A e \in Docs : e # d => doc'[e] = doc[e]
  BY DEF TypeOK, SetDocumentStatus, DocRow

\* A selected job that is still there belongs to a stored document.
LEMMA SelectedStored ==
  ASSUME ClaimsInv, NEW w \in Workers, NEW j \in Jobs, Selected(w, j), job[j] # Gone
  PROVE  /\ Exists(j) /\ job[j].doc \in Docs /\ doc[job[j].doc].status \in Stored
         /\ seen[w][j].doc = job[j].doc
  <1>1. AsReaped(w, j) /\ seen[w][j].doc = job[j].doc
    BY DEF ClaimsInv, SelectedKnown
  <1>2. Exists(j)
    BY <1>1 DEF AsReaped, Exists, Live, Terminal
  <1>3. QED
    BY <1>1, <1>2 DEF ClaimsInv, JobsStored

\* What a reaper knows outlives a step that keeps its snapshot, and the row and
\* the document's status unless it deletes them.
LEMMA SelectedKept ==
  ASSUME SelectedKnown,
         \A w \in Workers, j \in Jobs : Selected(w, j)' =>
           /\ Selected(w, j) /\ seen'[w][j] = seen[w][j]
           /\ job'[j] # Gone =>
                /\ job[j] # Gone /\ job'[j] = job[j]
                /\ doc'[job[j].doc].status = doc[job[j].doc].status
  PROVE  SelectedKnown'
  <1>1. ASSUME NEW w \in Workers, NEW j \in Jobs, Selected(w, j)'
        PROVE  /\ seen'[w][j].status = "running" /\ seen'[w][j].beat = "stale"
               /\ seen'[w][j].doc \in Docs
    BY <1>1 DEF SelectedKnown
  <1>2. ASSUME NEW w \in Workers, NEW j \in Jobs, Selected(w, j)', job'[j] # Gone
        PROVE  /\ seen'[w][j].doc = job'[j].doc
               /\ seen'[w][j].attempts = job'[j].attempts
               /\ AsReaped(w, j)'
    <2>1. /\ seen[w][j].doc = job[j].doc
          /\ seen[w][j].attempts = job[j].attempts
          /\ AsReaped(w, j)
      BY <1>2 DEF SelectedKnown
    <2>2. /\ job'[j] = job[j] /\ seen'[w][j] = seen[w][j]
          /\ doc'[job[j].doc].status = doc[job[j].doc].status
      BY <1>2
    <2>3. QED
      BY <2>1, <2>2 DEF AsReaped
  <1>3. QED
    BY <1>1, <1>2 DEF SelectedKnown

\* A step that is only about a live job j, its document and its worker w.
OwnStep(w, j) ==
  /\ LiveJob(j)
  /\ \A v \in Workers : v # w => ~Holds(v, j)
  /\ \A v \in Workers : ~Selected(v, j)
  /\ \A k \in Jobs : k # j => job'[k] = job[k]
  /\ \A e \in Docs : e # job[j].doc => doc'[e] = doc[e]
  /\ \A v \in Workers : v # w => pc'[v] = pc[v] /\ task'[v] = task[v] /\ seen'[v] = seen[v]
  /\ req' = req
  /\ job'[j].doc = job[j].doc /\ job'[j].status \in Live \cup Terminal
  /\ doc'[job[j].doc].status \in Stored
  /\ doc'[job[j].doc].status \in InFlight => job'[j].status \in Live
  /\ doc'[job[j].doc].status = "ready" =>
        /\ doc'[job[j].doc].chunks /\ ~doc'[job[j].doc].error
        /\ \A r \in Requests : req[r].doc # job[j].doc
        /\ doc[job[j].doc].status # "failed"
        /\ job'[j].status \in Live \/ doc[job[j].doc].status = "ready"
  /\ job'[j].status = "running" =>
        /\ job'[j].beat = "fresh" /\ doc'[job[j].doc].status # "failed"
  /\ pc'[w] # "reaping"
  /\ pc'[w] \in Working =>
        /\ task'[w] = j /\ seen'[w][j] = job'[j] /\ job'[j].status = "running"
        /\ pc'[w] \in {"ingesting", "persisted"} => ~doc'[job[j].doc].error
        /\ pc'[w] = "persisted" => doc'[job[j].doc].status = "ready"

\* Such a step preserves the invariant.
LEMMA OwnStepClaims ==
  ASSUME ClaimsInv, TypeOK', NEW w \in Workers, NEW j \in Jobs, OwnStep(w, j)
  PROVE  ClaimsInv'
  <1> DEFINE d == job[j].doc
  <1>1. d \in Docs /\ doc[d].status \in Stored /\ Exists(j)
    BY DEF ClaimsInv, JobsStored, OwnStep, Exists, LiveJob, Live
  <1>2. /\ LiveJob(j) /\ job[j].doc = d
        /\ \A v \in Workers : v # w => ~Holds(v, j)
        /\ \A v \in Workers : ~Selected(v, j)
    BY DEF OwnStep
  <1>3. /\ job'[j].doc = d /\ job'[j].status \in Live \cup Terminal
        /\ \A k \in Jobs : k # j => job'[k] = job[k]
    BY DEF OwnStep
  <1>4. /\ doc'[d].status \in Stored
        /\ doc'[d].status = "ready" => doc'[d].chunks /\ ~doc'[d].error
        /\ \A e \in Docs : e # d => doc'[e] = doc[e]
    BY DEF OwnStep
  <1>5. /\ req' = req
        /\ doc'[d].status = "ready" => \A r \in Requests : req[r].doc # d
    BY DEF OwnStep
  <1>6. \A v \in Workers : v # w => pc'[v] = pc[v] /\ task'[v] = task[v] /\ seen'[v] = seen[v]
    BY DEF OwnStep
  <1>7. job'[j].status = "running" => job'[j].beat = "fresh" /\ doc'[d].status # "failed"
    BY DEF OwnStep
  <1>8. /\ pc'[w] # "reaping"
        /\ pc'[w] \in Working => task'[w] = j /\ seen'[w][j] = job'[j] /\ job'[j].status = "running"
    BY DEF OwnStep
  <1>9. pc'[w] \in Working =>
          /\ pc'[w] \in {"ingesting", "persisted"} => ~doc'[d].error
          /\ pc'[w] = "persisted" => doc'[d].status = "ready"
    BY DEF OwnStep
  <1> HIDE DEF d
  <1>10. job[j] # Gone /\ job'[j] # Gone /\ Gone.status = "gone" /\ NoRow.status = "none"
    BY <1>2, <1>3 DEF Gone, NoRow, LiveJob, Live, Terminal
  <1>11. ASSUME NEW k \in Jobs, k # j, LiveJob(k)
         PROVE  job[k].doc # d /\ job[k].doc \in Docs
    BY <1>2, <1>11 DEF ClaimsInv, OneLiveJob, JobsStored, Exists, LiveJob
  <1>12. JobsStored'
    BY <1>1, <1>3, <1>4 DEF ClaimsInv, JobsStored, Exists
  <1>13. OneLiveJob'
    BY <1>2, <1>3, <1>11 DEF ClaimsInv, OneLiveJob, LiveJob
  <1>14. RunningNotFailed'
    BY <1>3, <1>4, <1>7, <1>11 DEF ClaimsInv, RunningNotFailed, LiveJob, Live
  <1>15. StaleUndisturbed'
    BY <1>3, <1>5, <1>7 DEF ClaimsInv, StaleUndisturbed
  <1>16. RequestsKnown'
    BY <1>1, <1>4, <1>5 DEF ClaimsInv, RequestsKnown, Stored, InFlight
  <1>17. ReadyHasNoError'
    BY <1>4 DEF ClaimsInv, ReadyHasNoError
  <1>18. ASSUME NEW v \in Workers, NEW k \in Jobs, Holds(v, k)'
         PROVE  \/ v = w /\ k = j
                \/ /\ v # w /\ k # j /\ Holds(v, k) /\ job'[k] = job[k]
                   /\ pc'[v] = pc[v] /\ seen'[v] = seen[v]
    BY <1>2, <1>3, <1>6, <1>8, <1>18 DEF Holds
  <1>19. HoldersKnow'
    <2>1. ASSUME NEW v \in Workers, pc'[v] \in Working PROVE task'[v] \in Jobs
      BY <1>6, <1>8, <2>1 DEF ClaimsInv, HoldersKnow
    <2>2. ASSUME NEW v \in Workers, NEW k \in Jobs, Holds(v, k)' PROVE Knows(v, k)'
      <3>1. CASE v = w /\ k = j
        BY <1>7, <1>8, <1>10, <2>2, <3>1 DEF Holds, Knows
      <3>2. CASE v # w /\ Holds(v, k) /\ job'[k] = job[k] /\ seen'[v] = seen[v]
        <4>1. Knows(v, k)
          BY <3>2 DEF ClaimsInv, HoldersKnow
        <4>2. CASE job[k] = Gone
          <5>1. seen[v][k].doc \in Docs /\ doc[seen[v][k].doc].status = "deleted"
            BY <4>1, <4>2 DEF Knows
          <5>2. doc'[seen[v][k].doc] = doc[seen[v][k].doc]
            BY <1>1, <1>4, <5>1 DEF Stored, InFlight
          <5>3. QED
            BY <3>2, <4>2, <5>1, <5>2 DEF Knows
        <4>3. CASE job[k] # Gone
          BY <3>2, <4>1, <4>3 DEF Knows
        <4>4. QED
          BY <4>2, <4>3
      <3>3. QED
        BY <1>18, <2>2, <3>1, <3>2
    <2>3. QED
      BY <2>1, <2>2 DEF HoldersKnow
  <1>20. OneHolder'
    BY <1>18 DEF ClaimsInv, OneHolder
  <1>21. IngestedCleanly'
    <2>1. ASSUME NEW v \in Workers, NEW k \in Jobs, Holds(v, k)', job'[k] # Gone
          PROVE  /\ pc'[v] \in {"ingesting", "persisted"} => ~doc'[job'[k].doc].error
                 /\ pc'[v] = "persisted" => doc'[job'[k].doc].status = "ready"
      <3>1. CASE v = w /\ k = j
        BY <1>3, <1>9, <2>1, <3>1 DEF Holds
      <3>2. CASE v # w /\ k # j /\ Holds(v, k) /\ job'[k] = job[k] /\ pc'[v] = pc[v]
        <4>1. Knows(v, k)
          BY <3>2 DEF ClaimsInv, HoldersKnow
        <4>2. LiveJob(k)
          BY <2>1, <3>2, <4>1 DEF Knows, LiveJob, Live
        <4>3. doc'[job[k].doc] = doc[job[k].doc]
          BY <1>4, <1>11, <3>2, <4>2
        <4>4. QED
          BY <2>1, <3>2, <4>3 DEF ClaimsInv, IngestedCleanly
      <3>3. QED
        BY <1>18, <2>1, <3>1, <3>2
    <2>2. QED
      BY <2>1 DEF IngestedCleanly
  <1>22. ASSUME NEW v \in Workers, NEW k \in Jobs, Selected(v, k)', job'[k] # Gone
         PROVE  /\ v # w /\ k # j /\ Selected(v, k) /\ job[k] # Gone /\ job'[k] = job[k]
                /\ seen'[v] = seen[v] /\ doc'[job[k].doc] = doc[job[k].doc]
                /\ job[k].doc # d
    <2>1. v # w /\ Selected(v, k) /\ seen'[v] = seen[v]
      BY <1>6, <1>8, <1>22 DEF Selected
    <2>2. k # j /\ job'[k] = job[k] /\ job[k] # Gone
      BY <1>2, <1>3, <1>22, <2>1
    <2>3. job[k].doc # d
      BY <1>2, <2>1, <2>2 DEF ClaimsInv, SelectedAlone
    <2>4. job[k].doc \in Docs
      BY <2>1, <2>2, SelectedStored
    <2>5. doc'[job[k].doc] = doc[job[k].doc]
      BY <1>4, <2>3, <2>4
    <2>6. QED
      BY <2>1, <2>2, <2>3, <2>5
  <1>23. SelectedKnown'
    <2>1. \A v \in Workers, k \in Jobs : Selected(v, k)' => Selected(v, k) /\ seen'[v] = seen[v]
      BY <1>6, <1>8 DEF Selected
    <2>2. QED
      BY <1>22, <2>1, SelectedKept DEF ClaimsInv
  <1>24. SelectedAlone'
    <2>1. ASSUME NEW v \in Workers, NEW k \in Jobs, Selected(v, k)', job'[k] # Gone
          PROVE  /\ \A r \in Requests : req'[r].doc # job'[k].doc
                 /\ \A u \in Workers : ~Holds(u, k)'
                 /\ \A i \in Jobs : LiveJob(i)' /\ job'[i].doc = job'[k].doc => i = k
      <3>1. k # j /\ Selected(v, k) /\ job[k] # Gone /\ job'[k] = job[k] /\ job[k].doc # d
        BY <1>22, <2>1
      <3>2. /\ \A r \in Requests : req[r].doc # job[k].doc
            /\ \A u \in Workers : ~Holds(u, k)
            /\ \A i \in Jobs : LiveJob(i) /\ job[i].doc = job[k].doc => i = k
        BY <3>1 DEF ClaimsInv, SelectedAlone
      <3>3. QED
        BY <1>3, <1>5, <1>18, <3>1, <3>2 DEF LiveJob
    <2>2. QED
      BY <2>1 DEF SelectedAlone
  <1>25. QED
    BY <1>12, <1>13, <1>14, <1>15, <1>16, <1>17, <1>19, <1>20, <1>21, <1>23, <1>24 DEF ClaimsInv
\* A step that takes w's job from its hands and touches no other row, except
\* that terminal jobs may be purged.
DropStep(w) ==
  /\ doc' = doc /\ req' = req
  /\ \A v \in Workers : v # w => pc'[v] = pc[v] /\ task'[v] = task[v] /\ seen'[v] = seen[v]
  /\ pc'[w] \notin Working \cup {"reaping"}
  /\ \A k \in Jobs : \/ job'[k] = job[k]
                     \/ job[k].status \in Terminal /\ job'[k] = Gone

\* A worker may forget what it holds without harm.
LEMMA DropStepClaims ==
  ASSUME ClaimsInv, TypeOK', NEW w \in Workers, DropStep(w)
  PROVE  ClaimsInv'
  <1>1. doc' = doc /\ req' = req
    BY DEF DropStep
  <1>2. \A k \in Jobs : \/ job'[k] = job[k]
                        \/ job[k].status \in Terminal /\ job'[k] = Gone
    BY DEF DropStep
  <1>3. Gone.status = "gone" /\ NoRow.status = "none"
    BY DEF Gone, NoRow
  <1>4. ASSUME NEW v \in Workers, NEW k \in Jobs, Holds(v, k)'
        PROVE  /\ Holds(v, k) /\ job'[k] = job[k] /\ pc'[v] = pc[v] /\ seen'[v] = seen[v]
    <2>1. Holds(v, k) /\ pc'[v] = pc[v] /\ seen'[v] = seen[v]
      BY <1>4 DEF DropStep, Holds
    <2>2. job[k].status \notin Terminal
      BY <1>3, <2>1 DEF ClaimsInv, HoldersKnow, Knows, Terminal
    <2>3. QED
      BY <1>2, <2>1, <2>2
  <1>5. ASSUME NEW v \in Workers, NEW k \in Jobs, Selected(v, k)'
        PROVE  Selected(v, k) /\ seen'[v] = seen[v]
    BY <1>5 DEF DropStep, Selected
  <1>6. JobsStored'
    BY <1>1, <1>2, <1>3 DEF ClaimsInv, JobsStored, Exists, Live, Terminal
  <1>7. OneLiveJob'
    BY <1>2, <1>3 DEF ClaimsInv, OneLiveJob, LiveJob, Live
  <1>8. RunningNotFailed' /\ StaleUndisturbed'
    BY <1>1, <1>2, <1>3 DEF ClaimsInv, RunningNotFailed, StaleUndisturbed
  <1>9. RequestsKnown' /\ ReadyHasNoError'
    BY <1>1 DEF ClaimsInv, RequestsKnown, ReadyHasNoError
  <1>10. HoldersKnow'
    <2>1. ASSUME NEW v \in Workers, pc'[v] \in Working PROVE task'[v] \in Jobs
      BY <2>1 DEF ClaimsInv, HoldersKnow, DropStep
    <2>2. QED
      BY <1>1, <1>4, <2>1 DEF ClaimsInv, HoldersKnow, Knows
  <1>11. OneHolder'
    BY <1>4 DEF ClaimsInv, OneHolder
  <1>12. IngestedCleanly'
    BY <1>1, <1>4 DEF ClaimsInv, IngestedCleanly
  <1>13. SelectedKnown'
    <2>1. \A v \in Workers, k \in Jobs : Selected(v, k)' /\ job'[k] # Gone => job'[k] = job[k]
      BY <1>2
    <2>2. QED
      BY <1>1, <1>5, <2>1, SelectedKept DEF ClaimsInv
  <1>14. SelectedAlone'
    <2>1. ASSUME NEW v \in Workers, NEW k \in Jobs, Selected(v, k)', job'[k] # Gone
          PROVE  /\ \A r \in Requests : req'[r].doc # job'[k].doc
                 /\ \A u \in Workers : ~Holds(u, k)'
                 /\ \A i \in Jobs : LiveJob(i)' /\ job'[i].doc = job'[k].doc => i = k
      <3>1. Selected(v, k) /\ job'[k] = job[k] /\ job[k] # Gone
        BY <1>2, <1>5, <2>1
      <3>2. /\ \A r \in Requests : req[r].doc # job[k].doc
            /\ \A u \in Workers : ~Holds(u, k)
            /\ \A i \in Jobs : LiveJob(i) /\ job[i].doc = job[k].doc => i = k
        BY <3>1 DEF ClaimsInv, SelectedAlone
      <3>3. \A i \in Jobs : LiveJob(i)' => LiveJob(i) /\ job'[i] = job[i]
        BY <1>2, <1>3 DEF LiveJob, Live
      <3>4. QED
        BY <1>1, <1>4, <3>1, <3>2, <3>3
    <2>2. QED
      BY <2>1 DEF SelectedAlone
  <1>15. QED
    BY <1>6, <1>7, <1>8, <1>9, <1>10, <1>11, <1>12, <1>13, <1>14 DEF ClaimsInv

-----------------------------------------------------------------------------
(* The upload and delete handlers *)

\* Nothing is known of a document that does not exist yet.
LEMMA CreateDocumentClaims ==
  ASSUME ClaimsInv, TypeOK', NEW r \in Requests, NEW d \in Docs, CreateDocument(r, d)
  PROVE  ClaimsInv'
  <1>1. /\ doc[d].status = "absent"
        /\ doc'[d].status = "pending"
        /\ \A e \in Docs : e # d => doc'[e] = doc[e]
    BY DEF CreateDocument, ClaimsInv, TypeOK, DocRow
  <1>2. /\ req'[r].pc = "queueing" /\ req'[r].doc = d
        /\ \A q \in Requests : q # r => req'[q] = req[q]
    BY DEF CreateDocument, ClaimsInv, TypeOK
  <1>3. job' = job /\ pc' = pc /\ task' = task /\ seen' = seen
    BY DEF CreateDocument
  <1>4. ASSUME NEW j \in Jobs, Exists(j)
        PROVE  job[j].doc # d /\ job[j].doc \in Docs
    BY <1>1, <1>4 DEF ClaimsInv, JobsStored, Stored, InFlight
  <1>5. ASSUME NEW w \in Workers, NEW j \in Jobs, Selected(w, j), job[j] # Gone
        PROVE  job[j].doc # d /\ job[j].doc \in Docs
    BY <1>4, <1>5, SelectedStored
  <1>6. JobsStored' /\ OneLiveJob' /\ RunningNotFailed' /\ StaleUndisturbed'
    BY <1>1, <1>2, <1>3, <1>4
    DEF ClaimsInv, JobsStored, OneLiveJob, RunningNotFailed, StaleUndisturbed, LiveJob, Exists, Live
  <1>7. RequestsKnown' /\ ReadyHasNoError'
    BY <1>1, <1>2 DEF ClaimsInv, RequestsKnown, ReadyHasNoError
  <1>8. HoldersKnow' /\ OneHolder'
    BY <1>1, <1>3 DEF ClaimsInv, HoldersKnow, OneHolder, Knows, Holds
  <1>9. IngestedCleanly'
    <2>1. \A w \in Workers, j \in Jobs : Holds(w, j) /\ job[j] # Gone => Exists(j)
      BY DEF ClaimsInv, HoldersKnow, Knows, Exists, Live
    <2>2. QED
      BY <1>1, <1>3, <1>4, <2>1 DEF ClaimsInv, IngestedCleanly, Holds
  <1>10. SelectedKnown'
    <2>1. \A w \in Workers, j \in Jobs : Selected(w, j)' <=> Selected(w, j)
      BY <1>3 DEF Selected
    <2>2. QED
      BY <1>1, <1>3, <1>5, <2>1, SelectedKept DEF ClaimsInv
  <1>11. SelectedAlone'
    BY <1>2, <1>3, <1>5 DEF ClaimsInv, SelectedAlone, Selected, Holds, LiveJob
  <1>12. QED
    BY <1>6, <1>7, <1>8, <1>9, <1>10, <1>11 DEF ClaimsInv

\* Requests that begin, or end, on a document whose failure nobody is about to
\* record.
LEMMA RequestMoves ==
  ASSUME ClaimsInv, TypeOK', UNCHANGED <<doc, job, pc, task, seen>>, RequestsKnown',
         \A q \in Requests : req'[q].doc \in Docs /\ req'[q] # req[q] =>
            /\ doc[req'[q].doc].status = "failed"
            /\ \A w \in Workers, j \in Jobs :
                  Selected(w, j) /\ job[j] # Gone => job[j].doc # req'[q].doc
  PROVE  ClaimsInv'
  <1>1. ASSUME NEW q \in Requests, NEW j \in Jobs, job[j].status = "running", job[j].beat = "stale"
        PROVE  req'[q].doc # job[j].doc
    <2>1. job[j].doc \in Docs
      BY <1>1 DEF ClaimsInv, JobsStored, Exists, Live
    <2>2. doc[job[j].doc].status # "failed" /\ req[q].doc # job[j].doc
      BY <1>1 DEF ClaimsInv, RunningNotFailed, StaleUndisturbed
    <2>3. QED
      BY <2>1, <2>2
  <1>2. JobsStored' /\ OneLiveJob' /\ RunningNotFailed' /\ StaleUndisturbed' /\ ReadyHasNoError'
    BY <1>1 DEF ClaimsInv, JobsStored, OneLiveJob, RunningNotFailed, StaleUndisturbed, LiveJob, Exists, ReadyHasNoError
  <1>3. HoldersKnow' /\ OneHolder' /\ IngestedCleanly'
    BY DEF ClaimsInv, HoldersKnow, OneHolder, IngestedCleanly, Knows, Holds
  <1>4. SelectedKnown'
    <2>1. \A w \in Workers, j \in Jobs : Selected(w, j)' <=> Selected(w, j)
      BY DEF Selected
    <2>2. QED
      BY <2>1, SelectedKept DEF ClaimsInv
  <1>5. ASSUME NEW w \in Workers, NEW j \in Jobs, NEW q \in Requests, Selected(w, j), job[j] # Gone
        PROVE  req'[q].doc # job[j].doc
    <2>1. job[j].doc \in Docs /\ req[q].doc # job[j].doc
      BY <1>5, SelectedStored DEF ClaimsInv, SelectedAlone
    <2>2. QED
      BY <1>5, <2>1
  <1>6. SelectedAlone'
    BY <1>5 DEF ClaimsInv, SelectedAlone, Selected, Holds, LiveJob
  <1>7. QED
    BY <1>2, <1>3, <1>4, <1>6 DEF ClaimsInv

\* Nobody who has selected a job is slower than its document's owner.
LEMMA SelectedPending ==
  ASSUME ClaimsInv, NEW w \in Workers, NEW j \in Jobs, Selected(w, j), job[j] # Gone
  PROVE  FailurePending(job[j].doc)
  BY SelectedStored DEF FailurePending, Selected

\* An upload that finds a failed document changes no row.
LEMMA FindFailedClaims ==
  ASSUME ~SlowWriters, ClaimsInv, TypeOK', NEW r \in Requests, NEW d \in Docs, FindFailed(r, d)
  PROVE  ClaimsInv'
  <1>1. /\ doc[d].status = "failed" /\ ~FailurePending(d)
        /\ req'[r].pc = "retrying" /\ req'[r].doc = d
        /\ \A q \in Requests : q # r => req'[q] = req[q]
        /\ UNCHANGED <<doc, job, pc, task, seen>>
    BY DEF FindFailed, TimeToReact, ClaimsInv, TypeOK
  <1>2. RequestsKnown'
    BY <1>1 DEF ClaimsInv, RequestsKnown
  <1>3. \A w \in Workers, j \in Jobs : Selected(w, j) /\ job[j] # Gone => job[j].doc # d
    BY <1>1, SelectedPending
  <1>4. QED
    BY <1>1, <1>2, <1>3, RequestMoves

\* Nor does one whose request is cut off.
LEMMA ApiFailsClaims ==
  ASSUME ClaimsInv, TypeOK', NEW r \in Requests, ApiFails(r)
  PROVE  ClaimsInv'
  <1>1. /\ req'[r].pc = "idle" /\ req'[r].doc = NoDoc
        /\ \A q \in Requests : q # r => req'[q] = req[q]
        /\ UNCHANGED <<doc, job, pc, task, seen>>
    BY DEF ApiFails, ClaimsInv, TypeOK, Idle
  <1>2. RequestsKnown'
    BY <1>1 DEF ClaimsInv, RequestsKnown
  <1>3. QED
    BY <1>1, <1>2, RequestMoves, DocsAssumption

\* A retried document is not ready, and nobody who would fail it is about to.
LEMMA RetryFailedClaims ==
  ASSUME ClaimsInv, TypeOK', NEW r \in Requests, RetryFailed(r)
  PROVE  ClaimsInv'
  <1> DEFINE d == req[r].doc
  <1>1. /\ req[r].pc = "retrying" /\ d \in Docs /\ doc[d].status \notin {"ready", "absent"}
        /\ job' = job /\ pc' = pc /\ task' = task /\ seen' = seen
    BY DEF RetryFailed, ClaimsInv, RequestsKnown
  <1>2. CASE doc[d].status \notin Stored
    <2>0. req' = [req EXCEPT ![r] = Idle] /\ UNCHANGED <<doc, job, pc, task, seen>>
      BY <1>2 DEF RetryFailed
    <2>1. /\ req'[r].pc = "idle" /\ req'[r].doc = NoDoc
          /\ \A q \in Requests : q # r => req'[q] = req[q]
      BY <2>0 DEF ClaimsInv, TypeOK, Idle
    <2>2. RequestsKnown'
      BY <2>0, <2>1 DEF ClaimsInv, RequestsKnown
    <2>3. QED
      BY <2>0, <2>1, <2>2, RequestMoves, DocsAssumption
  <1>3. CASE doc[d].status \in Stored
    <2>1. /\ doc' = SetDocumentStatus(d, "pending", FALSE)
          /\ req' = [req EXCEPT ![r].pc = "queueing"]
      BY <1>3 DEF RetryFailed
    <2>2. /\ doc'[d].status = "pending" /\ doc'[d].error = FALSE
          /\ \A e \in Docs : e # d => doc'[e] = doc[e]
      <3>1. /\ TypeOK /\ d \in Docs /\ doc[d].status \in Stored
            /\ doc' = SetDocumentStatus(d, "pending", FALSE)
        BY <1>1, <1>3, <2>1 DEF ClaimsInv
      <3> HIDE DEF d
      <3>2. QED
        BY <3>1, DocUpdated
    <2>3. /\ req'[r].pc = "queueing" /\ req'[r].doc = d
          /\ \A q \in Requests : q # r => req'[q] = req[q]
      BY <2>1 DEF ClaimsInv, TypeOK
    <2>4. ASSUME NEW w \in Workers, NEW j \in Jobs, Selected(w, j), job[j] # Gone
          PROVE  job[j].doc # d /\ job[j].doc \in Docs
      BY <2>4, SelectedStored DEF ClaimsInv, SelectedAlone
    <2> HIDE DEF d
    <2>5. JobsStored' /\ OneLiveJob' /\ RunningNotFailed'
      BY <1>1, <1>3, <2>2
      DEF ClaimsInv, JobsStored, OneLiveJob, RunningNotFailed, LiveJob, Exists, Live, Stored, InFlight
    <2>6. StaleUndisturbed' /\ RequestsKnown' /\ ReadyHasNoError'
      <3>1. \A q \in Requests : req'[q].doc = req[q].doc
        BY <2>3 DEF d
      <3>2. \A q \in Requests : (req'[q].pc = "idle") = (req[q].pc = "idle")
        BY <1>1, <2>3
      <3>3. QED
        BY <1>1, <2>2, <3>1, <3>2 DEF ClaimsInv, StaleUndisturbed, RequestsKnown, ReadyHasNoError
    <2>7. HoldersKnow' /\ OneHolder'
      BY <1>1, <1>3, <2>2 DEF ClaimsInv, HoldersKnow, OneHolder, Knows, Holds, Stored, InFlight
    <2>8. IngestedCleanly'
      <3>1. \A w \in Workers, j \in Jobs : Holds(w, j) /\ job[j] # Gone => job[j].doc \in Docs
        BY DEF ClaimsInv, HoldersKnow, Knows, JobsStored, Exists, Live
      <3>2. QED
        BY <1>1, <2>2, <3>1 DEF ClaimsInv, IngestedCleanly, Holds
    <2>9. SelectedKnown'
      <3>1. \A w \in Workers, j \in Jobs : Selected(w, j)' <=> Selected(w, j)
        BY <1>1 DEF Selected
      <3>2. QED
        BY <1>1, <2>2, <2>4, <3>1, SelectedKept DEF ClaimsInv
    <2>10. SelectedAlone'
      BY <1>1, <2>3, <2>4 DEF ClaimsInv, SelectedAlone, Selected, Holds, LiveJob
    <2>11. QED
      BY <2>5, <2>6, <2>7, <2>8, <2>9, <2>10 DEF ClaimsInv
  <1>4. QED
    BY <1>2, <1>3

\* Only a fresh row becomes a job, and only of a document without a live one.
LEMMA EnqueueClaims ==
  ASSUME ClaimsInv, TypeOK', NEW r \in Requests, Enqueue(r)
  PROVE  ClaimsInv'
  <1> DEFINE d == req[r].doc
  <1>1. /\ req[r].pc = "queueing" /\ req' = [req EXCEPT ![r] = Idle]
        /\ UNCHANGED <<doc, pc, task, seen>>
    BY DEF Enqueue
  <1>2. /\ req'[r].pc = "idle" /\ req'[r].doc = NoDoc
        /\ \A q \in Requests : q # r => req'[q] = req[q]
    BY <1>1 DEF ClaimsInv, TypeOK, Idle
  <1>3. RequestsKnown'
    BY <1>1, <1>2 DEF ClaimsInv, RequestsKnown
  <1>4. CASE job' = job
    BY <1>1, <1>2, <1>3, <1>4, RequestMoves, DocsAssumption
  <1>5. CASE job' # job
    <2>1. PICK j \in Jobs :
            /\ job[j] = NoRow
            /\ job' = [job EXCEPT ![j] =
                 [NoRow EXCEPT !.status = "queued", !.doc = d, !.due = TRUE]]
      BY <1>5 DEF Enqueue
    <2>2. doc[d].status \in Stored /\ LiveJobOf(d) = {}
      BY <1>5 DEF Enqueue
    <2>3. /\ job'[j].status = "queued" /\ job'[j].doc = d
          /\ \A k \in Jobs : k # j => job'[k] = job[k]
      BY <2>1 DEF ClaimsInv, TypeOK, NoRow
    <2>4. d \in Docs
      BY <1>1 DEF ClaimsInv, RequestsKnown
    <2>5. \A k \in Jobs : LiveJob(k) => job[k].doc # d
      BY <2>2 DEF LiveJobOf, LiveJob
    <2>6. job[j].status = "none" /\ job[j] # Gone /\ Gone.status = "gone" /\ job'[j] # Gone
      BY <2>1, <2>3, RowStatuses
    <2>7. ASSUME NEW w \in Workers, NEW k \in Jobs, Holds(w, k)
          PROVE  k # j
      BY <2>6, <2>7 DEF ClaimsInv, HoldersKnow, Knows
    <2>8. ASSUME NEW w \in Workers, NEW k \in Jobs, Selected(w, k), job[k] # Gone
          PROVE  k # j /\ job[k].doc # d
      <3>1. k # j
        BY <2>6, <2>8, SelectedStored DEF Exists, Live, Terminal
      <3>2. QED
        BY <2>8, <3>1 DEF ClaimsInv, SelectedAlone
    <2> HIDE DEF d
    <2>9. JobsStored' /\ OneLiveJob' /\ RunningNotFailed'
      BY <1>1, <2>2, <2>3, <2>4, <2>5
      DEF ClaimsInv, JobsStored, OneLiveJob, RunningNotFailed, LiveJob, Exists
    <2>10. StaleUndisturbed'
      <3>1. ASSUME NEW k \in Jobs, job'[k].status = "running"
            PROVE  job'[k] = job[k] /\ job[k].doc \in Docs
        BY <2>3, <3>1 DEF ClaimsInv, JobsStored, Exists, Live
      <3>2. QED
        BY <1>2, <3>1, DocsAssumption DEF ClaimsInv, StaleUndisturbed
    <2>11. ReadyHasNoError'
      BY <1>1 DEF ClaimsInv, ReadyHasNoError
    <2>12. HoldersKnow' /\ OneHolder' /\ IngestedCleanly'
      <3>1. \A w \in Workers, k \in Jobs : Holds(w, k)' => Holds(w, k) /\ job'[k] = job[k]
        BY <1>1, <2>3, <2>7 DEF Holds
      <3>2. HoldersKnow'
        BY <1>1, <3>1 DEF ClaimsInv, HoldersKnow, Knows
      <3>3. OneHolder' /\ IngestedCleanly'
        BY <1>1, <3>1 DEF ClaimsInv, OneHolder, IngestedCleanly
      <3>4. QED
        BY <3>2, <3>3
    <2>13. ASSUME NEW w \in Workers, NEW k \in Jobs, Selected(w, k)', job'[k] # Gone
           PROVE  /\ Selected(w, k) /\ job[k] # Gone /\ job'[k] = job[k]
                  /\ job[k].doc # d /\ job[k].doc \in Docs
      <3>1. Selected(w, k) /\ job[k] # Gone
        BY <1>1, <2>3, <2>6, <2>13 DEF Selected
      <3>2. QED
        BY <2>3, <2>8, <3>1, SelectedStored
    <2>14. SelectedKnown'
      <3>1. \A w \in Workers, k \in Jobs : Selected(w, k)' <=> Selected(w, k)
        BY <1>1 DEF Selected
      <3>2. QED
        BY <1>1, <2>13, <3>1, SelectedKept DEF ClaimsInv
    <2>15. SelectedAlone'
      <3>1. ASSUME NEW w \in Workers, NEW k \in Jobs, Selected(w, k)', job'[k] # Gone
            PROVE  /\ \A q \in Requests : req'[q].doc # job'[k].doc
                   /\ \A v \in Workers : ~Holds(v, k)'
                   /\ \A i \in Jobs : LiveJob(i)' /\ job'[i].doc = job'[k].doc => i = k
        <4>1. /\ \A q \in Requests : req[q].doc # job[k].doc
              /\ \A v \in Workers : ~Holds(v, k)
              /\ \A i \in Jobs : LiveJob(i) /\ job[i].doc = job[k].doc => i = k
          BY <2>13, <3>1 DEF ClaimsInv, SelectedAlone
        <4>2. \A v \in Workers : ~Holds(v, k)'
          BY <1>1, <4>1 DEF Holds
        <4>3. \A q \in Requests : req'[q].doc # job'[k].doc
          BY <1>2, <2>13, <3>1, <4>1, DocsAssumption
        <4>4. \A i \in Jobs : LiveJob(i)' /\ job'[i].doc = job'[k].doc => i = k
          BY <2>3, <2>13, <3>1, <4>1 DEF LiveJob
        <4>5. QED
          BY <4>2, <4>3, <4>4
      <3>2. QED
        BY <3>1 DEF SelectedAlone
    <2>16. QED
      BY <1>3, <2>9, <2>10, <2>11, <2>12, <2>14, <2>15 DEF ClaimsInv
  <1>6. QED
    BY <1>4, <1>5

\* A document takes its jobs with it: their workers and reapers find them gone.
LEMMA DeleteDocumentClaims ==
  ASSUME ClaimsInv, TypeOK', NEW d \in Docs, DeleteDocument(d)
  PROVE  ClaimsInv'
  <1>1. /\ doc[d].status \in Stored /\ doc'[d].status = "deleted"
        /\ \A e \in Docs : e # d => doc'[e] = doc[e]
    BY DEF DeleteDocument, ClaimsInv, TypeOK
  <1>2. \A j \in Jobs : job'[j] = IF job[j].doc = d THEN Gone ELSE job[j]
    BY DEF DeleteDocument
  <1>3. pc' = pc /\ task' = task /\ seen' = seen /\ req' = req
    BY DEF DeleteDocument
  <1>4. Gone.status = "gone" /\ NoRow.status = "none" /\ Gone.doc = NoDoc /\ NoDoc # d
    BY DocsAssumption DEF Gone, NoRow
  <1>5. \A w \in Workers, j \in Jobs : (Holds(w, j)' <=> Holds(w, j)) /\ (Selected(w, j)' <=> Selected(w, j))
    BY <1>3 DEF Holds, Selected
  <1>6. \A j \in Jobs : Exists(j)' => Exists(j) /\ job'[j] = job[j] /\ job[j].doc # d
    BY <1>2, <1>4 DEF Exists, Live, Terminal
  <1>7. JobsStored'
    BY <1>1, <1>6 DEF ClaimsInv, JobsStored
  <1>8. OneLiveJob'
    BY <1>2, <1>4 DEF ClaimsInv, OneLiveJob, LiveJob, Live
  <1>9. \A j \in Jobs : job'[j].status = "running" =>
          job'[j] = job[j] /\ job[j].doc # d /\ job[j].doc \in Docs
    BY <1>6 DEF ClaimsInv, JobsStored, Exists, Live
  <1>10. RunningNotFailed' /\ StaleUndisturbed'
    BY <1>1, <1>3, <1>9 DEF ClaimsInv, RunningNotFailed, StaleUndisturbed
  <1>11. RequestsKnown' /\ ReadyHasNoError'
    BY <1>1, <1>3 DEF ClaimsInv, RequestsKnown, ReadyHasNoError
  <1>12. HoldersKnow'
    <2>1. ASSUME NEW w \in Workers, NEW j \in Jobs, Holds(w, j)
          PROVE  Knows(w, j)'
      <3>1. Knows(w, j)
        BY <2>1 DEF ClaimsInv, HoldersKnow
      <3>2. CASE job[j] = Gone
        <4>1. job'[j] = Gone
          BY <1>2, <3>2
        <4>2. seen[w][j].doc \in Docs /\ doc[seen[w][j].doc].status = "deleted"
          BY <3>1, <3>2 DEF Knows
        <4>3. doc'[seen[w][j].doc].status = "deleted"
          BY <1>1, <4>2
        <4>4. QED
          BY <1>3, <4>1, <4>2, <4>3 DEF Knows
      <3>3. CASE job[j] # Gone /\ job[j].doc = d
        <4>1. job'[j] = Gone
          BY <1>2, <3>3
        <4>2. seen[w][j].doc = d
          BY <3>1, <3>3 DEF Knows
        <4>3. QED
          BY <1>1, <1>3, <4>1, <4>2 DEF Knows
      <3>4. CASE job[j] # Gone /\ job[j].doc # d
        <4>1. job'[j] = job[j]
          BY <1>2, <3>4
        <4>2. QED
          BY <1>3, <3>1, <3>4, <4>1 DEF Knows
      <3>5. QED
        BY <3>2, <3>3, <3>4
    <2>2. QED
      BY <1>3, <1>5, <2>1 DEF ClaimsInv, HoldersKnow
  <1>13. OneHolder'
    BY <1>5 DEF ClaimsInv, OneHolder
  <1>14. ASSUME NEW j \in Jobs, job'[j] # Gone
         PROVE  job'[j] = job[j] /\ job[j] # Gone /\ job[j].doc # d
    BY <1>2, <1>14
  <1>15. IngestedCleanly'
    <2>1. ASSUME NEW w \in Workers, NEW j \in Jobs, Holds(w, j)', job'[j] # Gone
          PROVE  /\ pc'[w] \in {"ingesting", "persisted"} => ~doc'[job'[j].doc].error
                 /\ pc'[w] = "persisted" => doc'[job'[j].doc].status = "ready"
      <3>1. Holds(w, j) /\ job[j] # Gone /\ job'[j] = job[j] /\ job[j].doc # d
        BY <1>5, <1>14, <2>1
      <3>2. job[j].doc \in Docs
        BY <3>1 DEF ClaimsInv, HoldersKnow, Knows, JobsStored, Exists, Live
      <3>3. doc'[job[j].doc] = doc[job[j].doc]
        BY <1>1, <3>1, <3>2
      <3>4. QED
        BY <1>3, <3>1, <3>3 DEF ClaimsInv, IngestedCleanly
    <2>2. QED
      BY <2>1 DEF IngestedCleanly
  <1>16. ASSUME NEW w \in Workers, NEW j \in Jobs, Selected(w, j), job'[j] # Gone
         PROVE  /\ job'[j] = job[j] /\ job[j] # Gone
                /\ doc'[job[j].doc].status = doc[job[j].doc].status
    <2>1. job'[j] = job[j] /\ job[j] # Gone /\ job[j].doc # d
      BY <1>14, <1>16
    <2>2. job[j].doc \in Docs
      BY <1>16, <2>1, SelectedStored
    <2>3. QED
      BY <1>1, <2>1, <2>2
  <1>17. SelectedKnown'
    BY <1>3, <1>5, <1>16, SelectedKept DEF ClaimsInv
  <1>18. SelectedAlone'
    <2>1. \A k \in Jobs : LiveJob(k)' => LiveJob(k) /\ job'[k] = job[k]
      BY <1>2, <1>4 DEF LiveJob, Live
    <2>2. QED
      BY <1>3, <1>5, <1>16, <2>1 DEF ClaimsInv, SelectedAlone
  <1>19. QED
    BY <1>7, <1>8, <1>10, <1>11, <1>12, <1>13, <1>15, <1>17, <1>18 DEF ClaimsInv

-----------------------------------------------------------------------------
(* The workers *)

\* A worker's session has loaded the row of its job as it is; nobody else
\* holds that job and no reaper has selected it.
LEMMA HeldJob ==
  ASSUME ClaimsInv, NEW w \in Workers, pc[w] \in Working
  PROVE  LET j == task[w]
             d == DocOf(w)
         IN  /\ j \in Jobs
             /\ \/ job[j] = Gone /\ ~Exists(j) /\ d \in Docs /\ doc[d].status = "deleted"
                \/ /\ job[j] # Gone /\ seen[w][j] = job[j] /\ job[j].doc = d
                   /\ job[j].status = "running" /\ job[j].beat = "fresh"
                   /\ Exists(j) /\ LiveJob(j)
                   /\ d \in Docs /\ doc[d].status \in Stored
                   /\ pc[w] \in {"ingesting", "persisted"} => ~doc[d].error
                   /\ pc[w] = "persisted" => doc[d].status = "ready"
                   /\ \A v \in Workers : v # w => ~Holds(v, j)
                   /\ \A v \in Workers : ~Selected(v, j)
  <1> DEFINE j == task[w]
  <1>1. j \in Jobs /\ Holds(w, j) /\ Knows(w, j)
    BY DEF ClaimsInv, HoldersKnow, Holds
  <1>2. DocOf(w) = seen[w][j].doc
    BY DEF DocOf
  <1> HIDE DEF j
  <1>3. CASE job[j] = Gone
    <2>1. ~Exists(j)
      BY <1>3 DEF Exists, Live, Terminal, Gone, NoRow
    <2>2. seen[w][j].doc \in Docs /\ doc[seen[w][j].doc].status = "deleted"
      BY <1>1, <1>3 DEF Knows
    <2>3. QED
      BY <1>1, <1>2, <1>3, <2>1, <2>2 DEF j
  <1>4. CASE job[j] # Gone
    <2>1. seen[w][j] = job[j] /\ job[j].status = "running" /\ job[j].beat = "fresh"
      BY <1>1, <1>4 DEF Knows
    <2>2. Exists(j) /\ LiveJob(j)
      BY <2>1 DEF Exists, LiveJob, Live
    <2>3. job[j].doc \in Docs /\ doc[job[j].doc].status \in Stored
      BY <1>1, <2>2 DEF ClaimsInv, JobsStored
    <2>4. /\ pc[w] \in {"ingesting", "persisted"} => ~doc[job[j].doc].error
          /\ pc[w] = "persisted" => doc[job[j].doc].status = "ready"
      BY <1>1, <1>4 DEF ClaimsInv, IngestedCleanly
    <2>5. \A v \in Workers : v # w => ~Holds(v, j)
      BY <1>1 DEF ClaimsInv, OneHolder
    <2>6. \A v \in Workers : ~Selected(v, j)
      BY <1>1, <1>4 DEF ClaimsInv, SelectedAlone
    <2>7. QED
      BY <1>1, <1>2, <1>4, <2>1, <2>2, <2>3, <2>4, <2>5, <2>6 DEF j
  <1>5. QED
    BY <1>3, <1>4

\* What Release does.
LEMMA Released ==
  ASSUME TypeOK, NEW w \in Workers, Release(w)
  PROVE  /\ pc'[w] = "idle" /\ pc'[w] \notin Working \cup {"reaping"}
         /\ \A v \in Workers : v # w => pc'[v] = pc[v] /\ task'[v] = task[v] /\ seen'[v] = seen[v]
  BY DEF TypeOK, Release, Working

\* A worker that gives up its job forgets it, no more.
LEMMA ReleaseDrops ==
  ASSUME ClaimsInv, NEW w \in Workers, Release(w), UNCHANGED <<doc, job, req>>
  PROVE  DropStep(w)
  BY Released DEF DropStep, ClaimsInv

\* A queued job that is due has no holder, and its reapers are done with it.
LEMMA ClaimNextOwn ==
  ASSUME ClaimsInv, TypeOK', NEW w \in Workers, ClaimNext(w)
  PROVE  \E j \in Jobs : OwnStep(w, j)
  <1>1. PICK j \in Jobs :
          /\ job[j].status = "queued" /\ job[j].due
          /\ job' = [job EXCEPT ![j] = ClaimedRow(job[j])]
          /\ doc' = SetDocumentStatus(job[j].doc, "processing", FALSE)
          /\ seen' = [seen EXCEPT ![w] = [Nothing EXCEPT ![j] = ClaimedRow(job[j])]]
          /\ task' = [task EXCEPT ![w] = j]
    BY DEF ClaimNext, Load
  <1> DEFINE d == job[j].doc
             row == ClaimedRow(job[j])
  <1>2. /\ d \in Docs /\ doc[d].status \in Stored
        /\ job[j] \in JobRow /\ pc[w] = "idle" /\ LiveJob(j) /\ job[j] # Gone
    <2>1. LiveJob(j) /\ Exists(j) /\ job[j] # Gone
      BY <1>1, RowStatuses DEF Exists, LiveJob, Live
    <2>2. d \in Docs /\ doc[d].status \in Stored
      BY <2>1 DEF ClaimsInv, JobsStored
    <2>3. job[j] \in JobRow /\ pc[w] = "idle"
      BY DEF ClaimsInv, TypeOK, ClaimNext
    <2>4. QED
      BY <2>1, <2>2, <2>3
  <1>3. /\ row.status = "running" /\ row.beat = "fresh" /\ row.doc = d
    BY <1>2 DEF JobRow, ClaimedRow
  <1>4. /\ doc'[d].status = "processing" /\ doc'[d].error = FALSE
        /\ \A e \in Docs : e # d => doc'[e] = doc[e]
    <2>1. TypeOK /\ d \in Docs /\ doc[d].status \in Stored
      BY <1>2 DEF ClaimsInv
    <2>2. doc' = SetDocumentStatus(d, "processing", FALSE)
      BY <1>1
    <2> HIDE DEF d
    <2>3. QED
      BY <2>1, <2>2, DocUpdated
  <1>5. /\ job'[j] = row
        /\ \A k \in Jobs : k # j => job'[k] = job[k]
    BY <1>1 DEF ClaimsInv, TypeOK
  <1>6. /\ pc'[w] = "claimed" /\ task'[w] = j /\ seen'[w][j] = row
        /\ \A v \in Workers : v # w => pc'[v] = pc[v] /\ task'[v] = task[v] /\ seen'[v] = seen[v]
        /\ req' = req
    BY <1>1 DEF ClaimNext, Nothing, ClaimsInv, TypeOK
  <1>7. \A v \in Workers : ~Holds(v, j)
    BY <1>1, <1>2 DEF ClaimsInv, HoldersKnow, Knows
  <1>8. \A v \in Workers : ~Selected(v, j)
    BY <1>1, <1>2 DEF ClaimsInv, SelectedKnown, AsReaped
  <1> HIDE DEF row
  <1>9. OwnStep(w, j)
    BY <1>2, <1>3, <1>4, <1>5, <1>6, <1>7, <1>8, StoredStatuses DEF OwnStep, Live
  <1>10. QED
    BY <1>9

\* Taking up the document is a step on the job its worker holds.
LEMMA BeginIngestOwn ==
  ASSUME ClaimsInv, TypeOK', NEW w \in Workers, BeginIngest(w)
  PROVE  DropStep(w) \/ OwnStep(w, task[w])
  <1> DEFINE j == task[w]
             d == DocOf(w)
  <1>1. CASE doc[d].status \in Stored
    <2>1. /\ doc' = SetDocumentStatus(d, "processing", FALSE)
          /\ pc' = [pc EXCEPT ![w] = "ingesting"]
          /\ UNCHANGED <<job, task, seen, req>> /\ pc[w] \in Working
      BY <1>1 DEF BeginIngest, Working
    <2>2. /\ task[w] = j
          /\ j \in Jobs /\ d \in Docs /\ LiveJob(j) /\ seen[w][j] = job[j] /\ job[j].doc = d
          /\ job[j].status = "running" /\ job[j].beat = "fresh"
          /\ \A v \in Workers : v # w => ~Holds(v, j)
          /\ \A v \in Workers : ~Selected(v, j)
      BY <1>1, <2>1, HeldJob DEF Stored, InFlight
    <2> HIDE DEF d, j
    <2>3. /\ doc'[d].status = "processing" /\ doc'[d].error = FALSE
          /\ \A e \in Docs : e # d => doc'[e] = doc[e]
      <3>1. TypeOK /\ d \in Docs
        BY <2>2 DEF ClaimsInv
      <3>2. QED
        BY <1>1, <2>1, <3>1, DocUpdated
    <2>4. /\ pc'[w] = "ingesting"
          /\ \A v \in Workers : v # w => pc'[v] = pc[v]
      BY <2>1 DEF ClaimsInv, TypeOK
    <2>5. OwnStep(w, j)
      BY <2>1, <2>2, <2>3, <2>4, StoredStatuses DEF OwnStep, Live
    <2>6. QED
      BY <2>2, <2>5
  <1>2. CASE doc[d].status \notin Stored
    BY <1>2, ReleaseDrops DEF BeginIngest
  <1>3. QED
    BY <1>1, <1>2

\* Nobody uploads the document again while it is being ingested.
LEMMA PersistOwn ==
  ASSUME ~SlowWriters, ClaimsInv, TypeOK', NEW w \in Workers, Persist(w)
  PROVE  OwnStep(w, task[w])
  <1> DEFINE j == task[w]
             d == DocOf(w)
  <1>1. /\ doc' = [doc EXCEPT ![d].status = "ready", ![d].chunks = TRUE]
        /\ pc' = [pc EXCEPT ![w] = "persisted"]
        /\ UNCHANGED <<job, task, seen, req>>
        /\ pc[w] = "ingesting" /\ pc[w] \in Working /\ doc[d].status \in Stored
        /\ \A r \in Requests : req[r].doc # d
    BY DEF Persist, Working, TimeToWork, UploadPending
  <1>2. /\ j \in Jobs /\ d \in Docs /\ LiveJob(j) /\ seen[w][j] = job[j] /\ job[j].doc = d
        /\ job[j].status = "running" /\ job[j].beat = "fresh" /\ ~doc[d].error
        /\ doc[d].status # "failed"
        /\ \A v \in Workers : v # w => ~Holds(v, j)
        /\ \A v \in Workers : ~Selected(v, j)
    BY <1>1, HeldJob DEF Stored, InFlight, ClaimsInv, RunningNotFailed
  <1> HIDE DEF d
  <1>3. /\ doc'[d].status = "ready" /\ doc'[d].chunks /\ ~doc'[d].error
        /\ \A e \in Docs : e # d => doc'[e] = doc[e]
    BY <1>1, <1>2 DEF ClaimsInv, TypeOK, DocRow
  <1>4. /\ pc'[w] = "persisted"
        /\ \A v \in Workers : v # w => pc'[v] = pc[v]
    BY <1>1 DEF ClaimsInv, TypeOK
  <1>5. OwnStep(w, j)
    BY <1>1, <1>2, <1>3, <1>4, StoredStatuses DEF OwnStep, Live
  <1>6. QED
    BY <1>5

\* So is the exception that leaves the pipeline, which writes nothing.
LEMMA IngestFailsOwn ==
  ASSUME ClaimsInv, TypeOK', NEW w \in Workers, IngestFails(w)
  PROVE  DropStep(w) \/ OwnStep(w, task[w])
  <1> DEFINE j == task[w]
             d == DocOf(w)
  <1>1. CASE Exists(j)
    <2>1. PICK p \in {"failing", "rejecting"} : pc' = [pc EXCEPT ![w] = p]
      BY <1>1 DEF IngestFails
    <2>2. /\ seen' = [seen EXCEPT ![w] = [Nothing EXCEPT ![j] = job[j]]]
          /\ UNCHANGED <<doc, job, task, req>>
          /\ pc[w] = "ingesting" /\ pc[w] \in Working
      BY <1>1 DEF IngestFails, Load, Working
    <2>3. /\ j \in Jobs /\ d \in Docs /\ LiveJob(j) /\ job[j].doc = d
          /\ job[j].status = "running" /\ job[j].beat = "fresh"
          /\ doc[d].status \in Stored
          /\ \A v \in Workers : v # w => ~Holds(v, j)
          /\ \A v \in Workers : ~Selected(v, j)
      BY <1>1, <2>2, HeldJob
    <2> HIDE DEF d
    <2>4. /\ pc'[w] \in {"failing", "rejecting"} /\ seen'[w][j] = job[j]
          /\ \A v \in Workers : v # w => pc'[v] = pc[v] /\ seen'[v] = seen[v]
      BY <2>1, <2>2, <2>3 DEF ClaimsInv, TypeOK, Nothing
    <2>5. /\ doc[d].status # "failed"
          /\ doc[d].status = "ready" =>
               /\ doc[d].chunks /\ ~doc[d].error
               /\ \A r \in Requests : req[r].doc # d
      BY <2>3, DocsAssumption DEF ClaimsInv, RunningNotFailed, ReadyHasNoError, RequestsKnown
    <2>6. OwnStep(w, j)
      BY <2>2, <2>3, <2>4, <2>5 DEF OwnStep, Live
    <2>7. QED
      BY <2>3, <2>6
  <1>2. CASE ~Exists(j)
    BY <1>2, ReleaseDrops DEF IngestFails
  <1>3. QED
    BY <1>1, <1>2

\* What mark_failed writes when the session knows the row as it is.
LEMMA FailedKnown ==
  ASSUME NEW row \in JobRow, NEW loaded \in JobRow, NEW permanent \in BOOLEAN,
         loaded.status = "running", row.doc = loaded.doc
  PROVE  LET new == FailedRow(row, loaded, permanent) IN
         /\ new.doc = row.doc /\ new.attempts = row.attempts
         /\ new.status = IF Retries(loaded, permanent) THEN "queued" ELSE "dead"
         /\ Retries(loaded, permanent) => ~new.due
  BY DEF FailedRow, Flush, JobRow

\* So is recording the failure, which queues the job again or buries it.
LEMMA RecordFailureOwn ==
  ASSUME ClaimsInv, TypeOK', NEW w \in Workers, RecordFailure(w)
  PROVE  DropStep(w) \/ OwnStep(w, task[w])
  <1> DEFINE j == task[w]
             d == DocOf(w)
             permanent == pc[w] = "rejecting"
  <1>1. pc[w] \in Working /\ Release(w) /\ req' = req
    BY DEF RecordFailure, Working
  <1>2. CASE ~CanMarkFailed(j, seen[w][j], permanent)
    BY <1>1, <1>2, ReleaseDrops DEF RecordFailure
  <1>3. CASE CanMarkFailed(j, seen[w][j], permanent)
    <2>1. MarkFailed(j, seen[w][j], permanent) /\ Exists(j)
      BY <1>3 DEF RecordFailure, CanMarkFailed
    <2>2. /\ j \in Jobs /\ d \in Docs /\ LiveJob(j) /\ job[j].doc = d /\ seen[w][j] = job[j]
          /\ job[j].status = "running" /\ doc[d].status \in Stored
          /\ \A v \in Workers : v # w => ~Holds(v, j)
          /\ \A v \in Workers : ~Selected(v, j)
      BY <1>1, <2>1, HeldJob
    <2>3. job[j] \in JobRow
      BY <2>2 DEF ClaimsInv, TypeOK
    <2> DEFINE row == FailedRow(job[j], job[j], permanent)
               status == IF Retries(job[j], permanent) THEN "pending" ELSE "failed"
    <2>4. /\ row.doc = d /\ row.status \in {"queued", "dead"}
          /\ status = "pending" => row.status = "queued"
      BY <2>2, <2>3, FailedKnown
    <2>5. /\ job' = [job EXCEPT ![j] = row]
          /\ doc' = SetDocumentStatus(d, status, TRUE)
      BY <2>1, <2>2 DEF MarkFailed
    <2>6. status \in {"pending", "failed"}
      OBVIOUS
    <2> HIDE DEF row, status, d
    <2>7. /\ doc'[d].status = status
          /\ \A e \in Docs : e # d => doc'[e] = doc[e]
      <3>1. /\ TypeOK /\ d \in Docs /\ doc[d].status \in Stored
            /\ doc' = SetDocumentStatus(d, status, TRUE)
        BY <2>2, <2>5, <2>6 DEF ClaimsInv
      <3>2. QED
        BY <3>1, DocUpdated
    <2>8. /\ job'[j] = row
          /\ \A k \in Jobs : k # j => job'[k] = job[k]
      BY <2>2, <2>5 DEF ClaimsInv, TypeOK
    <2>9. /\ pc'[w] \notin Working \cup {"reaping"}
          /\ \A v \in Workers : v # w => pc'[v] = pc[v] /\ task'[v] = task[v] /\ seen'[v] = seen[v]
      BY <1>1, Released DEF ClaimsInv
    <2>10. OwnStep(w, j)
      BY <1>1, <2>2, <2>4, <2>6, <2>7, <2>8, <2>9, StoredStatuses DEF OwnStep, Live, Terminal, InFlight
    <2>11. QED
      BY <2>2, <2>10
  <1>4. QED
    BY <1>2, <1>3

\* So is recording the success of a job whose document has been written.
LEMMA MarkSucceededOwn ==
  ASSUME ClaimsInv, TypeOK', NEW w \in Workers, MarkSucceeded(w)
  PROVE  DropStep(w) \/ OwnStep(w, task[w])
  <1> DEFINE j == task[w]
             d == DocOf(w)
  <1>1. pc[w] = "persisted" /\ pc[w] \in Working /\ Release(w) /\ doc' = doc /\ req' = req
    BY DEF MarkSucceeded, Working
  <1>2. CASE ~Exists(j)
    BY <1>1, <1>2, ReleaseDrops DEF MarkSucceeded
  <1>3. CASE Exists(j)
    <2> DEFINE new == [job[j] EXCEPT !.status = "succeeded", !.beat = "null"]
               row == Flush(job[j], job[j], new)
    <2>1. /\ j \in Jobs /\ d \in Docs /\ LiveJob(j) /\ job[j].doc = d /\ seen[w][j] = job[j]
          /\ job[j].status = "running" /\ doc[d].status = "ready"
          /\ \A v \in Workers : v # w => ~Holds(v, j)
          /\ \A v \in Workers : ~Selected(v, j)
      BY <1>1, <1>3, HeldJob
    <2>2. row.doc = d /\ row.status = "succeeded"
      BY <2>1 DEF ClaimsInv, TypeOK, JobRow, Flush
    <2>3. job' = [job EXCEPT ![j] = row]
      BY <1>3, <2>1 DEF MarkSucceeded
    <2> HIDE DEF row, d
    <2>4. /\ job'[j] = row
          /\ \A k \in Jobs : k # j => job'[k] = job[k]
      BY <2>1, <2>3 DEF ClaimsInv, TypeOK
    <2>5. /\ pc'[w] \notin Working \cup {"reaping"}
          /\ \A v \in Workers : v # w => pc'[v] = pc[v] /\ task'[v] = task[v] /\ seen'[v] = seen[v]
      BY <1>1, Released DEF ClaimsInv
    <2>6. doc[d].chunks /\ ~doc[d].error /\ \A r \in Requests : req[r].doc # d
      BY <2>1, DocsAssumption DEF ClaimsInv, ReadyHasNoError, RequestsKnown
    <2>7. OwnStep(w, j)
      BY <1>1, <2>1, <2>2, <2>4, <2>5, <2>6, StoredStatuses DEF OwnStep, Terminal, InFlight
    <2>8. QED
      BY <2>1, <2>7
  <1>4. QED
    BY <1>2, <1>3

\* While one worker holds a job its beat is fresh.
LEMMA HeartbeatClaims ==
  ASSUME ClaimsInv, NEW w \in Workers
  PROVE  ~Heartbeat(w)
  BY HeldJob DEF Heartbeat

-----------------------------------------------------------------------------
(* The reaper, faults and time *)

\* Whatever has run out of heartbeats has no holder and no upload request.
LEMMA SelectStaleClaims ==
  ASSUME ClaimsInv, TypeOK', NEW w \in Workers, SelectStale(w)
  PROVE  ClaimsInv'
  <1>1. /\ pc[w] = "idle" /\ pc'[w] = "reaping"
        /\ \A v \in Workers : v # w => pc'[v] = pc[v] /\ seen'[v] = seen[v]
        /\ UNCHANGED <<doc, job, task, req>>
    BY DEF SelectStale, ClaimsInv, TypeOK
  <1>2. \A j \in Jobs : seen'[w][j] =
          IF job[j].status = "running" /\ job[j].beat = "stale" THEN job[j] ELSE NoRow
    BY DEF SelectStale, ClaimsInv, TypeOK
  <1>3. \A v \in Workers, j \in Jobs : Holds(v, j)' => Holds(v, j) /\ pc'[v] = pc[v] /\ seen'[v] = seen[v]
    BY <1>1 DEF Holds, Working
  <1>4. JobsStored' /\ OneLiveJob' /\ RunningNotFailed' /\ StaleUndisturbed'
    BY <1>1 DEF ClaimsInv, JobsStored, OneLiveJob, RunningNotFailed, StaleUndisturbed, LiveJob, Exists
  <1>5. RequestsKnown' /\ ReadyHasNoError'
    BY <1>1 DEF ClaimsInv, RequestsKnown, ReadyHasNoError
  <1>6. HoldersKnow'
    <2>1. \A v \in Workers : pc'[v] \in Working => pc[v] \in Working
      BY <1>1 DEF Working
    <2>2. QED
      BY <1>1, <1>3, <2>1 DEF ClaimsInv, HoldersKnow, Knows
  <1>7. OneHolder' /\ IngestedCleanly'
    BY <1>1, <1>3 DEF ClaimsInv, OneHolder, IngestedCleanly
  <1>8. ASSUME NEW v \in Workers, NEW j \in Jobs, Selected(v, j)'
        PROVE  \/ v = w /\ job[j].status = "running" /\ job[j].beat = "stale" /\ seen'[v][j] = job[j]
               \/ v # w /\ Selected(v, j) /\ seen'[v][j] = seen[v][j]
    BY <1>1, <1>2, <1>8 DEF Selected
  <1>9. ASSUME NEW j \in Jobs, job[j].status = "running", job[j].beat = "stale"
        PROVE  /\ job[j].doc \in Docs /\ LiveJob(j)
               /\ \A r \in Requests : req[r].doc # job[j].doc
               /\ \A v \in Workers : ~Holds(v, j)
               /\ \A k \in Jobs : LiveJob(k) /\ job[k].doc = job[j].doc => k = j
    <2>1. LiveJob(j) /\ Exists(j) /\ job[j] # Gone
      BY <1>9, RowStatuses DEF LiveJob, Exists, Live
    <2>2. job[j].doc \in Docs
      BY <2>1 DEF ClaimsInv, JobsStored
    <2>3. \A r \in Requests : req[r].doc # job[j].doc
      BY <1>9 DEF ClaimsInv, StaleUndisturbed
    <2>4. \A v \in Workers : ~Holds(v, j)
      BY <1>9, <2>1 DEF ClaimsInv, HoldersKnow, Knows
    <2>5. \A k \in Jobs : LiveJob(k) /\ job[k].doc = job[j].doc => k = j
      BY <2>1 DEF ClaimsInv, OneLiveJob
    <2>6. QED
      BY <2>1, <2>2, <2>3, <2>4, <2>5
  <1>10. SelectedKnown'
    <2>1. ASSUME NEW v \in Workers, NEW j \in Jobs, Selected(v, j)'
          PROVE  /\ seen'[v][j].status = "running" /\ seen'[v][j].beat = "stale" /\ seen'[v][j].doc \in Docs
                 /\ job'[j] # Gone => /\ seen'[v][j].doc = job'[j].doc
                                      /\ seen'[v][j].attempts = job'[j].attempts
                                      /\ AsReaped(v, j)'
      <3>1. CASE v = w /\ job[j].status = "running" /\ job[j].beat = "stale" /\ seen'[v][j] = job[j]
        BY <1>1, <1>9, <3>1 DEF AsReaped
      <3>2. CASE Selected(v, j) /\ seen'[v][j] = seen[v][j]
        <4>1. /\ seen[v][j].status = "running" /\ seen[v][j].beat = "stale" /\ seen[v][j].doc \in Docs
              /\ job[j] # Gone => /\ seen[v][j].doc = job[j].doc
                                  /\ seen[v][j].attempts = job[j].attempts
                                  /\ AsReaped(v, j)
          BY <3>2 DEF ClaimsInv, SelectedKnown
        <4>2. AsReaped(v, j) => AsReaped(v, j)'
          BY <1>1, <3>2 DEF AsReaped
        <4>3. QED
          BY <1>1, <3>2, <4>1, <4>2
      <3>3. QED
        BY <1>8, <2>1, <3>1, <3>2
    <2>2. QED
      BY <2>1 DEF SelectedKnown
  <1>11. SelectedAlone'
    <2>1. ASSUME NEW v \in Workers, NEW j \in Jobs, Selected(v, j)', job[j] # Gone
          PROVE  /\ \A r \in Requests : req[r].doc # job[j].doc
                 /\ \A u \in Workers : ~Holds(u, j)
                 /\ \A k \in Jobs : LiveJob(k) /\ job[k].doc = job[j].doc => k = j
      BY <1>8, <1>9, <2>1 DEF ClaimsInv, SelectedAlone
    <2>2. QED
      BY <1>1, <1>3, <2>1 DEF SelectedAlone, LiveJob
  <1>12. QED
    BY <1>4, <1>5, <1>6, <1>7, <1>10, <1>11 DEF ClaimsInv

\* A reaper's mark_failed of one job that is still there.
ReapStep(w, j) ==
  /\ Selected(w, j) /\ Exists(j)
  /\ \A k \in Jobs : k # j => job'[k] = job[k]
  /\ \A e \in Docs : e # job[j].doc => doc'[e] = doc[e]
  /\ pc' = pc /\ task' = task /\ req' = req
  /\ seen'[w][j] = NoRow
  /\ \A v \in Workers, k \in Jobs : v # w \/ k # j => seen'[v][k] = seen[v][k]
  /\ job'[j].doc = job[j].doc /\ job'[j].attempts = job[j].attempts
  /\ IF Retries(seen[w][j], FALSE)
     THEN job'[j].status = "queued" /\ ~job'[j].due /\ doc'[job[j].doc].status = "pending"
     ELSE job'[j].status = "dead" /\ doc'[job[j].doc].status = "failed"

\* mark_failed by a reaper ends its pass or changes this job and its document.
LEMMA ReapOneKinds ==
  ASSUME ClaimsInv, NEW w \in Workers, ReapOne(w)
  PROVE  DropStep(w) \/ \E j \in Jobs : ReapStep(w, j)
  <1>1. PICK j \in Jobs :
          /\ seen[w][j] # NoRow
          /\ IF CanMarkFailed(j, seen[w][j], FALSE)
             THEN /\ MarkFailed(j, seen[w][j], FALSE)
                  /\ seen' = [seen EXCEPT ![w][j] = NoRow]
                  /\ UNCHANGED <<pc, task>>
             ELSE Release(w) /\ UNCHANGED <<doc, job>>
    BY DEF ReapOne
  <1>2. pc[w] = "reaping" /\ req' = req /\ Selected(w, j)
    BY <1>1 DEF ReapOne, Selected
  <1>3. CASE ~CanMarkFailed(j, seen[w][j], FALSE)
    BY <1>1, <1>2, <1>3, ReleaseDrops
  <1>4. CASE CanMarkFailed(j, seen[w][j], FALSE)
    <2> DEFINE d == job[j].doc
               row == FailedRow(job[j], seen[w][j], FALSE)
               retry == Retries(seen[w][j], FALSE)
               status == IF retry THEN "pending" ELSE "failed"
    <2>1. job[j] # Gone /\ Exists(j)
      BY <1>4, RowStatuses DEF CanMarkFailed, Exists, Live, Terminal
    <2>2. /\ d \in Docs /\ doc[d].status \in Stored
          /\ seen[w][j].doc = d /\ seen[w][j].status = "running"
      BY <1>2, <2>1, SelectedStored DEF ClaimsInv, SelectedKnown
    <2>3. job[j] \in JobRow /\ seen[w][j] \in JobRow
      BY DEF ClaimsInv, TypeOK
    <2>4. job' = [job EXCEPT ![j] = row] /\ doc' = SetDocumentStatus(d, status, TRUE)
      BY <1>1, <1>4, <2>2 DEF MarkFailed
    <2>5. /\ row.doc = d /\ row.attempts = job[j].attempts
          /\ row.status = (IF retry THEN "queued" ELSE "dead")
          /\ retry => ~row.due
      BY <2>2, <2>3, FailedKnown
    <2> HIDE DEF row
    <2>6. /\ doc'[d].status = status
          /\ \A e \in Docs : e # d => doc'[e] = doc[e]
      <3>1. /\ TypeOK /\ d \in Docs /\ doc[d].status \in Stored
            /\ doc' = SetDocumentStatus(d, status, TRUE)
        BY <2>2, <2>4 DEF ClaimsInv
      <3> HIDE DEF d, status
      <3>2. QED
        BY <3>1, DocUpdated
    <2>7. /\ job'[j] = row
          /\ \A k \in Jobs : k # j => job'[k] = job[k]
      BY <2>4 DEF ClaimsInv, TypeOK
    <2>8. /\ pc' = pc /\ task' = task /\ req' = req
          /\ seen'[w][j] = NoRow
          /\ \A v \in Workers, k \in Jobs : v # w \/ k # j => seen'[v][k] = seen[v][k]
      BY <1>1, <1>2, <1>4 DEF ClaimsInv, TypeOK
    <2>9. ReapStep(w, j)
      BY <1>2, <2>1, <2>5, <2>6, <2>7, <2>8 DEF ReapStep
    <2>10. QED
      BY <2>9
  <1>5. QED
    BY <1>3, <1>4

\* All reapers of one job write the same: what they have seen is equal.
LEMMA ReapStepClaims ==
  ASSUME ClaimsInv, TypeOK', NEW w \in Workers, NEW j \in Jobs, ReapStep(w, j)
  PROVE  ClaimsInv'
  <1> DEFINE d == job[j].doc
             retry == Retries(seen[w][j], FALSE)
  <1>1. Selected(w, j) /\ job[j] # Gone /\ Exists(j)
    BY RowStatuses DEF ReapStep, Exists, Live, Terminal
  <1>2. /\ d \in Docs /\ doc[d].status \in Stored
        /\ seen[w][j].attempts = job[j].attempts /\ AsReaped(w, j)
    BY <1>1, SelectedStored DEF ClaimsInv, SelectedKnown
  <1>3. /\ \A r \in Requests : req[r].doc # d
        /\ \A v \in Workers : ~Holds(v, j)
        /\ \A k \in Jobs : LiveJob(k) /\ job[k].doc = d => k = j
    BY <1>1 DEF ClaimsInv, SelectedAlone
  <1>6. /\ job'[j].doc = d /\ job'[j].attempts = job[j].attempts
        /\ job'[j].status = (IF retry THEN "queued" ELSE "dead")
        /\ retry => ~job'[j].due
    BY DEF ReapStep
  <1>7. LiveJob(j) \/ (job[j].status = "dead" /\ ~retry)
    BY <1>2 DEF AsReaped, LiveJob, Live
  <1>8. /\ doc'[d].status = (IF retry THEN "pending" ELSE "failed")
        /\ \A e \in Docs : e # d => doc'[e] = doc[e]
    BY DEF ReapStep
  <1>9. \A k \in Jobs : k # j => job'[k] = job[k]
    BY DEF ReapStep
  <1>10. /\ pc' = pc /\ task' = task /\ req' = req
         /\ seen'[w][j] = NoRow
         /\ \A v \in Workers, k \in Jobs : v # w \/ k # j => seen'[v][k] = seen[v][k]
    BY DEF ReapStep
  <1>30. job'[j] # Gone
    BY <1>6, RowStatuses
  <1>11. job[j].doc = d
    OBVIOUS
  <1> HIDE DEF d, retry
  <1>12. \A v \in Workers, k \in Jobs : Holds(v, k)' <=> Holds(v, k)
    BY <1>10 DEF Holds
  <1>13. ASSUME NEW k \in Jobs, LiveJob(k), k # j
         PROVE  job'[k] = job[k] /\ job[k].doc # d /\ job[k].doc \in Docs
    BY <1>3, <1>9, <1>13 DEF ClaimsInv, JobsStored, Exists, LiveJob
  <1>14. JobsStored'
    <2>1. ASSUME NEW k \in Jobs, Exists(k)'
          PROVE  job'[k].doc \in Docs /\ doc'[job'[k].doc].status \in Stored
      <3>1. CASE k = j
        BY <1>2, <1>6, <1>8, <1>9, <3>1, StoredStatuses
      <3>2. CASE k # j
        <4>1. job'[k] = job[k] /\ job[k].doc \in Docs /\ doc[job[k].doc].status \in Stored
          BY <1>9, <2>1, <3>2 DEF ClaimsInv, JobsStored, Exists
        <4>2. QED
          BY <1>8, <4>1, StoredStatuses
      <3>3. QED
        BY <3>1, <3>2
    <2>2. QED
      BY <2>1 DEF JobsStored
  <1>15. ASSUME NEW k \in Jobs, LiveJob(k)'
         PROVE  LiveJob(k) /\ job'[k].doc = job[k].doc
    BY <1>6, <1>7, <1>9, <1>11, <1>15 DEF LiveJob, Live
  <1>16. OneLiveJob'
    BY <1>15 DEF ClaimsInv, OneLiveJob
  <1>17. ASSUME NEW k \in Jobs, job'[k].status = "running"
         PROVE  k # j /\ job'[k] = job[k] /\ doc'[job[k].doc] = doc[job[k].doc]
    <2>1. k # j /\ job'[k] = job[k]
      BY <1>6, <1>9, <1>17
    <2>2. LiveJob(k)
      BY <1>17, <2>1 DEF LiveJob, Live
    <2>3. QED
      BY <1>8, <1>13, <2>1, <2>2
  <1>18. RunningNotFailed' /\ StaleUndisturbed'
    BY <1>10, <1>17 DEF ClaimsInv, RunningNotFailed, StaleUndisturbed
  <1>19. RequestsKnown' /\ ReadyHasNoError'
    BY <1>2, <1>8, <1>10 DEF ClaimsInv, RequestsKnown, ReadyHasNoError
  <1>20. HoldersKnow'
    <2>1. ASSUME NEW v \in Workers, NEW k \in Jobs, Holds(v, k)
          PROVE  Knows(v, k)'
      <3>1. Knows(v, k) /\ k # j
        BY <1>3, <2>1 DEF ClaimsInv, HoldersKnow
      <3>2. job'[k] = job[k] /\ seen'[v][k] = seen[v][k]
        BY <1>9, <1>10, <3>1
      <3>3. CASE job[k] = Gone
        <4>1. seen[v][k].doc \in Docs /\ doc[seen[v][k].doc].status = "deleted"
          BY <3>1, <3>3 DEF Knows
        <4>2. doc'[seen[v][k].doc] = doc[seen[v][k].doc]
          BY <1>2, <1>8, <4>1 DEF Stored, InFlight
        <4>3. QED
          BY <3>2, <3>3, <4>1, <4>2 DEF Knows
      <3>4. CASE job[k] # Gone
        BY <3>1, <3>2, <3>4 DEF Knows
      <3>5. QED
        BY <3>3, <3>4
    <2>2. QED
      BY <1>10, <1>12, <2>1 DEF ClaimsInv, HoldersKnow
  <1>21. OneHolder'
    BY <1>12 DEF ClaimsInv, OneHolder
  <1>22. IngestedCleanly'
    <2>1. ASSUME NEW v \in Workers, NEW k \in Jobs, Holds(v, k), job'[k] # Gone
          PROVE  job'[k] = job[k] /\ doc'[job[k].doc] = doc[job[k].doc]
      <3>1. k # j /\ Knows(v, k)
        BY <1>3, <2>1 DEF ClaimsInv, HoldersKnow
      <3>2. job'[k] = job[k]
        BY <1>9, <3>1
      <3>3. job'[k].status = "running"
        BY <2>1, <3>1, <3>2 DEF Knows
      <3>4. QED
        BY <1>17, <3>3
    <2>2. QED
      BY <1>10, <1>12, <2>1 DEF ClaimsInv, IngestedCleanly
  <1>23. ASSUME NEW v \in Workers, NEW k \in Jobs, Selected(v, k)'
         PROVE  Selected(v, k) /\ seen'[v][k] = seen[v][k]
    BY <1>10, <1>23 DEF Selected
  <1>24. ASSUME NEW v \in Workers, NEW k \in Jobs, Selected(v, k), k # j, job[k] # Gone,
                job[k].doc = d
         PROVE  ~LiveJob(j)
    BY <1>11, <1>24 DEF ClaimsInv, SelectedAlone
  <1>25. SelectedKnown'
    <2>1. ASSUME NEW v \in Workers, NEW k \in Jobs, Selected(v, k)'
          PROVE  /\ seen'[v][k].status = "running" /\ seen'[v][k].beat = "stale"
                 /\ seen'[v][k].doc \in Docs
      BY <1>23, <2>1 DEF ClaimsInv, SelectedKnown
    <2>2. ASSUME NEW v \in Workers, NEW k \in Jobs, Selected(v, k)', job'[k] # Gone
          PROVE  /\ seen'[v][k].doc = job'[k].doc
                 /\ seen'[v][k].attempts = job'[k].attempts
                 /\ AsReaped(v, k)'
      <3>1. Selected(v, k) /\ seen'[v][k] = seen[v][k] /\ job[k] # Gone
        BY <1>1, <1>9, <1>23, <2>2
      <3>2. /\ seen[v][k].doc = job[k].doc /\ seen[v][k].attempts = job[k].attempts
            /\ AsReaped(v, k)
        BY <3>1 DEF ClaimsInv, SelectedKnown
      <3>3. CASE k = j
        <4>1. Retries(seen[v][j], FALSE) = retry
          BY <1>2, <3>2, <3>3 DEF Retries, retry
        <4>2. /\ retry => job'[j].status = "queued" /\ ~job'[j].due
              /\ ~retry => job'[j].status = "dead" /\ doc'[d].status = "failed"
          BY <1>6, <1>8
        <4>3. AsReaped(v, j)'
          BY <1>6, <1>9, <3>1, <3>3, <4>1, <4>2 DEF AsReaped, Retries
        <4>4. QED
          BY <1>6, <1>9, <1>11, <3>1, <3>2, <3>3, <4>3
      <3>4. CASE k # j
        <4>1. job'[k] = job[k]
          BY <1>9, <3>4
        <4>2. job[k].status = "dead" /\ doc[job[k].doc].status = "failed"
                => doc'[job[k].doc].status = "failed"
          <5>1. CASE job[k].doc # d
            <6>1. job[k].doc \in Docs
              BY <3>1, SelectedStored
            <6>2. QED
              BY <1>8, <5>1, <6>1
          <5>2. CASE job[k].doc = d
            BY <1>7, <1>8, <1>24, <3>1, <3>4, <5>2
          <5>3. QED
            BY <5>1, <5>2
        <4>3. QED
          BY <3>1, <3>2, <4>1, <4>2 DEF AsReaped
      <3>5. QED
        BY <3>3, <3>4
    <2>3. QED
      BY <2>1, <2>2 DEF SelectedKnown
  <1>26. SelectedAlone'
    <2>1. ASSUME NEW v \in Workers, NEW k \in Jobs, Selected(v, k)', job'[k] # Gone
          PROVE  /\ \A r \in Requests : req'[r].doc # job'[k].doc
                 /\ \A u \in Workers : ~Holds(u, k)'
                 /\ \A i \in Jobs : LiveJob(i)' /\ job'[i].doc = job'[k].doc => i = k
      <3>1. Selected(v, k) /\ job[k] # Gone /\ job'[k].doc = job[k].doc
        BY <1>1, <1>6, <1>9, <1>11, <1>23, <2>1
      <3>2. /\ \A r \in Requests : req[r].doc # job[k].doc
            /\ \A u \in Workers : ~Holds(u, k)
            /\ \A i \in Jobs : LiveJob(i) /\ job[i].doc = job[k].doc => i = k
        BY <3>1 DEF ClaimsInv, SelectedAlone
      <3>3. QED
        BY <1>10, <1>12, <1>15, <3>1, <3>2
    <2>2. QED
      BY <2>1 DEF SelectedAlone
  <1>27. QED
    BY <1>14, <1>16, <1>18, <1>19, <1>20, <1>21, <1>22, <1>25, <1>26 DEF ClaimsInv

\* Purging removes terminal jobs only.
LEMMA PurgeDrops ==
  ASSUME ClaimsInv, NEW w \in Workers, PurgeOldJobs(w)
  PROVE  DropStep(w)
  BY Released DEF PurgeOldJobs, DropStep, ClaimsInv

\* So do a failure of the loop, a crash and a restart.
LEMMA FaultDrops ==
  ASSUME ClaimsInv, NEW w \in Workers, LoopError(w) \/ Crash(w) \/ Restart(w)
  PROVE  DropStep(w)
  <1>1. CASE LoopError(w)
    BY <1>1, ReleaseDrops DEF LoopError
  <1>2. CASE Crash(w)
    BY <1>2 DEF Crash, DropStep, Working, ClaimsInv, TypeOK
  <1>3. CASE Restart(w)
    BY <1>3 DEF Restart, DropStep, Working, ClaimsInv, TypeOK
  <1>4. QED
    BY <1>1, <1>2, <1>3

\* The clock touches one row that nobody holds or has selected.
LEMMA ClockClaims ==
  ASSUME ClaimsInv, TypeOK', NEW j \in Jobs, UNCHANGED <<doc, pc, task, seen, req>>,
         \A k \in Jobs : k # j => job'[k] = job[k],
         job[j].status \in Live,
         job'[j].status = job[j].status, job'[j].doc = job[j].doc,
         \A w \in Workers : ~Holds(w, j) /\ ~Selected(w, j),
         \A r \in Requests : req[r].doc # job[j].doc
  PROVE  ClaimsInv'
  <1>1. \A k \in Jobs : job'[k].status = job[k].status /\ job'[k].doc = job[k].doc
    OBVIOUS
  <1>2. job[j] # Gone /\ job'[j] # Gone
    BY RowStatuses DEF Live
  <1>3. JobsStored' /\ OneLiveJob' /\ RunningNotFailed'
    BY <1>1 DEF ClaimsInv, JobsStored, OneLiveJob, RunningNotFailed, LiveJob, Exists
  <1>4. StaleUndisturbed'
    BY DEF ClaimsInv, StaleUndisturbed
  <1>5. RequestsKnown' /\ ReadyHasNoError'
    BY DEF ClaimsInv, RequestsKnown, ReadyHasNoError
  <1>6. \A w \in Workers, k \in Jobs : Holds(w, k)' => Holds(w, k) /\ job'[k] = job[k]
    BY DEF Holds
  <1>7. HoldersKnow' /\ OneHolder' /\ IngestedCleanly'
    BY <1>6 DEF ClaimsInv, HoldersKnow, OneHolder, IngestedCleanly, Knows
  <1>8. \A w \in Workers, k \in Jobs : Selected(w, k)' => Selected(w, k) /\ job'[k] = job[k]
    BY DEF Selected
  <1>9. SelectedKnown'
    BY <1>8, SelectedKept DEF ClaimsInv
  <1>10. SelectedAlone'
    BY <1>1, <1>6, <1>8 DEF ClaimsInv, SelectedAlone, LiveJob
  <1>11. QED
    BY <1>3, <1>4, <1>5, <1>7, <1>9, <1>10 DEF ClaimsInv

\* A heartbeat grows stale only when its worker is gone.
LEMMA BeatExpiresClaims ==
  ASSUME ~SlowWriters, ClaimsInv, TypeOK', NEW j \in Jobs, BeatExpires(j)
  PROVE  ClaimsInv'
  <1>1. /\ job[j].status = "running" /\ job[j].beat = "fresh"
        /\ \A r \in Requests : req[r].doc # job[j].doc
        /\ UNCHANGED <<doc, pc, task, seen, req>>
    BY DEF BeatExpires, TimeToWork, UploadPending
  <1>2. /\ \A k \in Jobs : k # j => job'[k] = job[k]
        /\ job'[j].status = job[j].status /\ job'[j].doc = job[j].doc
    BY DEF BeatExpires, ClaimsInv, TypeOK, JobRow
  <1>3. \A w \in Workers : ~Holds(w, j)
    BY DEF BeatExpires, HeldBy, Holds
  <1>4. \A w \in Workers : ~Selected(w, j)
    BY <1>1, RowStatuses DEF ClaimsInv, SelectedKnown, AsReaped
  <1>5. QED
    BY <1>1, <1>2, <1>3, <1>4, ClockClaims DEF Live

\* A job becomes due again.
LEMMA BackoffElapsesClaims ==
  ASSUME ~SlowWriters, ClaimsInv, TypeOK', NEW j \in Jobs, BackoffElapses(j)
  PROVE  ClaimsInv'
  <1>1. /\ job[j].status = "queued" /\ job[j] # Gone
        /\ ~FailurePending(job[j].doc)
        /\ \A r \in Requests : req[r].doc # job[j].doc
        /\ UNCHANGED <<doc, pc, task, seen, req>>
    BY RowStatuses DEF BackoffElapses, TimeToWork, UploadPending
  <1>2. /\ \A k \in Jobs : k # j => job'[k] = job[k]
        /\ job'[j].status = job[j].status /\ job'[j].doc = job[j].doc
    BY DEF BackoffElapses, ClaimsInv, TypeOK, JobRow
  <1>3. \A w \in Workers : ~Holds(w, j)
    BY <1>1 DEF ClaimsInv, HoldersKnow, Knows
  <1>4. \A w \in Workers : ~Selected(w, j)
    BY <1>1, SelectedPending
  <1>5. QED
    BY <1>1, <1>2, <1>3, <1>4, ClockClaims DEF Live

-----------------------------------------------------------------------------
\* At the start there is no document, no job, and nobody works.
LEMMA InitClaimsInv == Init => ClaimsInv
  <1> SUFFICES ASSUME Init PROVE ClaimsInv
    OBVIOUS
  <1>1. TypeOK
    BY InitTypeOK
  <1>2. /\ \A j \in Jobs : job[j].status = "none"
        /\ \A w \in Workers : pc[w] = "idle"
        /\ \A r \in Requests : req[r].pc = "idle" /\ req[r].doc = NoDoc
        /\ \A d \in Docs : doc[d].status = "absent"
    BY DEF Init, NoRow, Idle
  <1>3. \A w \in Workers, j \in Jobs : ~Holds(w, j) /\ ~Selected(w, j)
    BY <1>2 DEF Holds, Selected, Working
  <1>4. JobsStored /\ OneLiveJob /\ RunningNotFailed /\ StaleUndisturbed
    BY <1>2 DEF JobsStored, OneLiveJob, RunningNotFailed, StaleUndisturbed, LiveJob, Exists, Live, Terminal
  <1>5. RequestsKnown /\ ReadyHasNoError
    BY <1>2 DEF RequestsKnown, ReadyHasNoError
  <1>6. HoldersKnow /\ OneHolder /\ IngestedCleanly /\ SelectedKnown /\ SelectedAlone
    BY <1>2, <1>3 DEF HoldersKnow, OneHolder, IngestedCleanly, SelectedKnown, SelectedAlone, Working
  <1>7. QED
    BY <1>1, <1>4, <1>5, <1>6 DEF ClaimsInv

\* Nothing in the invariant depends on the fault counters.
LEMMA StutterClaims ==
  ASSUME ClaimsInv, UNCHANGED vars
  PROVE  ClaimsInv'
  <1>1. TypeOK'
    BY NextTypeOK DEF ClaimsInv
  <1>2. UNCHANGED <<doc, job, pc, task, seen>> /\ req' = req
    BY DEF vars
  <1>3. RequestsKnown'
    BY <1>2 DEF ClaimsInv, RequestsKnown
  <1>4. QED
    BY <1>1, <1>2, <1>3, RequestMoves

\* The kinds of steps of a worker.
LEMMA WorkerKinds ==
  ASSUME ~SlowWriters, ClaimsInv, TypeOK', NEW w \in Workers,
         \/ ClaimNext(w) \/ WorkerStep(w) \/ LoopError(w) \/ Crash(w) \/ Restart(w)
  PROVE  DropStep(w) \/ \E j \in Jobs : OwnStep(w, j) \/ ReapStep(w, j)
  <1>1. ASSUME pc[w] \in Working PROVE task[w] \in Jobs
    BY <1>1 DEF ClaimsInv, HoldersKnow
  <1>2. CASE ClaimNext(w) \/ LoopError(w) \/ Crash(w) \/ Restart(w)
    BY <1>2, ClaimNextOwn, FaultDrops
  <1>3. CASE BeginIngest(w) \/ Persist(w) \/ IngestFails(w) \/ RecordFailure(w) \/ MarkSucceeded(w)
    <2>1. task[w] \in Jobs
      BY <1>1, <1>3 DEF BeginIngest, Persist, IngestFails, RecordFailure, MarkSucceeded, Working
    <2>2. DropStep(w) \/ OwnStep(w, task[w])
      BY <1>3, BeginIngestOwn, PersistOwn, IngestFailsOwn, RecordFailureOwn, MarkSucceededOwn
    <2>3. QED
      BY <2>1, <2>2
  <1>4. CASE ReapOne(w) \/ PurgeOldJobs(w)
    BY <1>4, ReapOneKinds, PurgeDrops
  <1>5. QED
    BY <1>2, <1>3, <1>4 DEF WorkerStep

\* Every step preserves the invariant when a live worker's heartbeat never
\* lapses and whoever has read a row writes it in time.
LEMMA NextClaimsInv ==
  ASSUME MaxStalls = 0, ~SlowWriters
  PROVE  ClaimsInv /\ [Next]_vars => ClaimsInv'
  <1> SUFFICES ASSUME ClaimsInv, [Next]_vars PROVE ClaimsInv'
    OBVIOUS
  <1>1. TypeOK'
    BY NextTypeOK DEF ClaimsInv
  <1>2. ASSUME NEW r \in Requests, NEW d \in Docs, CreateDocument(r, d) \/ FindFailed(r, d)
        PROVE  ClaimsInv'
    BY <1>1, <1>2, CreateDocumentClaims, FindFailedClaims
  <1>3. ASSUME NEW r \in Requests, RequestStep(r) \/ ApiFails(r)
        PROVE  ClaimsInv'
    BY <1>1, <1>3, RetryFailedClaims, EnqueueClaims, ApiFailsClaims DEF RequestStep
  <1>4. ASSUME NEW d \in Docs, DeleteDocument(d)
        PROVE  ClaimsInv'
    BY <1>1, <1>4, DeleteDocumentClaims
  <1>5. ASSUME NEW w \in Workers,
               \/ ClaimNext(w) \/ WorkerStep(w) \/ LoopError(w) \/ Crash(w) \/ Restart(w)
        PROVE  ClaimsInv'
    BY <1>1, <1>5, WorkerKinds, OwnStepClaims, ReapStepClaims, DropStepClaims
  <1>6. ASSUME NEW w \in Workers, Heartbeat(w)
        PROVE  FALSE
    BY <1>6, HeartbeatClaims
  <1>7. ASSUME NEW w \in Workers, SelectStale(w)
        PROVE  ClaimsInv'
    BY <1>1, <1>7, SelectStaleClaims
  <1>8. ASSUME NEW j \in Jobs, BeatExpires(j) \/ Stall(j) \/ BackoffElapses(j)
        PROVE  ClaimsInv'
    <2>1. ~Stall(j)
      BY DEF Stall, ClaimsInv, TypeOK
    <2>2. QED
      BY <1>1, <1>8, <2>1, BeatExpiresClaims, BackoffElapsesClaims
  <1>9. CASE UNCHANGED vars
    BY <1>9, StutterClaims
  <1>10. QED
    BY <1>2, <1>3, <1>4, <1>5, <1>6, <1>7, <1>8, <1>9 DEF Next

\* The invariant holds in every behaviour.
LEMMA ClaimsAlways ==
  ASSUME MaxStalls = 0, ~SlowWriters
  PROVE  Spec => []ClaimsInv
  <1>1. ClaimsInv /\ [Next]_vars => ClaimsInv'
    BY NextClaimsInv
  <1>2. QED
    BY InitClaimsInv, <1>1, PTL DEF Spec

-----------------------------------------------------------------------------
(* What follows *)

\* Exactly one worker runs the jobs of a document, if no live worker's
\* heartbeat lapses: whatever crashes, is deleted, uploaded again or reaped.
THEOREM OneWorkerPerDocumentAlways ==
  ASSUME MaxStalls = 0, ~SlowWriters
  PROVE  Spec => []OneWorkerPerDocument
  <1>1. ASSUME ClaimsInv, NEW v \in Workers, NEW w \in Workers, v # w,
               pc[v] \in Working, pc[w] \in Working
        PROVE  DocOf(v) # DocOf(w) \/ doc[DocOf(v)].status = "deleted"
    <2>1. task[v] \in Jobs /\ task[w] \in Jobs /\ task[v] # task[w]
      BY <1>1 DEF ClaimsInv, HoldersKnow, OneHolder, Holds
    <2>2. CASE doc[DocOf(v)].status # "deleted" /\ doc[DocOf(w)].status # "deleted"
      <3>1. /\ LiveJob(task[v]) /\ job[task[v]].doc = DocOf(v)
            /\ LiveJob(task[w]) /\ job[task[w]].doc = DocOf(w)
        BY <1>1, <2>2, HeldJob
      <3>2. QED
        BY <1>1, <2>1, <3>1 DEF ClaimsInv, OneLiveJob
    <2>3. QED
      BY <2>2
  <1>2. ClaimsInv => OneWorkerPerDocument
    BY <1>1 DEF OneWorkerPerDocument
  <1>3. QED
    BY ClaimsAlways, <1>2, PTL

\* A document that is ready has its chunks and shows no error of an earlier
\* attempt, although _persist never writes the error column.
THEOREM ReadyHasNoErrorAlways ==
  ASSUME MaxStalls = 0, ~SlowWriters
  PROVE  Spec => []ReadyHasNoError
  <1>1. ClaimsInv => ReadyHasNoError
    BY DEF ClaimsInv
  <1>2. QED
    BY ClaimsAlways, <1>1, PTL

\* Whatever is not a worker at its job, a reaper that writes, or a fault.
OutsideStep ==
  \/ \E r \in Requests, d \in Docs : CreateDocument(r, d) \/ FindFailed(r, d)
  \/ \E r \in Requests : RequestStep(r) \/ ApiFails(r)
  \/ \E d \in Docs : DeleteDocument(d)
  \/ \E w \in Workers : SelectStale(w)
  \/ \E j \in Jobs : BeatExpires(j) \/ BackoffElapses(j)

\* Such a step only removes jobs that exist: none of them ends or revives.
LEMMA RowsOutsideWorkers ==
  ASSUME ClaimsInv, OutsideStep, NEW j \in Jobs, Exists(j)
  PROVE  job'[j] = Gone \/ (job'[j].status = job[j].status /\ job'[j].doc = job[j].doc)
  <1>1. ASSUME NEW r \in Requests, NEW d \in Docs, CreateDocument(r, d) \/ FindFailed(r, d)
        PROVE  job' = job
    BY <1>1 DEF CreateDocument, FindFailed
  <1>2. ASSUME NEW r \in Requests, RetryFailed(r) \/ ApiFails(r)
        PROVE  job' = job
    BY <1>2 DEF RetryFailed, ApiFails
  <1>3. ASSUME NEW r \in Requests, Enqueue(r)
        PROVE  job'[j] = job[j]
    <2>1. \A i \in Jobs : job[i] = NoRow => i # j
      BY RowStatuses DEF Exists, Live, Terminal
    <2>2. CASE job' = job
      BY <2>2
    <2>3. CASE job' # job
      <3>1. \E i \in Jobs : job[i] = NoRow /\ \E row : job' = [job EXCEPT ![i] = row]
        BY <1>3, <2>3 DEF Enqueue
      <3>2. QED
        BY <2>1, <3>1 DEF ClaimsInv, TypeOK
    <2>4. QED
      BY <2>2, <2>3
  <1>4. ASSUME NEW d \in Docs, DeleteDocument(d)
        PROVE  job'[j] = Gone \/ job'[j] = job[j]
    BY <1>4 DEF DeleteDocument
  <1>5. ASSUME NEW w \in Workers, SelectStale(w)
        PROVE  job' = job
    BY <1>5 DEF SelectStale
  <1>6. ASSUME NEW i \in Jobs, BeatExpires(i) \/ BackoffElapses(i)
        PROVE  job'[j].status = job[j].status /\ job'[j].doc = job[j].doc
    <2>1. job[i] \in JobRow
      BY DEF ClaimsInv, TypeOK
    <2>2. CASE job' = [job EXCEPT ![i].beat = "stale"]
      BY <2>1, <2>2 DEF ClaimsInv, TypeOK, JobRow
    <2>3. CASE job' = [job EXCEPT ![i].due = TRUE]
      BY <2>1, <2>3 DEF ClaimsInv, TypeOK, JobRow
    <2>4. QED
      BY <1>6, <2>2, <2>3 DEF BeatExpires, BackoffElapses
  <1>7. QED
    BY <1>1, <1>2, <1>3, <1>4, <1>5, <1>6 DEF OutsideStep, RequestStep

\* A job that succeeded or is dead is never changed again but to be removed:
\* neither a late mark_failed of a reaper nor a late mark_succeeded revives it.
THEOREM TerminalIsFinalAlways ==
  ASSUME MaxStalls = 0, ~SlowWriters
  PROVE  Spec => TerminalIsFinal
  <1>1. ASSUME ClaimsInv, ClaimsInv', [Next]_vars, NEW j \in Jobs, job[j].status \in Terminal
        PROVE  job'[j].status \in {job[j].status, "gone"}
    <2>1. Exists(j) /\ ~LiveJob(j)
      BY <1>1 DEF Exists, LiveJob, Live, Terminal
    <2>2. CASE \E w \in Workers : \/ ClaimNext(w) \/ WorkerStep(w)
                                  \/ LoopError(w) \/ Crash(w) \/ Restart(w)
      <3>1. PICK w \in Workers : DropStep(w) \/ \E i \in Jobs : OwnStep(w, i) \/ ReapStep(w, i)
        BY <1>1, <2>2, WorkerKinds DEF ClaimsInv
      <3>2. CASE DropStep(w)
        BY <3>2, RowStatuses DEF DropStep
      <3>3. ASSUME NEW i \in Jobs, OwnStep(w, i) PROVE job'[j] = job[j]
        BY <2>1, <3>3 DEF OwnStep
      <3>4. ASSUME NEW i \in Jobs, ReapStep(w, i) PROVE job'[j].status = job[j].status
        <4>1. CASE i # j
          BY <3>4, <4>1 DEF ReapStep
        <4>2. CASE i = j
          <5>1. Selected(w, j) /\ job[j] # Gone
            BY <2>1, <3>4, <4>2, RowStatuses DEF ReapStep, Exists, Live, Terminal
          <5>2. AsReaped(w, j)
            BY <1>1, <5>1 DEF ClaimsInv, SelectedKnown
          <5>3. job[j].status = "dead" /\ ~Retries(seen[w][j], FALSE)
            BY <2>1, <5>2 DEF AsReaped, LiveJob, Live
          <5>4. QED
            BY <3>4, <4>2, <5>3 DEF ReapStep
        <4>3. QED
          BY <4>1, <4>2
      <3>5. QED
        BY <3>1, <3>2, <3>3, <3>4
    <2>3. CASE OutsideStep
      BY <1>1, <2>1, <2>3, RowsOutsideWorkers, RowStatuses
    <2>4. ~ \E w \in Workers : Heartbeat(w)
      BY <1>1, HeartbeatClaims
    <2>5. ~ \E i \in Jobs : Stall(i)
      BY <1>1 DEF Stall, ClaimsInv, TypeOK
    <2>6. CASE UNCHANGED vars
      BY <2>6 DEF vars
    <2>7. QED
      BY <1>1, <2>2, <2>3, <2>4, <2>5, <2>6 DEF Next, OutsideStep
  <1>2. ClaimsInv /\ ClaimsInv' /\ [Next]_vars =>
          [\A j \in Jobs : job[j].status \in Terminal
             => job'[j].status \in {job[j].status, "gone"}]_vars
    BY <1>1
  <1>3. QED
    BY ClaimsAlways, <1>2, PTL DEF Spec, TerminalIsFinal

-----------------------------------------------------------------------------
(* IngestionQueue implements IngestionLifecycle, and no document in flight is *)
(* without its job.                                                           *)

\* Document d has a job that is queued or running; the state its owner sees.
HasLive(d) == \E j \in Jobs : LiveJob(j) /\ job[j].doc = d
View == [d \in Docs |-> OwnerView(d)]

\* The model asks for a set of live jobs; the proofs only ask whether there is one.
LEMMA LiveJobs == \A d : (LiveJobOf(d) # {} <=> HasLive(d)) /\ (LiveJobOf(d) # {} <=> HasLive(d))'
  BY DEF LiveJobOf, HasLive, LiveJob

\* What the owner sees, by the status of the document and its job.
LEMMA Views ==
  ASSUME NEW d
  PROVE  /\ doc[d].status \in InFlight => OwnerView(d) = "working"
         /\ doc[d].status = "ready" /\ HasLive(d) => OwnerView(d) = "written"
         /\ doc[d].status = "ready" /\ ~HasLive(d) => OwnerView(d) = "ready"
         /\ doc[d].status \notin InFlight \cup {"ready"} => OwnerView(d) = doc[d].status
  BY LiveJobs DEF OwnerView, InFlight

\* The same after the step.
LEMMA ViewsNext ==
  ASSUME NEW d
  PROVE  /\ doc'[d].status \in InFlight => OwnerView(d)' = "working"
         /\ doc'[d].status = "ready" /\ HasLive(d)' => OwnerView(d)' = "written"
         /\ doc'[d].status = "ready" /\ ~HasLive(d)' => OwnerView(d)' = "ready"
         /\ doc'[d].status \notin InFlight \cup {"ready"} => OwnerView(d)' = doc'[d].status
  BY LiveJobs DEF OwnerView, InFlight

\* A step that moves one document along the lifecycle is a step of the lifecycle.
LEMMA ViewStep ==
  ASSUME NEW d \in Docs, \A e \in Docs : e # d => OwnerView(e)' = OwnerView(e),
         \/ OwnerView(d)' = OwnerView(d)
         \/ OwnerView(d) = "absent" /\ OwnerView(d)' = "working"
         \/ OwnerView(d) = "working" /\ OwnerView(d)' \in {"written", "failed"}
         \/ OwnerView(d) = "written" /\ OwnerView(d)' \in {"working", "ready", "failed"}
         \/ OwnerView(d) = "failed" /\ OwnerView(d)' = "working"
         \/ OwnerView(d) \in {"working", "written", "ready", "failed"} /\ OwnerView(d)' = "deleted"
  PROVE  [Lifecycle!Next]_View
  <1>1. View' = [View EXCEPT ![d] = OwnerView(d)'] /\ View[d] = OwnerView(d)
    BY DEF View
  <1>2. CASE OwnerView(d)' = OwnerView(d)
    BY <1>2 DEF View
  <1>3. ASSUME NEW from, OwnerView(d) \in from
        PROVE  Lifecycle!Become(d, from, OwnerView(d)')
    BY <1>1, <1>3 DEF Lifecycle!Become, View
  <1>4. QED
    BY <1>2, <1>3 DEF Lifecycle!Next, Lifecycle!Submit, Lifecycle!Write, Lifecycle!Redo, Lifecycle!Record,
      Lifecycle!GiveUp, Lifecycle!Resubmit, Lifecycle!Remove

\* Nothing changes for the owner of another document.
Apart(d) == \A e \in Docs : e # d =>
  doc'[e].status = doc[e].status /\ (HasLive(e)' <=> HasLive(e))

\* The owner sees no change where neither status nor job changes.
LEMMA ViewKept ==
  ASSUME NEW e \in Docs, doc'[e].status = doc[e].status, HasLive(e)' <=> HasLive(e)
  PROVE  OwnerView(e)' = OwnerView(e)
  BY Views, ViewsNext

\* ViewStep, for a step that leaves the other documents and their jobs apart.
LEMMA ApartStep ==
  ASSUME NEW d \in Docs, Apart(d),
         \/ OwnerView(d)' = OwnerView(d)
         \/ OwnerView(d) = "absent" /\ OwnerView(d)' = "working"
         \/ OwnerView(d) = "working" /\ OwnerView(d)' \in {"written", "failed"}
         \/ OwnerView(d) = "written" /\ OwnerView(d)' \in {"working", "ready", "failed"}
         \/ OwnerView(d) = "failed" /\ OwnerView(d)' = "working"
         \/ OwnerView(d) \in {"working", "written", "ready", "failed"} /\ OwnerView(d)' = "deleted"
  PROVE  [Lifecycle!Next]_View
  <1>1. \A e \in Docs : e # d => OwnerView(e)' = OwnerView(e)
    BY ViewKept DEF Apart
  <1>2. QED
    BY <1>1, ViewStep

\* A step that changes no status and ends no job is invisible.
LEMMA NoViewStep ==
  ASSUME \A e \in Docs : doc'[e].status = doc[e].status /\ (HasLive(e)' <=> HasLive(e))
  PROVE  View' = View
  BY ViewKept DEF View

\* What the steps of the workers and reapers mean to the owner.
LEMMA DropStepView ==
  ASSUME NEW w \in Workers, DropStep(w)
  PROVE  \A e \in Docs : doc'[e].status = doc[e].status /\ (HasLive(e)' <=> HasLive(e))
  <1>1. \A k \in Jobs : (LiveJob(k)' <=> LiveJob(k)) /\ (LiveJob(k) => job'[k] = job[k])
    BY RowStatuses DEF DropStep, LiveJob, Live, Terminal
  <1>2. QED
    BY <1>1 DEF DropStep, HasLive

\* A worker's step on its job concerns one document, whose job it is.
LEMMA OwnStepLives ==
  ASSUME ClaimsInv, NEW w \in Workers, NEW j \in Jobs, OwnStep(w, j), NEW d, d = job[j].doc
  PROVE  /\ d \in Docs /\ doc[d].status \in Stored /\ Apart(d)
         /\ HasLive(d) /\ (HasLive(d)' <=> job'[j].status \in Live)
  <1>1. LiveJob(j) /\ d \in Docs /\ doc[d].status \in Stored
    BY DEF OwnStep, ClaimsInv, JobsStored, Exists, LiveJob
  <1>2. job'[j].doc = d /\ \A k \in Jobs : k # j => job'[k] = job[k]
    BY DEF OwnStep
  <1>3. \A e \in Docs : e # d => doc'[e] = doc[e]
    BY DEF OwnStep
  <1>4. \A k \in Jobs : k # j /\ LiveJob(k) => job[k].doc # d
    BY <1>1 DEF ClaimsInv, OneLiveJob
  <1>5. job[j].doc = d
    OBVIOUS
  <1>6. HasLive(d)
    BY <1>1, <1>5 DEF HasLive
  <1>7. HasLive(d)' <=> LiveJob(j)'
    BY <1>2, <1>4 DEF HasLive, LiveJob
  <1>8. \A e \in Docs : e # d => (HasLive(e)' <=> HasLive(e))
    BY <1>2, <1>5 DEF HasLive, LiveJob
  <1>9. Apart(d)
    BY <1>3, <1>8 DEF Apart
  <1>10. QED
    BY <1>1, <1>6, <1>7, <1>9 DEF LiveJob

\* That step takes the document along the lifecycle.
LEMMA OwnStepView ==
  ASSUME ClaimsInv, NEW w \in Workers, NEW j \in Jobs, OwnStep(w, j)
  PROVE  [Lifecycle!Next]_View
  <1>0. PICK d : d = job[j].doc
    OBVIOUS
  <1>1. /\ d \in Docs /\ doc[d].status \in Stored /\ Apart(d)
        /\ HasLive(d) /\ (HasLive(d)' <=> job'[j].status \in Live)
    BY <1>0, OwnStepLives
  <1>2. /\ doc'[d].status \in Stored
        /\ doc'[d].status = "ready" =>
              /\ doc[d].status # "failed"
              /\ job'[j].status \in Live \/ doc[d].status = "ready"
    BY <1>0 DEF OwnStep
  <1>3. \/ doc[d].status \in InFlight /\ OwnerView(d) = "working"
        \/ doc[d].status = "ready" /\ OwnerView(d) = "written"
        \/ doc[d].status = "failed" /\ OwnerView(d) = "failed"
    BY <1>1, Views DEF Stored, InFlight
  <1>4. \/ doc'[d].status \in InFlight /\ OwnerView(d)' = "working"
        \/ doc'[d].status = "ready" /\ HasLive(d)' /\ OwnerView(d)' = "written"
        \/ doc'[d].status = "ready" /\ ~HasLive(d)' /\ OwnerView(d)' = "ready"
        \/ doc'[d].status = "failed" /\ OwnerView(d)' = "failed"
    BY <1>2, ViewsNext DEF Stored, InFlight
  <1>5. \/ OwnerView(d)' = OwnerView(d)
        \/ OwnerView(d) = "working" /\ OwnerView(d)' \in {"written", "failed"}
        \/ OwnerView(d) = "written" /\ OwnerView(d)' \in {"working", "ready", "failed"}
        \/ OwnerView(d) = "failed" /\ OwnerView(d)' = "working"
    BY <1>1, <1>2, <1>3, <1>4 DEF InFlight
  <1>6. QED
    BY <1>1, <1>5, ApartStep

\* A reaper's step on a selected job, likewise; a second reaper finds the first
\* one's work done.
LEMMA ReapStepLives ==
  ASSUME ClaimsInv, NEW w \in Workers, NEW j \in Jobs, ReapStep(w, j), NEW d, d = job[j].doc
  PROVE  /\ d \in Docs /\ doc[d].status \in Stored /\ Apart(d)
         /\ \/ HasLive(d)
            \/ /\ doc[d].status = "failed" /\ doc'[d].status = "failed"
         /\ (doc'[d].status = "pending" /\ HasLive(d)') \/ doc'[d].status = "failed"
  <1>1. /\ d \in Docs /\ doc[d].status \in Stored /\ AsReaped(w, j)
    BY SelectedStored, RowStatuses DEF ReapStep, Exists, Live, Terminal, ClaimsInv, SelectedKnown
  <1>2. job'[j].doc = d /\ job[j].doc = d /\ \A k \in Jobs : k # j => job'[k] = job[k]
    BY DEF ReapStep
  <1>3. \A e \in Docs : e # d => doc'[e] = doc[e]
    BY DEF ReapStep
  <1>4. \/ job'[j].status = "queued" /\ doc'[d].status = "pending"
        \/ ~Retries(seen[w][j], FALSE) /\ doc'[d].status = "failed"
    BY DEF ReapStep
  <1>5. \/ LiveJob(j)
        \/ /\ ~Retries(seen[w][j], FALSE)
           /\ doc[d].status = "failed" /\ doc'[d].status = "failed"
    <2>1. CASE LiveJob(j)
      BY <2>1
    <2>2. CASE ~LiveJob(j)
      <3>1. /\ job[j].status = "dead" /\ ~Retries(seen[w][j], FALSE)
            /\ doc[d].status = "failed"
        BY <1>1, <2>2 DEF AsReaped, LiveJob, Live
      <3>2. doc'[d].status = "failed"
        BY <3>1 DEF ReapStep
      <3>3. QED
        BY <3>1, <3>2
    <2>3. QED
      BY <2>1, <2>2
  <1>6. \A e \in Docs : e # d => (HasLive(e)' <=> HasLive(e))
    BY <1>2 DEF HasLive, LiveJob
  <1>7. Apart(d)
    BY <1>3, <1>6 DEF Apart
  <1>8. LiveJob(j) => HasLive(d)
    BY <1>2 DEF HasLive
  <1>9. job'[j].status = "queued" => HasLive(d)'
    BY <1>2 DEF HasLive, LiveJob, Live
  <1>10. QED
    BY <1>1, <1>4, <1>5, <1>7, <1>8, <1>9

\* That step takes the document back to work or to failed.
LEMMA ReapStepView ==
  ASSUME ClaimsInv, NEW w \in Workers, NEW j \in Jobs, ReapStep(w, j)
  PROVE  [Lifecycle!Next]_View
  <1>0. PICK d : d = job[j].doc
    OBVIOUS
  <1>1. /\ d \in Docs /\ doc[d].status \in Stored /\ Apart(d)
        /\ HasLive(d) \/ (doc[d].status = "failed" /\ doc'[d].status = "failed")
        /\ doc'[d].status \in {"pending", "failed"}
    BY <1>0, ReapStepLives
  <1>2. \/ OwnerView(d) \in {"working", "written"}
        \/ doc[d].status = "failed" /\ OwnerView(d) = "failed"
    BY <1>1, Views DEF Stored, InFlight
  <1>3. OwnerView(d)' \in {"working", "failed"}
    BY <1>1, ViewsNext DEF InFlight
  <1>4. QED
    BY <1>1, <1>2, <1>3, ApartStep

\* What the steps outside the workers mean to the owner.
LEMMA OutsideView ==
  ASSUME ClaimsInv, OutsideStep
  PROVE  [Lifecycle!Next]_View
  <1>1. ASSUME NEW r \in Requests, NEW d \in Docs, CreateDocument(r, d)
        PROVE  [Lifecycle!Next]_View
    <2>1. /\ doc[d].status = "absent" /\ doc'[d].status = "pending"
          /\ \A e \in Docs : e # d => doc'[e] = doc[e]
      BY <1>1 DEF CreateDocument, ClaimsInv, TypeOK, DocRow
    <2>2. Apart(d)
      BY <1>1, <2>1 DEF CreateDocument, Apart, HasLive, LiveJob
    <2>3. OwnerView(d) = "absent" /\ OwnerView(d)' = "working"
      BY <2>1, Views, ViewsNext DEF InFlight
    <2>4. QED
      BY <2>2, <2>3, ApartStep
  <1>2. ASSUME UNCHANGED <<doc, job>>
        PROVE  [Lifecycle!Next]_View
    BY <1>2, NoViewStep DEF HasLive, LiveJob
  <1>3. ASSUME NEW r \in Requests, RetryFailed(r)
        PROVE  [Lifecycle!Next]_View
    <2>0. PICK d : d = req[r].doc
      OBVIOUS
    <2>1. CASE doc' = doc
      BY <1>2, <1>3, <2>1 DEF RetryFailed
    <2>2. CASE doc' # doc
      <3>1. /\ d \in Docs /\ doc[d].status \in Stored \ {"ready"}
            /\ doc' = SetDocumentStatus(d, "pending", FALSE) /\ job' = job
        BY <1>3, <2>0, <2>2 DEF RetryFailed, ClaimsInv, RequestsKnown
      <3>2. /\ doc'[d].status = "pending"
            /\ \A e \in Docs : e # d => doc'[e] = doc[e]
        BY <3>1, DocUpdated DEF ClaimsInv
      <3>3. Apart(d)
        BY <3>1, <3>2 DEF Apart, HasLive, LiveJob
      <3>4. OwnerView(d) \in {"working", "failed"} /\ OwnerView(d)' = "working"
        BY <3>1, <3>2, Views, ViewsNext DEF InFlight, Stored
      <3>5. QED
        BY <3>1, <3>3, <3>4, ApartStep
    <2>3. QED
      BY <2>1, <2>2
  <1>4. ASSUME NEW r \in Requests, Enqueue(r)
        PROVE  [Lifecycle!Next]_View
    <2>0. PICK d : d = req[r].doc
      OBVIOUS
    <2>1. CASE job' = job
      BY <1>2, <1>4, <2>1 DEF Enqueue
    <2>2. CASE job' # job
      <3>1. PICK j \in Jobs :
              /\ job[j] = NoRow
              /\ job' = [job EXCEPT ![j] =
                   [NoRow EXCEPT !.status = "queued", !.doc = d, !.due = TRUE]]
        BY <1>4, <2>0, <2>2 DEF Enqueue
      <3>2. d \in Docs /\ doc' = doc /\ doc[d].status # "ready"
        BY <1>4, <2>0 DEF Enqueue, ClaimsInv, RequestsKnown
      <3>3. /\ job[j].status = "none" /\ job'[j].doc = d
            /\ \A k \in Jobs : k # j => job'[k] = job[k]
        BY <3>1 DEF ClaimsInv, TypeOK, NoRow
      <3>4. \A e \in Docs : e # d => (HasLive(e)' <=> HasLive(e))
        BY <3>3 DEF HasLive, LiveJob, Live
      <3>5. Apart(d)
        BY <3>2, <3>4 DEF Apart
      <3>6. OwnerView(d)' = OwnerView(d)
        BY <3>2, Views, ViewsNext
      <3>7. QED
        BY <3>2, <3>5, <3>6, ApartStep
    <2>3. QED
      BY <2>1, <2>2
  <1>5. ASSUME NEW d \in Docs, DeleteDocument(d)
        PROVE  [Lifecycle!Next]_View
    <2>1. /\ doc[d].status \in Stored /\ doc'[d].status = "deleted"
          /\ \A e \in Docs : e # d => doc'[e] = doc[e]
      BY <1>5 DEF DeleteDocument, ClaimsInv, TypeOK
    <2>2. \A j \in Jobs : job'[j] = IF job[j].doc = d THEN Gone ELSE job[j]
      BY <1>5 DEF DeleteDocument
    <2>3. \A e \in Docs : e # d => (HasLive(e)' <=> HasLive(e))
      BY <2>2, RowStatuses DEF HasLive, LiveJob, Live
    <2>4. Apart(d)
      BY <2>1, <2>3 DEF Apart
    <2>5. OwnerView(d) \in {"working", "written", "ready", "failed"}
      BY <2>1, Views DEF Stored, InFlight
    <2>6. OwnerView(d)' = "deleted"
      BY <2>1, ViewsNext DEF InFlight
    <2>7. QED
      BY <2>4, <2>5, <2>6, ApartStep
  <1>6. ASSUME NEW i \in Jobs, BeatExpires(i) \/ BackoffElapses(i)
        PROVE  [Lifecycle!Next]_View
    <2>1. job[i] \in JobRow /\ doc' = doc
      BY <1>6 DEF ClaimsInv, TypeOK, BeatExpires, BackoffElapses
    <2>2. CASE job' = [job EXCEPT ![i].beat = "stale"]
      <3>1. \A k \in Jobs : job'[k].status = job[k].status /\ job'[k].doc = job[k].doc
        BY <2>1, <2>2 DEF ClaimsInv, TypeOK, JobRow
      <3>2. QED
        BY <2>1, <3>1, NoViewStep DEF HasLive, LiveJob
    <2>3. CASE job' = [job EXCEPT ![i].due = TRUE]
      <3>1. \A k \in Jobs : job'[k].status = job[k].status /\ job'[k].doc = job[k].doc
        BY <2>1, <2>3 DEF ClaimsInv, TypeOK, JobRow
      <3>2. QED
        BY <2>1, <3>1, NoViewStep DEF HasLive, LiveJob
    <2>4. QED
      BY <1>6, <2>2, <2>3 DEF BeatExpires, BackoffElapses
  <1>7. QED
    BY <1>1, <1>2, <1>3, <1>4, <1>5, <1>6
    DEF OutsideStep, RequestStep, FindFailed, ApiFails, SelectStale

\* The kinds of steps.
LEMMA StepKinds ==
  ASSUME MaxStalls = 0, ~SlowWriters, ClaimsInv, [Next]_vars
  PROVE  \/ OutsideStep
         \/ \E w \in Workers : DropStep(w) \/ \E j \in Jobs : OwnStep(w, j) \/ ReapStep(w, j)
         \/ UNCHANGED vars
  <1>1. TypeOK'
    BY NextTypeOK DEF ClaimsInv
  <1>2. ASSUME NEW w \in Workers,
               \/ ClaimNext(w) \/ WorkerStep(w) \/ LoopError(w) \/ Crash(w) \/ Restart(w)
        PROVE  DropStep(w) \/ \E j \in Jobs : OwnStep(w, j) \/ ReapStep(w, j)
    BY <1>1, <1>2, WorkerKinds
  <1>3. ~ \E w \in Workers : Heartbeat(w)
    BY HeartbeatClaims
  <1>4. ~ \E i \in Jobs : Stall(i)
    BY DEF Stall, ClaimsInv, TypeOK
  <1>5. QED
    BY <1>2, <1>3, <1>4 DEF Next, OutsideStep

\* The queue keeps the safety part of the lifecycle: a document recorded as
\* ready or failed changes only when its owner uploads it again or deletes it,
\* and a deleted one never comes back.
THEOREM KeepsLifecycle ==
  ASSUME MaxStalls = 0, ~SlowWriters
  PROVE  Spec => Lifecycle!Safety
  <1>1. Init => Lifecycle!Init
    <2>1. ASSUME Init, NEW d \in Docs PROVE OwnerView(d) = "absent"
      <3>1. doc[d].status = "absent"
        BY <2>1 DEF Init
      <3>2. QED
        BY <3>1, Views DEF InFlight
    <2>2. QED
      BY <2>1 DEF Lifecycle!Init
  <1>2. ClaimsInv /\ [Next]_vars => [Lifecycle!Next]_View
    <2> SUFFICES ASSUME ClaimsInv, [Next]_vars PROVE [Lifecycle!Next]_View
      OBVIOUS
    <2>1. CASE OutsideStep
      BY <2>1, OutsideView
    <2>2. ASSUME NEW w \in Workers, DropStep(w) PROVE [Lifecycle!Next]_View
      BY <2>2, DropStepView, NoViewStep
    <2>3. ASSUME NEW w \in Workers, NEW j \in Jobs, OwnStep(w, j) \/ ReapStep(w, j)
          PROVE  [Lifecycle!Next]_View
      BY <2>3, OwnStepView, ReapStepView
    <2>4. CASE UNCHANGED vars
      BY <2>4, NoViewStep DEF vars, HasLive, LiveJob
    <2>5. QED
      BY <2>1, <2>2, <2>3, <2>4, StepKinds
  <1>3. QED
    BY <1>1, <1>2, ClaimsAlways, PTL DEF Spec, Lifecycle!Safety, View

-----------------------------------------------------------------------------
(* Nobody waits in vain *)

\* A request is about to enqueue document d.
Queueing(d) == \E r \in Requests : req[r].doc = d /\ req[r].pc = "queueing"

\* The job of a document in flight ends only in the statement that takes it out
\* of flight.
LEMMA NextInFlightHasJob ==
  ASSUME MaxStalls = 0, ~SlowWriters, ~ApiMayFail
  PROVE  ClaimsInv /\ InFlightHasJob /\ [Next]_vars => InFlightHasJob'
  <1> SUFFICES ASSUME ClaimsInv, InFlightHasJob, [Next]_vars, NEW d \in Docs,
                      doc'[d].status \in InFlight
               PROVE  HasLive(d)' \/ Queueing(d)'
    BY LiveJobs DEF InFlightHasJob, Queueing
  <1>0. doc[d].status \in InFlight => HasLive(d) \/ Queueing(d)
    BY LiveJobs DEF InFlightHasJob, Queueing
  <1> DEFINE Goal == HasLive(d)' \/ Queueing(d)'
  <1>1. ASSUME doc'[d].status = doc[d].status, HasLive(d)' <=> HasLive(d), Queueing(d) => Queueing(d)'
        PROVE  Goal
    BY <1>0, <1>1
  <1>2. ASSUME NEW w \in Workers, DropStep(w) PROVE Goal
    BY <1>1, <1>2, DropStepView DEF DropStep, Queueing
  <1>3. ASSUME NEW w \in Workers, NEW j \in Jobs, OwnStep(w, j) PROVE Goal
    <2>1. CASE d = job[j].doc
      <3>1. job'[j].status \in Live
        BY <1>3, <2>1 DEF OwnStep
      <3>2. QED
        BY <1>3, <2>1, <3>1, OwnStepLives
    <2>2. CASE d # job[j].doc
      BY <1>1, <1>3, <2>2, OwnStepLives DEF Apart, OwnStep, Queueing
    <2>3. QED
      BY <2>1, <2>2
  <1>4. ASSUME NEW w \in Workers, NEW j \in Jobs, ReapStep(w, j) PROVE Goal
    <2>1. CASE d = job[j].doc
      BY <1>4, <2>1, ReapStepLives DEF InFlight
    <2>2. CASE d # job[j].doc
      <3>1. PICK e : e = job[j].doc
        OBVIOUS
      <3>2. Apart(e) /\ d # e /\ req' = req
        BY <1>4, <2>2, <3>1, ReapStepLives DEF ReapStep
      <3>3. QED
        BY <1>1, <3>2 DEF Apart, Queueing
    <2>3. QED
      BY <2>1, <2>2
  <1>5. ASSUME NEW r \in Requests, NEW e \in Docs, CreateDocument(r, e) PROVE Goal
    <2>1. /\ doc'[d] = doc[d] \/ d = e
          /\ req'[r].pc = "queueing" /\ req'[r].doc = e
          /\ \A q \in Requests : q # r => req'[q] = req[q]
          /\ req[r].pc = "idle" /\ job' = job
      BY <1>5 DEF CreateDocument, ClaimsInv, TypeOK, Idle
    <2>2. CASE d = e
      BY <2>1, <2>2 DEF Queueing
    <2>3. CASE d # e
      <3>1. Queueing(d) => Queueing(d)'
        BY <2>1 DEF Queueing
      <3>2. QED
        BY <1>1, <2>1, <2>3, <3>1 DEF HasLive, LiveJob
    <2>4. QED
      BY <2>2, <2>3
  <1>6. ASSUME NEW r \in Requests, NEW e \in Docs, FindFailed(r, e) PROVE Goal
    <2>1. /\ \A q \in Requests : q # r => req'[q] = req[q]
          /\ req[r].pc = "idle" /\ UNCHANGED <<doc, job>>
      BY <1>6 DEF FindFailed, ClaimsInv, TypeOK, Idle
    <2>2. Queueing(d) => Queueing(d)'
      BY <2>1 DEF Queueing
    <2>3. QED
      BY <1>1, <2>1, <2>2 DEF HasLive, LiveJob
  <1>7. ASSUME NEW r \in Requests, RetryFailed(r) PROVE Goal
    <2>1. req[r].pc = "retrying" /\ job' = job /\ req[r].doc \in Docs
      BY <1>7 DEF RetryFailed, ClaimsInv, RequestsKnown
    <2>2. \A q \in Requests : q # r => req'[q] = req[q]
      BY <1>7 DEF RetryFailed, ClaimsInv, TypeOK
    <2>3. Queueing(d) => Queueing(d)'
      BY <2>1, <2>2 DEF Queueing
    <2>4. HasLive(d)' <=> HasLive(d)
      BY <2>1 DEF HasLive, LiveJob
    <2>5. CASE doc[req[r].doc].status \in Stored
      <3>1. /\ doc' = SetDocumentStatus(req[r].doc, "pending", FALSE)
            /\ req' = [req EXCEPT ![r].pc = "queueing"]
        BY <1>7, <2>5 DEF RetryFailed
      <3>2. req'[r].pc = "queueing" /\ req'[r].doc = req[r].doc
        BY <3>1 DEF ClaimsInv, TypeOK
      <3>3. \A e \in Docs : e # req[r].doc => doc'[e] = doc[e]
        BY <2>1, <2>5, <3>1, DocUpdated DEF ClaimsInv
      <3>4. CASE d = req[r].doc
        BY <3>2, <3>4 DEF Queueing
      <3>5. CASE d # req[r].doc
        BY <1>1, <2>3, <2>4, <3>3, <3>5
      <3>6. QED
        BY <3>4, <3>5
    <2>6. CASE doc[req[r].doc].status \notin Stored
      <3>1. doc' = doc
        BY <1>7, <2>6 DEF RetryFailed
      <3>2. QED
        BY <1>1, <2>3, <2>4, <3>1
    <2>7. QED
      BY <2>5, <2>6
  <1>8. ASSUME NEW r \in Requests, Enqueue(r) PROVE Goal
    <2>1. /\ doc' = doc /\ req[r].doc \in Docs
          /\ \A q \in Requests : q # r => req'[q] = req[q]
      BY <1>8 DEF Enqueue, ClaimsInv, TypeOK, RequestsKnown
    <2>2. CASE job' = job
      <3>1. HasLive(d)' <=> HasLive(d)
        BY <2>2 DEF HasLive, LiveJob
      <3>2. CASE d = req[r].doc
        <4>1. HasLive(d)
          <5>1. doc[d].status \in Stored
            BY <2>1 DEF Stored
          <5>2. ASSUME LiveJobOf(d) = {} PROVE FALSE
            <6>1. PICK j \in Jobs :
                    /\ job[j] = NoRow
                    /\ job' = [job EXCEPT ![j] =
                         [NoRow EXCEPT !.status = "queued", !.doc = d, !.due = TRUE]]
              BY <1>8, <3>2, <5>1, <5>2 DEF Enqueue
            <6>2. job[j].status = "none" /\ job'[j].status = "queued"
              BY <6>1 DEF ClaimsInv, TypeOK, NoRow
            <6>3. QED
              BY <2>2, <6>2
          <5>3. QED
            BY <5>2, LiveJobs
        <4>2. QED
          BY <3>1, <4>1
      <3>3. CASE d # req[r].doc
        <4>1. Queueing(d) => Queueing(d)'
          BY <2>1, <3>3 DEF Queueing
        <4>2. QED
          BY <1>1, <2>1, <3>1, <4>1
      <3>4. QED
        BY <3>2, <3>3
    <2>3. CASE job' # job
      <3>1. PICK j \in Jobs :
              /\ job[j] = NoRow
              /\ job' = [job EXCEPT ![j] =
                   [NoRow EXCEPT !.status = "queued", !.doc = req[r].doc, !.due = TRUE]]
        BY <1>8, <2>3 DEF Enqueue
      <3>2. /\ job[j].status = "none" /\ job'[j].status = "queued" /\ job'[j].doc = req[r].doc
            /\ \A k \in Jobs : k # j => job'[k] = job[k]
        BY <3>1 DEF ClaimsInv, TypeOK, NoRow
      <3>3. CASE d = req[r].doc
        BY <3>2, <3>3 DEF HasLive, LiveJob, Live
      <3>4. CASE d # req[r].doc
        <4>1. Queueing(d) => Queueing(d)'
          BY <2>1, <3>4 DEF Queueing
        <4>2. HasLive(d)' <=> HasLive(d)
          BY <3>2, <3>4 DEF HasLive, LiveJob, Live
        <4>3. QED
          BY <1>1, <2>1, <4>1, <4>2
      <3>5. QED
        BY <3>3, <3>4
    <2>4. QED
      BY <2>2, <2>3
  <1>9. ASSUME NEW e \in Docs, DeleteDocument(e) PROVE Goal
    <2>1. /\ doc'[e].status = "deleted" /\ req' = req
          /\ \A f \in Docs : f # e => doc'[f] = doc[f]
          /\ \A j \in Jobs : job'[j] = IF job[j].doc = e THEN Gone ELSE job[j]
      BY <1>9 DEF DeleteDocument, ClaimsInv, TypeOK
    <2>2. d # e
      BY <2>1 DEF InFlight
    <2>3. HasLive(d)' <=> HasLive(d)
      BY <2>1, <2>2, RowStatuses DEF HasLive, LiveJob, Live
    <2>4. QED
      BY <1>1, <2>1, <2>2, <2>3 DEF Queueing
  <1>10. ASSUME NEW i \in Jobs, BeatExpires(i) \/ BackoffElapses(i) PROVE Goal
    <2>1. \A k \in Jobs : Exists(k) =>
            job'[k] = Gone \/ (job'[k].status = job[k].status /\ job'[k].doc = job[k].doc)
      BY <1>10, RowsOutsideWorkers DEF OutsideStep
    <2>2. \A k \in Jobs : k = i => job'[k].status = job[k].status /\ job'[k].doc = job[k].doc
      BY <1>10 DEF BeatExpires, BackoffElapses, ClaimsInv, TypeOK, JobRow
    <2>3. \A k \in Jobs : k # i => job'[k] = job[k]
      BY <1>10 DEF BeatExpires, BackoffElapses, ClaimsInv, TypeOK
    <2>4. (HasLive(d)' <=> HasLive(d)) /\ doc' = doc /\ req' = req
      BY <1>10, <2>2, <2>3 DEF HasLive, LiveJob, BeatExpires, BackoffElapses
    <2>5. QED
      BY <1>1, <2>4 DEF Queueing
  <1>11. ASSUME UNCHANGED <<doc, job, req>> PROVE Goal
    BY <1>1, <1>11 DEF HasLive, LiveJob, Queueing
  <1>12. ~ \E r \in Requests : ApiFails(r)
    BY DEF ApiFails
  <1>13. CASE OutsideStep
    BY <1>5, <1>6, <1>7, <1>8, <1>9, <1>10, <1>11, <1>12, <1>13 DEF OutsideStep, RequestStep, SelectStale
  <1>14. QED
    BY <1>2, <1>3, <1>4, <1>11, <1>13, StepKinds DEF vars

\* No document is shown as in flight forever for want of a job: there is one,
\* or an upload handler about to queue it, if handlers are not cut short.
THEOREM InFlightHasJobAlways ==
  ASSUME MaxStalls = 0, ~SlowWriters, ~ApiMayFail
  PROVE  Spec => []InFlightHasJob
  <1>1. Init => InFlightHasJob
    BY DEF Init, InFlightHasJob, InFlight
  <1>2. ClaimsInv /\ InFlightHasJob /\ [Next]_vars => InFlightHasJob'
    BY NextInFlightHasJob
  <1>3. QED
    BY <1>1, <1>2, ClaimsAlways, PTL DEF Spec
=============================================================================
