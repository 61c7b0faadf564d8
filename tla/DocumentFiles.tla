---------------------------- MODULE DocumentFiles ----------------------------
(***************************************************************************)
(* Uploaded files and the documents that refer to them                     *)
(* (api/routes/documents.py, stores/document_repository.py).               *)
(*                                                                         *)
(* A file on disk is named by the checksum of its contents and the suffix  *)
(* of the uploaded name, and is shared by every owner who uploads the same *)
(* bytes under that suffix.  A row of `documents` is unique per owner and  *)
(* checksum.  The handlers of concurrent requests interleave between any   *)
(* two statements; only the unique constraint orders them.                 *)
(*                                                                         *)
(* Left out: the staging file (its name is unique, no other request sees   *)
(* it) and an upload over MAX_UPLOAD_BYTES, which leaves nothing else.     *)
(* What happens to a queued job is IngestionQueue; here it just ends.      *)
(***************************************************************************)
EXTENDS Naturals, FiniteSetsExt

CONSTANTS
  Contents,     \* what may be uploaded: contents c has byte_size c
  FileSuffixes,     \* suffixes the loaders accept
  Owners,       \* user accounts
  Slots,        \* each owner may have this many requests at a time
  MaxActive,    \* bound: requests served at a time, of all owners
  Docs,         \* document ids
  NoDoc,        \* "no document"
  NoSuffix,     \* "no live job"
  MaxDocuments, \* MAX_DOCUMENTS_PER_USER
  MaxStorage    \* MAX_STORAGE_BYTES_PER_USER

\* MAX_UPLOAD_BYTES leaves finitely many sizes.
ASSUME ContentsAssumption ==
  Contents \subseteq Nat \ {0} /\ IsFiniteSet(Contents) /\ Contents # {}
ASSUME SlotsAssumption == IsFiniteSet(Slots) /\ Slots # {}
ASSUME DocsAssumption == IsFiniteSet(Docs) /\ NoDoc \notin Docs
ASSUME SuffixAssumption == NoSuffix \notin FileSuffixes
ASSUME LimitsAssumption ==
  MaxDocuments \in Nat \ {0} /\ MaxStorage \in Nat /\ MaxActive \in Nat

VARIABLES
  disk, \* the files in UPLOAD_DIR: pairs of contents and suffix
  row,  \* row[d]: the row of document d, or NoRow
  req   \* req[r]: how far request r is, and what it holds

vars == <<disk, row, req>>

-----------------------------------------------------------------------------

Requests == Owners \X Slots
OwnerOf(r) == r[1]

\* A document; `job` is the suffix of the file_path of its live job.
Rows == [owner : Owners, contents : Contents, suffix : FileSuffixes,
         status : {"pending", "ready", "failed"},
         job : FileSuffixes \cup {NoSuffix}]
NoRow == [status |-> "none"]

UploadSteps == {"storing", "finding", "retrying", "checking", "creating", "queueing"}
DeleteSteps == {"deleting", "discarding", "unlinking"}
Busy == [pc : UploadSteps \cup DeleteSteps, contents : Contents,
         suffix : FileSuffixes, doc : Docs \cup {NoDoc}]
Idle == [pc |-> "idle"]

Stored == {d \in Docs : row[d] # NoRow}
DocsOf(o) == {d \in Stored : row[d].owner = o}
InUse(c) == \E d \in Stored : row[d].contents = c
UsedBytes(o) == SumFunction([d \in DocsOf(o) |-> row[d].contents])
Active == {r \in Requests : req[r] # Idle}
HeldIds == {req[r].doc : r \in Active}

\* Nothing keeps requests about the same contents apart.
MayStart(r) == req[r] = Idle /\ Cardinality(Active) < MaxActive

Init ==
  /\ disk = {}
  /\ row = [d \in Docs |-> NoRow]
  /\ req = [r \in Requests |-> Idle]

Goto(r, pc) == req' = [req EXCEPT ![r].pc = pc]
Finish(r) == req' = [req EXCEPT ![r] = Idle]

-----------------------------------------------------------------------------
(* POST /documents *)

\* Mutant: off by one in the number of documents.
OverQuotaOffByOne(o, incoming) ==
  \/ Cardinality(DocsOf(o)) > MaxDocuments
  \/ UsedBytes(o) + incoming > MaxStorage

\* Mutant: the real size is not counted.
OverQuotaBlind(o, incoming) ==
  \/ Cardinality(DocsOf(o)) >= MaxDocuments
  \/ UsedBytes(o) > MaxStorage

\* _enforce_quota raises.
OverQuota(o, incoming) ==
  \/ Cardinality(DocsOf(o)) >= MaxDocuments
  \/ UsedBytes(o) + incoming > MaxStorage

\* The pre-check; a request over quota ends here.
BeginUpload(r, c, s) ==
  /\ MayStart(r)
  /\ ~OverQuota(OwnerOf(r), 0)
  /\ req' = [req EXCEPT ![r] =
       [pc |-> "storing", contents |-> c, suffix |-> s, doc |-> NoDoc]]
  /\ UNCHANGED <<disk, row>>

\* _store_upload: the staged file is moved to its final name.
StoreUpload(r) ==
  /\ req[r].pc = "storing"
  /\ disk' = disk \cup {<<req[r].contents, req[r].suffix>>}
  /\ Goto(r, "finding")
  /\ UNCHANGED row

\* find_by_checksum; a document that has not failed is returned as it is.
FindExisting(r) ==
  /\ req[r].pc = "finding"
  /\ LET found == {d \in DocsOf(OwnerOf(r)) : row[d].contents = req[r].contents}
     IN  \/ /\ found = {}
            /\ Goto(r, "checking")
         \/ \E d \in found :
              IF row[d].status = "failed"
              THEN req' = [req EXCEPT ![r].pc = "retrying", ![r].doc = d]
              ELSE Finish(r)
  /\ UNCHANGED <<disk, row>>

\* Mutant: the status of a job is written to the document.
RetryFailedQueued(r) ==
  /\ req[r].pc = "retrying"
  /\ LET d == req[r].doc IN
       IF d \in Stored
       THEN row' = [row EXCEPT ![d].status = "queued"] /\ Goto(r, "queueing")
       ELSE Finish(r) /\ UNCHANGED row
  /\ UNCHANGED disk

\* set_status PENDING, by id; of a row deleted meanwhile it raises.
RetryFailed(r) ==
  /\ req[r].pc = "retrying"
  /\ LET d == req[r].doc IN
       IF d \in Stored
       THEN row' = [row EXCEPT ![d].status = "pending"] /\ Goto(r, "queueing")
       ELSE Finish(r) /\ UNCHANGED row
  /\ UNCHANGED disk

\* Mutant: an upload that does not fit leaves its file behind.
CheckQuotaOnly(r) ==
  /\ req[r].pc = "checking"
  /\ IF OverQuota(OwnerOf(r), req[r].contents) THEN Finish(r) ELSE Goto(r, "creating")
  /\ UNCHANGED <<disk, row>>

\* The check against the real size; an upload that does not fit is discarded.
CheckQuota(r) ==
  /\ req[r].pc = "checking"
  /\ Goto(r, IF OverQuota(OwnerOf(r), req[r].contents)
             THEN "discarding" ELSE "creating")
  /\ UNCHANGED <<disk, row>>

\* create_document; uq_documents_owner_checksum refuses a second document.
\* Ids are unique: none that a request still remembers is taken again.
CreateDocument(r) ==
  /\ req[r].pc = "creating"
  /\ LET new == [owner |-> OwnerOf(r), contents |-> req[r].contents,
                 suffix |-> req[r].suffix, status |-> "pending", job |-> NoSuffix]
     IN  IF \E d \in DocsOf(OwnerOf(r)) : row[d].contents = req[r].contents
         THEN Finish(r) /\ UNCHANGED row
         ELSE \E d \in Docs \ (Stored \cup HeldIds) :
                /\ row' = [row EXCEPT ![d] = new]
                /\ req' = [req EXCEPT ![r].pc = "queueing", ![r].doc = d]
  /\ UNCHANGED disk

\* enqueue; a live job or a deleted document refuses it, silently.
Enqueue(r) ==
  /\ req[r].pc = "queueing"
  /\ LET d == req[r].doc IN
       row' = IF d \in Stored /\ row[d].job = NoSuffix
              THEN [row EXCEPT ![d].job = req[r].suffix] ELSE row
  /\ Finish(r)
  /\ UNCHANGED disk

-----------------------------------------------------------------------------
(* DELETE /documents/{id} *)

\* The handler loads the document and remembers where its file lives.
BeginDelete(r, d) ==
  /\ d \in DocsOf(OwnerOf(r))
  /\ MayStart(r)
  /\ req' = [req EXCEPT ![r] = [pc |-> "deleting", contents |-> row[d].contents,
                                suffix |-> row[d].suffix, doc |-> d]]
  /\ UNCHANGED <<disk, row>>

\* delete_document; deleting a row that is gone already is only a warning.
DeleteDocument(r) ==
  /\ req[r].pc = "deleting"
  /\ row' = [row EXCEPT ![req[r].doc] = NoRow]
  /\ Goto(r, "discarding")
  /\ UNCHANGED disk

\* Mutant: the file goes whoever else refers to it.
TestNothing(r) ==
  /\ req[r].pc = "discarding"
  /\ Goto(r, "unlinking")
  /\ UNCHANGED <<disk, row>>

\* _discard_upload, first half: does any owner have these contents?
TestInUse(r) ==
  /\ req[r].pc = "discarding"
  /\ IF InUse(req[r].contents) THEN Finish(r) ELSE Goto(r, "unlinking")
  /\ UNCHANGED <<disk, row>>

\* _discard_upload, second half.
Unlink(r) ==
  /\ req[r].pc = "unlinking"
  /\ disk' = disk \ {<<req[r].contents, req[r].suffix>>}
  /\ Finish(r)
  /\ UNCHANGED row

-----------------------------------------------------------------------------

\* A worker reads the file and the job ends for good: ready, if the file is
\* there and can be ingested.
EndJob(d) ==
  /\ d \in Stored
  /\ row[d].job # NoSuffix
  /\ \E status \in {"ready", "failed"} :
       /\ status = "ready" => <<row[d].contents, row[d].job>> \in disk
       /\ row' = [row EXCEPT ![d].status = status, ![d].job = NoSuffix]
  /\ UNCHANGED <<disk, req>>

\* The API process dies, or a statement is refused.
ApiFails(r) ==
  /\ req[r] # Idle
  /\ Finish(r)
  /\ UNCHANGED <<disk, row>>

RequestStep(r) ==
  \/ StoreUpload(r) \/ FindExisting(r) \/ RetryFailed(r) \/ CheckQuota(r)
  \/ CreateDocument(r) \/ Enqueue(r)
  \/ DeleteDocument(r) \/ TestInUse(r) \/ Unlink(r)

\* What the handlers and the workers do while nothing fails.
Serve ==
  \/ \E r \in Requests, c \in Contents, s \in FileSuffixes : BeginUpload(r, c, s)
  \/ \E r \in Requests, d \in Docs : BeginDelete(r, d)
  \/ \E r \in Requests : RequestStep(r)
  \/ \E d \in Docs : EndJob(d)

Next == Serve \/ \E r \in Requests : ApiFails(r)

Spec == Init /\ [][Next]_vars

-----------------------------------------------------------------------------
(* Properties *)

\* The types of all variables.
TypeOK ==
  /\ disk \subseteq Contents \X FileSuffixes
  /\ row \in [Docs -> Rows \cup {NoRow}]
  /\ req \in [Requests -> Busy \cup {Idle}]

\* A file is unlinked only when no document anywhere refers to its contents
\* (README 221-222).
UnlinkedOnlyUnreferenced ==
  [][\A f \in disk \ disk' : ~InUse(f[1])]_vars

\* The number of documents of an owner is checked without a lock: each of its
\* other concurrent requests may put one document on top, and no more.
CountOvershoot ==
  \A o \in Owners :
    Cardinality(DocsOf(o)) <= MaxDocuments + Cardinality(Slots) - 1

\* The same of the bytes: each other request may put an upload on top that by
\* itself is within the cap.
BytesOvershoot ==
  \A o \in Owners :
    UsedBytes(o) <= MaxStorage
                    + (Cardinality(Slots) - 1) * Min({MaxStorage, Max(Contents)})

\* What makes CountOvershoot inductive: a request that has passed the check
\* but not created its document yet counts as a document.
Creating(o) == {s \in Slots : req[<<o, s>>].pc = "creating"}
CountInv ==
  \A o \in Owners :
    Cardinality(DocsOf(o)) + Cardinality(Creating(o))
      <= MaxDocuments + Cardinality(Slots) - 1

\* The same for BytesOvershoot: the upload of such a request counts, and by
\* itself it is within the cap.
Incoming(o) == [s \in Creating(o) |-> req[<<o, s>>].contents]
BytesInv ==
  \A o \in Owners :
    /\ Incoming(o) \in [Creating(o) -> 0..Min({MaxStorage, Max(Contents)})]
    /\ UsedBytes(o) + SumFunction(Incoming(o))
         <= MaxStorage + (Cardinality(Slots) - 1) * Min({MaxStorage, Max(Contents)})
=============================================================================
