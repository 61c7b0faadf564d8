------------------------- MODULE DocumentFilesProofs -------------------------
(* Theorems about DocumentFiles and FileHistory, for all values of their       *)
(* constants.                                                                  *)
EXTENDS FileHistory, OrdersProofs

-----------------------------------------------------------------------------
(* Type correctness *)

\* Initially no file, no document, no request.
LEMMA InitTypeOK == Init => TypeOK
  BY DEF Init, TypeOK

\* A request that is not idle holds contents, a suffix and perhaps a document.
LEMMA BusyRequest ==
  ASSUME TypeOK, NEW r \in Requests, req[r].pc # "idle"
  PROVE  req[r] \in Busy
  BY DEF TypeOK, Idle

\* Moving a request on, or ending it, keeps the requests well typed.
LEMMA RequestTypes ==
  ASSUME TypeOK, NEW r \in Requests
  PROVE  /\ Finish(r) => req' \in [Requests -> Busy \cup {Idle}]
         /\ \A pc \in UploadSteps \cup DeleteSteps :
              req[r].pc # "idle" /\ Goto(r, pc)
                => req' \in [Requests -> Busy \cup {Idle}]
  <1>1. Finish(r) => req' \in [Requests -> Busy \cup {Idle}]
    BY DEF Finish, TypeOK
  <1>2. ASSUME NEW pc \in UploadSteps \cup DeleteSteps, req[r].pc # "idle", Goto(r, pc)
        PROVE  req' \in [Requests -> Busy \cup {Idle}]
    <2>1. req[r] \in Busy
      BY <1>2, BusyRequest
    <2>2. [req[r] EXCEPT !.pc = pc] \in Busy
      BY <2>1 DEF Busy
    <2>3. QED
      BY <1>2, <2>2 DEF Goto, TypeOK
  <1>3. QED
    BY <1>1, <1>2

\* Every step keeps the files, the documents and the requests well typed.
LEMMA NextTypeOK == TypeOK /\ [Next]_vars => TypeOK'
  <1> SUFFICES ASSUME TypeOK, [Next]_vars PROVE TypeOK'
    OBVIOUS
  <1> DEFINE ReqType == req' \in [Requests -> Busy \cup {Idle}]
             RowType == row' \in [Docs -> Rows \cup {NoRow}]
  <1>1. ASSUME NEW r \in Requests, NEW c \in Contents, NEW s \in FileSuffixes,
               BeginUpload(r, c, s)
        PROVE  TypeOK'
    <2>1. [pc |-> "storing", contents |-> c, suffix |-> s, doc |-> NoDoc] \in Busy
      BY DEF Busy, UploadSteps
    <2>2. QED
      BY <1>1, <2>1 DEF BeginUpload, TypeOK
  <1>2. ASSUME NEW r \in Requests, NEW d \in Docs, BeginDelete(r, d)
        PROVE  TypeOK'
    <2>1. row[d] \in Rows
      BY <1>2 DEF BeginDelete, DocsOf, Stored, TypeOK
    <2>2. [pc |-> "deleting", contents |-> row[d].contents,
           suffix |-> row[d].suffix, doc |-> d] \in Busy
      BY <2>1 DEF Busy, Rows, DeleteSteps
    <2>3. QED
      BY <1>2, <2>2 DEF BeginDelete, TypeOK
  <1>3. ASSUME NEW r \in Requests, StoreUpload(r)
        PROVE  TypeOK'
    <2>1. req[r] \in Busy
      BY <1>3, BusyRequest DEF StoreUpload
    <2>2. <<req[r].contents, req[r].suffix>> \in Contents \X FileSuffixes
      BY <2>1 DEF Busy
    <2>3. ReqType
      BY <1>3, RequestTypes DEF StoreUpload, UploadSteps
    <2>4. QED
      BY <1>3, <2>2, <2>3 DEF StoreUpload, TypeOK
  <1>4. ASSUME NEW r \in Requests, FindExisting(r)
        PROVE  TypeOK'
    <2>1. ReqType
      <3>1. CASE Goto(r, "checking")
        BY <1>4, <3>1, RequestTypes DEF FindExisting, UploadSteps
      <3>2. CASE Finish(r)
        BY <3>2, RequestTypes
      <3>3. ASSUME NEW d \in Docs,
                   req' = [req EXCEPT ![r].pc = "retrying", ![r].doc = d]
            PROVE  ReqType
        <4>1. req[r] \in Busy
          BY <1>4, BusyRequest DEF FindExisting
        <4>2. [req[r] EXCEPT !.pc = "retrying"] \in Busy
          BY <4>1 DEF Busy, UploadSteps
        <4>3. [[req[r] EXCEPT !.pc = "retrying"] EXCEPT !.doc = d] \in Busy
          BY <4>2 DEF Busy
        <4>4. req' = [req EXCEPT ![r] = [[req[r] EXCEPT !.pc = "retrying"] EXCEPT !.doc = d]]
          BY <3>3 DEF TypeOK
        <4>5. QED
          BY <4>3, <4>4 DEF TypeOK
      <3>4. QED
        BY <1>4, <3>1, <3>2, <3>3 DEF FindExisting, DocsOf, Stored
    <2>2. QED
      BY <1>4, <2>1 DEF FindExisting, TypeOK
  <1>5. ASSUME NEW r \in Requests, RetryFailed(r)
        PROVE  TypeOK'
    <2>1. ReqType
      BY <1>5, RequestTypes DEF RetryFailed, UploadSteps
    <2>2. RowType
      <3>1. CASE req[r].doc \in Stored
        <4>1. row[req[r].doc] \in Rows /\ req[r].doc \in Docs
          BY <3>1 DEF Stored, TypeOK
        <4>2. [row[req[r].doc] EXCEPT !.status = "pending"] \in Rows
          BY <4>1 DEF Rows
        <4>3. QED
          BY <1>5, <3>1, <4>1, <4>2 DEF RetryFailed, TypeOK
      <3>2. CASE req[r].doc \notin Stored
        BY <1>5, <3>2 DEF RetryFailed, TypeOK
      <3>3. QED
        BY <3>1, <3>2
    <2>3. QED
      BY <1>5, <2>1, <2>2 DEF RetryFailed, TypeOK
  <1>6. ASSUME NEW r \in Requests, CheckQuota(r)
        PROVE  TypeOK'
    <2>1. ReqType
      BY <1>6, RequestTypes DEF CheckQuota, UploadSteps, DeleteSteps
    <2>2. QED
      BY <1>6, <2>1 DEF CheckQuota, TypeOK
  <1>7. ASSUME NEW r \in Requests, CreateDocument(r)
        PROVE  TypeOK'
    <2> DEFINE new == [owner |-> OwnerOf(r), contents |-> req[r].contents,
                       suffix |-> req[r].suffix, status |-> "pending", job |-> NoSuffix]
    <2>1. CASE Finish(r) /\ UNCHANGED row
      BY <1>7, <2>1, RequestTypes DEF CreateDocument, TypeOK
    <2>2. ASSUME NEW d \in Docs, row' = [row EXCEPT ![d] = new],
                 req' = [req EXCEPT ![r].pc = "queueing", ![r].doc = d]
          PROVE  TypeOK'
      <3>1. req[r] \in Busy
        BY <1>7, BusyRequest DEF CreateDocument
      <3>2. new \in Rows
        BY <3>1 DEF Rows, Busy, Requests, OwnerOf
      <3>3. [req[r] EXCEPT !.pc = "queueing"] \in Busy
        BY <3>1 DEF Busy, UploadSteps
      <3>4. [[req[r] EXCEPT !.pc = "queueing"] EXCEPT !.doc = d] \in Busy
        BY <3>3 DEF Busy
      <3>5. req' = [req EXCEPT ![r] = [[req[r] EXCEPT !.pc = "queueing"] EXCEPT !.doc = d]]
        BY <2>2 DEF TypeOK
      <3>6. ReqType
        BY <3>4, <3>5 DEF TypeOK
      <3>7. RowType
        BY <2>2, <3>2 DEF TypeOK
      <3>8. QED
        BY <1>7, <3>6, <3>7 DEF CreateDocument, TypeOK
    <2>3. QED
      BY <1>7, <2>1, <2>2 DEF CreateDocument
  <1>8. ASSUME NEW r \in Requests, Enqueue(r)
        PROVE  TypeOK'
    <2>1. ReqType
      BY <1>8, RequestTypes DEF Enqueue
    <2>2. RowType
      <3>1. CASE req[r].doc \in Stored /\ row' = [row EXCEPT ![req[r].doc].job = req[r].suffix]
        <4>1. row[req[r].doc] \in Rows /\ req[r] \in Busy
          BY <1>8, <3>1, BusyRequest DEF Enqueue, Stored, TypeOK
        <4>2. [row[req[r].doc] EXCEPT !.job = req[r].suffix] \in Rows
          BY <4>1 DEF Rows, Busy
        <4>3. QED
          BY <3>1, <4>2 DEF TypeOK
      <3>2. CASE row' = row
        BY <3>2 DEF TypeOK
      <3>3. QED
        BY <1>8, <3>1, <3>2 DEF Enqueue
    <2>3. QED
      BY <1>8, <2>1, <2>2 DEF Enqueue, TypeOK
  <1>9. ASSUME NEW r \in Requests, DeleteDocument(r)
        PROVE  TypeOK'
    <2>1. ReqType
      BY <1>9, RequestTypes DEF DeleteDocument, DeleteSteps
    <2>2. QED
      BY <1>9, <2>1 DEF DeleteDocument, TypeOK
  <1>10. ASSUME NEW r \in Requests, TestInUse(r)
         PROVE  TypeOK'
    <2>1. ReqType
      BY <1>10, RequestTypes DEF TestInUse, DeleteSteps
    <2>2. QED
      BY <1>10, <2>1 DEF TestInUse, TypeOK
  <1>11. ASSUME NEW r \in Requests, Unlink(r) \/ ApiFails(r)
         PROVE  TypeOK'
    <2>1. ReqType
      BY <1>11, RequestTypes DEF Unlink, ApiFails
    <2>2. QED
      BY <1>11, <2>1 DEF Unlink, ApiFails, TypeOK
  <1>12. ASSUME NEW d \in Docs, EndJob(d)
         PROVE  TypeOK'
    <2>1. PICK status \in {"ready", "failed"} :
            row' = [row EXCEPT ![d].status = status, ![d].job = NoSuffix]
      BY <1>12 DEF EndJob
    <2>2. row[d] \in Rows
      BY <1>12 DEF EndJob, Stored, TypeOK
    <2>3. [row[d] EXCEPT !.status = status] \in Rows
      BY <2>2 DEF Rows
    <2>4. [[row[d] EXCEPT !.status = status] EXCEPT !.job = NoSuffix] \in Rows
      BY <2>3 DEF Rows
    <2>5. row' = [row EXCEPT ![d] = [[row[d] EXCEPT !.status = status] EXCEPT !.job = NoSuffix]]
      BY <2>1 DEF TypeOK
    <2>6. QED
      BY <1>12, <2>4, <2>5 DEF EndJob, TypeOK
  <1>13. CASE UNCHANGED vars
    BY <1>13 DEF vars, TypeOK
  <1>14. QED
    BY <1>1, <1>2, <1>3, <1>4, <1>5, <1>6, <1>7, <1>8, <1>9, <1>10, <1>11,
       <1>12, <1>13
    DEF Next, Serve, RequestStep

\* Files, documents and requests stay well typed.
THEOREM TypeCorrect == Spec => []TypeOK
  BY InitTypeOK, NextTypeOK, PTL DEF Spec

-----------------------------------------------------------------------------
(* How far an owner can get over the cap *)

\* The documents of an owner, and its requests about to create one, are finite
\* in number.
LEMMA Counts ==
  ASSUME NEW o \in Owners
  PROVE  /\ IsFiniteSet(DocsOf(o)) /\ Cardinality(DocsOf(o)) \in Nat
         /\ IsFiniteSet(Creating(o)) /\ Cardinality(Creating(o)) \in Nat
         /\ Cardinality(Creating(o)) <= Cardinality(Slots)
         /\ Cardinality(Slots) \in Nat
  <1>1. IsFiniteSet(Docs) /\ IsFiniteSet(Slots)
    BY DocsAssumption, SlotsAssumption
  <1>2. DocsOf(o) \in SUBSET Docs /\ Creating(o) \in SUBSET Slots
    BY DEF DocsOf, Stored, Creating
  <1>3. QED
    BY <1>1, <1>2, FS_Subset, FS_CardinalityType

\* The same in the next state.
LEMMA NextCounts ==
  ASSUME NEW o \in Owners
  PROVE  /\ IsFiniteSet(DocsOf(o)') /\ Cardinality(DocsOf(o)') \in Nat
         /\ IsFiniteSet(Creating(o)') /\ Cardinality(Creating(o)') \in Nat
         /\ Cardinality(Creating(o)') <= Cardinality(Slots)
  <1>1. IsFiniteSet(Docs) /\ IsFiniteSet(Slots)
    BY DocsAssumption, SlotsAssumption
  <1>2. DocsOf(o)' \in SUBSET Docs /\ Creating(o)' \in SUBSET Slots
    BY DEF DocsOf, Stored, Creating
  <1>3. QED
    BY <1>1, <1>2, FS_Subset, FS_CardinalityType

\* The cap is at least one and so is the number of slots.
LEMMA Limits ==
  /\ MaxDocuments \in Nat /\ MaxDocuments >= 1
  /\ Cardinality(Slots) \in Nat /\ Cardinality(Slots) >= 1
  <1>1. Cardinality(Slots) \in Nat /\ Cardinality(Slots) # 0
    BY SlotsAssumption, FS_CardinalityType, FS_EmptySet
  <1>2. QED
    BY <1>1, LimitsAssumption

\* The steps of a handler and of the process, as far as the caps see them.  No
\* document is added and no request let through; contents stay as they are.
Less(o) ==
  /\ DocsOf(o)' \subseteq DocsOf(o)
  /\ \A d \in DocsOf(o)' : row'[d].contents = row[d].contents
  /\ Creating(o)' \subseteq Creating(o)
  /\ \A s \in Creating(o)' : req'[<<o, s>>].contents = req[<<o, s>>].contents

\* The request in slot s passes the check.
Passes(o, s) ==
  /\ s \in Slots \ Creating(o)
  /\ req[<<o, s>>].contents \in Contents /\ ~OverQuota(o, req[<<o, s>>].contents)
  /\ row' = row
  /\ Creating(o)' = Creating(o) \cup {s}
  /\ \A t \in Creating(o)' : req'[<<o, t>>].contents = req[<<o, t>>].contents

\* The request in slot s creates document d.
Creates(o, s, d) ==
  /\ s \in Creating(o) /\ d \notin DocsOf(o)
  /\ DocsOf(o)' = DocsOf(o) \cup {d}
  /\ row'[d].contents = req[<<o, s>>].contents
  /\ \A e \in DocsOf(o) : row'[e].contents = row[e].contents
  /\ Creating(o)' = Creating(o) \ {s}
  /\ \A t \in Creating(o)' : req'[<<o, t>>].contents = req[<<o, t>>].contents

\* A request that does not come to create leaves the others to it.
LEMMA NoneComes ==
  ASSUME TypeOK, NEW o \in Owners, NEW r \in Requests,
         \A q \in Requests \ {r} : req'[q] = req[q], req'[r].pc # "creating"
  PROVE  /\ Creating(o)' \subseteq Creating(o)
         /\ \A s \in Creating(o)' : req'[<<o, s>>].contents = req[<<o, s>>].contents
  <1>1. \A s \in Slots : <<o, s>> \in Requests
    BY DEF Requests
  <1>2. \A s \in Creating(o)' : s \in Slots /\ req'[<<o, s>>].pc = "creating"
    BY DEF Creating
  <1>3. \A s \in Creating(o)' : req'[<<o, s>>] = req[<<o, s>>]
    BY <1>1, <1>2
  <1>4. QED
    BY <1>2, <1>3 DEF Creating

\* Documents that stay have their owners and contents.
LEMMA NoneAdded ==
  ASSUME NEW o \in Owners,
         \A d \in Docs : row'[d] # NoRow =>
           /\ row[d] # NoRow /\ row'[d].owner = row[d].owner
           /\ row'[d].contents = row[d].contents
  PROVE  /\ DocsOf(o)' \subseteq DocsOf(o)
         /\ \A d \in DocsOf(o)' : row'[d].contents = row[d].contents
  BY DEF DocsOf, Stored

\* The check: the request passes, or its file is discarded.
LEMMA CheckIs ==
  ASSUME TypeOK, NEW o \in Owners, NEW r \in Requests, CheckQuota(r)
  PROVE  Less(o) \/ \E s \in Slots : Passes(o, s)
  <1>1. /\ req[r].pc = "checking" /\ row' = row
        /\ Goto(r, IF OverQuota(OwnerOf(r), req[r].contents) THEN "discarding" ELSE "creating")
    BY DEF CheckQuota
  <1>2. req[r] \in Busy
    BY <1>1, BusyRequest
  <1>3. /\ \A q \in Requests \ {r} : req'[q] = req[q]
        /\ req'[r].contents = req[r].contents /\ req[r].contents \in Contents
        /\ req'[r].pc = IF OverQuota(OwnerOf(r), req[r].contents) THEN "discarding" ELSE "creating"
    <2> HIDE DEF OverQuota
    <2>1. QED
      BY <1>1, <1>2 DEF Goto, TypeOK, Busy
  <1>4. DocsOf(o)' = DocsOf(o) /\ \A d \in DocsOf(o) : row'[d].contents = row[d].contents
    BY <1>1 DEF DocsOf, Stored
  <1>5. CASE OverQuota(OwnerOf(r), req[r].contents)
    <2>1. req'[r].pc # "creating"
      BY <1>3, <1>5
    <2>2. QED
      BY <1>3, <1>4, <2>1, NoneComes DEF Less
  <1>6. CASE OwnerOf(r) # o
    <2>1. \A s \in Slots : <<o, s>> \in Requests /\ <<o, s>> # r
      BY <1>6 DEF Requests, OwnerOf
    <2>2. \A s \in Slots : req'[<<o, s>>] = req[<<o, s>>]
      BY <1>3, <2>1
    <2>3. Creating(o)' = Creating(o) /\ \A s \in Creating(o)' : s \in Slots
      BY <2>2 DEF Creating
    <2>4. QED
      BY <1>4, <2>2, <2>3 DEF Less
  <1>7. CASE OwnerOf(r) = o /\ ~OverQuota(OwnerOf(r), req[r].contents)
    <2>1. PICK s \in Slots : r = <<o, s>>
      BY <1>7 DEF Requests, OwnerOf
    <2>2. \A t \in Slots \ {s} : <<o, t>> \in Requests \ {r}
      BY <2>1 DEF Requests
    <2>3. req'[<<o, s>>].pc = "creating" /\ req[<<o, s>>].pc # "creating"
      BY <1>1, <1>3, <1>7, <2>1
    <2>4. \A t \in Slots \ {s} : req'[<<o, t>>] = req[<<o, t>>]
      BY <1>3, <2>2
    <2>5. Creating(o)' = Creating(o) \cup {s} /\ s \notin Creating(o) /\ Creating(o)' \subseteq Slots
      BY <2>3, <2>4 DEF Creating
    <2>6. \A t \in Creating(o)' : req'[<<o, t>>].contents = req[<<o, t>>].contents
      BY <1>3, <2>1, <2>4, <2>5
    <2>7. Passes(o, s)
      BY <1>1, <1>3, <1>7, <2>1, <2>5, <2>6 DEF Passes
    <2>8. QED
      BY <2>7
  <1>8. QED
    BY <1>5, <1>6, <1>7

\* A creation: the constraint refuses it, or there is a document more.
LEMMA CreationIs ==
  ASSUME TypeOK, NEW o \in Owners, NEW r \in Requests, CreateDocument(r)
  PROVE  Less(o) \/ \E s \in Slots, d \in Docs : Creates(o, s, d)
  <1> DEFINE new == [owner |-> OwnerOf(r), contents |-> req[r].contents,
                     suffix |-> req[r].suffix, status |-> "pending", job |-> NoSuffix]
  <1>1. req[r].pc = "creating" /\ req[r] \in Busy
    BY BusyRequest DEF CreateDocument
  <1>2. CASE Finish(r) /\ UNCHANGED row
    <2>1. /\ \A q \in Requests \ {r} : req'[q] = req[q]
          /\ req'[r].pc # "creating"
      BY <1>2 DEF Finish, Idle, TypeOK
    <2>2. DocsOf(o)' = DocsOf(o) /\ \A d \in DocsOf(o) : row'[d].contents = row[d].contents
      BY <1>2 DEF DocsOf, Stored
    <2>3. QED
      BY <2>1, <2>2, NoneComes DEF Less
  <1>3. ASSUME NEW d \in Docs \ Stored, row' = [row EXCEPT ![d] = new],
               req' = [req EXCEPT ![r].pc = "queueing", ![r].doc = d]
        PROVE  Less(o) \/ \E s \in Slots, e \in Docs : Creates(o, s, e)
    <2>1. /\ \A q \in Requests \ {r} : req'[q] = req[q]
          /\ req'[r].pc # "creating"
      BY <1>1, <1>3 DEF TypeOK, Busy
    <2>2. row'[d] = new /\ \A e \in Docs \ {d} : row'[e] = row[e]
      BY <1>3 DEF TypeOK
    <2>3. new # NoRow /\ new.owner = OwnerOf(r) /\ new.contents = req[r].contents
      BY DEF NoRow
    <2>4. d \notin DocsOf(o) /\ DocsOf(o) \subseteq Docs \ {d} /\ DocsOf(o)' \subseteq Docs
      BY <1>3 DEF DocsOf, Stored
    <2> HIDE DEF new
    <2>5. \A e \in DocsOf(o) : row'[e].contents = row[e].contents
      BY <2>2, <2>4
    <2>6. CASE OwnerOf(r) # o
      <3>1. DocsOf(o)' = DocsOf(o)
        BY <2>2, <2>3, <2>4, <2>6 DEF DocsOf, Stored
      <3>2. QED
        BY <2>1, <2>5, <3>1, NoneComes DEF Less
    <2>7. CASE OwnerOf(r) = o
      <3>1. PICK s \in Slots : r = <<o, s>>
        BY <2>7 DEF Requests, OwnerOf
      <3>2. \A t \in Slots \ {s} : req'[<<o, t>>] = req[<<o, t>>]
        <4>1. \A t \in Slots \ {s} : <<o, t>> \in Requests \ {r}
          BY <3>1 DEF Requests
        <4>2. QED
          BY <2>1, <4>1
      <3>3. s \in Creating(o) /\ Creating(o)' = Creating(o) \ {s}
        BY <1>1, <2>1, <3>1, <3>2 DEF Creating
      <3>4. \A t \in Creating(o)' : req'[<<o, t>>].contents = req[<<o, t>>].contents
        BY <3>2, <3>3 DEF Creating
      <3>5. DocsOf(o)' = DocsOf(o) \cup {d}
        BY <2>2, <2>3, <2>4, <2>7 DEF DocsOf, Stored
      <3>6. row'[d].contents = req[<<o, s>>].contents
        BY <2>2, <2>3, <3>1
      <3>7. Creates(o, s, d)
        BY <2>4, <2>5, <3>3, <3>4, <3>5, <3>6 DEF Creates
      <3>8. QED
        BY <3>7
    <2>8. QED
      BY <2>6, <2>7
  <1>4. QED
    BY <1>2, <1>3 DEF CreateDocument, HeldIds

\* Every step is of one of the three kinds.
LEMMA QuotaSteps ==
  ASSUME TypeOK, [Next]_vars, NEW o \in Owners
  PROVE  Less(o) \/ (\E s \in Slots : Passes(o, s)) \/ \E s \in Slots, d \in Docs : Creates(o, s, d)
  <1>1. ASSUME NEW r \in Requests, NEW c \in Contents, NEW s \in FileSuffixes, BeginUpload(r, c, s)
        PROVE  Less(o)
    <2>1. (\A q \in Requests \ {r} : req'[q] = req[q]) /\ req'[r].pc # "creating" /\ row' = row
      BY <1>1 DEF BeginUpload, TypeOK
    <2>2. QED
      BY <2>1, NoneComes, NoneAdded DEF Less
  <1>2. ASSUME NEW r \in Requests, NEW d \in Docs, BeginDelete(r, d)
        PROVE  Less(o)
    <2>1. (\A q \in Requests \ {r} : req'[q] = req[q]) /\ req'[r].pc # "creating" /\ row' = row
      BY <1>2 DEF BeginDelete, TypeOK
    <2>2. QED
      BY <2>1, NoneComes, NoneAdded DEF Less
  <1>3. ASSUME NEW r \in Requests,
               \/ StoreUpload(r) \/ FindExisting(r) \/ RetryFailed(r)
               \/ Enqueue(r) \/ DeleteDocument(r) \/ TestInUse(r)
               \/ Unlink(r) \/ ApiFails(r)
        PROVE  Less(o)
    <2>1. \A d \in Docs : row'[d] # NoRow =>
            /\ row[d] # NoRow /\ row'[d].owner = row[d].owner
            /\ row'[d].contents = row[d].contents
      <3>1. \/ row' = row
            \/ req[r].doc \in Stored /\ row' = [row EXCEPT ![req[r].doc].status = "pending"]
            \/ req[r].doc \in Stored /\ row' = [row EXCEPT ![req[r].doc].job = req[r].suffix]
            \/ row' = [row EXCEPT ![req[r].doc] = NoRow]
        BY <1>3 DEF StoreUpload, FindExisting, RetryFailed, Enqueue, DeleteDocument,
                    TestInUse, Unlink, ApiFails
      <3>2. \A d \in Stored : row[d] \in Rows
        BY DEF Stored, TypeOK
      <3>3. QED
        BY <3>1, <3>2 DEF Stored, Rows, TypeOK
    <2>2. \A q \in Requests \ {r} : req'[q] = req[q]
      BY <1>3 DEF StoreUpload, FindExisting, RetryFailed, Enqueue, DeleteDocument,
                  TestInUse, Unlink, ApiFails, Goto, Finish, TypeOK
    <2>3. req'[r].pc # "creating"
      <3>1. CASE Finish(r)
        BY <3>1 DEF Finish, Idle, TypeOK
      <3>2. ASSUME NEW pc \in {"finding", "checking", "queueing", "discarding", "unlinking"},
                   req[r].pc # "idle", Goto(r, pc)
            PROVE  req'[r].pc # "creating"
        <4>1. req[r] \in Busy
          BY <3>2, BusyRequest
        <4>2. QED
          BY <3>2, <4>1 DEF Goto, Busy, TypeOK
      <3>3. ASSUME NEW d \in Docs, req[r].pc # "idle",
                   req' = [req EXCEPT ![r].pc = "retrying", ![r].doc = d]
            PROVE  req'[r].pc # "creating"
        <4>1. req[r] \in Busy
          BY <3>3, BusyRequest
        <4>2. QED
          BY <3>3, <4>1 DEF Busy, TypeOK
      <3>4. QED
        BY <1>3, <3>1, <3>2, <3>3
        DEF StoreUpload, FindExisting, RetryFailed, Enqueue, DeleteDocument,
            TestInUse, Unlink, ApiFails, DocsOf, Stored
    <2>4. QED
      BY <2>1, <2>2, <2>3, NoneAdded, NoneComes DEF Less
  <1>4. ASSUME NEW d \in Docs, EndJob(d)
        PROVE  Less(o)
    <2>1. PICK status \in {"ready", "failed"} :
            row' = [row EXCEPT ![d].status = status, ![d].job = NoSuffix]
      BY <1>4 DEF EndJob
    <2>2. row[d] \in Rows /\ row[d] # NoRow
      BY <1>4 DEF EndJob, Stored, TypeOK
    <2>3. \A e \in Docs : row'[e] # NoRow =>
            /\ row[e] # NoRow /\ row'[e].owner = row[e].owner
            /\ row'[e].contents = row[e].contents
      BY <2>1, <2>2 DEF Rows, TypeOK
    <2>4. req' = req
      BY <1>4 DEF EndJob
    <2>5. QED
      BY <2>3, <2>4, NoneAdded DEF Less, Creating
  <1>5. CASE UNCHANGED vars
    BY <1>5 DEF vars, Less, DocsOf, Stored, Creating
  <1>6. QED
    BY <1>1, <1>2, <1>3, <1>4, <1>5, CheckIs, CreationIs DEF Next, Serve, RequestStep

\* Nobody owns a document yet.
LEMMA InitCountInv == Init => CountInv
  <1> SUFFICES ASSUME Init, NEW o \in Owners
               PROVE  Cardinality(DocsOf(o)) + Cardinality(Creating(o))
                        <= MaxDocuments + Cardinality(Slots) - 1
    BY DEF CountInv
  <1>1. DocsOf(o) = {}
    BY DEF Init, DocsOf, Stored
  <1>2. Creating(o) = {}
    BY DEF Init, Creating, Idle, Requests
  <1>3. QED
    BY <1>1, <1>2, FS_EmptySet, Limits

\* The number of documents of an owner, with those about to be created, is
\* bounded by the cap and the number of requests it may have.
LEMMA NextCountInv == TypeOK /\ CountInv /\ [Next]_vars => CountInv'
  <1> SUFFICES ASSUME TypeOK, CountInv, [Next]_vars, NEW o \in Owners
               PROVE  Cardinality(DocsOf(o)') + Cardinality(Creating(o)')
                        <= MaxDocuments + Cardinality(Slots) - 1
    BY DEF CountInv
  <1>1. Cardinality(DocsOf(o)) + Cardinality(Creating(o)) <= MaxDocuments + Cardinality(Slots) - 1
    BY DEF CountInv
  <1>2. CASE Less(o)
    <2>1. Cardinality(DocsOf(o)') <= Cardinality(DocsOf(o))
      BY <1>2, Counts, FS_Subset DEF Less
    <2>2. Cardinality(Creating(o)') <= Cardinality(Creating(o))
      BY <1>2, Counts, FS_Subset DEF Less
    <2>3. QED
      BY <1>1, <2>1, <2>2, Counts, NextCounts, Limits
  <1>3. ASSUME NEW s \in Slots, Passes(o, s)
        PROVE  Cardinality(DocsOf(o)') + Cardinality(Creating(o)')
                 <= MaxDocuments + Cardinality(Slots) - 1
    <2>1. Cardinality(DocsOf(o)) < MaxDocuments
      BY <1>3, Counts, Limits DEF Passes, OverQuota
    <2>2. DocsOf(o)' = DocsOf(o)
      BY <1>3 DEF Passes, DocsOf, Stored
    <2>3. QED
      BY <2>1, <2>2, Counts, NextCounts, Limits
  <1>4. ASSUME NEW s \in Slots, NEW d \in Docs, Creates(o, s, d)
        PROVE  Cardinality(DocsOf(o)') + Cardinality(Creating(o)')
                 <= MaxDocuments + Cardinality(Slots) - 1
    <2>1. Cardinality(DocsOf(o)') = Cardinality(DocsOf(o)) + 1
      BY <1>4, Counts, FS_AddElement DEF Creates
    <2>2. Cardinality(Creating(o)') = Cardinality(Creating(o)) - 1
      BY <1>4, Counts, FS_RemoveElement DEF Creates
    <2>3. QED
      BY <1>1, <2>1, <2>2, Counts, NextCounts, Limits
  <1>5. QED
    BY <1>2, <1>3, <1>4, QuotaSteps

\* An owner gets over the cap by at most one document per other concurrent
\* request, whatever else happens.
THEOREM CountOvershootAlways == Spec => []CountOvershoot
  <1>1. CountInv => CountOvershoot
    <2> SUFFICES ASSUME CountInv, NEW o \in Owners
                 PROVE  Cardinality(DocsOf(o)) <= MaxDocuments + Cardinality(Slots) - 1
      BY DEF CountOvershoot
    <2>1. QED
      BY Counts, Limits DEF CountInv
  <1>2. QED
    BY InitTypeOK, NextTypeOK, InitCountInv, NextCountInv, <1>1, PTL DEF Spec

\* What a single upload within the cap can be, as a number.
LEMMA Uploads ==
  LET most == Min({MaxStorage, Max(Contents)}) IN
  /\ most \in Nat /\ most <= MaxStorage
  /\ \A c \in Contents : c \in Nat /\ (c <= MaxStorage => c \in 0..most)
  <1> DEFINE top == Max(Contents)
             most == Min({MaxStorage, top})
  <1>1. top \in Contents /\ \A c \in Contents : c <= top
    <2>1. Contents \in SUBSET Nat /\ IsFiniteSet(Contents) /\ Contents # {}
      BY ContentsAssumption
    <2>2. PICK c \in Contents : \A e \in Contents : e <= c
      BY <2>1, GreatestNumber
    <2>3. QED
      BY <2>2 DEF Max
  <1>2. top \in Nat /\ MaxStorage \in Nat
    BY <1>1, ContentsAssumption, LimitsAssumption
  <1> HIDE DEF top
  <1>3. most = IF MaxStorage <= top THEN MaxStorage ELSE top
    BY <1>2 DEF Min
  <1>4. \A c \in Contents : c \in Nat
    BY ContentsAssumption
  <1> HIDE DEF most
  <1>5. /\ most \in Nat /\ most <= MaxStorage
        /\ \A c \in Contents : c \in Nat /\ (c <= MaxStorage => c \in 0..most)
    BY <1>1, <1>2, <1>3, <1>4
  <1>6. QED
    BY <1>5 DEF most, top

\* Slots that are about to create and are others than s hold one upload each.
LEMMA OthersBounded ==
  ASSUME NEW C, NEW s \in Slots, C \subseteq Slots \ {s}, NEW b \in Nat, NEW f \in [C -> 0..b]
  PROVE  SumFunction(f) \in Nat /\ SumFunction(f) <= (Cardinality(Slots) - 1) * b
  <1> DEFINE n == Cardinality(Slots) - 1
  <1>1. IsFiniteSet(Slots \ {s}) /\ Cardinality(Slots \ {s}) = n
    BY SlotsAssumption, FS_RemoveElement
  <1>2. IsFiniteSet(C) /\ Cardinality(C) <= n /\ Cardinality(C) \in Nat /\ n \in Nat
    BY <1>1, FS_Subset, FS_CardinalityType
  <1>3. SumFunction(f) \in Nat /\ SumFunction(f) <= Cardinality(C) * b
    BY <1>2, SumBounded
  <1> HIDE DEF n
  <1>4. Cardinality(C) * b <= n * b
    <2>1. PICK k \in Nat : n = Cardinality(C) + k
      <3>1. n - Cardinality(C) \in Nat /\ n = Cardinality(C) + (n - Cardinality(C))
        BY <1>2
      <3>2. QED
        BY <3>1
    <2>2. n * b = Cardinality(C) * b + k * b /\ k * b \in Nat /\ Cardinality(C) * b \in Nat
      BY <1>2, <2>1
    <2>3. QED
      BY <2>2
  <1>5. Cardinality(C) * b \in Nat /\ n * b \in Nat
    BY <1>2
  <1>6. QED
    BY <1>3, <1>4, <1>5 DEF n

\* What is stored and what is coming in, as functions to numbers.
LEMMA Amounts ==
  ASSUME TypeOK, NEW o \in Owners
  PROVE  /\ [d \in DocsOf(o) |-> row[d].contents] \in [DocsOf(o) -> Nat]
         /\ Incoming(o) \in [Creating(o) -> Nat]
         /\ \A s \in Creating(o) : Incoming(o)[s] \in Contents
  <1>1. \A d \in DocsOf(o) : row[d].contents \in Nat
    <2>1. \A d \in DocsOf(o) : row[d] \in Rows
      BY DEF TypeOK, DocsOf, Stored
    <2>2. QED
      BY <2>1, ContentsAssumption DEF Rows
  <1>2. \A s \in Creating(o) : req[<<o, s>>].contents \in Contents
    <2>1. \A s \in Creating(o) : <<o, s>> \in Requests /\ req[<<o, s>>].pc # "idle"
      BY DEF Creating, Requests
    <2>2. \A s \in Creating(o) : req[<<o, s>>] \in Busy
      BY <2>1, BusyRequest
    <2>3. QED
      BY <2>2 DEF Busy
  <1>3. QED
    BY <1>1, <1>2, ContentsAssumption DEF Incoming

\* Nobody has stored anything yet.
LEMMA InitBytesInv ==
  ASSUME Init
  PROVE  BytesInv
  <1> SUFFICES ASSUME NEW o \in Owners
               PROVE  /\ Incoming(o) \in [Creating(o) -> 0..Min({MaxStorage, Max(Contents)})]
                      /\ UsedBytes(o) + SumFunction(Incoming(o))
                           <= MaxStorage + (Cardinality(Slots) - 1) * Min({MaxStorage, Max(Contents)})
    BY DEF BytesInv
  <1> DEFINE most == Min({MaxStorage, Max(Contents)})
  <1>1. most \in Nat /\ MaxStorage \in Nat /\ Cardinality(Slots) - 1 \in Nat
    BY Uploads, Limits, LimitsAssumption
  <1>2. DocsOf(o) = {} /\ Creating(o) = {}
    BY DEF Init, DocsOf, Stored, Creating, Idle, Requests
  <1>3. Incoming(o) \in [Creating(o) -> 0..most]
    BY <1>2 DEF Incoming
  <1>4. SumFunction(Incoming(o)) = 0
    BY <1>1, <1>2, <1>3, FS_EmptySet, SumBounded
  <1>5. UsedBytes(o) = 0
    <2>1. [d \in DocsOf(o) |-> row[d].contents] \in [{} -> 0..0]
      BY <1>2
    <2>2. QED
      BY <2>1, FS_EmptySet, SumBounded DEF UsedBytes
  <1>6. (Cardinality(Slots) - 1) * most \in Nat
    BY <1>1
  <1> HIDE DEF most
  <1>7. UsedBytes(o) + SumFunction(Incoming(o)) <= MaxStorage + (Cardinality(Slots) - 1) * most
    BY <1>1, <1>4, <1>5, <1>6
  <1>8. QED
    BY <1>3, <1>7 DEF most

\* The bytes of an owner, with those of uploads that have passed the check, are
\* bounded by the cap and what the other requests may bring.
LEMMA NextBytesInv ==
  ASSUME TypeOK, TypeOK', BytesInv, [Next]_vars
  PROVE  BytesInv'
  <1> SUFFICES ASSUME NEW o \in Owners
               PROVE  /\ Incoming(o)' \in [Creating(o)' -> 0..Min({MaxStorage, Max(Contents)})]
                      /\ UsedBytes(o)' + SumFunction(Incoming(o)')
                           <= MaxStorage + (Cardinality(Slots) - 1) * Min({MaxStorage, Max(Contents)})
    BY DEF BytesInv
  <1> DEFINE most == Min({MaxStorage, Max(Contents)})
             bound == MaxStorage + (Cardinality(Slots) - 1) * most
             D == DocsOf(o)
             C == Creating(o)
             stored == [d \in D |-> row[d].contents]
             coming == Incoming(o)
             S2 == SumFunction(stored')
             C2 == SumFunction(coming')
  <1>1. /\ IsFiniteSet(D) /\ IsFiniteSet(C) /\ IsFiniteSet(D') /\ IsFiniteSet(C')
        /\ C \subseteq Slots /\ C' \subseteq Slots
    BY Counts, NextCounts DEF Creating
  <1>2. /\ stored \in [D -> Nat] /\ coming \in [C -> 0..most]
        /\ \A s \in C : coming[s] = req[<<o, s>>].contents
    BY Amounts DEF BytesInv, Incoming
  <1>3. /\ stored' = [d \in D' |-> row'[d].contents]
        /\ coming' = [s \in C' |-> req'[<<o, s>>].contents]
    BY DEF Incoming
  <1>4. most \in Nat /\ most <= MaxStorage /\ MaxStorage \in Nat
        /\ Cardinality(Slots) - 1 \in Nat /\ (Cardinality(Slots) - 1) * most \in Nat
    <2>1. most \in Nat /\ most <= MaxStorage /\ MaxStorage \in Nat /\ Cardinality(Slots) - 1 \in Nat
      BY Uploads, Limits, LimitsAssumption
    <2> HIDE DEF most
    <2>2. QED
      BY <2>1
  <1>5. /\ UsedBytes(o) = SumFunction(stored) /\ UsedBytes(o)' = S2
        /\ SumFunction(stored) + SumFunction(coming) <= bound
    BY DEF UsedBytes, BytesInv
  <1>6. /\ SumFunction(stored) \in Nat /\ SumFunction(coming) \in Nat
    <2>1. coming \in [C -> Nat]
      BY <1>2
    <2> HIDE DEF coming, stored, C, D
    <2>2. SumFunction(stored) \in Nat
      BY <1>1, <1>2, SumOfFewer
    <2>3. SumFunction(coming) \in Nat
      BY <1>1, <2>1, SumOfFewer
    <2>4. QED
      BY <2>2, <2>3
  <1> HIDE DEF most, D, C, stored, coming, S2, C2
  <1>7. ASSUME Less(o)
        PROVE  coming' \in [C' -> 0..most] /\ S2 + C2 <= bound
    <2>1. /\ D' \subseteq D /\ C' \subseteq C
          /\ \A d \in D' : row'[d].contents = row[d].contents
          /\ \A s \in C' : req'[<<o, s>>].contents = req[<<o, s>>].contents
      BY <1>7 DEF Less, D, C
    <2>2. stored' \in [D' -> Nat] /\ \A d \in D' : stored'[d] = stored[d]
      <3>1. \A d \in D : stored[d] = row[d].contents /\ row[d].contents \in Nat
        BY <1>2 DEF stored
      <3>2. QED
        BY <1>3, <2>1, <3>1
    <2>3. coming' \in [C' -> 0..most] /\ \A s \in C' : coming'[s] = coming[s]
      <3>1. \A s \in C' : req'[<<o, s>>].contents = coming[s] /\ coming[s] \in 0..most
        BY <1>2, <2>1
      <3>2. QED
        BY <1>3, <3>1
    <2>4. S2 \in Nat /\ S2 <= SumFunction(stored)
      BY <1>1, <1>2, <2>1, <2>2, SumOfFewer DEF S2
    <2>5. C2 \in Nat /\ C2 <= SumFunction(coming)
      <3>1. coming \in [C -> Nat] /\ coming' \in [C' -> Nat]
        BY <1>2, <1>4, <2>3
      <3>2. QED
        BY <1>1, <2>1, <2>3, <3>1, SumOfFewer DEF C2
    <2>6. S2 + C2 <= bound
      BY <1>4, <1>5, <1>6, <2>4, <2>5
    <2>7. QED
      BY <2>3, <2>6
  <1>8. ASSUME NEW s \in Slots, Passes(o, s)
        PROVE  coming' \in [C' -> 0..most] /\ S2 + C2 <= bound
    <2> DEFINE c == req[<<o, s>>].contents
               others == [t \in C |-> coming[t]]
    <2>1. /\ s \notin C /\ C' = C \cup {s} /\ c \in Contents /\ D' = D
          /\ \A t \in C' : req'[<<o, t>>].contents = req[<<o, t>>].contents
          /\ row' = row /\ SumFunction(stored) + c <= MaxStorage
      <3>1. SumFunction(stored) + c <= MaxStorage
        <4>1. ~(SumFunction(stored) + c > MaxStorage)
          BY <1>5, <1>8 DEF Passes, OverQuota
        <4>2. c \in Nat
          BY <1>8, ContentsAssumption DEF Passes
        <4>3. QED
          BY <1>4, <1>6, <4>1, <4>2
      <3>2. DocsOf(o)' = DocsOf(o)
        BY <1>8 DEF Passes, DocsOf, Stored
      <3>3. QED
        BY <1>8, <3>1, <3>2 DEF Passes, C, D
    <2>2. c \in Nat /\ c \in 0..most
      <3>1. c \in Nat
        BY <2>1, ContentsAssumption
      <3>2. c <= MaxStorage
        BY <1>4, <1>6, <2>1, <3>1
      <3>3. QED
        BY <2>1, <3>1, <3>2, Uploads DEF most
    <2>3. stored' = stored
      BY <1>3, <2>1 DEF stored
    <2>4. \A t \in C' : coming'[t] = IF t = s THEN c ELSE coming[t]
      BY <1>2, <1>3, <2>1
    <2> HIDE DEF c
    <2>5. coming' \in [C' -> 0..most]
      <3>1. \A t \in C' : coming'[t] \in 0..most
        BY <1>2, <2>1, <2>2, <2>4
      <3>2. QED
        BY <1>3, <3>1
    <2>6. C2 = c + SumFunction(coming)
      <3>1. C' \ {s} = C /\ s \in C' /\ coming'[s] = c
        BY <2>1, <2>4
      <3>2. coming \in [C' \ {s} -> Nat] /\ coming' \in [C' -> Nat]
        BY <1>2, <1>4, <2>5, <3>1
      <3>3. \A t \in C' \ {s} : coming[t] = coming'[t]
        BY <2>1, <2>4
      <3>4. QED
        BY <1>1, <3>1, <3>2, <3>3, SumWithout DEF C2
    <2>7. SumFunction(coming) <= (Cardinality(Slots) - 1) * most
      <3>1. C \subseteq Slots \ {s}
        BY <1>1, <2>1
      <3>2. QED
        BY <1>2, <1>4, <3>1, OthersBounded
    <2>8. S2 + C2 <= bound
      <3>1. S2 = SumFunction(stored)
        BY <2>3 DEF S2
      <3>2. QED
        BY <1>4, <1>6, <2>1, <2>2, <2>6, <2>7, <3>1 DEF c
    <2>9. QED
      BY <2>5, <2>8
  <1>9. ASSUME NEW s \in Slots, NEW d \in Docs, Creates(o, s, d)
        PROVE  coming' \in [C' -> 0..most] /\ S2 + C2 <= bound
    <2>1. /\ s \in C /\ d \notin D /\ D' = D \cup {d} /\ C' = C \ {s}
          /\ row'[d].contents = req[<<o, s>>].contents
          /\ \A e \in D : row'[e].contents = row[e].contents
          /\ \A t \in C' : req'[<<o, t>>].contents = req[<<o, t>>].contents
      BY <1>9 DEF Creates, C, D
    <2>2. coming' \in [C' -> 0..most] /\ \A t \in C' : coming'[t] = coming[t]
      <3>1. \A t \in C' : req'[<<o, t>>].contents = coming[t] /\ coming[t] \in 0..most
        BY <1>2, <2>1
      <3>2. QED
        BY <1>3, <3>1
    <2>3. SumFunction(coming) = coming[s] + C2 /\ C2 \in Nat
      <3>1. coming \in [C -> Nat] /\ coming' \in [C \ {s} -> Nat]
        BY <1>2, <1>4, <2>1, <2>2
      <3>2. SumFunction(coming) = coming[s] + SumFunction(coming')
        <4>1. \A t \in C \ {s} : coming'[t] = coming[t]
          BY <2>1, <2>2
        <4>2. IsFiniteSet(C) /\ s \in C
          BY <1>1, <2>1
        <4>3. QED
          BY <3>1, <4>1, <4>2, SumWithout
      <3>3. C2 \in Nat
        BY <1>1, <1>4, <2>2, SumBounded DEF C2
      <3>4. QED
        BY <3>2, <3>3 DEF C2
    <2>4. stored'[d] = coming[s] /\ coming[s] \in Nat /\ \A e \in D : stored'[e] = stored[e]
      <3>1. \A e \in D : stored[e] = row[e].contents
        BY DEF stored
      <3>2. QED
        BY <1>2, <1>3, <1>4, <2>1, <3>1
    <2>5. S2 = coming[s] + SumFunction(stored)
      <3>1. D' \ {d} = D /\ d \in D'
        BY <2>1
      <3>2. \A e \in D' : stored'[e] \in Nat
        BY <1>2, <2>1, <2>4
      <3>3. stored' \in [D' -> Nat] /\ stored \in [D' \ {d} -> Nat]
        BY <1>2, <1>3, <3>1, <3>2
      <3>4. SumFunction(stored') = stored'[d] + SumFunction(stored)
        BY <1>1, <2>4, <3>1, <3>3, SumWithout
      <3>5. QED
        BY <2>4, <3>4 DEF S2
    <2>6. S2 + C2 <= bound
      BY <1>5, <1>6, <2>3, <2>4, <2>5
    <2>7. QED
      BY <2>2, <2>6
  <1>10. QED
    <2>1. coming' \in [C' -> 0..most] /\ S2 + C2 <= bound
      BY <1>7, <1>8, <1>9, QuotaSteps
    <2>2. QED
      BY <1>5, <2>1 DEF C2, C, coming, most

\* An owner gets over the cap of bytes by at most one upload per other
\* concurrent request, each of which fits the cap by itself.
THEOREM BytesOvershootAlways == Spec => []BytesOvershoot
  <1>1. ASSUME TypeOK, BytesInv
        PROVE  BytesOvershoot
    <2> SUFFICES ASSUME NEW o \in Owners
                 PROVE  UsedBytes(o) <= MaxStorage + (Cardinality(Slots) - 1) * Min({MaxStorage, Max(Contents)})
      BY DEF BytesOvershoot
    <2> DEFINE most == Min({MaxStorage, Max(Contents)})
               bound == MaxStorage + (Cardinality(Slots) - 1) * most
    <2>1. most \in Nat /\ MaxStorage \in Nat /\ Cardinality(Slots) - 1 \in Nat
      BY Uploads, Limits, LimitsAssumption
    <2>2. UsedBytes(o) + SumFunction(Incoming(o)) <= bound
      BY <1>1 DEF BytesInv
    <2>3. UsedBytes(o) \in Nat /\ SumFunction(Incoming(o)) \in Nat
      <3>1. IsFiniteSet(DocsOf(o)) /\ IsFiniteSet(Creating(o))
        BY Counts
      <3>2. [d \in DocsOf(o) |-> row[d].contents] \in [DocsOf(o) -> Nat] /\ Incoming(o) \in [Creating(o) -> Nat]
        BY <1>1, Amounts
      <3>3. SumFunction([d \in DocsOf(o) |-> row[d].contents]) \in Nat
        BY <3>1, <3>2, SumOfFewer
      <3>4. SumFunction(Incoming(o)) \in Nat
        BY <3>1, <3>2, SumOfFewer
      <3>5. QED
        BY <3>3, <3>4 DEF UsedBytes
    <2> HIDE DEF most
    <2>4. bound \in Nat
      BY <2>1
    <2> HIDE DEF bound
    <2>5. UsedBytes(o) <= bound
      BY <2>2, <2>3, <2>4
    <2>6. QED
      BY <2>5 DEF bound, most
  <1>2. Init => BytesInv
    BY InitBytesInv
  <1>3. TypeOK /\ TypeOK' /\ BytesInv /\ [Next]_vars => BytesInv'
    BY NextBytesInv
  <1>4. QED
    BY InitTypeOK, NextTypeOK, <1>1, <1>2, <1>3, PTL DEF Spec

-----------------------------------------------------------------------------
(* The history *)

\* What the two invariants below are proved from, and preserve.
FilesInv == TypeOK /\ HeldInv /\ FileInv

\* What is present after a step keeps its history.
LEMMA Remembered ==
  ASSUME NEW dropped, Watch(dropped)
  PROVE  /\ \A f \in named \cup disk' : Present(f[1])' => f \in named'
         /\ \A c \in abandoned \cup dropped : Present(c)' => c \in abandoned'
         /\ \A f \in raced \cup Window' : Present(f[1])' => f \in raced'
         /\ raced' \subseteq raced \cup Window'
  BY DEF Watch

\* Contents are present while a request, a file or a document is about them.
LEMMA WhatIsPresent ==
  ASSUME TypeOK'
  PROVE  /\ \A r \in Requests : req'[r].pc # "idle" =>
              /\ req'[r] \in Busy
              /\ FileOf(req'[r])[1] = req'[r].contents
              /\ Present(req[r].contents)'
         /\ \A f \in disk' : Present(f[1])'
         /\ \A d \in Stored' : Present(row[d].contents)'
  <1>1. \A r \in Requests : req'[r].pc # "idle" => req'[r] # Idle /\ req'[r] \in Busy
    BY DEF TypeOK, Idle
  <1>2. \A r \in Requests : FileOf(req'[r])[1] = req'[r].contents
    BY DEF FileOf
  <1>3. QED
    BY <1>1, <1>2 DEF Present, Active, InUse

\* A document keeps its contents for as long as it is stored, and no id that a
\* request remembers is taken again.
LEMMA ContentsStay ==
  ASSUME TypeOK, [Next]_vars, NEW d \in HeldIds, d \in Stored'
  PROVE  d \in Stored /\ row'[d].contents = row[d].contents
  <1> USE DEF Stored
  <1>1. CASE row' = row
    BY <1>1
  <1>2. ASSUME NEW r \in Requests, RetryFailed(r) \/ Enqueue(r), row' # row
        PROVE  d \in Stored /\ row'[d].contents = row[d].contents
    <2>1. /\ req[r].doc \in Stored
          /\ \/ row' = [row EXCEPT ![req[r].doc].status = "pending"]
             \/ row' = [row EXCEPT ![req[r].doc].job = req[r].suffix]
      BY <1>2 DEF RetryFailed, Enqueue
    <2>2. row[req[r].doc] \in Rows
      BY <2>1 DEF TypeOK
    <2>3. QED
      BY <2>1, <2>2 DEF TypeOK, Rows, NoRow
  <1>3. ASSUME NEW r \in Requests, DeleteDocument(r)
        PROVE  d \in Stored /\ row'[d].contents = row[d].contents
    BY <1>3 DEF DeleteDocument, TypeOK
  <1>4. ASSUME NEW r \in Requests, CreateDocument(r), row' # row
        PROVE  d \in Stored /\ row'[d].contents = row[d].contents
    <2> DEFINE new == [owner |-> OwnerOf(r), contents |-> req[r].contents,
                       suffix |-> req[r].suffix, status |-> "pending", job |-> NoSuffix]
    <2>1. PICK e \in Docs \ (Stored \cup HeldIds) : row' = [row EXCEPT ![e] = new]
      BY <1>4 DEF CreateDocument
    <2>2. d # e
      BY <2>1
    <2>3. QED
      BY <2>1, <2>2 DEF TypeOK
  <1>5. ASSUME NEW e \in Docs, EndJob(e)
        PROVE  d \in Stored /\ row'[d].contents = row[d].contents
    <2>1. PICK status \in {"ready", "failed"} :
            row' = [row EXCEPT ![e].status = status, ![e].job = NoSuffix]
      BY <1>5 DEF EndJob
    <2>2. row[e] \in Rows
      BY <1>5 DEF EndJob, TypeOK
    <2>3. QED
      BY <2>1, <2>2 DEF Rows, NoRow, TypeOK
  <1>6. QED
    BY <1>1, <1>2, <1>3, <1>4, <1>5 DEF Next, Serve, RequestStep, ApiFails, BeginUpload,
      BeginDelete, StoreUpload, FindExisting, CheckQuota, TestInUse, Unlink, vars

\* The first half of a step of request r: the files that are held.  What r has
\* stored is there; it starts to unlink unused contents only; it takes away no
\* file but the one it was to unlink; and it queues a job for its own file only.
LEMMA HeldKept ==
  ASSUME FilesInv, TypeOK', [Next]_vars, NEW dropped, Watch(dropped), NEW r \in Requests,
         \A q \in Requests \ {r} : req'[q] = req[q],
         req'[r].pc \in HasStored /\ FileOf(req'[r]) \notin raced => FileOf(req'[r]) \in disk',
         req'[r].pc = "unlinking" => ~InUse(req[r].contents)',
         req'[r].pc \in {"retrying", "queueing"} /\ req'[r].doc \in Stored'
           => row'[req'[r].doc].contents = req'[r].contents,
         \A f \in disk : f \in disk' \/ (req[r].pc = "unlinking" /\ f = FileOf(req[r])),
         \A d \in Stored' : row'[d].job # NoSuffix =>
           \/ /\ d \in Stored /\ row[d].job = row'[d].job
              /\ row[d].contents = row'[d].contents
           \/ /\ req[r].pc \in HasStored /\ FileOf(req[r]) \in disk' \cup raced
              /\ <<row'[d].contents, row'[d].job>> = FileOf(req[r])
  PROVE  HeldInv'
  <1>1. /\ Window' \subseteq raced'
        /\ \A f \in raced : Present(f[1])' => f \in raced'
    <2>1. \A f \in Window' : \E q \in Requests :
            req'[q].pc \in HasStored /\ FileOf(req'[q]) = f
      BY DEF Window, Uploading
    <2>2. \A f \in Window' : Present(f[1])'
      BY <2>1, WhatIsPresent DEF HasStored
    <2>3. QED
      BY <2>2, Remembered
  <1>2. \A q \in Requests : req[q].pc \in HasStored \cup {"unlinking"} =>
          FileOf(req[q]) \in Contents \X FileSuffixes
    BY DEF FilesInv, TypeOK, Busy, Idle, HasStored, FileOf
  <1>3. \A p, q \in Requests :
          /\ req[p].pc \in HasStored /\ req[q].pc = "unlinking"
          /\ FileOf(req[p]) = FileOf(req[q])
          => FileOf(req[p]) \in raced
    BY <1>2 DEF FilesInv, HeldInv, Window, Uploading, Unlinking
  <1>4. \A q \in Requests :
          req'[q].pc \in HasStored /\ FileOf(req'[q]) \notin raced'
            => FileOf(req'[q]) \in disk'
    <2> SUFFICES ASSUME NEW q \in Requests, req'[q].pc \in HasStored,
                        FileOf(req'[q]) \notin raced'
                 PROVE  FileOf(req'[q]) \in disk'
      OBVIOUS
    <2>1. FileOf(req'[q]) \notin raced
      BY <1>1, WhatIsPresent DEF HasStored
    <2>2. CASE q = r
      BY <2>1, <2>2
    <2>3. CASE q # r
      <3>1. req'[q] = req[q] /\ FileOf(req[q]) \in disk
        BY <2>1, <2>3 DEF FilesInv, HeldInv
      <3>2. ~(req[r].pc = "unlinking" /\ FileOf(req[q]) = FileOf(req[r]))
        BY <1>3, <2>1, <3>1
      <3>3. QED
        BY <3>1, <3>2
    <2>4. QED
      BY <2>2, <2>3
  <1>5. \A q \in Requests, d \in Stored' :
          req'[q].pc = "unlinking" /\ FileOf(req'[q]) \notin raced' /\ row'[d].job # NoSuffix
            => <<row'[d].contents, row'[d].job>> # FileOf(req'[q])
    <2> SUFFICES ASSUME NEW q \in Requests, NEW d \in Stored', req'[q].pc = "unlinking",
                        FileOf(req'[q]) \notin raced', row'[d].job # NoSuffix,
                        <<row'[d].contents, row'[d].job>> = FileOf(req'[q])
                 PROVE  FALSE
      OBVIOUS
    <2>1. FileOf(req'[q]) \notin raced
      BY <1>1, WhatIsPresent
    <2>2. q # r
      BY DEF InUse, FileOf
    <2>3. req'[q] = req[q]
      BY <2>2
    <2>4. CASE req[r].pc \in HasStored /\ FileOf(req'[q]) = FileOf(req[r])
      BY <1>3, <2>1, <2>3, <2>4
    <2>5. CASE d \in Stored /\ row[d].job = row'[d].job /\ row[d].contents = row'[d].contents
      BY <2>1, <2>3, <2>5 DEF FilesInv, HeldInv
    <2>6. QED
      BY <2>4, <2>5
  <1>6. \A q \in Requests :
          req'[q].pc \in {"retrying", "queueing"} /\ req'[q].doc \in Stored'
            => row'[req'[q].doc].contents = req'[q].contents
    <2> SUFFICES ASSUME NEW q \in Requests, q # r, req[q].pc \in {"retrying", "queueing"},
                        req[q].doc \in Stored'
                 PROVE  row'[req[q].doc].contents = req[q].contents
      OBVIOUS
    <2>1. req[q].doc \in HeldIds
      BY DEF HeldIds, Active, Idle
    <2>2. req[q].doc \in Stored /\ row'[req[q].doc].contents = row[req[q].doc].contents
      BY <2>1, ContentsStay DEF FilesInv
    <2>3. QED
      BY <2>2 DEF FilesInv, HeldInv
  <1>7. JobHasFile'
    <2> SUFFICES ASSUME NEW d \in Stored', row'[d].job # NoSuffix,
                        <<row'[d].contents, row'[d].job>> \notin raced'
                 PROVE  <<row'[d].contents, row'[d].job>> \in disk'
      BY DEF JobHasFile
    <2> DEFINE f == <<row'[d].contents, row'[d].job>>
    <2>1. f \notin raced
      BY <1>1, WhatIsPresent
    <2>2. CASE f = FileOf(req[r]) /\ FileOf(req[r]) \in disk' \cup raced
      BY <2>1, <2>2
    <2>3. CASE d \in Stored /\ row[d].job = row'[d].job /\ row[d].contents = row'[d].contents
      <3>1. f \in disk
        BY <2>1, <2>3 DEF FilesInv, HeldInv, JobHasFile
      <3>2. ~(req[r].pc = "unlinking" /\ f = FileOf(req[r]))
        BY <2>1, <2>3 DEF FilesInv, HeldInv
      <3>3. QED
        BY <3>1, <3>2
    <2>4. QED
      BY <2>2, <2>3
  <1>8. QED
    BY <1>1, <1>4, <1>5, <1>6, <1>7 DEF HeldInv

\* The other half: the names of files, and who is responsible for them.  Names
\* come from files that are stored; what r held is in use, or still in its
\* hands, or the file it was to unlink, or recorded as dropped.
LEMMA FileKept ==
  ASSUME FilesInv, TypeOK', [Next]_vars, NEW dropped, Watch(dropped), NEW r \in Requests,
         \A q \in Requests \ {r} : req'[q] = req[q],
         req'[r].pc \in Responsible \cup {"deleting"} => FileOf(req'[r]) \in named \cup disk',
         req'[r].pc = "deleting" /\ req'[r].doc \in Stored'
           => row'[req'[r].doc].contents = req'[r].contents,
         \A d \in Stored' : <<row'[d].contents, row'[d].suffix>> \in named,
         \A f \in disk' : f \in disk \/ Holds(r, f[1])',
         \A c \in Contents : InUse(c) => InUse(c)' \/ Holds(r, c)',
         \A c \in Contents : Holds(r, c) =>
           c \in dropped \/ InUse(c)' \/ Holds(r, c)' \/ FileOf(req[r]) \notin disk'
  PROVE  FileInv'
  <1>1. \A f \in named \cup disk' : Present(f[1])' => f \in named'
    BY Remembered
  <1>2. disk' \subseteq named'
    BY <1>1, WhatIsPresent
  <1>3. \A d \in Stored' : <<row'[d].contents, row'[d].suffix>> \in named'
    BY <1>1, WhatIsPresent
  <1>4. \A q \in Requests :
          req'[q].pc \in Responsible \cup {"deleting"} => FileOf(req'[q]) \in named'
    <2> SUFFICES ASSUME NEW q \in Requests, req'[q].pc \in Responsible \cup {"deleting"}
                 PROVE  FileOf(req'[q]) \in named'
      OBVIOUS
    <2>1. FileOf(req'[q]) \in named \cup disk'
      BY DEF FilesInv, FileInv
    <2>2. Present(FileOf(req[q])[1])'
      BY WhatIsPresent DEF Responsible
    <2>3. QED
      BY <1>1, <2>1, <2>2
  <1>5. \A q \in Requests :
          req'[q].pc = "deleting" /\ req'[q].doc \in Stored'
            => row'[req'[q].doc].contents = req'[q].contents
    <2> SUFFICES ASSUME NEW q \in Requests, q # r, req[q].pc = "deleting",
                        req[q].doc \in Stored'
                 PROVE  row'[req[q].doc].contents = req[q].contents
      OBVIOUS
    <2>1. req[q].doc \in HeldIds
      BY DEF HeldIds, Active, Idle
    <2>2. req[q].doc \in Stored /\ row'[req[q].doc].contents = row[req[q].doc].contents
      BY <2>1, ContentsStay DEF FilesInv
    <2>3. QED
      BY <2>2 DEF FilesInv, FileInv
  <1>6. ASSUME NEW f \in disk', f[1] \notin abandoned',
               \A g \in named' : g[1] = f[1] => g = f
        PROVE  InUse(f[1])' \/ \E q \in Requests : Holds(q, f[1])'
    <2>1. Present(f[1])' /\ f[1] \in Contents
      BY WhatIsPresent DEF TypeOK
    <2>2. f[1] \notin abandoned \cup dropped
      BY <1>6, <2>1, Remembered
    <2>3. \A g \in named : g[1] = f[1] => g = f
      BY <1>1, <1>6, <2>1
    <2>4. CASE f \notin disk
      BY <2>4
    <2>5. CASE InUse(f[1])
      BY <2>1, <2>5
    <2>6. ASSUME NEW q \in Requests, Holds(q, f[1])
          PROVE  InUse(f[1])' \/ \E p \in Requests : Holds(p, f[1])'
      <3>1. CASE q # r
        BY <2>6, <3>1 DEF Holds
      <3>2. CASE q = r
        <4>1. FileOf(req[r]) \in named /\ FileOf(req[r])[1] = f[1]
          BY <2>6, <3>2 DEF FilesInv, FileInv, Holds, FileOf
        <4>2. FileOf(req[r]) = f
          BY <2>3, <4>1
        <4>3. QED
          BY <2>1, <2>2, <2>6, <3>2, <4>2
      <3>3. QED
        BY <3>1, <3>2
    <2>7. QED
      BY <2>2, <2>3, <2>4, <2>5, <2>6 DEF FilesInv, FileInv
  <1>7. QED
    BY <1>2, <1>3, <1>4, <1>5, <1>6 DEF FileInv

-----------------------------------------------------------------------------
(* The steps *)

\* A request that goes on is about the same file.
LEMMA GoesOn ==
  ASSUME TypeOK, NEW r \in Requests, req[r] \in Busy,
         NEW pc \in UploadSteps \cup DeleteSteps, Goto(r, pc)
  PROVE  /\ req'[r].pc = pc /\ req'[r].contents = req[r].contents
         /\ req'[r].doc = req[r].doc /\ FileOf(req'[r]) = FileOf(req[r])
         /\ \A q \in Requests \ {r} : req'[q] = req[q]
  <1> DEFINE h == [req[r] EXCEPT !.pc = pc]
  <1>1. h.pc = pc /\ h.contents = req[r].contents /\ h.suffix = req[r].suffix
        /\ h.doc = req[r].doc
    BY DEF Busy
  <1>2. req'[r] = h /\ \A q \in Requests \ {r} : req'[q] = req[q]
    BY DEF Goto, TypeOK
  <1> HIDE DEF h
  <1>3. QED
    BY <1>1, <1>2 DEF FileOf

\* Files and rows stay: a request that goes on, or ends, keeps both invariants
\* if what it held is in use, or still in its hands, or recorded as dropped.
LEMMA MoveKeeps ==
  ASSUME FilesInv, TypeOK', [Next]_vars, NEW dropped, Watch(dropped), NEW r \in Requests,
         \A q \in Requests \ {r} : req'[q] = req[q],
         disk' = disk, row' = row,
         req'[r].pc # "idle" =>
           FileOf(req'[r]) = FileOf(req[r]) /\ req'[r].contents = req[r].contents,
         req'[r].pc # "deleting",
         req'[r].pc \in HasStored => req[r].pc \in HasStored,
         req'[r].pc = "unlinking" => ~InUse(req[r].contents),
         req'[r].pc \in {"retrying", "queueing"} =>
           row[req'[r].doc].contents = req[r].contents,
         req'[r].pc \in Responsible => req[r].pc \in Responsible,
         req[r].pc \in Responsible /\ req[r].contents \in Contents =>
           \/ req[r].contents \in dropped
           \/ InUse(req[r].contents)
           \/ req'[r].pc \in Responsible
  PROVE  HeldInv' /\ FileInv'
  <1>1. Stored' = Stored /\ \A c : InUse(c)' <=> InUse(c)
    BY DEF Stored, InUse
  <1>2. HeldInv'
    <2>1. req'[r].pc \in HasStored /\ FileOf(req'[r]) \notin raced => FileOf(req'[r]) \in disk'
      BY DEF HasStored, FilesInv, HeldInv
    <2>2. req'[r].pc = "unlinking" => ~InUse(req[r].contents)'
      BY <1>1
    <2>3. req'[r].pc \in {"retrying", "queueing"} =>
            row'[req'[r].doc].contents = req'[r].contents
      OBVIOUS
    <2>4. \A d \in Stored' : d \in Stored /\ row[d].job = row'[d].job
                             /\ row[d].contents = row'[d].contents
      BY <1>1
    <2>5. QED
      BY <2>1, <2>2, <2>3, <2>4, HeldKept
  <1>3. FileInv'
    <2>1. req'[r].pc \in Responsible \cup {"deleting"} => FileOf(req'[r]) \in named
      BY DEF Responsible, FilesInv, FileInv
    <2>2. \A d \in Stored' : <<row'[d].contents, row'[d].suffix>> \in named
      BY <1>1 DEF FilesInv, FileInv
    <2>3. \A c \in Contents : Holds(r, c) => c \in dropped \/ InUse(c)' \/ Holds(r, c)'
      BY <1>1 DEF Holds, Responsible
    <2>4. QED
      BY <1>1, <2>1, <2>2, <2>3, FileKept
  <1>4. QED
    BY <1>2, <1>3

\* Finishing is such a step if nothing was held, or what was held is in use or
\* recorded as dropped.
LEMMA FinishKeeps ==
  ASSUME FilesInv, TypeOK', [Next]_vars, NEW dropped, Watch(dropped), NEW r \in Requests,
         Finish(r), disk' = disk, row' = row,
         req[r].pc \in Responsible /\ req[r].contents \in Contents =>
           req[r].contents \in dropped \/ InUse(req[r].contents)
  PROVE  HeldInv' /\ FileInv'
  <1>1. req'[r].pc = "idle" /\ \A q \in Requests \ {r} : req'[q] = req[q]
    BY DEF Finish, FilesInv, TypeOK, Idle
  <1>2. QED
    BY <1>1, MoveKeeps DEF HasStored, Responsible

\* A request that starts has stored nothing, and knows the names of the
\* document it loaded.
LEMMA BeginKeeps ==
  ASSUME FilesInv, TypeOK', [Next]_vars, Watch({}), NEW r \in Requests,
         \/ \E c \in Contents, s \in FileSuffixes : BeginUpload(r, c, s)
         \/ \E d \in Docs : BeginDelete(r, d)
  PROVE  HeldInv' /\ FileInv'
  <1>1. /\ req[r] = Idle /\ disk' = disk /\ row' = row
        /\ \A q \in Requests \ {r} : req'[q] = req[q]
    BY DEF BeginUpload, BeginDelete, MayStart, FilesInv, TypeOK
  <1>2. Stored' = Stored /\ \A c : InUse(c)' <=> InUse(c)
    BY <1>1 DEF Stored, InUse
  <1>3. /\ req'[r].pc \in {"storing", "deleting"}
        /\ req'[r].pc = "deleting" => \E d \in Stored :
             /\ req'[r].doc = d /\ req'[r].contents = row[d].contents
             /\ FileOf(req'[r]) = <<row[d].contents, row[d].suffix>>
    <2>1. ASSUME NEW c \in Contents, NEW s \in FileSuffixes, BeginUpload(r, c, s)
          PROVE  req'[r].pc = "storing"
      BY <2>1 DEF BeginUpload, FilesInv, TypeOK
    <2>2. ASSUME NEW d \in Docs, BeginDelete(r, d)
          PROVE  /\ d \in Stored /\ req'[r].pc = "deleting" /\ req'[r].doc = d
                 /\ req'[r].contents = row[d].contents
                 /\ FileOf(req'[r]) = <<row[d].contents, row[d].suffix>>
      BY <2>2 DEF BeginDelete, DocsOf, FileOf, FilesInv, TypeOK
    <2>3. QED
      BY <2>1, <2>2
  <1>4. ~(req[r].pc \in Responsible) /\ req[r].pc # "unlinking"
    BY <1>1 DEF Idle, Responsible
  <1>5. HeldInv'
    BY <1>1, <1>2, <1>3, HeldKept DEF HasStored
  <1>6. FileInv'
    <2>1. \A d \in Stored : <<row[d].contents, row[d].suffix>> \in named
      BY DEF FilesInv, FileInv
    <2>2. req'[r].pc \in Responsible \cup {"deleting"} => FileOf(req'[r]) \in named
      BY <1>3, <2>1 DEF Responsible
    <2>3. \A c \in Contents : ~Holds(r, c)
      BY <1>4 DEF Holds
    <2>4. QED
      BY <1>1, <1>2, <1>3, <2>1, <2>2, <2>3, FileKept
  <1>7. QED
    BY <1>5, <1>6

\* The file that an upload stores is in its hands.
LEMMA StoreKeeps ==
  ASSUME FilesInv, TypeOK', [Next]_vars, Watch({}), NEW r \in Requests, StoreUpload(r)
  PROVE  HeldInv' /\ FileInv'
  <1>1. req[r].pc = "storing" /\ req[r] \in Busy
    BY BusyRequest DEF StoreUpload, FilesInv
  <1>2. /\ req'[r].pc = "finding" /\ req'[r].contents = req[r].contents
        /\ FileOf(req'[r]) = FileOf(req[r])
        /\ \A q \in Requests \ {r} : req'[q] = req[q]
    BY <1>1, GoesOn DEF StoreUpload, UploadSteps, FilesInv
  <1>3. disk' = disk \cup {FileOf(req[r])} /\ row' = row
    BY DEF StoreUpload, FileOf
  <1>4. Stored' = Stored /\ \A c : InUse(c)' <=> InUse(c)
    BY <1>3 DEF Stored, InUse
  <1>5. HeldInv'
    BY <1>1, <1>2, <1>3, <1>4, HeldKept
  <1>6. FileInv'
    <2>1. \A d \in Stored' : <<row'[d].contents, row'[d].suffix>> \in named
      BY <1>3, <1>4 DEF FilesInv, FileInv
    <2>2. Holds(r, req[r].contents)' /\ FileOf(req[r])[1] = req[r].contents
      BY <1>2 DEF Holds, Responsible, FileOf
    <2>3. \A f \in disk' : f \in disk \/ Holds(r, f[1])'
      BY <1>2, <1>3, <2>2 DEF Holds
    <2>4. \A c \in Contents : ~Holds(r, c)
      BY <1>1 DEF Holds, Responsible
    <2>5. QED
      BY <1>2, <1>3, <1>4, <2>1, <2>3, <2>4, FileKept
  <1>7. QED
    BY <1>5, <1>6

\* The steps of a handler that read only.
LEMMA ReadKeeps ==
  ASSUME FilesInv, TypeOK', [Next]_vars, Watch({}), NEW r \in Requests,
         FindExisting(r) \/ CheckQuota(r) \/ TestInUse(r)
  PROVE  HeldInv' /\ FileInv'
  <1>1. /\ req[r].pc \in {"finding", "checking", "discarding"} /\ req[r] \in Busy
        /\ disk' = disk /\ row' = row
    BY BusyRequest DEF FindExisting, CheckQuota, TestInUse, FilesInv
  <1>2. ASSUME NEW pc \in {"checking", "creating", "discarding", "unlinking"}, Goto(r, pc),
               pc = "unlinking" => ~InUse(req[r].contents),
               pc \in HasStored => req[r].pc \in HasStored
        PROVE  HeldInv' /\ FileInv'
    <2>1. /\ req'[r].pc = pc /\ req'[r].contents = req[r].contents
          /\ FileOf(req'[r]) = FileOf(req[r])
          /\ \A q \in Requests \ {r} : req'[q] = req[q]
      BY <1>1, <1>2, GoesOn DEF UploadSteps, DeleteSteps, FilesInv
    <2>2. req[r].pc \in Responsible /\ req'[r].pc \in Responsible
      BY <1>1, <2>1 DEF Responsible
    <2>3. QED
      BY <1>1, <1>2, <2>1, <2>2, MoveKeeps
  <1>3. CASE FindExisting(r)
    <2>1. req[r].pc \in HasStored
      BY <1>3 DEF FindExisting, HasStored
    <2>2. CASE Goto(r, "checking")
      BY <1>2, <2>1, <2>2
    <2>3. ASSUME NEW d \in Stored, row[d].contents = req[r].contents, Finish(r)
          PROVE  HeldInv' /\ FileInv'
      BY <1>1, <2>3, FinishKeeps DEF InUse
    <2>4. ASSUME NEW d \in Stored, row[d].contents = req[r].contents,
                 req' = [req EXCEPT ![r].pc = "retrying", ![r].doc = d]
          PROVE  HeldInv' /\ FileInv'
      <3> DEFINE h == [[req[r] EXCEPT !.pc = "retrying"] EXCEPT !.doc = d]
      <3>1. h.pc = "retrying" /\ h.doc = d /\ h.contents = req[r].contents
            /\ h.suffix = req[r].suffix
        BY <1>1 DEF Busy
      <3>2. req'[r] = h /\ \A q \in Requests \ {r} : req'[q] = req[q]
        BY <2>4 DEF FilesInv, TypeOK
      <3> HIDE DEF h
      <3>3. /\ req'[r].pc = "retrying" /\ req'[r].doc = d
            /\ req'[r].contents = req[r].contents /\ FileOf(req'[r]) = FileOf(req[r])
        BY <3>1, <3>2 DEF FileOf
      <3>4. InUse(req[r].contents)
        BY <2>4 DEF InUse
      <3>5. QED
        BY <1>1, <2>1, <2>4, <3>2, <3>3, <3>4, MoveKeeps DEF Responsible
    <2>5. QED
      BY <1>3, <2>2, <2>3, <2>4 DEF FindExisting, DocsOf
  <1>4. CASE CheckQuota(r)
    <2>1. Goto(r, "discarding") \/ Goto(r, "creating")
      BY <1>4 DEF CheckQuota
    <2>2. req[r].pc \in HasStored
      BY <1>4 DEF CheckQuota, HasStored
    <2>3. QED
      BY <1>2, <2>1, <2>2
  <1>5. CASE TestInUse(r)
    <2>1. CASE InUse(req[r].contents)
      BY <1>1, <1>5, <2>1, FinishKeeps DEF TestInUse
    <2>2. CASE ~InUse(req[r].contents)
      BY <1>2, <1>5, <2>2 DEF TestInUse, HasStored
    <2>3. QED
      BY <2>1, <2>2
  <1>6. QED
    BY <1>3, <1>4, <1>5

\* What a handler held when it dies is recorded.
LEMMA FailureKeeps ==
  ASSUME FilesInv, TypeOK', [Next]_vars, NEW r \in Requests,
         ApiFails(r), Watch({c \in Contents : Holds(r, c)})
  PROVE  HeldInv' /\ FileInv'
  <1> DEFINE dropped == {c \in Contents : Holds(r, c)}
  <1>1. req[r].pc \in Responsible /\ req[r].contents \in Contents
          => req[r].contents \in dropped
    BY DEF Holds
  <1>2. Finish(r) /\ disk' = disk /\ row' = row
    BY DEF ApiFails
  <1>3. Watch(dropped)
    OBVIOUS
  <1> HIDE DEF dropped
  <1>4. QED
    BY <1>1, <1>2, <1>3, FinishKeeps

\* Taking up a failed document changes its status only.
LEMMA RetryKeeps ==
  ASSUME FilesInv, TypeOK', [Next]_vars, Watch({}), NEW r \in Requests, RetryFailed(r)
  PROVE  HeldInv' /\ FileInv'
  <1>1. req[r].pc = "retrying" /\ req[r] \in Busy /\ disk' = disk
    BY BusyRequest DEF RetryFailed, FilesInv
  <1>2. CASE req[r].doc \notin Stored
    BY <1>1, <1>2, FinishKeeps DEF RetryFailed, Responsible
  <1>3. CASE req[r].doc \in Stored
    <2>1. /\ Goto(r, "queueing")
          /\ row' = [row EXCEPT ![req[r].doc].status = "pending"]
      BY <1>3 DEF RetryFailed
    <2>2. \A d \in Stored : row[d] \in Rows
      BY DEF Stored, FilesInv, TypeOK
    <2>3. /\ Stored' = Stored
          /\ \A d \in Stored : /\ row'[d].contents = row[d].contents
                               /\ row'[d].suffix = row[d].suffix
                               /\ row'[d].job = row[d].job
      BY <1>3, <2>1, <2>2 DEF Stored, Rows, NoRow, FilesInv, TypeOK
    <2>4. \A c : InUse(c)' <=> InUse(c)
      BY <2>3 DEF InUse
    <2>5. /\ req'[r].pc = "queueing" /\ req'[r].contents = req[r].contents
          /\ req'[r].doc = req[r].doc /\ FileOf(req'[r]) = FileOf(req[r])
          /\ \A q \in Requests \ {r} : req'[q] = req[q]
      BY <1>1, <2>1, GoesOn DEF UploadSteps, FilesInv
    <2>6. FileOf(req'[r]) \notin raced => FileOf(req'[r]) \in disk'
      BY <1>1, <2>5 DEF FilesInv, HeldInv, HasStored
    <2>7. row'[req'[r].doc].contents = req'[r].contents
      BY <1>1, <1>3, <2>3, <2>5 DEF FilesInv, HeldInv
    <2>8. HeldInv'
      BY <1>1, <2>3, <2>5, <2>6, <2>7, HeldKept
    <2>9. \A d \in Stored' : <<row'[d].contents, row'[d].suffix>> \in named
      BY <2>3 DEF FilesInv, FileInv
    <2>10. FileInv'
      BY <1>1, <2>4, <2>5, <2>9, FileKept DEF Holds, Responsible
    <2>11. QED
      BY <2>8, <2>10
  <1>4. QED
    BY <1>2, <1>3

\* A new document has the name of its request's file, and no job yet.
LEMMA CreateKeeps ==
  ASSUME FilesInv, TypeOK', [Next]_vars, Watch({}), NEW r \in Requests, CreateDocument(r)
  PROVE  HeldInv' /\ FileInv'
  <1> DEFINE new == [owner |-> OwnerOf(r), contents |-> req[r].contents,
                     suffix |-> req[r].suffix, status |-> "pending", job |-> NoSuffix]
  <1>1. req[r].pc = "creating" /\ req[r] \in Busy /\ disk' = disk
    BY BusyRequest DEF CreateDocument, FilesInv
  <1>2. CASE /\ \E d \in DocsOf(OwnerOf(r)) : row[d].contents = req[r].contents
             /\ Finish(r) /\ UNCHANGED row
    BY <1>1, <1>2, FinishKeeps DEF DocsOf, InUse
  <1>3. ASSUME NEW d \in Docs \ Stored, row' = [row EXCEPT ![d] = new],
               req' = [req EXCEPT ![r].pc = "queueing", ![r].doc = d]
        PROVE  HeldInv' /\ FileInv'
    <2>1. /\ new \in Rows /\ new.contents = req[r].contents /\ new.job = NoSuffix
          /\ new.suffix = req[r].suffix
      BY <1>1 DEF Rows, Busy, Requests, OwnerOf
    <2> HIDE DEF new
    <2>2. /\ row'[d] = new /\ new # NoRow
          /\ \A e \in Docs \ {d} : row'[e] = row[e]
      BY <1>3, <2>1 DEF FilesInv, TypeOK, Rows, NoRow
    <2>3. /\ \A e \in Stored' : e = d \/ (e \in Stored /\ row'[e] = row[e])
          /\ \A e \in Stored : e \in Stored' /\ row'[e] = row[e]
          /\ d \in Stored'
      BY <1>3, <2>2 DEF Stored
    <2> DEFINE h == [[req[r] EXCEPT !.pc = "queueing"] EXCEPT !.doc = d]
    <2>4. h.pc = "queueing" /\ h.doc = d /\ h.contents = req[r].contents
          /\ h.suffix = req[r].suffix
      BY <1>1 DEF Busy
    <2>5. req'[r] = h /\ \A q \in Requests \ {r} : req'[q] = req[q]
      BY <1>3 DEF FilesInv, TypeOK
    <2> HIDE DEF h
    <2>6. /\ req'[r].pc = "queueing" /\ req'[r].doc = d
          /\ req'[r].contents = req[r].contents /\ FileOf(req'[r]) = FileOf(req[r])
      BY <2>4, <2>5 DEF FileOf
    <2>7. FileOf(req'[r]) \notin raced => FileOf(req'[r]) \in disk'
      BY <1>1, <2>6 DEF FilesInv, HeldInv, HasStored
    <2>8. row'[req'[r].doc].contents = req'[r].contents
      BY <2>1, <2>2, <2>6
    <2>9. \A e \in Stored' : row'[e].job # NoSuffix =>
             e \in Stored /\ row[e].job = row'[e].job /\ row[e].contents = row'[e].contents
      BY <2>1, <2>2, <2>3
    <2>10. HeldInv'
      BY <1>1, <2>5, <2>6, <2>7, <2>8, <2>9, HeldKept
    <2>11. \A e \in Stored' : <<row'[e].contents, row'[e].suffix>> \in named
      <3>1. <<row'[d].contents, row'[d].suffix>> \in named
        BY <1>1, <2>1, <2>2 DEF FilesInv, FileInv, Responsible, FileOf
      <3>2. QED
        BY <2>3, <3>1 DEF FilesInv, FileInv
    <2>12. \A c \in Contents : InUse(c) \/ Holds(r, c) => InUse(c)'
      BY <2>1, <2>2, <2>3 DEF InUse, Holds
    <2>13. FileInv'
      BY <1>1, <2>5, <2>6, <2>11, <2>12, FileKept DEF Responsible
    <2>14. QED
      BY <2>10, <2>13
  <1>4. QED
    BY <1>2, <1>3 DEF CreateDocument

\* The job that is queued has the file that the request has stored.
LEMMA EnqueueKeeps ==
  ASSUME FilesInv, TypeOK', [Next]_vars, Watch({}), NEW r \in Requests, Enqueue(r)
  PROVE  HeldInv' /\ FileInv'
  <1>1. req[r].pc = "queueing" /\ disk' = disk /\ Finish(r) /\ req[r] \in Busy
    BY BusyRequest DEF Enqueue, FilesInv
  <1>2. CASE row' = row
    BY <1>1, <1>2, FinishKeeps DEF Responsible
  <1>3. CASE /\ req[r].doc \in Stored
             /\ row' = [row EXCEPT ![req[r].doc].job = req[r].suffix]
    <2>1. \A d \in Stored : row[d] \in Rows
      BY DEF Stored, FilesInv, TypeOK
    <2>2. /\ Stored' = Stored
          /\ \A d \in Stored : /\ row'[d].contents = row[d].contents
                               /\ row'[d].suffix = row[d].suffix
          /\ \A d \in Stored : row'[d].job = row[d].job \/
               (d = req[r].doc /\ row'[d].job = req[r].suffix)
      BY <1>3, <2>1 DEF Stored, Rows, NoRow, FilesInv, TypeOK
    <2>3. \A c : InUse(c)' <=> InUse(c)
      BY <2>2 DEF InUse
    <2>4. req'[r].pc = "idle" /\ \A q \in Requests \ {r} : req'[q] = req[q]
      BY <1>1 DEF Finish, FilesInv, TypeOK, Idle
    <2>5. req[r].pc \in HasStored /\ FileOf(req[r]) \in disk' \cup raced
      BY <1>1 DEF FilesInv, HeldInv, HasStored
    <2>6. row[req[r].doc].contents = req[r].contents
      BY <1>1, <1>3 DEF FilesInv, HeldInv
    <2>7. \A d \in Stored' :
            \/ d \in Stored /\ row[d].job = row'[d].job /\ row[d].contents = row'[d].contents
            \/ <<row'[d].contents, row'[d].job>> = FileOf(req[r])
      BY <1>3, <2>2, <2>6 DEF FileOf
    <2>8. HeldInv'
      BY <1>1, <2>4, <2>5, <2>7, HeldKept DEF HasStored
    <2>9. \A d \in Stored' : <<row'[d].contents, row'[d].suffix>> \in named
      BY <2>2 DEF FilesInv, FileInv
    <2>10. FileInv'
      BY <1>1, <2>3, <2>4, <2>9, FileKept DEF Holds, Responsible
    <2>11. QED
      BY <2>8, <2>10
  <1>4. QED
    BY <1>2, <1>3 DEF Enqueue

\* The file of a deleted document is in the hands of the request.
LEMMA DeleteKeeps ==
  ASSUME FilesInv, TypeOK', [Next]_vars, Watch({}), NEW r \in Requests, DeleteDocument(r)
  PROVE  HeldInv' /\ FileInv'
  <1>1. req[r].pc = "deleting" /\ req[r] \in Busy /\ disk' = disk /\ Goto(r, "discarding")
    BY BusyRequest DEF DeleteDocument, FilesInv
  <1>2. /\ \A e \in Stored' : e \in Stored /\ row'[e] = row[e]
        /\ \A e \in Stored : e = req[r].doc \/ (e \in Stored' /\ row'[e] = row[e])
    BY DEF DeleteDocument, Stored, FilesInv, TypeOK
  <1>3. /\ req'[r].pc = "discarding" /\ req'[r].contents = req[r].contents
        /\ FileOf(req'[r]) = FileOf(req[r])
        /\ \A q \in Requests \ {r} : req'[q] = req[q]
    BY <1>1, GoesOn DEF DeleteSteps, FilesInv
  <1>4. HeldInv'
    BY <1>1, <1>2, <1>3, HeldKept DEF HasStored
  <1>5. FileInv'
    <2>1. FileOf(req'[r]) \in named
      BY <1>1, <1>3 DEF FilesInv, FileInv
    <2>2. \A d \in Stored' : <<row'[d].contents, row'[d].suffix>> \in named
      BY <1>2 DEF FilesInv, FileInv
    <2>3. Holds(r, req[r].contents)'
      BY <1>3 DEF Holds, Responsible
    <2>4. \A c \in Contents : InUse(c) => InUse(c)' \/ c = req[r].contents
      <3> SUFFICES ASSUME NEW c \in Contents, NEW d \in Stored, row[d].contents = c
                   PROVE  InUse(c)' \/ c = req[r].contents
        BY DEF InUse
      <3>1. CASE d = req[r].doc
        BY <1>1, <3>1 DEF FilesInv, FileInv
      <3>2. CASE d # req[r].doc
        BY <1>2, <3>2 DEF InUse
      <3>3. QED
        BY <3>1, <3>2
    <2>5. \A c \in Contents : c = req[r].contents => Holds(r, c)'
      BY <1>3 DEF Holds, Responsible
    <2>6. \A c \in Contents : ~Holds(r, c)
      BY <1>1 DEF Holds, Responsible
    <2>7. QED
      BY <1>1, <1>3, <2>1, <2>2, <2>4, <2>5, <2>6, FileKept
  <1>6. QED
    BY <1>4, <1>5

\* The file that goes is named by no job, or raced.
LEMMA UnlinkKeeps ==
  ASSUME FilesInv, TypeOK', [Next]_vars, Watch({}), NEW r \in Requests, Unlink(r)
  PROVE  HeldInv' /\ FileInv'
  <1>1. /\ req[r].pc = "unlinking" /\ row' = row /\ Finish(r)
        /\ disk' = disk \ {FileOf(req[r])}
    BY DEF Unlink, FileOf
  <1>2. Stored' = Stored /\ \A c : InUse(c)' <=> InUse(c)
    BY <1>1 DEF Stored, InUse
  <1>3. req'[r].pc = "idle" /\ \A q \in Requests \ {r} : req'[q] = req[q]
    BY <1>1 DEF Finish, FilesInv, TypeOK, Idle
  <1>4. HeldInv'
    BY <1>1, <1>2, <1>3, HeldKept DEF HasStored
  <1>5. FileInv'
    <2>1. \A d \in Stored' : <<row'[d].contents, row'[d].suffix>> \in named
      BY <1>1, <1>2 DEF FilesInv, FileInv
    <2>2. QED
      BY <1>1, <1>2, <1>3, <2>1, FileKept DEF Responsible
  <1>6. QED
    BY <1>4, <1>5

\* A job that ends leaves the documents, their names and the other jobs.
LEMMA EndJobKeeps ==
  ASSUME FilesInv, TypeOK', Watch({}), NEW d \in Docs, EndJob(d)
  PROVE  HeldInv' /\ FileInv'
  <1>1. PICK status \in {"ready", "failed"} :
          row' = [row EXCEPT ![d].status = status, ![d].job = NoSuffix]
    BY DEF EndJob
  <1>2. disk' = disk /\ req' = req /\ \A e \in Stored : row[e] \in Rows
    BY DEF EndJob, Stored, FilesInv, TypeOK
  <1>3. /\ Stored' = Stored
        /\ \A e \in Stored : /\ row'[e].contents = row[e].contents
                             /\ row'[e].suffix = row[e].suffix
        /\ \A e \in Stored : row'[e].job = row[e].job \/ row'[e].job = NoSuffix
    BY <1>1, <1>2 DEF EndJob, Stored, Rows, NoRow, FilesInv, TypeOK
  <1>4. \A c : /\ InUse(c)' <=> InUse(c)
               /\ \A r \in Requests : Holds(r, c)' <=> Holds(r, c)
    BY <1>2, <1>3 DEF InUse, Holds
  <1>5. HeldInv'
    <2>1. Window' = Window
      BY <1>2 DEF Window, Uploading, Unlinking, FileOf
    <2>2. \A f \in raced : Present(f[1])' => f \in raced'
      BY Remembered
    <2>3. \A f \in Window : Present(f[1])'
      <3>1. \A f \in Window : \E r \in Requests :
              req'[r].pc \in HasStored /\ FileOf(req'[r]) = f
        BY <1>2 DEF Window, Uploading
      <3>2. QED
        BY <3>1, WhatIsPresent DEF HasStored
    <2>4. Window' \subseteq raced'
      BY <2>1, <2>2, <2>3 DEF FilesInv, HeldInv
    <2>5. \A r \in Requests : req[r].pc # "idle" /\ FileOf(req[r]) \in raced
            => FileOf(req[r]) \in raced'
      BY <1>2, <2>2, WhatIsPresent
    <2>6. \A r \in Requests :
            req[r].pc \in HasStored /\ FileOf(req[r]) \notin raced' => FileOf(req[r]) \in disk
      BY <2>5 DEF FilesInv, HeldInv, HasStored
    <2>7. \A r \in Requests, e \in Stored :
            /\ req[r].pc = "unlinking" /\ FileOf(req[r]) \notin raced'
            /\ row'[e].job # NoSuffix
            => <<row'[e].contents, row'[e].job>> # FileOf(req[r])
      BY <1>3, <2>5 DEF FilesInv, HeldInv
    <2>8. \A r \in Requests :
            req[r].pc \in {"retrying", "queueing"} /\ req[r].doc \in Stored
              => row'[req[r].doc].contents = req[r].contents
      BY <1>3 DEF FilesInv, HeldInv
    <2>9. JobHasFile'
      <3> SUFFICES ASSUME NEW e \in Stored, row'[e].job # NoSuffix,
                          <<row'[e].contents, row'[e].job>> \notin raced'
                   PROVE  <<row'[e].contents, row'[e].job>> \in disk
        BY <1>2, <1>3 DEF JobHasFile
      <3>1. Present(row[e].contents)'
        BY <1>3, WhatIsPresent
      <3>2. <<row[e].contents, row[e].job>> \notin raced /\ row[e].job # NoSuffix
        BY <1>3, <2>2, <3>1
      <3>3. QED
        BY <1>3, <3>2 DEF FilesInv, HeldInv, JobHasFile
    <2>10. QED
      BY <1>2, <1>3, <2>4, <2>6, <2>7, <2>8, <2>9 DEF HeldInv
  <1>6. FileInv'
    <2>1. \A f \in named : Present(f[1])' => f \in named'
      BY Remembered
    <2>2. disk' \subseteq named'
      BY <1>2, <2>1, WhatIsPresent DEF FilesInv, FileInv
    <2>3. \A e \in Stored' : <<row'[e].contents, row'[e].suffix>> \in named'
      BY <1>3, <2>1, WhatIsPresent DEF FilesInv, FileInv
    <2>4. \A r \in Requests :
            req'[r].pc \in Responsible \cup {"deleting"} => FileOf(req'[r]) \in named'
      <3> SUFFICES ASSUME NEW r \in Requests, req'[r].pc \in Responsible \cup {"deleting"}
                   PROVE  FileOf(req'[r]) \in named'
        OBVIOUS
      <3>1. FileOf(req'[r]) \in named
        BY <1>2 DEF FilesInv, FileInv
      <3>2. Present(FileOf(req[r])[1])'
        BY WhatIsPresent DEF Responsible
      <3>3. QED
        BY <2>1, <3>1, <3>2
    <2>5. \A r \in Requests :
            req'[r].pc = "deleting" /\ req'[r].doc \in Stored'
              => row'[req'[r].doc].contents = req'[r].contents
      BY <1>2, <1>3 DEF FilesInv, FileInv
    <2>6. ASSUME NEW f \in disk', f[1] \notin abandoned',
                 \A g \in named' : g[1] = f[1] => g = f
          PROVE  InUse(f[1])' \/ \E r \in Requests : Holds(r, f[1])'
      <3>1. Present(f[1])' /\ f \in disk
        BY <1>2, WhatIsPresent
      <3>2. f[1] \notin abandoned
        BY <2>6, <3>1, Remembered
      <3>3. \A g \in named : g[1] = f[1] => g = f
        BY <2>1, <2>6, <3>1
      <3>4. InUse(f[1]) \/ \E r \in Requests : Holds(r, f[1])
        BY <3>1, <3>2, <3>3 DEF FilesInv, FileInv
      <3>5. QED
        BY <1>4, <3>4
    <2>7. QED
      BY <2>2, <2>3, <2>4, <2>5, <2>6 DEF FileInv
  <1>7. QED
    BY <1>5, <1>6

-----------------------------------------------------------------------------
(* The theorems about files *)

\* At the start there is no file, no document and no request.
LEMMA InitFilesInv == HistoryInit => FilesInv
  <1> SUFFICES ASSUME HistoryInit PROVE FilesInv
    OBVIOUS
  <1>1. /\ TypeOK /\ disk = {} /\ Stored = {}
        /\ \A r \in Requests : req[r].pc = "idle"
    BY InitTypeOK DEF HistoryInit, Init, Stored, Idle
  <1>2. Window = {}
    BY <1>1 DEF Window, Uploading, HasStored
  <1>3. QED
    BY <1>1, <1>2 DEF FilesInv, HeldInv, FileInv, JobHasFile, HasStored, Responsible

\* Every step, recorded or not, keeps the invariant.
LEMMA NextFilesInv ==
  FilesInv /\ [HistoryNext]_<<vars, history>> => FilesInv'
  <1> SUFFICES ASSUME FilesInv, [HistoryNext]_<<vars, history>> PROVE FilesInv'
    OBVIOUS
  <1>1. [Next]_vars
    BY DEF HistoryNext, Next
  <1>2. TypeOK'
    BY <1>1, NextTypeOK DEF FilesInv
  <1>3. ASSUME Serve, Watch({})
        PROVE  HeldInv' /\ FileInv'
    <2>1. ASSUME NEW r \in Requests,
                 \/ \E c \in Contents, s \in FileSuffixes : BeginUpload(r, c, s)
                 \/ \E d \in Docs : BeginDelete(r, d)
          PROVE  HeldInv' /\ FileInv'
      BY <1>1, <1>2, <1>3, <2>1, BeginKeeps
    <2>2. ASSUME NEW r \in Requests, RequestStep(r)
          PROVE  HeldInv' /\ FileInv'
      <3>1. CASE StoreUpload(r)
        BY <1>1, <1>2, <1>3, <3>1, StoreKeeps
      <3>2. CASE FindExisting(r) \/ CheckQuota(r) \/ TestInUse(r)
        BY <1>1, <1>2, <1>3, <3>2, ReadKeeps
      <3>3. CASE RetryFailed(r)
        BY <1>1, <1>2, <1>3, <3>3, RetryKeeps
      <3>4. CASE CreateDocument(r)
        BY <1>1, <1>2, <1>3, <3>4, CreateKeeps
      <3>5. CASE Enqueue(r)
        BY <1>1, <1>2, <1>3, <3>5, EnqueueKeeps
      <3>6. CASE DeleteDocument(r)
        BY <1>1, <1>2, <1>3, <3>6, DeleteKeeps
      <3>7. CASE Unlink(r)
        BY <1>1, <1>2, <1>3, <3>7, UnlinkKeeps
      <3>8. QED
        BY <2>2, <3>1, <3>2, <3>3, <3>4, <3>5, <3>6, <3>7 DEF RequestStep
    <2>3. ASSUME NEW d \in Docs, EndJob(d)
          PROVE  HeldInv' /\ FileInv'
      BY <1>2, <1>3, <2>3, EndJobKeeps
    <2>4. QED
      BY <1>3, <2>1, <2>2, <2>3 DEF Serve
  <1>4. ASSUME NEW r \in Requests, ApiFails(r), Watch({c \in Contents : Holds(r, c)})
        PROVE  HeldInv' /\ FileInv'
    BY <1>1, <1>2, <1>4, FailureKeeps
  <1>5. CASE UNCHANGED <<vars, history>>
    <2>1. /\ req' = req /\ row' = row /\ disk' = disk
          /\ named' = named /\ abandoned' = abandoned /\ raced' = raced
      BY <1>5 DEF vars, history
    <2>2. Stored' = Stored
      BY <2>1 DEF Stored
    <2>3. Window' = Window
      BY <2>1 DEF Window, Uploading, Unlinking, FileOf
    <2>4. JobHasFile'
      BY <2>1, <2>2 DEF FilesInv, HeldInv, JobHasFile
    <2>5. HeldInv'
      BY <2>1, <2>2, <2>3, <2>4 DEF FilesInv, HeldInv, FileOf
    <2>6. FileInv'
      BY <2>1, <2>2 DEF FilesInv, FileInv, FileOf, InUse, Holds
    <2>7. QED
      BY <1>2, <2>5, <2>6 DEF FilesInv
  <1>6. QED
    BY <1>2, <1>3, <1>4, <1>5 DEF HistoryNext, FilesInv

\* The history stays well typed, as the rest does.
THEOREM HistoryTypeCorrect == HistorySpec => []HistoryTypeOK
  <1>1. HistoryInit => HistoryTypeOK
    BY InitTypeOK DEF HistoryInit, HistoryTypeOK
  <1>2. HistoryTypeOK /\ [HistoryNext]_<<vars, history>> => HistoryTypeOK'
    <2> SUFFICES ASSUME HistoryTypeOK, [HistoryNext]_<<vars, history>>
                 PROVE  HistoryTypeOK'
      OBVIOUS
    <2>1. TypeOK'
      BY NextTypeOK DEF HistoryTypeOK, HistoryNext, Next
    <2>2. ASSUME NEW dropped \in SUBSET Contents, Watch(dropped)
          PROVE  HistoryTypeOK'
      <3>1. disk' \subseteq Contents \X FileSuffixes /\ Window' \subseteq Contents \X FileSuffixes
        BY <2>1 DEF TypeOK, Window
      <3>2. QED
        BY <2>1, <2>2, <3>1 DEF HistoryTypeOK, Watch
    <2>3. CASE UNCHANGED <<vars, history>>
      BY <2>1, <2>3 DEF HistoryTypeOK, history
    <2>4. QED
      BY <2>2, <2>3 DEF HistoryNext
  <1>3. QED
    BY <1>1, <1>2, PTL DEF HistorySpec

\* A worker that takes a live job finds its file, whatever requests overlap and
\* wherever a handler dies, unless an upload had stored the file while a request
\* was between the in-use test and the unlink.
THEOREM JobHasFileAlways == HistorySpec => []JobHasFile
  <1>1. FilesInv => JobHasFile
    BY DEF FilesInv, HeldInv
  <1>2. QED
    BY InitFilesInv, NextFilesInv, <1>1, PTL DEF HistorySpec

\* No file is left over, whatever requests overlap: one whose contents no
\* request is about belongs to a document, unless the same contents came under
\* another suffix or a handler died that was responsible for them.
THEOREM QuietDiskAlways == HistorySpec => []QuietDiskIsReferenced
  <1>1. FilesInv => QuietDiskIsReferenced
    <2> SUFFICES ASSUME FilesInv, NEW f \in disk, f[1] \notin abandoned,
                        \A g \in named : g[1] = f[1] => g = f,
                        \A r \in Active : req[r].contents # f[1]
                 PROVE  \E d \in Stored : f = <<row[d].contents, row[d].suffix>>
      BY DEF QuietDiskIsReferenced
    <2>1. \A r \in Requests : ~Holds(r, f[1])
      BY DEF Active, Holds, Idle, Responsible
    <2>2. PICK d \in Stored : row[d].contents = f[1]
      BY <2>1 DEF FilesInv, FileInv, InUse
    <2>3. <<row[d].contents, row[d].suffix>> \in named
      BY DEF FilesInv, FileInv
    <2>4. QED
      BY <2>2, <2>3
  <1>2. QED
    BY InitFilesInv, NextFilesInv, <1>1, PTL DEF HistorySpec
=============================================================================
