----------------------------- MODULE FileHistory -----------------------------
(***************************************************************************)
(* DocumentFiles with history variables, for what is true of the files on  *)
(* disk.  Nothing is assumed of the requests: they overlap as they like,   *)
(* under any suffix, and handlers die anywhere.  Three things that happen  *)
(* to a file end what can be said of it; the history records which files   *)
(* they have happened to.                                                  *)
(*                                                                         *)
(* The history only watches: every step is a step of DocumentFiles, and    *)
(* every step of DocumentFiles is possible.                                *)
(***************************************************************************)
EXTENDS DocumentFiles

VARIABLES
  named,     \* the files that were stored
  abandoned, \* contents whose file was left to a handler that died
  raced      \* files stored for an upload while a request was to unlink them

history == <<named, abandoned, raced>>

-----------------------------------------------------------------------------

FileOf(h) == <<h.contents, h.suffix>>

\* An upload has stored its file, and no job names the file for it yet.
HasStored == {"finding", "retrying", "checking", "creating", "queueing"}
Uploading(f) == \E r \in Requests : req[r].pc \in HasStored /\ FileOf(req[r]) = f

\* The moment between the two halves of _discard_upload.
Unlinking(f) == \E r \in Requests : req[r].pc = "unlinking" /\ FileOf(req[r]) = f

Window == {f \in Contents \X FileSuffixes : Uploading(f) /\ Unlinking(f)}

\* The steps at which a request is the only one to know of a file that no
\* document refers to: it will create one, or test whether to unlink it.
Responsible == {"finding", "checking", "creating", "discarding", "unlinking"}
Holds(r, c) == req[r].pc \in Responsible /\ req[r].contents = c

\* Contents that have left no file, no document and no request start afresh.
Present(c) ==
  \/ InUse(c)
  \/ \E f \in disk : f[1] = c
  \/ \E r \in Active : req[r].contents = c

\* What a step adds to the history; what is no longer present is forgotten.
Watch(dropped) ==
  /\ named' = {f \in named \cup disk' : Present(f[1])'}
  /\ abandoned' = {c \in abandoned \cup dropped : Present(c)'}
  /\ raced' = {f \in raced \cup Window' : Present(f[1])'}

HistoryInit == Init /\ named = {} /\ abandoned = {} /\ raced = {}

HistoryNext ==
  \/ Serve /\ Watch({})
  \/ \E r \in Requests : ApiFails(r) /\ Watch({c \in Contents : Holds(r, c)})

HistorySpec == HistoryInit /\ [][HistoryNext]_<<vars, history>>

-----------------------------------------------------------------------------
(* Properties *)

\* The types of all variables.
HistoryTypeOK ==
  /\ TypeOK
  /\ named \subseteq Contents \X FileSuffixes
  /\ abandoned \subseteq Contents
  /\ raced \subseteq Contents \X FileSuffixes

\* A worker that takes a live job finds its file: whatever the owners upload
\* and delete, whatever overlaps, and wherever a handler dies.  The only way to
\* lose it is the moment in _discard_upload (documents.py:66-67): an upload had
\* stored the file while a request was between the test and the unlink.
JobHasFile ==
  \A d \in Stored :
    row[d].job # NoSuffix /\ <<row[d].contents, row[d].job>> \notin raced
      => <<row[d].contents, row[d].job>> \in disk

\* No file is left over: one whose contents no request is about belongs to a
\* document, which says it lives there.  The two ways to lose track of a file
\* are a second suffix for the same contents, which find_by_checksum and
\* _discard_upload do not look at (documents.py:63, 135), and a handler that
\* dies between storing the file and creating the document, or between
\* deleting the document and unlinking the file.
QuietDiskIsReferenced ==
  \A f \in disk :
    \/ f[1] \in abandoned
    \/ \E g \in named : g[1] = f[1] /\ g # f
    \/ \E r \in Active : req[r].contents = f[1]
    \/ \E d \in Stored : f = <<row[d].contents, row[d].suffix>>

-----------------------------------------------------------------------------
(* What makes them inductive *)

\* A file that an upload has stored is there until a job names it, and one that
\* is to be unlinked is named by no job, but for the moment recorded in `raced`.
HeldInv ==
  /\ Window \subseteq raced
  /\ \A r \in Requests :
       req[r].pc \in HasStored /\ FileOf(req[r]) \notin raced => FileOf(req[r]) \in disk
  /\ \A r \in Requests, d \in Stored :
       req[r].pc = "unlinking" /\ FileOf(req[r]) \notin raced /\ row[d].job # NoSuffix
         => <<row[d].contents, row[d].job>> # FileOf(req[r])
  /\ \A r \in Requests :
       req[r].pc \in {"retrying", "queueing"} /\ req[r].doc \in Stored
         => row[req[r].doc].contents = req[r].contents
  /\ JobHasFile

\* Every name of present contents is recorded; a document about to be deleted
\* still has the contents it had; and a file of contents with one name, with no
\* handler dead, is in use or in the hands of a request.
FileInv ==
  /\ disk \subseteq named
  /\ \A d \in Stored : <<row[d].contents, row[d].suffix>> \in named
  /\ \A r \in Requests :
       req[r].pc \in Responsible \cup {"deleting"} => FileOf(req[r]) \in named
  /\ \A r \in Requests :
       req[r].pc = "deleting" /\ req[r].doc \in Stored
         => row[req[r].doc].contents = req[r].contents
  /\ \A f \in disk :
       \/ f[1] \in abandoned
       \/ \E g \in named : g[1] = f[1] /\ g # f
       \/ InUse(f[1])
       \/ \E r \in Requests : Holds(r, f[1])
=============================================================================
