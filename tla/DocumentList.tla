---------------------------- MODULE DocumentList ----------------------------
(***************************************************************************)
(* The browser's list of documents (frontend/src/hooks/useDocuments.js,    *)
(* components/DocumentPanel.jsx) over documents that live as               *)
(* IngestionLifecycle says.                                                *)
(*                                                                         *)
(* One tab.  The list is fetched on mount, by a timer while any document   *)
(* shown is pending, and after uploads and a removal; an answer replaces   *)
(* the list whole, and answers may overtake each other.  A new timer that  *)
(* replaces an old one, and the error banner, are left out.                *)
(***************************************************************************)
EXTENDS IngestionLifecycle, Naturals, Sequences

Seqs == INSTANCE SequencesExt

CONSTANTS
  Calls,        \* upload calls, each made once at most: the bound on uploads
  MaxRefreshes, \* bound: answers to listDocuments awaited at a time
  NoDoc         \* "no removal is awaited"

ASSUME ListAssumption == MaxRefreshes \in Nat \ {0} /\ NoDoc \notin Docs

VARIABLES
  shown,     \* documents: what the panel says of each
  fetching,  \* listDocuments calls the server has not answered
  answers,   \* answers on their way, oldest first
  calls,     \* calls[c]: the files an upload call has left, and how far it is
  uploading, \* the files the panel says are being sent
  removing,  \* the document whose removal is awaited, if any
  overlap,   \* history: a call began while another was running
  disturbed  \* history: an answer was overtaken or lost, or a success undone

listVars == <<shown, fetching, answers, calls, uploading, removing, overlap, disturbed>>
vars == <<state, listVars>>

-----------------------------------------------------------------------------

\* Mutant: the states of the job leak into the status.
ListedRaw(d) == state[d]

\* DocumentOut.status: queued and processing are both pending, and a document
\* is ready when its chunks are committed.
Listed(d) ==
  CASE state[d] \in {"absent", "deleted"} -> "none"
    [] state[d] = "working" -> "pending"
    [] state[d] = "written" -> "ready"
    [] OTHER -> state[d]

NoDocuments == [d \in Docs |-> "none"]
CallSteps == {"unused", "sending", "refreshing", "over"}

\* Mutant: the timer runs as long as there are documents.
AnyShown == \E d \in Docs : shown[d] # "none"

StillWorking == \E d \in Docs : shown[d] = "pending"
Awaited == fetching + Len(answers)

ListInit ==
  /\ Init
  /\ shown = NoDocuments
  /\ fetching = 1 \* the effect of the first render
  /\ answers = <<>>
  /\ calls = [c \in Calls |-> [step |-> "unused", files |-> {}]]
  /\ uploading = {}
  /\ removing = NoDoc
  /\ overlap = FALSE
  /\ disturbed = FALSE

-----------------------------------------------------------------------------
(* refresh *)

Fetch == Awaited < MaxRefreshes /\ fetching' = fetching + 1

\* The interval does not wait for the answer to the last tick.
Poll ==
  /\ StillWorking
  /\ Fetch
  /\ UNCHANGED <<state, shown, answers, calls, uploading, removing, overlap, disturbed>>

ServeList ==
  /\ fetching > 0
  /\ fetching' = fetching - 1
  /\ answers' = Append(answers, [d \in Docs |-> Listed(d)])
  /\ UNCHANGED <<state, shown, calls, uploading, removing, overlap, disturbed>>

\* setDocuments, whatever the age of the answer.
AnswerArrives(i) ==
  /\ shown' = answers[i]
  /\ answers' = Seqs!RemoveAt(answers, i)
  /\ disturbed' = (disturbed \/ i # 1)
  /\ UNCHANGED <<state, fetching, calls, uploading, removing, overlap>>

\* A refresh that fails leaves the list, and the timer, as they are: while the
\* timer runs, and no older answer can stop it, there is a next tick.
RefreshFails ==
  /\ fetching > 0
  /\ fetching' = fetching - 1
  /\ disturbed' = (disturbed \/ ~StillWorking \/ answers # <<>>)
  /\ UNCHANGED <<state, shown, answers, calls, uploading, removing, overlap>>

-----------------------------------------------------------------------------
(* upload *)

Under(c) == calls[c].step \in {"sending", "refreshing"}

\* Calls not made yet are interchangeable: one is chosen.
NextCall == CHOOSE c \in Calls : calls[c].step = "unused"

\* The button is disabled while busy, a drop is not.
BeginUpload(c, files) ==
  /\ calls[c].step = "unused" /\ c = NextCall /\ files # {}
  /\ calls' = [calls EXCEPT ![c] = [step |-> "sending", files |-> files]]
  /\ uploading' = files
  /\ overlap' = (overlap \/ \E other \in Calls : Under(other))
  /\ UNCHANGED <<state, shown, fetching, answers, removing, disturbed>>

Send(c, d) ==
  /\ calls[c].step = "sending" /\ d \in calls[c].files
  /\ Submit(d) \/ Resubmit(d) \/ UNCHANGED state
  /\ calls' = [calls EXCEPT ![c].files = @ \ {d}]
  /\ UNCHANGED <<shown, fetching, answers, removing, overlap, disturbed>>

\* Mutant: the panel is cleared after the first file of a drop.
SendFileClearing(c, d) == Send(c, d) /\ uploading' = {}

\* One file after the other; the server takes it, or has it, or refuses it.
SendFile(c, d) == Send(c, d) /\ uploading' = uploading \ {d}

\* Mutant: the list is not refreshed after an upload.
AllSentSilently(c) ==
  /\ calls[c].step = "sending" /\ calls[c].files = {}
  /\ calls' = [calls EXCEPT ![c].step = "refreshing"]
  /\ UNCHANGED <<state, shown, fetching, answers, uploading, removing, overlap, disturbed>>

AllSent(c) ==
  /\ calls[c].step = "sending" /\ calls[c].files = {}
  /\ Fetch
  /\ calls' = [calls EXCEPT ![c].step = "refreshing"]
  /\ UNCHANGED <<state, shown, answers, uploading, removing, overlap, disturbed>>

\* The await of refresh is over, with an answer or without one.
EndUpload(c) ==
  /\ calls[c].step = "refreshing"
  /\ calls' = [calls EXCEPT ![c].step = "over"]
  /\ uploading' = {}
  /\ UNCHANGED <<state, shown, fetching, answers, removing, overlap, disturbed>>

-----------------------------------------------------------------------------
(* remove: bound, one at a time.  Of a document that is still shown but    *)
(* gone the server knows nothing (404): the catch branch sets the banner,  *)
(* which is left out, and nothing else changes.                            *)

BeginRemove(d) ==
  /\ removing = NoDoc
  /\ shown[d] # "none" /\ state[d] # "deleted"
  /\ removing' = d
  /\ UNCHANGED <<state, shown, fetching, answers, calls, uploading, overlap, disturbed>>

ServerRemoves ==
  /\ removing # NoDoc /\ Remove(removing)
  /\ UNCHANGED listVars

RemoveReturns ==
  /\ removing # NoDoc /\ state[removing] = "deleted"
  /\ Fetch
  /\ removing' = NoDoc
  /\ UNCHANGED <<state, shown, answers, calls, uploading, overlap, disturbed>>

\* The catch branch does not refresh, even if the server did remove it.
RemoveFails ==
  /\ removing # NoDoc
  /\ removing' = NoDoc
  /\ disturbed' = (disturbed \/ state[removing] = "deleted")
  /\ UNCHANGED <<state, shown, fetching, answers, calls, uploading, overlap>>

-----------------------------------------------------------------------------

\* The workers.  A document that is listed as ready may go back to work, or
\* fail, without the panel looking again.
ServerStep(d) ==
  /\ Write(d) \/ Redo(d) \/ Record(d) \/ GiveUp(d)
  /\ disturbed' = (disturbed \/ (state[d] = "written" /\ state'[d] # "ready"))
  /\ UNCHANGED <<shown, fetching, answers, calls, uploading, removing, overlap>>

ListNext ==
  \/ Poll \/ ServeList \/ RefreshFails
  \/ \E i \in 1..Len(answers) : AnswerArrives(i)
  \/ \E c \in Calls : \/ AllSent(c) \/ EndUpload(c)
                      \/ \E files \in SUBSET Docs : BeginUpload(c, files)
                      \/ \E d \in Docs : SendFile(c, d)
  \/ \E d \in Docs : BeginRemove(d) \/ ServerStep(d)
  \/ ServerRemoves \/ RemoveReturns \/ RemoveFails

\* The timer ticks, answers arrive, not every request for the list fails, and
\* ingestion ends as its specification says.  Nothing is assumed of the user.
ListFairness ==
  /\ WF_vars(Poll) /\ SF_vars(ServeList)
  /\ WF_vars(\E i \in 1..Len(answers) : AnswerArrives(i))
  /\ \A d \in Docs : WF_vars((Record(d) \/ GiveUp(d)) /\ ServerStep(d))

ListSpec == ListInit /\ [][ListNext]_vars /\ ListFairness

-----------------------------------------------------------------------------
(* Properties *)

TypeOK ==
  /\ state \in [Docs -> {"absent", "working", "written", "ready", "failed", "deleted"}]
  /\ shown \in [Docs -> {"none", "pending", "ready", "failed"}]
  /\ fetching \in 0..MaxRefreshes
  /\ answers \in Seq([Docs -> {"none", "pending", "ready", "failed"}])
  /\ calls \in [Calls -> [step : CallSteps, files : SUBSET Docs]]
  /\ uploading \subseteq Docs
  /\ removing \in Docs \cup {NoDoc}
  /\ {overlap, disturbed} \subseteq BOOLEAN

Settled ==
  fetching = 0 /\ answers = <<>> /\ removing = NoDoc /\ \A c \in Calls : ~Under(c)

\* When nothing is awaited and the timer is off, the panel shows what the
\* server has (useDocuments.js:26), unless an answer was overtaken or lost, or
\* the server went back on a success: the timer may stop although documents
\* change, because whatever changes them without the timer asks for the list.
ListIsCurrent ==
  Settled /\ ~StillWorking /\ ~disturbed => \A d \in Docs : shown[d] = Listed(d)

\* A file that is still to be sent is on the panel (useDocuments.js:8), as
\* long as no drop began while an upload was running; and then nothing else is.
ListedWhileSending ==
  ~overlap => uploading = UNION {calls[c].files : c \in Calls}

\* The timer does not run for ever, however answers overtake each other and
\* requests fail: ingestion ends, and the panel comes to know it.
PollingEnds == <>[]~StillWorking
=============================================================================
