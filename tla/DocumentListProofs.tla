-------------------------- MODULE DocumentListProofs --------------------------
(* Theorems about DocumentList, for all values of its constants. *)
EXTENDS DocumentList, SequenceTheorems, TLAPS

-----------------------------------------------------------------------------
(* The invariant *)

Call == [step : CallSteps, files : SUBSET Docs]

\* What makes ListedWhileSending inductive: files are left only to a call that
\* is sending, and without an overlap there is one such call at most, so that
\* what a call writes on the panel is never another's.
SendingInv ==
  /\ calls \in [Calls -> Call]
  /\ overlap \in BOOLEAN
  /\ \A c \in Calls : calls[c].step # "sending" => calls[c].files = {}
  /\ ~overlap => \A b, c \in Calls : Under(b) /\ Under(c) => b = c
  /\ ListedWhileSending

\* The files of all calls, when only c may have some.
LEMMA FilesOfOne ==
  ASSUME NEW c \in Calls, NEW f,
         \A b \in Calls \ {c} : f[b].files = {}
  PROVE  UNION {f[b].files : b \in Calls} = f[c].files
  OBVIOUS

\* At first no call was made.
LEMMA InitSending == ListInit => SendingInv
  <1> SUFFICES ASSUME ListInit
               PROVE  SendingInv
    OBVIOUS
  <1>1. calls \in [Calls -> Call] /\ overlap = FALSE
    BY DEF ListInit, Call, CallSteps
  <1>2. \A c \in Calls : calls[c].step = "unused" /\ calls[c].files = {}
    BY DEF ListInit
  <1>3. ListedWhileSending
    BY <1>2 DEF ListInit, ListedWhileSending
  <1>4. QED
    BY <1>1, <1>2, <1>3 DEF SendingInv, Under

\* Without an overlap, only the call under way has files left.
LEMMA OthersAreDone ==
  ASSUME SendingInv, ~overlap, NEW c \in Calls, Under(c)
  PROVE  \A b \in Calls \ {c} : calls[b].files = {} /\ ~Under(b)
  BY DEF SendingInv, Under

\* A call that begins alone writes its files on an empty panel.
LEMMA BeginKeeps ==
  ASSUME SendingInv, NEW c \in Calls, NEW files \in SUBSET Docs, BeginUpload(c, files)
  PROVE  SendingInv'
  <1> DEFINE r == [step |-> "sending", files |-> files]
  <1>1. r \in Call /\ r.step = "sending" /\ r.files = files
    BY DEF Call, CallSteps
  <1>2. calls' = [calls EXCEPT ![c] = r] /\ uploading' = files
    BY DEF BeginUpload
  <1> HIDE DEF r
  <1>3. /\ calls' \in [Calls -> Call] /\ calls'[c] = r
        /\ \A b \in Calls \ {c} : calls'[b] = calls[b]
    BY <1>1, <1>2 DEF SendingInv
  <1>4. overlap' \in BOOLEAN
    BY DEF BeginUpload, SendingInv
  <1>5. \A b \in Calls : calls'[b].step # "sending" => calls'[b].files = {}
    BY <1>1, <1>3 DEF SendingInv
  <1>6. ASSUME ~overlap'
        PROVE  /\ \A b \in Calls \ {c} : ~Under(b)' /\ calls'[b].files = {}
               /\ uploading' = UNION {calls'[b].files : b \in Calls}
    <2>1. \A b \in Calls : ~Under(b)
      BY <1>6 DEF BeginUpload
    <2>2. \A b \in Calls \ {c} : ~Under(b)' /\ calls'[b].files = {}
      BY <1>3, <2>1 DEF Under, SendingInv
    <2>3. UNION {calls'[b].files : b \in Calls} = calls'[c].files
      BY <2>2, FilesOfOne
    <2>4. QED
      BY <1>1, <1>2, <1>3, <2>2, <2>3
  <1>7. QED
    BY <1>3, <1>4, <1>5, <1>6 DEF SendingInv, ListedWhileSending

\* A call that goes on alone takes off the panel what it has sent.
LEMMA OneCallKeeps ==
  ASSUME SendingInv, NEW c \in Calls, Under(c), NEW r \in Call,
         calls' = [calls EXCEPT ![c] = r],
         r.step \in {"sending", "refreshing", "over"},
         r.step # "sending" => r.files = {},
         overlap' = overlap,
         ~overlap => uploading' = r.files
  PROVE  SendingInv'
  <1>1. /\ calls' \in [Calls -> Call] /\ calls'[c] = r
        /\ \A b \in Calls \ {c} : calls'[b] = calls[b]
    BY DEF SendingInv
  <1>2. \A b \in Calls : calls'[b].step # "sending" => calls'[b].files = {}
    BY <1>1 DEF SendingInv
  <1>3. ASSUME ~overlap
        PROVE  /\ \A b \in Calls \ {c} : ~Under(b)' /\ calls'[b].files = {}
               /\ uploading' = UNION {calls'[b].files : b \in Calls}
    <2>1. \A b \in Calls \ {c} : ~Under(b)' /\ calls'[b].files = {}
      BY <1>1, <1>3, OthersAreDone DEF Under
    <2>2. UNION {calls'[b].files : b \in Calls} = calls'[c].files
      BY <2>1, FilesOfOne
    <2>3. QED
      BY <1>1, <1>3, <2>1, <2>2
  <1>4. QED
    BY <1>1, <1>2, <1>3 DEF SendingInv, ListedWhileSending

\* Sending a file, the end of the files and the end of the call.
LEMMA CallStepsKeep ==
  ASSUME SendingInv, NEW c \in Calls,
         (\E d \in Docs : SendFile(c, d)) \/ AllSent(c) \/ EndUpload(c)
  PROVE  SendingInv'
  <1>1. calls[c] \in Call /\ overlap' = overlap /\ Under(c)
    BY DEF SendingInv, SendFile, Send, AllSent, EndUpload, Under
  <1>2. ~overlap => uploading = calls[c].files
    <2>1. ASSUME ~overlap
          PROVE  uploading = calls[c].files
      <3>1. \A b \in Calls \ {c} : calls[b].files = {}
        BY <1>1, <2>1, OthersAreDone
      <3>2. UNION {calls[b].files : b \in Calls} = calls[c].files
        BY <3>1, FilesOfOne
      <3>3. QED
        BY <2>1, <3>2 DEF SendingInv, ListedWhileSending
    <2>2. QED
      BY <2>1
  <1>3. CASE \E d \in Docs : SendFile(c, d)
    <2>1. PICK d \in Docs : SendFile(c, d)
      BY <1>3
    <2> DEFINE r == [calls[c] EXCEPT !.files = @ \ {d}]
    <2>2. r \in Call /\ r.step = "sending" /\ r.files = calls[c].files \ {d}
      BY <1>1, <2>1 DEF Call, SendFile, Send
    <2>3. calls' = [calls EXCEPT ![c] = r] /\ uploading' = uploading \ {d}
      BY <2>1 DEF SendFile, Send
    <2> HIDE DEF r
    <2>4. QED
      BY <1>1, <1>2, <2>2, <2>3, OneCallKeeps
  <1>4. CASE AllSent(c)
    <2> DEFINE r == [calls[c] EXCEPT !.step = "refreshing"]
    <2>1. r \in Call /\ r.step = "refreshing" /\ r.files = {} /\ calls[c].files = {}
      BY <1>1, <1>4 DEF Call, CallSteps, AllSent
    <2>2. calls' = [calls EXCEPT ![c] = r] /\ uploading' = uploading
      BY <1>4 DEF AllSent
    <2> HIDE DEF r
    <2>3. QED
      BY <1>1, <1>2, <2>1, <2>2, OneCallKeeps
  <1>5. CASE EndUpload(c)
    <2> DEFINE r == [calls[c] EXCEPT !.step = "over"]
    <2>1. r \in Call /\ r.step = "over" /\ r.files = {}
      BY <1>1, <1>5 DEF Call, CallSteps, EndUpload, SendingInv
    <2>2. calls' = [calls EXCEPT ![c] = r] /\ uploading' = {}
      BY <1>5 DEF EndUpload
    <2> HIDE DEF r
    <2>3. QED
      BY <1>1, <2>1, <2>2, OneCallKeeps
  <1>6. QED
    BY <1>3, <1>4, <1>5

\* No other step touches the calls or the panel's list of files.
LEMMA SendingStep == SendingInv /\ [ListNext]_vars => SendingInv'
  <1> SUFFICES ASSUME SendingInv, [ListNext]_vars
               PROVE  SendingInv'
    OBVIOUS
  <1>1. ASSUME NEW c \in Calls, NEW files \in SUBSET Docs, BeginUpload(c, files)
        PROVE  SendingInv'
    BY <1>1, BeginKeeps
  <1>2. ASSUME NEW c \in Calls,
               (\E d \in Docs : SendFile(c, d)) \/ AllSent(c) \/ EndUpload(c)
        PROVE  SendingInv'
    BY <1>2, CallStepsKeep
  <1>3. CASE UNCHANGED <<calls, uploading, overlap>>
    BY <1>3 DEF SendingInv, ListedWhileSending, Under
  <1>4. CASE Poll \/ ServeList \/ RefreshFails \/ \E i \in 1..Len(answers) : AnswerArrives(i)
    BY <1>3, <1>4 DEF Poll, ServeList, RefreshFails, AnswerArrives
  <1>5. CASE \E d \in Docs : BeginRemove(d) \/ ServerStep(d)
    BY <1>3, <1>5 DEF BeginRemove, ServerStep
  <1>6. CASE ServerRemoves \/ RemoveReturns \/ RemoveFails
    BY <1>3, <1>6 DEF ServerRemoves, RemoveReturns, RemoveFails, listVars
  <1>7. CASE UNCHANGED vars
    BY <1>3, <1>7 DEF vars, listVars
  <1>8. QED
    BY <1>1, <1>2, <1>4, <1>5, <1>6, <1>7 DEF ListNext

-----------------------------------------------------------------------------
(* Types *)

Shown == [Docs -> {"none", "pending", "ready", "failed"}]

\* Every status is listed as one of the four.
LEMMA ListedIsShown == TypeOK => [d \in Docs |-> Listed(d)] \in Shown
  BY DEF TypeOK, Listed, Shown

\* A step of one document's lifecycle keeps the states well typed.
LEMMA BecomeTypes ==
  ASSUME TypeOK, NEW d \in Docs, NEW from,
         NEW to \in {"absent", "working", "written", "ready", "failed", "deleted"},
         Become(d, from, to)
  PROVE  state' \in [Docs -> {"absent", "working", "written", "ready", "failed", "deleted"}]
  <1>1. /\ state' = [state EXCEPT ![d] = to]
        /\ state \in [Docs -> {"absent", "working", "written", "ready", "failed", "deleted"}]
    BY DEF TypeOK, Become
  <1>2. QED
    BY <1>1

\* What is left of the answers when one arrives.
LEMMA AnswersLeft ==
  ASSUME NEW S, answers \in Seq(S), NEW i \in 1..Len(answers)
  PROVE  LET left == Seqs!RemoveAt(answers, i) IN
         /\ answers[i] \in S
         /\ left \in Seq(S) /\ Len(left) = Len(answers) - 1
         /\ i = 1 /\ left # <<>> => left[Len(left)] = answers[Len(answers)]
  <1> DEFINE before == SubSeq(answers, 1, i - 1)
             after == SubSeq(answers, i + 1, Len(answers))
  <1>1. /\ before \in Seq(S) /\ Len(before) = i - 1
        /\ after \in Seq(S) /\ Len(after) = Len(answers) - i
        /\ \A k \in 1..Len(after) : after[k] = answers[i + k]
    BY SubSeqProperties
  <1>2. Seqs!RemoveAt(answers, i) = before \o after
    BY DEF Seqs!RemoveAt
  <1> HIDE DEF before, after
  <1>3. /\ before \o after \in Seq(S) /\ Len(before \o after) = Len(answers) - 1
        /\ i = 1 /\ before \o after # <<>> =>
             (before \o after)[Len(answers) - 1] = after[Len(answers) - 1]
    <2>0. before \in Seq(S) /\ after \in Seq(S) /\ Len(answers) \in Nat
      BY <1>1
    <2>1. /\ before \o after \in Seq(S) /\ Len(before \o after) = Len(before) + Len(after)
          /\ \A k \in 1..Len(before) + Len(after) : (before \o after)[k] =
               IF k <= Len(before) THEN before[k] ELSE after[k - Len(before)]
      BY <2>0, ConcatProperties, Zenon
    <2>2. /\ Len(before \o after) = Len(answers) - 1
          /\ before \o after # <<>> => Len(answers) - 1 \in 1..Len(answers) - 1
      BY <1>1, <2>0, <2>1
    <2>3. QED
      BY <1>1, <2>0, <2>1, <2>2
  <1>4. i = 1 /\ before \o after # <<>> => Len(answers) - 1 \in 1..Len(after)
    BY <1>1, <1>3
  <1>5. QED
    BY <1>1, <1>2, <1>3, <1>4

\* At first nothing is shown.
LEMMA InitTypes == ListInit => TypeOK
  <1> SUFFICES ASSUME ListInit
               PROVE  TypeOK
    OBVIOUS
  <1>1. state \in [Docs -> {"absent", "working", "written", "ready", "failed", "deleted"}]
    BY DEF ListInit, Init
  <1>2. /\ shown \in Shown /\ answers \in Seq(Shown) /\ fetching \in 0..MaxRefreshes
        /\ calls \in [Calls -> [step : CallSteps, files : SUBSET Docs]]
    BY ListAssumption DEF ListInit, NoDocuments, CallSteps, Shown
  <1>3. QED
    BY <1>1, <1>2 DEF ListInit, TypeOK, Shown

\* Every step keeps the types.
LEMMA NextTypes == TypeOK /\ [ListNext]_vars => TypeOK'
  <1> SUFFICES ASSUME TypeOK, [ListNext]_vars
               PROVE  TypeOK'
    OBVIOUS
  <1> USE ListAssumption
  <1>1. CASE Poll
    BY <1>1 DEF Poll, Fetch, Awaited, TypeOK
  <1>2. CASE ServeList
    <2>1. [d \in Docs |-> Listed(d)] \in Shown
      BY ListedIsShown
    <2>2. answers' \in Seq(Shown)
      BY <1>2, <2>1 DEF ServeList, TypeOK, Shown
    <2>3. QED
      BY <1>2, <2>2 DEF ServeList, TypeOK, Shown
  <1>3. CASE RefreshFails
    BY <1>3 DEF RefreshFails, TypeOK
  <1>4. ASSUME NEW i \in 1..Len(answers), AnswerArrives(i)
        PROVE  TypeOK'
    <2>1. shown' \in Shown /\ answers' \in Seq(Shown)
      BY <1>4, AnswersLeft DEF AnswerArrives, TypeOK, Shown
    <2>2. QED
      BY <1>4, <2>1 DEF AnswerArrives, TypeOK, Shown
  <1>5. ASSUME NEW c \in Calls, AllSent(c)
        PROVE  TypeOK'
    BY <1>5 DEF AllSent, Fetch, Awaited, TypeOK, CallSteps
  <1>6. ASSUME NEW c \in Calls, EndUpload(c)
        PROVE  TypeOK'
    BY <1>6 DEF EndUpload, TypeOK, CallSteps
  <1>7. ASSUME NEW c \in Calls, NEW files \in SUBSET Docs, BeginUpload(c, files)
        PROVE  TypeOK'
    BY <1>7 DEF BeginUpload, TypeOK, CallSteps
  <1>8. ASSUME NEW c \in Calls, NEW d \in Docs, SendFile(c, d)
        PROVE  TypeOK'
    <2>1. state' \in [Docs -> {"absent", "working", "written", "ready", "failed", "deleted"}]
      BY <1>8, BecomeTypes DEF SendFile, Send, Submit, Resubmit, TypeOK
    <2>2. QED
      BY <1>8, <2>1 DEF SendFile, Send, TypeOK, CallSteps
  <1>9. ASSUME NEW d \in Docs, BeginRemove(d)
        PROVE  TypeOK'
    BY <1>9 DEF BeginRemove, TypeOK
  <1>10. ASSUME NEW d \in Docs, ServerStep(d)
         PROVE  TypeOK'
    <2>1. state' \in [Docs -> {"absent", "working", "written", "ready", "failed", "deleted"}]
      BY <1>10, BecomeTypes DEF ServerStep, Write, Redo, Record, GiveUp
    <2>2. QED
      BY <1>10, <2>1 DEF ServerStep, TypeOK
  <1>11. CASE ServerRemoves
    <2>1. state' \in [Docs -> {"absent", "working", "written", "ready", "failed", "deleted"}]
      BY <1>11, BecomeTypes DEF ServerRemoves, Remove, TypeOK
    <2>2. QED
      BY <1>11, <2>1 DEF ServerRemoves, listVars, TypeOK
  <1>12. CASE RemoveReturns
    BY <1>12 DEF RemoveReturns, Fetch, Awaited, TypeOK
  <1>13. CASE RemoveFails
    BY <1>13 DEF RemoveFails, TypeOK
  <1>14. CASE UNCHANGED vars
    BY <1>14 DEF vars, listVars, TypeOK
  <1>15. QED
    BY <1>1, <1>2, <1>3, <1>4, <1>5, <1>6, <1>7, <1>8, <1>9, <1>10, <1>11, <1>12,
       <1>13, <1>14 DEF ListNext

-----------------------------------------------------------------------------
(* The panel is current *)

\* What the panel will show when the last answer has arrived.
Latest == IF answers = <<>> THEN shown ELSE answers[Len(answers)]

\* Nobody will ask for the list: no refresh is to be served, no call is sending
\* files, no document is being removed that is gone, and the timer will be off.
NobodyAsks ==
  /\ fetching = 0
  /\ \A c \in Calls : calls[c].step # "sending"
  /\ removing = NoDoc \/ state[removing] # "deleted"
  /\ \A d \in Docs : Latest[d] # "pending"

\* Then what will be shown is what the server has.
CurrentInv == TypeOK /\ (~disturbed /\ NobodyAsks => \A d \in Docs : Latest[d] = Listed(d))

\* A document that changes while nobody asks and nothing is disturbed is listed
\* as before: there is no document at work.
LEMMA QuietChange ==
  ASSUME CurrentInv, ~disturbed, NobodyAsks, NEW d \in Docs, ServerStep(d), ~disturbed'
  PROVE  \A e \in Docs : Listed(e)' = Listed(e)
  <1>1. \A e \in Docs : state[e] # "working"
    BY DEF CurrentInv, NobodyAsks, Listed
  <1>2. CASE Record(d)
    BY <1>2 DEF Record, Become, Listed, CurrentInv, TypeOK
  <1>3. CASE Write(d) \/ Redo(d) \/ GiveUp(d)
    BY <1>1, <1>3 DEF Write, Redo, GiveUp, Become, ServerStep, CurrentInv, TypeOK
  <1>4. QED
    BY <1>2, <1>3 DEF ServerStep

\* CurrentInv is inductive.
LEMMA NextCurrent == CurrentInv /\ [ListNext]_vars => CurrentInv'
  <1> SUFFICES ASSUME CurrentInv, [ListNext]_vars, ~disturbed', NobodyAsks'
               PROVE  \A d \in Docs : Latest'[d] = Listed(d)'
    BY NextTypes DEF CurrentInv
  <1>0. TypeOK /\ TypeOK'
    BY NextTypes DEF CurrentInv
  <1>1. CASE Poll \/ RemoveReturns \/ \E c \in Calls : AllSent(c)
    BY <1>0, <1>1 DEF Poll, RemoveReturns, AllSent, Fetch, NobodyAsks, TypeOK
  <1>2. CASE ServeList
    <2> DEFINE now == [d \in Docs |-> Listed(d)]
    <2>1. answers' = Append(answers, now) /\ \A d \in Docs : now[d] = Listed(d)
      BY <1>2 DEF ServeList
    <2> HIDE DEF now
    <2>2. Latest' = now
      BY <1>0, <2>1 DEF Latest, TypeOK
    <2>3. \A d \in Docs : Listed(d)' = Listed(d)
      BY <1>2 DEF ServeList, Listed
    <2>4. QED
      BY <2>1, <2>2, <2>3
  <1>3. CASE RefreshFails
    BY <1>0, <1>3 DEF RefreshFails, NobodyAsks, Latest, StillWorking, TypeOK
  <1>4. ASSUME NEW i \in 1..Len(answers), AnswerArrives(i)
        PROVE  \A d \in Docs : Latest'[d] = Listed(d)'
    <2>1. /\ i = 1 /\ shown' = answers[1] /\ answers' = Seqs!RemoveAt(answers, 1)
          /\ ~disturbed /\ UNCHANGED <<state, fetching, calls, removing>>
      BY <1>4 DEF AnswerArrives
    <2>2. answers' = <<>> => Len(answers) = 1
      <3>1. answers \in Seq(Shown) /\ Len(answers) \in Nat
        BY <1>0 DEF TypeOK, Shown
      <3>2. Len(answers') = Len(answers) - 1
        BY <2>1, <3>1, AnswersLeft
      <3>3. QED
        BY <3>1, <3>2
    <2>3. Latest' = Latest
      <3>1. CASE answers' = <<>>
        BY <2>1, <2>2, <3>1 DEF Latest
      <3>2. CASE answers' # <<>>
        BY <1>0, <2>1, <3>2, AnswersLeft DEF Latest, TypeOK
      <3>3. QED
        BY <3>1, <3>2
    <2>4. QED
      BY <2>1, <2>3 DEF CurrentInv, NobodyAsks, Listed
  <1>5. CASE \E c \in Calls : \E files \in SUBSET Docs : BeginUpload(c, files)
    BY <1>0, <1>5 DEF BeginUpload, NobodyAsks, TypeOK
  <1>6. CASE \E c \in Calls : \E d \in Docs : SendFile(c, d)
    BY <1>0, <1>6 DEF SendFile, Send, NobodyAsks, TypeOK
  <1>7. CASE \E c \in Calls : EndUpload(c)
    BY <1>0, <1>7 DEF EndUpload, NobodyAsks, CurrentInv, Latest, Listed, TypeOK
  <1>8. CASE \E d \in Docs : BeginRemove(d)
    BY <1>0, <1>8 DEF BeginRemove, NobodyAsks, CurrentInv, Latest, Listed, TypeOK
  <1>9. ASSUME NEW d \in Docs, ServerStep(d)
        PROVE  \A e \in Docs : Latest'[e] = Listed(e)'
    <2>1. ~disturbed /\ Latest' = Latest /\ UNCHANGED <<fetching, calls, removing>>
      BY <1>9 DEF ServerStep, Latest
    <2>2. removing = NoDoc \/ state[removing] # "deleted"
      <3>1. removing # NoDoc /\ state[removing] = "deleted" => state'[removing] = "deleted"
        <4>1. removing = NoDoc \/ removing \in Docs
          BY <1>0 DEF TypeOK
        <4>2. \A e \in Docs : state[e] = "deleted" => state'[e] = "deleted"
          BY <1>0, <1>9 DEF ServerStep, Write, Redo, Record, GiveUp, Become, TypeOK
        <4>3. QED
          BY <4>1, <4>2
      <3>2. QED
        BY <2>1, <3>1 DEF NobodyAsks
    <2>3. NobodyAsks
      BY <2>1, <2>2 DEF NobodyAsks
    <2>4. QED
      BY <1>9, <2>1, <2>3, QuietChange DEF CurrentInv
  <1>10. CASE ServerRemoves
    BY <1>0, <1>10 DEF ServerRemoves, listVars, Remove, Become, NobodyAsks, TypeOK
  <1>11. CASE RemoveFails
    BY <1>0, <1>11 DEF RemoveFails, NobodyAsks, CurrentInv, Latest, Listed, TypeOK
  <1>12. CASE UNCHANGED vars
    BY <1>12 DEF vars, listVars, NobodyAsks, CurrentInv, Latest, Listed
  <1>13. QED
    BY <1>1, <1>2, <1>3, <1>4, <1>5, <1>6, <1>7, <1>8, <1>9, <1>10, <1>11, <1>12
       DEF ListNext

-----------------------------------------------------------------------------
(* Theorems *)

\* The list, the answers and the calls are well typed at all times.
THEOREM TypeCorrect == ListSpec => []TypeOK
  BY InitTypes, NextTypes, PTL DEF ListSpec

\* When nothing is awaited and the timer is off the panel shows what the server
\* has, unless an answer was overtaken or lost, or a success undone: for any
\* number of documents, calls and refreshes (ListIsCurrent).
THEOREM ListIsCurrentAlways == ListSpec => []ListIsCurrent
  <1>1. ListInit => CurrentInv
    BY InitTypes DEF ListInit, CurrentInv, NobodyAsks
  <1>2. CurrentInv => ListIsCurrent
    BY DEF CurrentInv, ListIsCurrent, NobodyAsks, Settled, StillWorking, Under, Latest
  <1>3. QED
    BY <1>1, <1>2, NextCurrent, PTL DEF ListSpec

\* A file that is still to be sent is on the panel, and nothing else is, as
\* long as no drop began while an upload was running: for any number of
\* documents, calls and refreshes.
THEOREM ListedWhileSendingAlways == ListSpec => []ListedWhileSending
  <1>1. SendingInv => ListedWhileSending
    BY DEF SendingInv
  <1>2. QED
    BY InitSending, SendingStep, <1>1, PTL DEF ListSpec
=============================================================================
