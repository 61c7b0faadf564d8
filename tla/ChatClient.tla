----------------------------- MODULE ChatClient -----------------------------
(***************************************************************************)
(* The browser's side of a chat (frontend/src/hooks/useChat.js,            *)
(* api/client.js), against the server as ChatTurns promises it to be.      *)
(*                                                                         *)
(* One tab.  What a handler of the browser does between two awaits is one  *)
(* action.  The stream is read in chunks that may split a frame: a frame   *)
(* is two halves, and `taken` counts the halves read.  The sidebar's list  *)
(* is refreshed in one step.  The error banner is left out.                *)
(***************************************************************************)
EXTENDS ChatTurns, Orders

CONSTANT MaxLoads \* bound: answers to listMessages awaited at a time

ASSUME ClientAssumption == Turns \subseteq Nat /\ MaxLoads \in Nat \ {0}

VARIABLES
  list,      \* the sessions in the sidebar
  active,    \* activeId
  shown,     \* messages
  asking,    \* the ask in progress: its turn, and how far it is
  taken,     \* taken[t]: half frames read of the stream of turn t
  loads,     \* calls of listMessages not answered yet, in the order made
  op,        \* startSession or removeSession in progress
  disturbed  \* history: the user acted in the middle of something, a load of
             \* messages failed, or the tab lost a turn that still runs

browserVars == <<list, active, shown, asking, taken, loads, op, disturbed>>
vars == <<turnVars, browserVars>>

-----------------------------------------------------------------------------

Bubble == [turn : Turns, role : {"user", "assistant"}, text : Nat, streaming : BOOLEAN]
Load == [session : Sessions, served : BOOLEAN, messages : Seq(Bubble)]
Unserved(s) == [session |-> s, served |-> FALSE, messages |-> <<>>]

pending == asking.step # "none"
NotAsking == [step |-> "none", turn |-> 0, failed |-> FALSE]
NoOp == [step |-> "none", session |-> NoSession, ours |-> FALSE]

\* What the sequence of bubbles becomes without the unfinished one.
WithoutStreaming(messages) ==
  Picked(messages, {i \in 1..Len(messages) : ~messages[i].streaming})

\* Among the events of turn t, those at some places.
Tokens(t, places) == Cardinality({i \in places : events[t][i] = "token"})
Holds(t, places, event) == \E i \in places : events[t][i] = event
Sent(t) == 1..Len(events[t])
TokensOf(t) == Tokens(t, Sent(t))

\* GET /messages: the messages of a session, in turns.
Question(t) == [turn |-> t, role |-> "user", text |-> 0, streaming |-> FALSE]
Answer(t) == [turn |-> t, role |-> "assistant", text |-> TokensOf(t), streaming |-> FALSE]
Stored(s) ==
  LET asked == Ascending({t \in Turns : of[t] = s /\ kept[t] # "nothing"})
      turnsOf(t) == IF kept[t] = "answer" THEN <<Question(t), Answer(t)>> ELSE <<Question(t)>>
  IN  FlattenSeq([i \in 1..Len(asked) |-> turnsOf(asked[i])])

Served(s) == [session |-> s, served |-> TRUE, messages |-> Stored(s)]

ClientInit ==
  /\ TurnInit
  /\ list = {}
  /\ active = NoSession
  /\ shown = <<>>
  /\ asking = NotAsking
  /\ taken = [t \in Turns |-> 0]
  /\ loads = <<>>
  /\ op = NoOp
  /\ disturbed = FALSE

-----------------------------------------------------------------------------
(* Choosing a session *)

\* Mutant: messages are loaded only if none are shown.
SetActiveCached(s) ==
  /\ active' = s
  /\ IF shown # <<>> \/ s \in {active, NoSession} THEN UNCHANGED <<shown, loads>>
     ELSE /\ Len(loads) < MaxLoads
          /\ loads' = Append(loads, Unserved(s))
          /\ UNCHANGED shown
  /\ UNCHANGED disturbed

\* setActiveId and the effect it triggers: messages are loaded, or cleared.
\* Nothing cancels a load that is still awaited.
SetActive(s) ==
  /\ active' = s
  /\ IF s = active THEN UNCHANGED <<shown, loads, disturbed>>
     ELSE IF s = NoSession
     THEN /\ shown' = <<>>
          /\ disturbed' = (disturbed \/ pending \/ loads # <<>>)
          /\ UNCHANGED loads
     ELSE /\ Len(loads) < MaxLoads
          /\ loads' = Append(loads, Unserved(s))
          /\ disturbed' = (disturbed \/ pending \/ loads # <<>>)
          /\ UNCHANGED shown

Select(s) ==
  /\ s \in list
  /\ SetActive(s)
  /\ UNCHANGED <<turnVars, list, asking, taken, op>>

\* The server answers a load, or fails: 404, 500, or no network.
ServeLoad(i) ==
  /\ ~loads[i].served /\ session[loads[i].session] = "open"
  /\ loads' = [loads EXCEPT ![i] = Served(@.session)]
  /\ UNCHANGED <<turnVars, list, active, shown, asking, taken, op, disturbed>>

\* Answers arrive in any order, and each replaces what is shown.
LoadArrives(i) ==
  /\ loads[i].served
  /\ shown' = loads[i].messages
  /\ loads' = RemoveAt(loads, i)
  /\ UNCHANGED <<turnVars, list, active, asking, taken, op, disturbed>>

LoadFails(i) ==
  /\ loads' = RemoveAt(loads, i)
  /\ disturbed' = TRUE
  /\ UNCHANGED <<turnVars, list, active, shown, asking, taken, op>>

-----------------------------------------------------------------------------
(* startSession and removeSession: bound, one at a time *)

\* loadSessions sets the list before either goes on.
Listed == {s \in Sessions : session[s] = "open"}

\* Ids not used yet are interchangeable: one is chosen.
StartSession ==
  /\ op = NoOp
  /\ \E s \in Sessions : session[s] = "absent"
  /\ LET s == CHOOSE new \in Sessions : session[new] = "absent" IN
       /\ OpenSession(s)
       /\ op' = [step |-> "created", session |-> s, ours |-> FALSE]
  /\ UNCHANGED <<list, active, shown, asking, taken, loads, disturbed>>

\* `ours` is what the closure of this render knows of activeId.
RemoveSession(s) ==
  /\ op = NoOp /\ s \in list
  /\ op' = [step |-> "removing", session |-> s, ours |-> s = active]
  /\ UNCHANGED <<turnVars, list, active, shown, asking, taken, loads, disturbed>>

ServerRemoves ==
  /\ op.step = "removing"
  /\ CloseSession(op.session)
  /\ op' = [op EXCEPT !.step = "removed"]
  /\ UNCHANGED <<list, active, shown, asking, taken, loads, disturbed>>

OpEnds ==
  /\ op.step \in {"created", "removed"}
  /\ op' = NoOp
  /\ list' = Listed
  /\ \/ op.step = "created" /\ SetActive(op.session)
     \/ op.step = "removed" /\ op.ours /\ Listed = {} /\ SetActive(NoSession)
     \/ op.step = "removed" /\ op.ours /\ \E s \in Listed : SetActive(s)
     \/ op.step = "removed" /\ ~op.ours /\ SetActive(active)
  /\ UNCHANGED <<turnVars, asking, taken>>

\* Mutant: the failed operation is not cleared.
OpFailsStuck ==
  /\ op # NoOp
  /\ op' = [op EXCEPT !.step = "failed"]
  /\ UNCHANGED <<turnVars, list, active, shown, asking, taken, loads, disturbed>>

\* One of the requests fails; what was done stays.
OpFails ==
  /\ op # NoOp
  /\ op' = NoOp
  /\ UNCHANGED <<turnVars, list, active, shown, asking, taken, loads, disturbed>>

-----------------------------------------------------------------------------
(* ask *)

\* The composer is disabled while pending.
AskQuestion(t) ==
  /\ ~pending /\ active # NoSession
  /\ \A u \in Turns : u < t => phase[u] # "idle"
  /\ Ask(t, active, "stream")
  /\ asking' = [step |-> "streaming", turn |-> t, failed |-> FALSE]
  /\ shown' = shown \o <<Question(t), [Answer(t) EXCEPT !.text = 0, !.streaming = TRUE]>>
  /\ disturbed' = (disturbed \/ loads # <<>>)
  /\ UNCHANGED <<list, active, taken, loads, op>>

\* Mutant: only frames that lie within one chunk are parsed.
CompletedInChunk(t, k) == (((taken[t] + 1) \div 2) + 1)..((taken[t] + k) \div 2)

\* The frames that the next k halves complete; the rest stays in the buffer.
Completed(t, k) == ((taken[t] \div 2) + 1)..((taken[t] + k) \div 2)

\* One chunk: k halves.
ReadChunk(k) ==
  LET t == asking.turn
      frames == Completed(t, k)
      fill(b) == IF b.turn = t /\ b.streaming
                 THEN [b EXCEPT !.text = @ + Tokens(t, frames),
                                !.streaming = ~Holds(t, frames, "done")]
                 ELSE b IN
  /\ asking.step = "streaming"
  /\ taken[t] + k <= 2 * Len(events[t])
  /\ taken' = [taken EXCEPT ![t] = @ + k]
  /\ shown' = [i \in 1..Len(shown) |-> fill(shown[i])]
  /\ asking' = [asking EXCEPT !.failed = @ \/ Holds(t, frames, "error")]
  /\ UNCHANGED <<turnVars, list, active, loads, op, disturbed>>

DoneRead(t) ==
  /\ taken[t] > 0 /\ taken[t] = 2 * Len(events[t])
  /\ Last(events[t]) = "done"

\* ask returns, and with it the reader and its buffer.
Return ==
  /\ asking' = NotAsking
  /\ taken' = [taken EXCEPT ![asking.turn] = IF DoneRead(asking.turn) THEN @ ELSE 0]

\* The response is over and read to its end.
StreamEnds ==
  LET t == asking.turn IN
  /\ asking.step = "streaming"
  /\ phase[t] = "over" /\ taken[t] = 2 * Len(events[t])
  /\ asking' = [asking EXCEPT !.step = "listing"]
  /\ shown' = IF asking.failed THEN WithoutStreaming(shown) ELSE shown
  /\ UNCHANGED <<turnVars, list, active, taken, loads, op, disturbed>>

\* Mutant: pending is not reset.
AskRejectedPending ==
  /\ pending
  /\ shown' = WithoutStreaming(shown)
  /\ UNCHANGED <<turnVars, list, active, asking, taken, loads, op, disturbed>>

\* fetch, read or loadSessions rejects: an HTTP error, a cut connection, or
\* the network, which may fail at any time and loses what was not read.
AskRejected ==
  /\ pending
  /\ Return
  /\ shown' = WithoutStreaming(shown)
  /\ disturbed' = (disturbed \/ phase[asking.turn] \notin Ended)
  /\ UNCHANGED <<turnVars, list, active, loads, op>>

AskEnds ==
  /\ asking.step = "listing"
  /\ list' = Listed
  /\ Return
  /\ UNCHANGED <<turnVars, active, shown, loads, op, disturbed>>

-----------------------------------------------------------------------------

\* The server goes on with a turn.
ServerStep ==
  /\ \E t \in Turns : Serve(t) \/ Break({t})
  /\ UNCHANGED browserVars

Read == \E k \in 1..2 * (MaxPieces + 2) : ReadChunk(k)
Settle == StreamEnds \/ AskEnds \/ (phase[asking.turn] \in {"refused", "cut"} /\ AskRejected)

ClientNext ==
  \/ \E s \in Sessions : Select(s) \/ RemoveSession(s)
  \/ \E i \in 1..Len(loads) : ServeLoad(i) \/ LoadArrives(i) \/ LoadFails(i)
  \/ StartSession \/ ServerRemoves \/ OpEnds \/ OpFails
  \/ \E t \in Turns : AskQuestion(t)
  \/ Read \/ StreamEnds \/ AskRejected \/ AskEnds
  \/ ServerStep

\* The server ends its turns, what it sent arrives, and promises are settled.
\* Nothing is assumed of the user.
ClientSpec ==
  /\ ClientInit /\ [][ClientNext]_vars
  /\ WF_vars(Read) /\ WF_vars(pending /\ Settle)
  /\ \A t \in Turns : WF_vars((Serve(t) \/ Break({t})) /\ UNCHANGED browserVars)

-----------------------------------------------------------------------------
(* Properties *)

TypeOK ==
  /\ list \subseteq Sessions
  /\ active \in Sessions \cup {NoSession}
  /\ shown \in Seq(Bubble)
  /\ asking \in [step : {"none", "streaming", "listing"}, turn : Turns \cup {0},
                 failed : BOOLEAN]
  /\ taken \in [Turns -> Nat]
  /\ loads \in Seq(Load)
  /\ op \in [step : {"none", "created", "removing", "removed"},
             session : Sessions \cup {NoSession}, ours : BOOLEAN]
  /\ disturbed \in BOOLEAN

\* A bubble says truly whether its answer is finished: however the stream is
\* cut into chunks, and whatever is loaded meanwhile, one that is not marked as
\* streaming holds the whole answer, never half a reply presented as finished
\* (useChat.js:126, client.js:48), and when the composer is free again none
\* waits for tokens that nobody will send.
FinishedIsWhole ==
  \A i \in 1..Len(shown) :
    /\ shown[i].role = "assistant" /\ ~shown[i].streaming
       => /\ shown[i].text = TokensOf(shown[i].turn)
          /\ ~Holds(shown[i].turn, Sent(shown[i].turn), "error")
    /\ ~pending => ~shown[i].streaming

Shows(t, role) == \E i \in 1..Len(shown) : shown[i].turn = t /\ shown[i].role = role

\* As long as the user did one thing at a time and neither a load of messages
\* nor the network failed, what is shown once everything has settled belongs to
\* the active session and agrees with what the server stored: its questions,
\* only stored answers, and every answer whose end was read.
SettledViewIsStored ==
  ~disturbed /\ ~pending /\ loads = <<>> /\ op = NoOp
    /\ active # NoSession /\ session[active] = "open"
    => /\ \A i \in 1..Len(shown) : of[shown[i].turn] = active
       /\ \A t \in {u \in Turns : of[u] = active /\ phase[u] \in Ended} :
            /\ kept[t] # "nothing" => Shows(t, "user")
            /\ Shows(t, "assistant") => kept[t] = "answer"
            /\ DoneRead(t) => Shows(t, "assistant")

\* The composer never stays disabled: an ask ends, however the server and the
\* network behave, because the server ends every turn.
PendingEnds == pending ~> ~pending
=============================================================================
