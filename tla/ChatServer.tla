----------------------------- MODULE ChatServer -----------------------------
(***************************************************************************)
(* The chat API (api/routes/chat.py, stores/chat_repository.py,            *)
(* graph/pipeline.py, generation/llm.py).                                  *)
(*                                                                         *)
(* One action is one statement, or what a generator does between two       *)
(* yields.  Handlers of concurrent turns and of session requests           *)
(* interleave between any two of them; no row is locked.  `created_at` is  *)
(* now(), the time at which the transaction of the INSERT *began*, and     *)
(* messages are ordered by it, so which statement opens a transaction      *)
(* matters: the model stamps every transaction.                            *)
(*                                                                         *)
(* Left out: what questions, answers and citations say (Retrieval has      *)
(* that), and the branch without hits, which is an answer of one piece     *)
(* that cannot fail.                                                       *)
(***************************************************************************)
EXTENDS Naturals, Sequences, FiniteSetsExt

CONSTANTS
  Sessions,     \* chat sessions
  Turns,        \* requests to /query and /query/stream
  MaxPieces,    \* bound: pieces the language model emits
  HistoryTurns, \* CHAT_HISTORY_TURNS
  NoSession     \* "asked nowhere yet"

ASSUME ServerAssumption ==
  NoSession \notin Sessions /\ {MaxPieces, HistoryTurns} \subseteq Nat \ {0}

VARIABLES
  chat,  \* chat[s]: the row of session s: absent, untitled, titled, deleted
  rows,  \* rows[s]: its messages
  turn,  \* turn[t]: the handler of request t, and what it holds
  sent,  \* sent[t]: the events its generator has yielded
  clock  \* the last transaction that began

vars == <<chat, rows, turn, sent, clock>>

-----------------------------------------------------------------------------

Message == [turn : Turns, role : {"user", "assistant"}, at : Nat]
Open(s) == chat[s] \in {"untitled", "titled"}

Closed == {"idle", "over", "refused", "cut"}
Steps == {"arrived", "loaded", "heard", "asked", "answered", "streaming",
          "drained", "reloaded", "stored", "replying"}
Handler == [pc : Closed \cup Steps, session : Sessions \cup {NoSession},
            kind : {"query", "stream"}, began : Nat, untitled : BOOLEAN,
            history : SUBSET Message]
InFlight(t) == turn[t].pc \in Steps
Now == clock + 1
NoTransaction == 0

Init ==
  /\ chat = [s \in Sessions |-> "absent"]
  /\ rows = [s \in Sessions |-> {}]
  /\ turn = [t \in Turns |-> [pc |-> "idle", session |-> NoSession, kind |-> "query",
       began |-> NoTransaction, untitled |-> FALSE, history |-> {}]]
  /\ sent = [t \in Turns |-> <<>>]
  /\ clock = 0

At(t, pc) == turn[t].pc = pc
Goto(t, pc) == turn' = [turn EXCEPT ![t].pc = pc]
\* The handler returns: what it held is gone.
Finish(t, pc) == turn' = [turn EXCEPT ![t] =
  [@ EXCEPT !.pc = pc, !.began = NoTransaction, !.untitled = FALSE, !.history = {}]]
Yield(t, event) == sent' = [sent EXCEPT ![t] = Append(@, event)]
HasSent(t, event) == \E i \in 1..Len(sent[t]) : sent[t][i] = event

-----------------------------------------------------------------------------
(* Sessions *)

\* Mutant: no default for a missing title.
CreateSessionUnnamed(s) ==
  /\ chat[s] = "absent"
  /\ \E title \in {"null", "titled"} : chat' = [chat EXCEPT ![s] = title]
  /\ UNCHANGED <<rows, turn, sent, clock>>

CreateSession(s) ==
  /\ chat[s] = "absent"
  /\ \E title \in {"untitled", "titled"} : chat' = [chat EXCEPT ![s] = title]
  /\ UNCHANGED <<rows, turn, sent, clock>>

\* The messages go by cascade.
DeleteSession(s) ==
  /\ Open(s)
  /\ chat' = [chat EXCEPT ![s] = "deleted"]
  /\ rows' = [rows EXCEPT ![s] = {}]
  /\ UNCHANGED <<turn, sent, clock>>

-----------------------------------------------------------------------------
(* A turn, up to the stored question *)

\* get_current_user runs the first statement of the request's session.
Arrive(t, s, kind) ==
  /\ At(t, "idle")
  /\ turn' = [turn EXCEPT ![t] =
       [@ EXCEPT !.pc = "arrived", !.session = s, !.kind = kind, !.began = Now]]
  /\ clock' = Now
  /\ UNCHANGED <<chat, rows, sent>>

LoadSession(t) ==
  /\ At(t, "arrived")
  /\ LET s == turn[t].session IN
       IF Open(s)
       THEN turn' = [turn EXCEPT ![t] =
              [@ EXCEPT !.pc = "loaded", !.untitled = chat[s] = "untitled"]]
       ELSE Finish(t, "refused")
  /\ UNCHANGED <<chat, rows, sent, clock>>

Later(M, m) == {n \in M : n.at > m.at}
RecentHistory(s) ==
  {m \in rows[s] : Cardinality(Later(rows[s], m)) < 2 * HistoryTurns}

\* Mutant: the history is read when the question is already in it.
ReadHistoryWithQuestion(t) ==
  /\ At(t, "loaded")
  /\ turn' = [turn EXCEPT ![t] = [@ EXCEPT !.pc = "heard", !.untitled = FALSE,
       !.history = RecentHistory(turn[t].session)
         \cup {[turn |-> t, role |-> "user", at |-> turn[t].began]}]]
  /\ UNCHANGED <<chat, rows, sent, clock>>

\* Title and history are as loaded: two first questions may both rename.
ReadHistory(t) ==
  /\ At(t, "loaded")
  /\ turn' = [turn EXCEPT ![t] =
       [@ EXCEPT !.pc = "heard", !.history = RecentHistory(turn[t].session),
                 !.untitled = turn[t].untitled /\ RecentHistory(turn[t].session) = {}]]
  /\ UNCHANGED <<chat, rows, sent, clock>>

\* rename_session commits; the next statement begins a transaction.  If the
\* session was deleted meanwhile its UPDATE matches no row: a 500.
Rename(t) ==
  /\ At(t, "heard") /\ turn[t].untitled
  /\ IF Open(turn[t].session)
     THEN /\ chat' = [chat EXCEPT ![turn[t].session] = "titled"]
          /\ turn' = [turn EXCEPT ![t] =
               [@ EXCEPT !.untitled = FALSE, !.began = NoTransaction]]
     ELSE Finish(t, "refused") /\ UNCHANGED chat
  /\ UNCHANGED <<rows, sent, clock>>

Own(t) == IF turn[t].began = NoTransaction THEN clock + 1 ELSE turn[t].began

\* The question is inserted; `next` is the transaction that follows.
InsertQuestion(t, next) ==
  /\ At(t, "heard") /\ ~turn[t].untitled
  /\ IF Open(turn[t].session)
     THEN /\ rows' = [rows EXCEPT ![turn[t].session] =
               @ \cup {[turn |-> t, role |-> "user", at |-> Own(t)]}]
          /\ turn' = [turn EXCEPT ![t] = [@ EXCEPT !.pc = "asked", !.began = next]]
          /\ clock' = clock + 2
     ELSE Finish(t, "refused") /\ UNCHANGED <<rows, clock>>
  /\ UNCHANGED <<chat, sent>>

\* Mutant: flushed, not committed: the answer is inserted by the same
\* transaction.
StoreQuestionUncommitted(t) == InsertQuestion(t, Own(t))

\* add_message commits the question under the stamp of the transaction that
\* is open, and its refresh begins another.  Without the session the foreign
\* key fails: a 500.
StoreQuestion(t) == InsertQuestion(t, clock + 2)

-----------------------------------------------------------------------------
(* The answer *)

\* add_message again.
InsertAnswer(t, from, to, failed) ==
  /\ At(t, from)
  /\ IF Open(turn[t].session)
     THEN /\ rows' = [rows EXCEPT ![turn[t].session] =
               @ \cup {[turn |-> t, role |-> "assistant", at |-> turn[t].began]}]
          /\ Goto(t, to)
     ELSE Finish(t, failed) /\ UNCHANGED rows
  /\ UNCHANGED <<chat, sent, clock>>

\* POST /query: the graph retrieves and generates, or raises: a 502 or 500.
Generate(t) ==
  /\ At(t, "asked") /\ turn[t].kind = "query"
  /\ Goto(t, "answered") \/ Finish(t, "refused")
  /\ UNCHANGED <<chat, rows, sent, clock>>

StoreReply(t) == InsertAnswer(t, "answered", "replying", "refused")

Reply(t) ==
  /\ At(t, "replying")
  /\ Finish(t, "over")
  /\ UNCHANGED <<chat, rows, sent, clock>>

\* Mutant: what came before the error is stored as the answer.
StreamFailsKeeping(t) ==
  /\ Yield(t, "error")
  /\ Finish(t, "over")
  /\ rows' = [rows EXCEPT ![turn[t].session] =
       @ \cup {[turn |-> t, role |-> "assistant", at |-> turn[t].began]}]
  /\ UNCHANGED chat

\* The generator raises inside the try block: one error event, nothing kept.
StreamFails(t) ==
  /\ Yield(t, "error")
  /\ Finish(t, "over")
  /\ UNCHANGED <<chat, rows>>

\* POST /query/stream, up to the first yield: retrieval begins a transaction
\* of the stream's own session, which stays open to the end; the first piece
\* is in hand when meta goes out.
OpenStream(t) ==
  /\ At(t, "asked") /\ turn[t].kind = "stream"
  /\ clock' = Now
  /\ \/ /\ Yield(t, "meta")
        /\ turn' = [turn EXCEPT ![t] = [@ EXCEPT !.pc = "streaming", !.began = Now]]
        /\ UNCHANGED <<chat, rows>>
     \/ StreamFails(t)

\* From one yield to the next: the piece in hand, or another, or an error of
\* the language model in the middle of its answer.
NextPiece(t) ==
  /\ At(t, "streaming")
  /\ \/ /\ Len(sent[t]) <= MaxPieces
        /\ Yield(t, "token")
        /\ UNCHANGED <<chat, rows, turn>>
     \/ HasSent(t, "token") /\ StreamFails(t)
  /\ UNCHANGED clock

EndOfPieces(t) ==
  /\ At(t, "streaming") /\ HasSent(t, "token")
  /\ Goto(t, "drained")
  /\ UNCHANGED <<chat, rows, sent, clock>>

\* Mutant: the missing session ends the stream in order, without an event.
ReloadSessionQuietly(t) ==
  /\ At(t, "drained")
  /\ IF Open(turn[t].session) THEN Goto(t, "reloaded") ELSE Finish(t, "over")
  /\ UNCHANGED <<chat, rows, sent, clock>>

\* Outside the try block: a ResourceNotFoundError ends the response without
\* a last event.
ReloadSession(t) ==
  /\ At(t, "drained")
  /\ IF Open(turn[t].session) THEN Goto(t, "reloaded") ELSE Finish(t, "cut")
  /\ UNCHANGED <<chat, rows, sent, clock>>

StoreAnswer(t) == InsertAnswer(t, "reloaded", "stored", "cut")

SendDone(t) ==
  /\ At(t, "stored")
  /\ Yield(t, "done")
  /\ Finish(t, "over")
  /\ UNCHANGED <<chat, rows, clock>>

\* The client goes away: the generator is closed at a yield, and GeneratorExit
\* is no Exception.
Disconnect(t) ==
  /\ turn[t].kind = "stream" /\ turn[t].pc \in {"asked", "streaming", "stored"}
  /\ Finish(t, "cut")
  /\ UNCHANGED <<chat, rows, sent, clock>>

\* The API process dies; what was committed stays.
Crash ==
  /\ \E t \in Turns : InFlight(t)
  /\ turn' = [t \in Turns |-> IF InFlight(t)
       THEN [turn[t] EXCEPT !.pc = "cut", !.began = NoTransaction,
                            !.untitled = FALSE, !.history = {}]
       ELSE turn[t]]
  /\ UNCHANGED <<chat, rows, sent, clock>>

-----------------------------------------------------------------------------

TurnStep(t) ==
  \/ LoadSession(t) \/ ReadHistory(t) \/ Rename(t) \/ StoreQuestion(t)
  \/ Generate(t) \/ StoreReply(t) \/ Reply(t)
  \/ OpenStream(t) \/ NextPiece(t) \/ EndOfPieces(t)
  \/ ReloadSession(t) \/ StoreAnswer(t) \/ SendDone(t)

Next ==
  \/ \E s \in Sessions : CreateSession(s) \/ DeleteSession(s)
  \/ \E t \in Turns : \/ \E s \in Sessions, k \in {"query", "stream"} : Arrive(t, s, k)
                      \/ TurnStep(t) \/ Disconnect(t)
  \/ Crash

Spec == Init /\ [][Next]_vars

\* A handler goes on: statements return, and the client of the language model
\* gives up after its timeout.
FairSpec == Spec /\ \A t \in Turns : WF_vars(TurnStep(t))

-----------------------------------------------------------------------------
(* Properties *)

TypeOK ==
  /\ chat \in [Sessions -> {"absent", "untitled", "titled", "deleted"}]
  /\ rows \in [Sessions -> SUBSET Message]
  /\ turn \in [Turns -> Handler]
  /\ sent \in [Turns -> Seq({"meta", "token", "done", "error"})]
  /\ clock \in Nat

\* A transcript read back puts every answer after its question, although
\* neither is stamped when it is stored (chat_repository.py:58, :81): a commit
\* lies between the two transactions.
AnswerAfterQuestion ==
  \A s \in Sessions : \A a \in {m \in rows[s] : m.role = "assistant"} :
    \E q \in rows[s] : q.turn = a.turn /\ q.role = "user" /\ q.at < a.at

\* The model sees the conversation as it stood before the question
\* (chat.py:104): no turn's prompt holds the turn itself, and a question is
\* never left out while its answer is in, unless the window cuts there.
HistoryIsPast ==
  \A t \in Turns : \A m \in turn[t].history :
    /\ m.turn # t
    /\ m.role = "assistant" =>
         \/ \E q \in turn[t].history : q.turn = m.turn /\ q.role = "user"
         \/ Cardinality(turn[t].history) = 2 * HistoryTurns

\* A question is answered by the whole of what was streamed or not at all
\* (chat.py:241): a session that still exists holds the answer of every turn
\* that reported success and of none that reported an error or was refused.
ReportedIsKept ==
  \A t \in Turns : turn[t].session # NoSession =>
    LET s == turn[t].session
        answered == \E m \in rows[s] : m.turn = t /\ m.role = "assistant" IN
      /\ (HasSent(t, "done") \/ (turn[t].kind = "query" /\ At(t, "over"))) /\ Open(s)
           => answered
      /\ HasSent(t, "error") \/ At(t, "refused") => ~answered

\* What a client sees of the server.
KeptOf(t) ==
  LET mine == {m.role : m \in {n \in UNION {rows[s] : s \in Sessions} : n.turn = t}} IN
    IF "assistant" \in mine THEN "answer"
    ELSE IF "user" \in mine THEN "question" ELSE "nothing"
PhaseOf(t) ==
  CASE turn[t].pc \in Closed -> turn[t].pc
    [] turn[t].pc \in {"stored", "replying"} -> "reporting"
    [] OTHER -> "running"

ClientView == INSTANCE ChatTurns WITH
  session <- [s \in Sessions |-> IF Open(s) THEN "open" ELSE chat[s]],
  of <- [t \in Turns |-> turn[t].session],
  how <- [t \in Turns |-> turn[t].kind],
  kept <- [t \in Turns |-> KeptOf(t)],
  phase <- [t \in Turns |-> PhaseOf(t)],
  events <- sent

\* The server keeps the promises of ChatTurns: the order of the events, kept
\* before reported, no error after keeping, and an end to every turn.
ImplementsTurns == ClientView!Spec
=============================================================================
